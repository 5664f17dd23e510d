-------------------------- MODULE MessageQueueApi ---------------------------
(***************************************************************************)
(* The message queue in the hands of a caller that may make any call of    *)
(* message_q.h at any time, on descriptors whose write() may fail at any   *)
(* time.  Messages are numbered in the order in which they are queued.     *)
(***************************************************************************)
EXTENDS MessageQueue

CONSTANTS
  ClientFd,    \* the descriptors clients are registered with
  MaxMessages  \* bound: how many messages are queued at most

ASSUME ApiAssumption ==
  /\ ClientFd \subseteq Nat
  /\ MaxMessages \in Nat
  /\ 1 .. MaxMessages \subseteq Message
  /\ TooLong \cap 1 .. MaxMessages = {}

VARIABLES
  queued,  \* history: the number of messages queued so far
  sent,    \* history: the last message written to each descriptor since its
           \* registration; at registration, the one before the oldest
  live     \* history: the messages this queue has copied and not released

historyVars == << queued, sent, live >>

vars == << queueVars, historyVars >>

Oldest == IF Content = << >> THEN queued + 1 ELSE Head(Content)

Usable == result # "SIGSEGV"

-----------------------------------------------------------------------------
DoInit == message_queue__init /\ UNCHANGED historyVars

DoFree ==
  /\ message_queue__free
  /\ live' = {}
  /\ UNCHANGED << queued, sent >>

DoQ(message) ==
  /\ message_queue__q(message)
  /\ IF result' = "0"
     THEN queued' = queued + 1 /\ live' = live \cup {message}
     ELSE UNCHANGED << queued, live >>
  /\ UNCHANGED sent

DoGet(index) == message_queue__get(index) /\ UNCHANGED historyVars

DoDq ==
  /\ message_queue__dq
  /\ live' = IF result' = "0" THEN live \ {messages[start]} ELSE live
  /\ UNCHANGED << queued, sent >>

(* "fd == unique id": a caller registers a descriptor once. *)
DoRegister(clientfd) ==
  /\ ClientOf(clientfd) = 0
  /\ message_queue__register_client(clientfd)
  /\ sent' = IF result' = "0" THEN [sent EXCEPT ![clientfd] = Oldest - 1]
             ELSE sent
  /\ UNCHANGED << queued, live >>

DoUnregister(clientfd) ==
  message_queue__unregister_client(clientfd) /\ UNCHANGED historyVars

DoDrop == message_queue__drop_slow_consumers /\ UNCHANGED historyVars

DoFlush(clientfd) == message_queue__flush(clientfd) /\ UNCHANGED historyVars

DoWrite ==
  /\ FlushWrites
  /\ sent' = [sent EXCEPT ![writing] = messages[i]]
  /\ UNCHANGED << queued, live >>

DoLoop == (FlushSkips \/ FlushFails \/ FlushEnds) /\ UNCHANGED historyVars

-----------------------------------------------------------------------------
Init ==
  /\ exists = FALSE
  /\ messages = EmptyRing
  /\ start = MQ_EMPTY_SENTINEL
  /\ end = 0
  /\ clients = << >>
  /\ writing = Nobody
  /\ i = 0
  /\ result = "0"
  /\ queued = 0
  /\ sent = [clientfd \in ClientFd |-> 0]
  /\ live = {}

Next ==
  /\ Usable
  /\ \/ DoInit
     \/ DoFree
     \/ queued < MaxMessages /\ DoQ(queued + 1)
     \/ \E message \in TooLong : DoQ(message)
     \/ \E index \in Slot : DoGet(index)
     \/ DoDq
     \/ \E clientfd \in ClientFd :
          \/ DoRegister(clientfd)
          \/ DoUnregister(clientfd)
          \/ DoFlush(clientfd)
     \/ DoDrop
     \/ DoWrite
     \/ DoLoop

Spec == Init /\ [][Next]_vars

-----------------------------------------------------------------------------
(* q() never stores over a message that is still there: every message     *)
(* copied and not yet handed out is in the ring, so that none is lost and  *)
(* no memory leaks while the queue is in use.                              *)
RingHoldsTheLive == live = { messages[slot] : slot \in Slot } \ {NULL}

(* free() releases every message, wherever the window lies and however     *)
(* many empty slots are in it.  The exception is a full ring: its loop     *)
(* ends before it begins, and all Capacity messages leak.                  *)
FreeReleases == [][DoFree => start = end \/ live = ReleasedByFree]_vars

(* Whatever calls are made, what is between start and end is a first-in    *)
(* first-out queue: a wrapped ring, a failed copy, a full ring or the      *)
(* empty slots a drained queue restarts with never reorder, repeat or drop *)
(* a message.                                                              *)
Fifo == INSTANCE MessageFifo WITH usable <- exists, content <- Content

FifoSpec == Fifo!Spec

(* A client is never sent a message again, nor an older one after a newer  *)
(* one: not after a failed write is retried, not when the ring has been    *)
(* lapped while the client was not flushed.                                *)
SentInOrder == [][DoWrite => messages[i] > sent[writing]]_vars

(* A client is sent the oldest queued message it has not been sent, unless *)
(* it is a whole lap behind: then its offset says nothing (it equals one   *)
(* of a later lap) and messages still queued are passed over.              *)
NoGapWithinALap ==
  [][DoWrite =>
       \/ queued - sent[writing] >= Capacity
       \/ \A k \in DOMAIN Content :
            Content[k] > sent[writing] => messages[i] <= Content[k]]_vars

=============================================================================
