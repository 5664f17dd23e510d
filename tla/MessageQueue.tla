---------------------------- MODULE MessageQueue ----------------------------
(***************************************************************************)
(* tcp/polling/message_q.c: a ring of messages shared by all clients, and  *)
(* a list of registered clients, each with its own read offset into the    *)
(* ring.                                                                   *)
(*                                                                         *)
(* This module holds the state and the operations.  MessageQueueApi lets   *)
(* an arbitrary caller make the calls, PollServer is the caller the        *)
(* repository has.                                                         *)
(***************************************************************************)
EXTENDS Integers, Sequences, SequencesExt, Keeping

CONSTANTS
  Message,   \* the messages that can be queued
  TooLong,   \* those among them longer than MAX_MESSAGE_LENGTH
  Capacity,  \* the number of slots of the ring
  NULL       \* the content of an empty slot

ASSUME QueueAssumption ==
  /\ Capacity \in Nat \ {0}
  /\ TooLong \subseteq Message
  /\ NULL \notin Message

VARIABLES
  exists,    \* the queue is allocated; FALSE stands for a NULL mq
  messages,  \* the ring, a function over the slots
  start,     \* the slot of the oldest message, or MQ_EMPTY_SENTINEL
  end,       \* the slot of the next message
  clients,   \* the registered clients, the latest first
  writing,   \* the client __flush_client_messages() is busy with, or Nobody
  i,         \* and the slot its loop has come to
  result     \* what the last call returned

queueVars == << exists, messages, start, end, clients, writing, i, result >>

MQ_EMPTY_SENTINEL == -1

Slot == 0 .. (Capacity - 1)

Nobody == -2

ReturnCode ==
  { "0", "-1", "NULL", "MQERR_FULL", "MQERR_MESSAGE_TOO_LONG",
    "MQERR_NULL_POINTER", "MQERR_ALLOC_FAIL", "SIGSEGV" }

Advance(slot) == (slot + 1) % Capacity

(* Faulty variant: a full ring counts as an empty one. *)
get_length_FullIsEmpty ==
  IF start = MQ_EMPTY_SENTINEL THEN 0
  ELSE IF start <= end THEN end - start
  ELSE (Capacity - start) + end

get_length ==
  IF start = MQ_EMPTY_SENTINEL THEN 0
  ELSE IF start < end THEN end - start
  ELSE (Capacity - start) + end

(* The first entry of the list for a descriptor, 0 when there is none. *)
ClientOf(clientfd) == SelectInSeq(clients, LAMBDA c : c.fd = clientfd)

EmptyRing == [slot \in Slot |-> NULL]

Idle == writing = Nobody

Ring == << exists, messages, start, end >>

Loop == << writing, i >>

-----------------------------------------------------------------------------
message_queue__init ==
  /\ ~ exists
  /\ exists' = TRUE
  /\ messages' = EmptyRing
  /\ start' = MQ_EMPTY_SENTINEL
  /\ end' = 0
  /\ clients' = << >>
  /\ UNCHANGED << Loop, result >>

(* Faulty variant: the loop stops one message early. *)
ReleasedByFree_OneShort ==
  IF start = MQ_EMPTY_SENTINEL
  THEN {}
  ELSE { messages[(start + k) % Capacity] :
           k \in 0 .. (((end - start) % Capacity) - 2) } \ {NULL}

(* The loop from start to end releases every message, and none at all when *)
(* the ring is full.  The nodes of the client list are not released.       *)
ReleasedByFree ==
  IF start = MQ_EMPTY_SENTINEL
  THEN {}
  ELSE { messages[(start + k) % Capacity] :
           k \in 0 .. (((end - start) % Capacity) - 1) } \ {NULL}

message_queue__free ==
  /\ Idle
  /\ exists
  /\ exists' = FALSE
  /\ messages' = EmptyRing
  /\ start' = MQ_EMPTY_SENTINEL
  /\ end' = 0
  /\ clients' = << >>
  /\ UNCHANGED << Loop, result >>

-----------------------------------------------------------------------------
(* Faulty variant: the check for a full ring is missing. *)
message_queue__q_Unchecked(message) ==
  /\ Idle
  /\ exists
  /\ message \notin TooLong
  /\ messages' = [messages EXCEPT ![end] = message]
  /\ start' = IF start = MQ_EMPTY_SENTINEL THEN 0 ELSE start
  /\ end' = Advance(end)
  /\ result' = "0"
  /\ UNCHANGED << exists, clients, Loop >>

(* message_queue__q(), one disjunct per return statement *)
message_queue__q(message) ==
  /\ Idle
  /\ \/ /\ ~ exists
        /\ result' = "MQERR_NULL_POINTER"
        /\ UNCHANGED Ring
     \/ /\ exists
        /\ end = start
        /\ result' = "MQERR_FULL"
        /\ UNCHANGED Ring
     \/ /\ exists
        /\ end # start
        /\ message \in TooLong
        /\ result' = "MQERR_MESSAGE_TOO_LONG"
        /\ UNCHANGED Ring
     \/ /\ exists
        /\ end # start
        /\ message \notin TooLong
        /\ result' = "MQERR_ALLOC_FAIL"
        /\ UNCHANGED Ring
     \/ /\ exists
        /\ end # start
        /\ message \notin TooLong
        /\ messages' = [messages EXCEPT ![end] = message]
        /\ start' = IF start = MQ_EMPTY_SENTINEL THEN 0 ELSE start
        /\ end' = Advance(end)
        /\ result' = "0"
        /\ UNCHANGED exists
  /\ UNCHANGED << clients, Loop >>

(* The slot message_queue__get(index) reads; the queue does not change. *)
message_queue__get(index) ==
  /\ Idle
  /\ IF ~ exists \/ start = MQ_EMPTY_SENTINEL \/ index >= get_length
     THEN result' = "NULL"
     ELSE LET message == messages[(start + index) % Capacity]
          IN  IF message = NULL
              THEN result' = "SIGSEGV"        \* sdsdup(NULL)
              ELSE result' \in { "0", "NULL" }
  /\ UNCHANGED << Ring, clients, Loop >>

message_queue__dq ==
  /\ Idle
  /\ \/ /\ ~ exists \/ start = MQ_EMPTY_SENTINEL
        /\ result' = "NULL"
        /\ UNCHANGED Ring
     \/ /\ exists
        /\ start # MQ_EMPTY_SENTINEL
        /\ result' = IF messages[start] = NULL
                     THEN "SIGSEGV"           \* sdsdup(NULL)
                     ELSE "NULL"              \* sdsdup() out of memory
        /\ UNCHANGED Ring
     \/ /\ exists
        /\ start # MQ_EMPTY_SENTINEL
        /\ messages[start] # NULL
        /\ messages' = [messages EXCEPT ![start] = NULL]
        /\ start' = IF Advance(start) = end THEN MQ_EMPTY_SENTINEL
                    ELSE Advance(start)
        /\ result' = "0"
        /\ UNCHANGED << exists, end >>
  /\ UNCHANGED << clients, Loop >>

-----------------------------------------------------------------------------
(* Faulty variant: the history is left out. *)
NewClient_AtEnd(clientfd) == [fd |-> clientfd, roff |-> end]

NewClient(clientfd) ==
  [fd |-> clientfd,
   roff |-> IF start = MQ_EMPTY_SENTINEL THEN 0 ELSE start]

message_queue__register_client(clientfd) ==
  /\ Idle
  /\ \/ /\ result' = "-1"          \* mq is NULL, or malloc() fails
        /\ UNCHANGED clients
     \/ /\ exists
        /\ clients' = << NewClient(clientfd) >> \o clients
        /\ result' = "0"
  /\ UNCHANGED << Ring, Loop >>

(* Faulty variant: the client stays in the list. *)
message_queue__unregister_client_Keeps(clientfd) ==
  Idle /\ result' = "0" /\ UNCHANGED << Ring, clients, Loop >>

message_queue__unregister_client(clientfd) ==
  /\ Idle
  /\ IF exists /\ ClientOf(clientfd) # 0
     THEN /\ clients' = RemoveAt(clients, ClientOf(clientfd))
          /\ result' = "0"
     ELSE /\ result' = "-1"
          /\ UNCHANGED clients
  /\ UNCHANGED << Ring, Loop >>

(* The distance of a client's offset from start; "first 40% of the ring". *)
client_off(client) == ((Capacity + client.roff) - start) % Capacity

drop_before_offset == (Capacity * 2) \div 5

(* Faulty variant: the comparison is turned round. *)
message_queue__drop_slow_consumers_Fast ==
  /\ Idle
  /\ clients' =
       IF exists /\ start # MQ_EMPTY_SENTINEL
                 /\ get_length >= (Capacity * 8) \div 10
       THEN Keep(clients, { c \in ToSet(clients) :
                              client_off(c) <= drop_before_offset })
       ELSE clients
  /\ UNCHANGED << Ring, Loop, result >>

message_queue__drop_slow_consumers ==
  /\ Idle
  /\ clients' =
       IF exists /\ start # MQ_EMPTY_SENTINEL
                 /\ get_length >= (Capacity * 8) \div 10
       THEN Keep(clients, { c \in ToSet(clients) :
                              client_off(c) >= drop_before_offset })
       ELSE clients
  /\ UNCHANGED << Ring, Loop, result >>

-----------------------------------------------------------------------------
(* message_queue__flush() finds the client and enters its loop, ... *)
message_queue__flush(clientfd) ==
  /\ Idle
  /\ IF exists /\ get_length # 0 /\ ClientOf(clientfd) # 0
     THEN /\ writing' = clientfd
          /\ i' = clients[ClientOf(clientfd)].roff
          /\ UNCHANGED result
     ELSE /\ result' = IF ~ exists THEN "MQERR_NULL_POINTER"
                       ELSE IF get_length = 0 THEN "0" ELSE "-1"
          /\ UNCHANGED Loop
  /\ UNCHANGED << Ring, clients >>

(* ... which passes over empty slots, ... *)
FlushSkips ==
  /\ ~ Idle
  /\ i # end
  /\ messages[i] = NULL
  /\ i' = Advance(i)
  /\ UNCHANGED << Ring, clients, writing, result >>

(* ... writes the message of the others, ... *)
AtMessage == ~ Idle /\ i # end /\ messages[i] # NULL

FlushWrites ==
  /\ AtMessage
  /\ i' = Advance(i)
  /\ UNCHANGED << Ring, clients, writing, result >>

LeaveLoop(roff, code) ==
  /\ clients' = [clients EXCEPT ![ClientOf(writing)].roff = roff]
  /\ writing' = Nobody
  /\ i' = 0
  /\ result' = code
  /\ UNCHANGED Ring

(* Faulty variants: after a failure the client starts over, *)
FlushFails_StartsOver == AtMessage /\ LeaveLoop(start, "-1")

(* or the message that failed is not repeated. *)
FlushFails_SkipsMessage == AtMessage /\ LeaveLoop(Advance(i), "-1")

(* ... gives up when write() returns -1, ... *)
FlushFails == AtMessage /\ LeaveLoop(i, "-1")

(* Faulty variant: the offset is not stored. *)
FlushEnds_ForgetsOffset ==
  ~ Idle /\ i = end /\ LeaveLoop(clients[ClientOf(writing)].roff, "0")

(* ... and ends when it has caught up. *)
FlushEnds == ~ Idle /\ i = end /\ LeaveLoop(end, "0")

-----------------------------------------------------------------------------
(* Empty slots from start on, before the oldest message: those a drained   *)
(* queue restarts with.                                                    *)
Skipped ==
  CHOOSE n \in 0 .. get_length :
    /\ \A k \in 0 .. n - 1 : messages[(start + k) % Capacity] = NULL
    /\ n < get_length => messages[(start + n) % Capacity] # NULL

(* The messages between start and end, the oldest first: what a flush      *)
(* sends, which passes over empty slots.  message_queue__get() and _dq()   *)
(* do not: as long as there are any before the oldest message, what the    *)
(* two find at start is not the head of this sequence but a NULL, and the  *)
(* call crashes in sdsdup().                                               *)
Content ==
  [k \in 1 .. get_length - Skipped |->
     messages[(start + Skipped + k - 1) % Capacity]]

QueueTypeOK ==
  /\ exists \in BOOLEAN
  /\ messages \in [Slot -> Message \cup {NULL}]
  /\ start \in Slot \cup {MQ_EMPTY_SENTINEL}
  /\ end \in Slot
  /\ clients \in Seq([fd : Int, roff : Slot])
  /\ writing \in Int
  /\ i \in Slot
  /\ result \in ReturnCode

=============================================================================
