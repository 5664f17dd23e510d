---------------------------- MODULE EchoServers -----------------------------
(***************************************************************************)
(* The two echo servers: tcp/pthreads, which gives each connection to a    *)
(* detached thread, and tcp/single_connection, which serves one connection *)
(* at a time and greets it first.  Both run the same recv()/send() loop    *)
(* and part where a call fails.                                            *)
(*                                                                         *)
(* A step is one trip to the kernel or one use of what threads share.      *)
(***************************************************************************)
EXTENDS Sockets, FiniteSets

CONSTANTS
  ReadMax,    \* units recv() returns at most (sizeof(recvbuf) bytes)
  MaxThread,  \* the threads the system has room for, beside the main one
  MaxAddr,    \* bound: addresses getaddrinfo() returns
  Failures    \* malloc(), pthread_create() and accept() may fail

ASSUME EchoAssumption ==
  /\ ReadMax \in Nat \ {0}
  /\ MaxThread \in Nat \ {0}
  /\ MaxAddr \in Nat \ {0}
  /\ Failures \in BOOLEAN

VARIABLES
  threads,   \* which server it is: tcp/pthreads or tcp/single_connection
  main,      \* where server_loop() and pthread_impl() are
  untried,   \* addresses from validaddr on
  servinfo,  \* how often the list of addresses is to be freed
  incoming,  \* client_socketfd of the main thread, 0 when it is in accept()
  worker,    \* the threads; the one connection of tcp/single_connection is
             \* worker 1, which is then the main thread itself
  heap,      \* the client_thread_args_t allocated
  leaked,    \* the descriptors the server has lost without closing them
  since,     \* history: units each peer had sent before it connected
  got        \* history: the units sent back on each peer's connection

(* What is settled once the server listens *)
settled == << threads, untried, servinfo >>

serverVars == << settled, main, incoming, worker, heap, leaked >>
vars == << serverVars, kernelVars, since, got >>

Thread == 1 .. MaxThread

Idle == [pc |-> "idle", fd |-> 0, buf |-> << >>]

Stopped == main \in { "exited", "killed" }

FreeFds == Descriptor \ (Open \cup leaked)

(* accept() returns the lowest free descriptor. *)
NewFd == CHOOSE fd \in FreeFds : \A f \in FreeFds : fd <= f

Client(t) == PeerOf(worker[t].fd)

At(t, pc) == ~ Stopped /\ worker[t].pc = pc

Goes(t, pc) == worker' = [worker EXCEPT ![t].pc = pc, ![t].buf = << >>]

Units(p, first, last) ==
  [k \in 1 .. last - first + 1 |-> [from |-> p, unit |-> first + k - 1]]

-----------------------------------------------------------------------------
(* The start of both, until they listen *)

Boot == INSTANCE Listening WITH pc <- main

StartVars == << threads, incoming, worker, heap, leaked, kernelVars, since,
                got >>

(* Only tcp/single_connection keeps the list of addresses. *)
Start == Boot!Proceeds(~ threads, "accept") /\ UNCHANGED StartVars

StartFails == Boot!GivesUp /\ UNCHANGED StartVars

-----------------------------------------------------------------------------
(* tcp/pthreads: server_loop() and pthread_impl(), in the main thread *)

(* Faulty variant: the next connection waits for the threads to end. *)
Accept_JoinsFirst ==
  /\ threads
  /\ main = "accept"
  /\ \A t \in Thread : worker[t] = Idle
  /\ FreeFds # {}
  /\ Accepts(NewFd)
  /\ incoming' = NewFd
  /\ main' = "malloc"
  /\ UNCHANGED << settled, worker, heap, leaked, since, got >>

(* When accept() fails instead, the loop tries again. *)
Accept ==
  /\ threads
  /\ main = "accept"
  /\ FreeFds # {}
  /\ Accepts(NewFd)
  /\ incoming' = NewFd
  /\ main' = "malloc"
  /\ UNCHANGED << settled, worker, heap, leaked, since, got >>

Malloc ==
  /\ main = "malloc"
  /\ heap' = heap + 1
  /\ main' = "create"
  /\ UNCHANGED << settled, incoming, worker, leaked, kernelVars, since, got >>

(* pthread_impl() returns, and nobody knows the descriptor any more. *)
MallocFails ==
  /\ main = "malloc"
  /\ Failures
  /\ leaked' = leaked \cup { incoming }
  /\ incoming' = 0
  /\ main' = "accept"
  /\ UNCHANGED << settled, worker, heap, kernelVars, since, got >>

CreateThread(t) ==
  /\ main = "create"
  /\ worker[t] = Idle
  /\ worker' = [worker EXCEPT ![t] = [Idle EXCEPT !.pc = "start",
                                                  !.fd = incoming]]
  /\ incoming' = 0
  /\ main' = "accept"
  /\ UNCHANGED << settled, heap, leaked, kernelVars, since, got >>

(* Faulty variant: close() is left to the thread there is not. *)
CreateFails_KeepsOpen ==
  /\ main = "create"
  /\ Failures
  /\ heap' = heap - 1
  /\ incoming' = 0
  /\ main' = "accept"
  /\ UNCHANGED << settled, worker, leaked, kernelVars, since, got >>

(* free() and close() *)
CreateFails ==
  /\ main = "create"
  /\ Failures \/ Idle \notin { worker[t] : t \in Thread }
  /\ heap' = heap - 1
  /\ Closes(PeerOf(incoming))
  /\ incoming' = 0
  /\ main' = "accept"
  /\ UNCHANGED << settled, worker, leaked, since, got >>

(* thread_worker() copies the descriptor and frees the block it was in. *)
TakeArguments(t) ==
  /\ At(t, "start")
  /\ heap' = heap - 1
  /\ Goes(t, "recv")
  /\ UNCHANGED << settled, main, incoming, leaked, kernelVars, since, got >>

-----------------------------------------------------------------------------
(* tcp/single_connection: accept() and the greeting *)

AcceptOne ==
  /\ ~ threads
  /\ main = "accept"
  /\ worker[1] = Idle
  /\ FreeFds # {}
  /\ Accepts(NewFd)
  /\ worker' = [worker EXCEPT ![1] = [Idle EXCEPT !.pc = "hello",
                                                  !.fd = NewFd]]
  /\ UNCHANGED << settled, main, incoming, heap, leaked, since, got >>

(* accept() fails, without a free descriptor at once: the list is freed,   *)
(* the listening socket closed, and the process ends.                      *)
AcceptFails ==
  /\ ~ threads
  /\ main = "accept"
  /\ worker[1] = Idle
  /\ Failures \/ FreeFds = {}
  /\ Boot!Free
  /\ main' = "exited"
  /\ UNCHANGED << threads, untried, incoming, worker, heap, leaked, kernelVars,
                  since, got >>

(* Whether it is taken or not, the greeting is sent once. *)
Hello ==
  /\ At(1, "hello")
  /\ Writes(Client(1)) \/ ReportsReset(Client(1))
  /\ Goes(1, "recv")
  /\ UNCHANGED << settled, main, incoming, heap, leaked, since, got >>

-----------------------------------------------------------------------------
(* The loop of both servers, for worker t *)

(* The worker is done: the thread ends, or the main thread is back at      *)
(* accept().                                                               *)
Ends(t) == worker' = [worker EXCEPT ![t] = Idle]

(* Faulty variant: the receive buffer is static, one for all threads. *)
Recv_SharedBuffer(t, n) ==
  LET p == Client(t)
      buf == Units(p, taken[p] + 1, taken[p] + n)
  IN  /\ At(t, "recv")
      /\ Reads(p, n)
      /\ worker' = [u \in Thread |->
                      IF u = t THEN [worker[t] EXCEPT !.pc = "send",
                                                      !.buf = buf]
                      ELSE IF worker[u].pc = "send"
                      THEN [worker[u] EXCEPT !.buf = buf]
                      ELSE worker[u]]
      /\ UNCHANGED << settled, main, incoming, heap, leaked, since, got >>

(* Faulty variant: it waits for a full buffer (MSG_WAITALL). *)
Recv_WaitsForAll(t, n) ==
  LET p == Client(t) IN
  /\ At(t, "recv")
  /\ n = ReadMax
  /\ Reads(p, n)
  /\ worker' = [worker EXCEPT ![t].pc = "send",
                              ![t].buf = Units(p, taken[p] + 1, taken[p] + n)]
  /\ UNCHANGED << settled, main, incoming, heap, leaked, since, got >>

(* recv() returns n units. *)
Recv(t, n) ==
  LET p == Client(t) IN
  /\ At(t, "recv")
  /\ Reads(p, n)
  /\ worker' = [worker EXCEPT ![t].pc = "send",
                              ![t].buf = Units(p, taken[p] + 1, taken[p] + n)]
  /\ UNCHANGED << settled, main, incoming, heap, leaked, since, got >>

(* It returns 0. *)
RecvEnds(t) ==
  /\ At(t, "recv")
  /\ Unread(Client(t)) = 0
  /\ link[Client(t)] \in { "fin", "rstsent", "broken" }
  /\ Closes(Client(t))
  /\ Ends(t)
  /\ UNCHANGED << settled, main, incoming, heap, leaked, since, got >>

(* It returns -1: tcp/single_connection leaves the loop past its close().  *)
RecvFails(t) ==
  /\ At(t, "recv")
  /\ Unread(Client(t)) = 0
  /\ link[Client(t)] = "reset"
  /\ IF threads
     THEN Closes(Client(t)) /\ UNCHANGED leaked
     ELSE /\ ReportsReset(Client(t))
          /\ leaked' = leaked \cup { worker[t].fd }
  /\ Ends(t)
  /\ UNCHANGED << settled, main, incoming, heap, since, got >>

(* send() takes what was received, *)
SendBack(t) ==
  LET p == Client(t) IN
  /\ At(t, "send")
  /\ Writes(p)
  /\ got' = [got EXCEPT ![p] = @ \o worker[t].buf]
  /\ Goes(t, "recv")
  /\ UNCHANGED << settled, main, incoming, heap, leaked, since >>

(* or returns -1, which tcp/single_connection does not act upon, *)
SendFails(t) ==
  /\ At(t, "send")
  /\ link[Client(t)] = "reset"
  /\ IF threads
     THEN Closes(Client(t)) /\ Ends(t)
     ELSE ReportsReset(Client(t)) /\ Goes(t, "recv")
  /\ UNCHANGED << settled, main, incoming, heap, leaked, since, got >>

(* or raises SIGPIPE, which both programs leave at its default: the        *)
(* process ends, and every other connection with it.                       *)
Killed(t) ==
  /\ At(t, "send") \/ At(t, "hello")
  /\ link[Client(t)] = "broken"
  /\ main' = "killed"
  /\ UNCHANGED << settled, incoming, worker, heap, leaked, kernelVars, since,
                  got >>

-----------------------------------------------------------------------------
(* A step of a peer or of the network *)
Outside(step) == step /\ UNCHANGED serverVars

(* Before the server listens a connection is refused. *)
Joins(p) ==
  /\ main \notin Boot!Starting
  /\ Connect(p)
  /\ since' = [since EXCEPT ![p] = given[p]]
  /\ got' = [got EXCEPT ![p] = << >>]

(* A peer gives up on a connection the server has lost: its end is closed, *)
(* the server's never is, and the peer may come back on another one.       *)
GivesUp(p) == sock[p] \in leaked /\ Closed(p) /\ Closes(p)

Environment ==
  \E p \in Peer :
    \/ Outside(Joins(p))
    \/ Outside(Send(p) /\ UNCHANGED << since, got >>)
    \/ Outside(PeerReads(p) /\ UNCHANGED << since, got >>)
    \/ Outside(PeerCloses(p) /\ UNCHANGED << since, got >>)
    \/ Outside(ResetArrives(p) /\ UNCHANGED << since, got >>)
    \/ Outside(GivesUp(p) /\ UNCHANGED << since, got >>)

Init ==
  /\ threads \in BOOLEAN
  /\ Boot!ListeningInit
  /\ incoming = 0
  /\ worker = [t \in Thread |-> Idle]
  /\ heap = 0
  /\ leaked = {}
  /\ SocketsInit
  /\ since = [p \in Peer |-> 0]
  /\ got = [p \in Peer |-> << >>]

Main ==
  \/ Start
  \/ Accept
  \/ Malloc
  \/ MallocFails
  \/ \E t \in Thread : CreateThread(t)
  \/ CreateFails
  \/ AcceptOne
  \/ AcceptFails
  \/ Hello

Worker(t) ==
  \/ TakeArguments(t)
  \/ \E n \in 1 .. ReadMax : Recv(t, n)
  \/ RecvEnds(t)
  \/ RecvFails(t)
  \/ SendBack(t)
  \/ SendFails(t)
  \/ Killed(t)

Next == Main \/ StartFails \/ (\E t \in Thread : Worker(t)) \/ Environment

Spec == Init /\ [][Next]_vars

-----------------------------------------------------------------------------
(* The types of the variables; a worker sends something or not at all. *)
TypeOK ==
  /\ SocketsTypeOK
  /\ threads \in BOOLEAN
  /\ main \in Boot!Starting
                \cup { "accept", "malloc", "create", "exited", "killed" }
  /\ untried \in 0 .. MaxAddr
  /\ servinfo \in { 0, 1 }
  /\ incoming \in { 0 } \cup Descriptor
  /\ worker \in [Thread -> [pc : { "idle", "start", "hello", "recv", "send" },
                            fd : { 0 } \cup Descriptor,
                            buf : Seq([from : Peer, unit : Nat])]]
  /\ \A t \in Thread : worker[t].pc = "send" <=> worker[t].buf # << >>
  /\ heap \in Nat
  /\ leaked \subseteq Descriptor
  /\ since \in [Peer -> Nat]
  /\ got \in [Peer -> Seq([from : Peer, unit : Nat])]

Busy == { t \in Thread : worker[t] # Idle }

(* Descriptor numbers are reused as soon as they are closed, by any        *)
(* thread.  At every moment each open one that is not lost has exactly one *)
(* owner, a worker or the main thread on its way to create one, so nobody  *)
(* closes or writes to another's connection; each argument block waits for *)
(* exactly one thread to free it; and whichever way a server stops or goes *)
(* on, it has freed the list of addresses once (tcp/single_connection, as  *)
(* soon as it has come to bind(), only when accept() fails).               *)
OneOwner ==
  LET owned == { worker[t].fd : t \in Busy } IN
  /\ TypeOK
  /\ threads \/ ~ Stopped =>
       (servinfo = 1 <=> \/ main \in { "socket", "bind" }
                         \/ ~ threads /\ main # "start")
  /\ ~ Stopped =>
    /\ owned \cup ({ incoming } \ {0}) = Open \ leaked
    /\ incoming \notin owned
    /\ \A t, u \in Busy : worker[t].fd = worker[u].fd => t = u
    /\ heap = Cardinality({ t \in Thread : worker[t].pc = "start" })
                + (IF main = "create" THEN 1 ELSE 0)

(* Every connection is sent back what was said on it: by whichever thread, *)
(* through reused descriptors, however recv() splits and merges.           *)
Service == INSTANCE EchoService
             WITH Member <- Peer, said <- given, echoed <- got

EchoSpec == Service!Spec

-----------------------------------------------------------------------------
(* Each thread runs, the network delivers resets, and the peers in Reader  *)
(* read what they are sent.                                                *)
Fairness(Reader) ==
  /\ WF_vars(Main)
  /\ \A t \in Thread : WF_vars(Worker(t))
  /\ \A p \in Peer : WF_vars(Outside(ResetArrives(p)
                                       /\ UNCHANGED << since, got >>))
  /\ \A p \in Reader : WF_vars(Outside(PeerReads(p)
                                         /\ UNCHANGED << since, got >>))

(* With threads a connection is accepted whatever the other peers do, read *)
(* or not, unless the descriptors have run out.                            *)
Accepted ==
  threads => \A p \in Peer :
    (link[p] # "none" /\ sock[p] = 0) ~> (sock[p] # 0 \/ Stopped \/ FreeFds = {})

(* A peer that reads what it is sent has everything it says echoed, even   *)
(* while others do not read and block their threads in send(); and when a  *)
(* peer has closed, its connection is closed, unless it is lost.           *)
Served(Reader) ==
  /\ \A p \in Reader :
       (sock[p] # 0 /\ link[p] = "up" /\ since[p] + Len(got[p]) < given[p])
         ~> \/ since[p] + Len(got[p]) = given[p]
            \/ link[p] # "up"
            \/ sock[p] \in leaked
            \/ Stopped
  /\ \A p \in Peer :
       (sock[p] # 0 /\ Closed(p))
         ~> (sock[p] = 0 \/ sock[p] \in leaked \/ Stopped)

=============================================================================
