----------------------------- MODULE PollServer -----------------------------
(***************************************************************************)
(* tcp/polling/poll_server_impl.c: the event loop of the chat server, with *)
(* the message queue and the descriptor table it drives and the sockets    *)
(* under it, from the start in main.c on.                                  *)
(*                                                                         *)
(* The server is one process; a step of it is one trip to the kernel.      *)
(* What one read() returns is 1 .. ReadMax consecutive units of one peer,  *)
(* and that is a message.                                                  *)
(***************************************************************************)
EXTENDS MessageQueue, Fds, Sockets

CONSTANTS
  ReadMax,      \* units read() returns at most (MAX_MESSAGE_LENGTH bytes)
  MaxAddr,      \* bound: addresses getaddrinfo() returns
  Failures,     \* allocations, ppoll() and the server's socket may fail
  MaxRefused    \* bound: clients registered as descriptor -1, accept() having
                \* failed for want of one

ASSUME ServerAssumption ==
  /\ ReadMax \in Nat \ {0}
  /\ MaxAddr \in Nat \ {0}
  /\ Failures \in BOOLEAN
  /\ Message = { m \in [from : Peer, first : 1 .. MaxUnits,
                        last : 1 .. MaxUnits] :
                   m.first <= m.last /\ m.last < m.first + ReadMax }
  /\ TooLong = {}

VARIABLES
  pc,        \* where main() and poll_server_impl() are
  untried,   \* addresses get_tcp_server_socket() has not tried
  servinfo,  \* how often their list is to be freed
  idx,       \* its loop variable, an index into fds
  readbuf,   \* the message read and not yet queued, or NULL
  got        \* history: the messages written to each peer's connection

bootVars == << untried, servinfo >>
serverVars == << pc, idx, readbuf >>
vars == << queueVars, fds, serverVars, bootVars, kernelVars, got >>

Stopped == pc \in { "exited", "killed" }

FreeFds == Descriptor \ Open

Refused == Len(SelectSeq(clients, LAMBDA c : c.fd = -1))

(* accept() returns the lowest free descriptor; -1 without one (EMFILE) or *)
(* when the kernel is short of something else.                             *)
AcceptReturns ==
  { fd \in FreeFds : \A f \in FreeFds : fd <= f }
    \cup (IF FreeFds = {} \/ (Failures /\ Refused < MaxRefused)
          THEN { -1 } ELSE {})

-----------------------------------------------------------------------------
(* From the start to the event loop *)

Boot == INSTANCE Listening

StartVars == << queueVars, fds, idx, readbuf, kernelVars, got >>

GetServerSocket == Boot!Proceeds(FALSE, "queue") /\ UNCHANGED StartVars

GetServerSocketFails == Boot!GivesUp /\ UNCHANGED StartVars

(* message_queue__init() returns NULL when an allocation fails. *)
CreateQueue ==
  /\ pc = "queue"
  /\ \/ message_queue__init
     \/ Failures /\ UNCHANGED queueVars
  /\ pc' = "table"
  /\ UNCHANGED << bootVars, fds, idx, readbuf, kernelVars, got >>

CreateTable ==
  /\ pc = "table"
  /\ fds_state__init
  /\ pc' = "watch"
  /\ UNCHANGED << bootVars, queueVars, idx, readbuf, kernelVars, got >>

(* fds_state__init() ends the process when an allocation fails. *)
CreateTableFails ==
  /\ pc = "table"
  /\ Failures
  /\ pc' = "exited"
  /\ UNCHANGED << bootVars, queueVars, fds, idx, readbuf, kernelVars, got >>

WatchServer ==
  /\ pc = "watch"
  /\ fd_state__watch(ServerFd)
  /\ pc' = IF WatchReturns = -1 THEN "exited" ELSE "poll"
  /\ UNCHANGED << bootVars, queueVars, idx, readbuf, kernelVars, got >>

Start == GetServerSocket \/ CreateQueue \/ CreateTable \/ WatchServer

StartFails == GetServerSocketFails \/ CreateTableFails

-----------------------------------------------------------------------------
(* A step of a peer or of the network *)
Outside(step) == step /\ UNCHANGED << queueVars, fds, serverVars, bootVars >>

(* Before the server listens a connection is refused; a new one starts     *)
(* with nothing written to it.                                             *)
Joins(p) ==
  /\ pc \notin Boot!Starting
  /\ Connect(p)
  /\ got' = [got EXCEPT ![p] = << >>]

Environment ==
  \E p \in Peer :
    \/ Outside(Joins(p))
    \/ Outside(Send(p) /\ UNCHANGED got)
    \/ Outside(PeerReads(p) /\ UNCHANGED got)
    \/ Outside(PeerCloses(p) /\ UNCHANGED got)
    \/ Outside(ResetArrives(p) /\ UNCHANGED got)

-----------------------------------------------------------------------------
(* ppoll() *)

(* The events reported for a descriptor.  A closed connection is readable: *)
(* of what is left, then of the end; whether POLLIN is set when only the   *)
(* end is left (endIsReadable) POSIX leaves open.                          *)
Events(fd, endIsReadable) ==
  IF fd < 0 THEN {}
  ELSE IF fd = ServerFd
  THEN IF backlog # << >> /\ (FreeFds # {} \/ Refused < MaxRefused)
       THEN { "IN" } ELSE {}
  ELSE LET p == PeerOf(fd)
           readable == Unread(p) > 0 \/ (Closed(p) /\ endIsReadable)
       IN  WatchedEvents \cap ((IF readable THEN { "IN" } ELSE {})
                               \cup (IF Closed(p) THEN { "HUP" } ELSE {}))

(* Faulty variant: the array is passed without its first entry. *)
Poll_SkipsServer ==
  /\ pc = "poll"
  /\ fds' = [k \in DOMAIN fds |->
                IF k = 1 THEN fds[k]
                ELSE [fds[k] EXCEPT !.revents = Events(fds[k].fd, TRUE)]]
  /\ pc' = "server"
  /\ UNCHANGED << queueVars, idx, readbuf, kernelVars, got >>

(* Returns with events or after the timeout; the loop is the same. *)
Poll ==
  /\ pc = "poll"
  /\ \E endIsReadable \in BOOLEAN :
       fds' = [k \in DOMAIN fds |->
                 [fds[k] EXCEPT !.revents = Events(fds[k].fd, endIsReadable)]]
  /\ pc' = "server"
  /\ UNCHANGED << queueVars, idx, readbuf, kernelVars, got >>

(* The table is destroyed and the process ends. *)
LeavesLoop ==
  /\ fds_state__destroy
  /\ pc' = "exited"
  /\ UNCHANGED << queueVars, idx, readbuf, kernelVars, got >>

(* ppoll() returns -1. *)
PollFails ==
  /\ pc = "poll"
  /\ Failures
  /\ LeavesLoop

-----------------------------------------------------------------------------
(* handle_server_event() *)

ToClients == pc' = "clients" /\ idx' = 2 /\ UNCHANGED readbuf

(* POLLERR or POLLNVAL on the listening socket *)
ServerFails ==
  /\ pc = "server"
  /\ Failures
  /\ LeavesLoop

NoConnection ==
  /\ pc = "server"
  /\ fds[1].revents = {}
  /\ ToClients
  /\ UNCHANGED << queueVars, fds, kernelVars, got >>

(* accept(), watch and register; what accept() returned is not looked at. *)
Accept(fd) ==
  /\ pc = "server"
  /\ "IN" \in fds[1].revents
  /\ fd_state__watch(fd)
  /\ IF WatchReturns = -1
     THEN UNCHANGED queueVars
     ELSE /\ message_queue__register_client(fd)
          /\ result' = "-1" => ~ exists \/ Failures
  /\ IF fd = -1 THEN UNCHANGED kernelVars ELSE Accepts(fd)
  /\ ToClients
  /\ UNCHANGED got

-----------------------------------------------------------------------------
(* handle_client_event(), for the entry idx of fds *)

AtClient == pc = "clients" /\ idx <= Len(fds)

Event(e) == e \in fds[idx].revents

NoEvent ==
  /\ AtClient
  /\ ~ Event("IN") /\ ~ Event("HUP")
  /\ idx' = idx + 1
  /\ UNCHANGED << queueVars, fds, pc, readbuf, kernelVars, got >>

(* unwatch, unregister and close(); the entry that takes the place of the  *)
(* removed one is not looked at in this round.                             *)
Disconnect(p) ==
  /\ fd_state__unwatch(sock[p])
  /\ message_queue__unregister_client(sock[p])
  /\ Closes(p)
  /\ idx' = idx + 1
  /\ UNCHANGED << pc, readbuf, got >>

(* Faulty variant: the end of the stream is not told from an empty read. *)
ReadEnds_Ignored ==
  /\ AtClient
  /\ Event("IN")
  /\ Unread(PeerOf(fds[idx].fd)) = 0
  /\ idx' = idx + 1
  /\ UNCHANGED << queueVars, fds, pc, readbuf, kernelVars, got >>

(* read() returns 0 or -1, *)
ReadEnds ==
  /\ AtClient
  /\ Event("IN")
  /\ Unread(PeerOf(fds[idx].fd)) = 0
  /\ Disconnect(PeerOf(fds[idx].fd))

(* Faulty variant: the hang-up is looked at before what is left to read. *)
HangsUp_BeforeReading ==
  AtClient /\ Event("HUP") /\ Disconnect(PeerOf(fds[idx].fd))

(* or there is nothing to be read. *)
HangsUp ==
  /\ AtClient
  /\ ~ Event("IN")
  /\ Event("HUP")
  /\ Disconnect(PeerOf(fds[idx].fd))

(* read() returns n units. *)
ReadMessage(n) ==
  LET p == PeerOf(fds[idx].fd) IN
  /\ AtClient
  /\ Event("IN")
  /\ Reads(p, n)
  /\ readbuf' = [from |-> p, first |-> taken[p] + 1, last |-> taken[p] + n]
  /\ pc' = "q"
  /\ UNCHANGED << queueVars, fds, idx, got >>

HandlerReturns == pc' = "clients" /\ idx' = idx + 1 /\ readbuf' = NULL

(* The first attempt to queue it; after MQERR_FULL consumers are dropped. *)
Enqueue ==
  /\ pc = "q"
  /\ message_queue__q(readbuf)
  /\ result' = "MQERR_ALLOC_FAIL" => Failures
  /\ IF result' = "MQERR_FULL"
     THEN pc' = "drop" /\ UNCHANGED << idx, readbuf >>
     ELSE HandlerReturns
  /\ UNCHANGED << fds, kernelVars, got >>

DropSlowConsumers ==
  /\ pc = "drop"
  /\ message_queue__drop_slow_consumers
  /\ pc' = "again"
  /\ UNCHANGED << idx, readbuf, fds, kernelVars, got >>

(* The second attempt is the last one. *)
EnqueueAgain ==
  /\ pc = "again"
  /\ message_queue__q(readbuf)
  /\ result' = "MQERR_ALLOC_FAIL" => Failures
  /\ HandlerReturns
  /\ UNCHANGED << fds, kernelVars, got >>

(* Faulty variant: the second loop starts behind the first client. *)
ClientsDone_FlushFromSecond ==
  /\ pc = "clients"
  /\ idx > Len(fds)
  /\ pc' = "flush"
  /\ idx' = 3
  /\ UNCHANGED << queueVars, fds, readbuf, kernelVars, got >>

ClientsDone ==
  /\ pc = "clients"
  /\ idx > Len(fds)
  /\ pc' = "flush"
  /\ idx' = 2
  /\ UNCHANGED << queueVars, fds, readbuf, kernelVars, got >>

-----------------------------------------------------------------------------
(* message_queue__flush(), for the entry idx of fds *)

AfterFlush == idx' = IF writing' = Nobody THEN idx + 1 ELSE idx

Flush ==
  /\ pc = "flush"
  /\ idx <= Len(fds)
  /\ message_queue__flush(fds[idx].fd)
  /\ AfterFlush
  /\ UNCHANGED << pc, readbuf, fds, kernelVars, got >>

FlushFinishes ==
  /\ pc = "flush"
  /\ FlushSkips \/ FlushEnds
  /\ AfterFlush
  /\ UNCHANGED << pc, readbuf, fds, kernelVars, got >>

(* write() takes the message. *)
Write ==
  /\ pc = "flush"
  /\ FlushWrites
  /\ writing > 0
  /\ Writes(PeerOf(writing))
  /\ got' = [got EXCEPT ![PeerOf(writing)] = Append(@, messages[i])]
  /\ UNCHANGED << serverVars, fds >>

(* write() returns -1: ECONNRESET, or EBADF for descriptor -1. *)
WriteFails ==
  /\ pc = "flush"
  /\ FlushFails
  /\ IF writing = -1
     THEN UNCHANGED kernelVars
     ELSE ReportsReset(PeerOf(writing))
  /\ AfterFlush
  /\ UNCHANGED << pc, readbuf, fds, got >>

(* SIGPIPE, which the program leaves at its default. *)
Killed ==
  /\ pc = "flush"
  /\ AtMessage
  /\ writing > 0
  /\ link[PeerOf(writing)] = "broken"
  /\ pc' = "killed"
  /\ UNCHANGED << queueVars, fds, idx, readbuf, kernelVars, got >>

FlushDone ==
  /\ pc = "flush"
  /\ Idle
  /\ idx > Len(fds)
  /\ pc' = "poll"
  /\ idx' = 2
  /\ UNCHANGED << queueVars, fds, readbuf, kernelVars, got >>

-----------------------------------------------------------------------------
Init ==
  /\ exists = FALSE
  /\ messages = EmptyRing
  /\ start = MQ_EMPTY_SENTINEL
  /\ end = 0
  /\ clients = << >>
  /\ writing = Nobody
  /\ i = 0
  /\ result = "0"
  /\ fds = << >>
  /\ Boot!ListeningInit
  /\ idx = 2
  /\ readbuf = NULL
  /\ SocketsInit
  /\ got = [p \in Peer |-> << >>]

Server ==
  \/ Poll
  \/ NoConnection
  \/ \E fd \in AcceptReturns : Accept(fd)
  \/ NoEvent
  \/ ReadEnds
  \/ HangsUp
  \/ \E n \in 1 .. ReadMax : ReadMessage(n)
  \/ Enqueue
  \/ DropSlowConsumers
  \/ EnqueueAgain
  \/ ClientsDone
  \/ Flush
  \/ FlushFinishes
  \/ Write
  \/ WriteFails
  \/ Killed
  \/ FlushDone

Fails == PollFails \/ ServerFails

Listening == (Server \/ Fails) /\ UNCHANGED bootVars

Next == Start \/ StartFails \/ Listening \/ Environment

Spec == Init /\ [][Next]_vars

-----------------------------------------------------------------------------
ServerTypeOK ==
  /\ untried \in 0 .. MaxAddr
  /\ servinfo \in { 0, 1 }
  /\ pc \in Boot!Starting \cup
           { "queue", "table", "watch", "poll", "server", "clients", "q",
             "drop", "again", "flush", "exited", "killed" }
  /\ idx \in Nat
  /\ readbuf \in Message \cup {NULL}
  /\ got \in [Peer -> Seq(Message)]

(* The types of the variables. *)
TypeOK == QueueTypeOK /\ FdsTypeOK /\ SocketsTypeOK /\ ServerTypeOK

Watched == { fds[k].fd : k \in 2 .. Len(fds) } \ {-1}

Registered == { clients[k].fd : k \in DOMAIN clients } \ {-1}

(* The kernel hands a closed descriptor number to the next connection, so  *)
(* an entry that outlives its connection would speak for a stranger.  No   *)
(* descriptor is watched or registered that is not open, and none twice.   *)
NoStaleDescriptor ==
  /\ Watched \cup Registered \subseteq Open
  /\ \A k, l \in DOMAIN fds : fds[k].fd = fds[l].fd => k = l
  /\ \A k, l \in DOMAIN clients :
       clients[k].fd = clients[l].fd /\ clients[k].fd # -1 => k = l

(* Three tables, one truth: every open connection is watched, and as long  *)
(* as the ring has never been full it is registered, too.                  *)
TablesAgree ==
  /\ TypeOK
  /\ Open = Watched
  /\ exists /\ start # end => Open = Registered

(* The units of a peer the server has read are in the ring, in the order   *)
(* they were sent, none missing and none twice, however reads split and    *)
(* merged them and from however many connections, until the ring is full,  *)
(* when what is read is lost.  And nothing is left unread when a           *)
(* connection is closed.                                                   *)
From(p) == { m \in Message : m.from = p }

UnitsInOrder ==
  \A p \in Peer :
    LET pending == IF readbuf = NULL \/ start = end THEN << >>
                   ELSE << readbuf >>
        own == Keep(Content \o pending, From(p))
    IN  /\ \A k \in DOMAIN own :
             own[k].first = (IF k = 1 THEN 0 ELSE own[k - 1].last) + 1
        /\ start # end => taken[p] = IF own = << >> THEN 0 ELSE Last(own).last
        /\ link[p] = "none" => Unread(p) = 0

(* How far behind a client is, in what has been written to it, and how far *)
(* its offset says it is: an offset tells laps from nothing as little as   *)
(* get_length does, and the ring is full when consumers are dropped.       *)
Lag(p) == Len(Content) - Len(got[p])

Apparent(lag) == IF lag = 0 THEN Capacity ELSE lag

(* What message_queue__drop_slow_consumers() does to every client: it is   *)
(* kept exactly when its lag is not greater than the threshold, and one    *)
(* that does not lag at all is dealt with as one that is a lap behind.     *)
DropsByLag ==
  [][DropSlowConsumers =>
       \A p \in Peer :
         sock[p] \in Registered =>
           (sock[p] \in Registered'
              <=> Apparent(Lag(p)) <= Capacity - drop_before_offset)]_vars

(* At the end of a round nobody lags: a registered client whose connection *)
(* is alive has been written the whole history, unless the ring is full.   *)
CaughtUpEachRound ==
  pc = "poll" /\ start # end =>
    \A p \in Peer :
      link[p] = "up" /\ sock[p] \in Registered => got[p] = Content

(* Every connection is written a prefix of one and the same sequence of    *)
(* messages: across joins, failed writes, reused descriptors, wrapped      *)
(* offsets and dropped consumers.                                          *)
Room == INSTANCE ChatRoom WITH Member <- Peer, log <- Content

RoomSpec == Room!Spec

-----------------------------------------------------------------------------
(* The server runs, the kernel does not refuse it a connection for ever,   *)
(* the network delivers resets, and the peers in Reader read what they are *)
(* sent.                                                                   *)
Fairness(Reader) ==
  /\ WF_vars(Start \/ (Server /\ UNCHANGED bootVars))
  /\ SF_vars(\E fd \in FreeFds : Accept(fd) /\ UNCHANGED bootVars)
  /\ \A p \in Peer : WF_vars(Outside(ResetArrives(p) /\ UNCHANGED got))
  /\ \A p \in Reader : WF_vars(Outside(PeerReads(p) /\ UNCHANGED got))

(* The only thread is in write(), and the socket has no room. *)
Blocked ==
  /\ pc = "flush"
  /\ AtMessage
  /\ \E p \in Peer : sock[p] = writing /\ link[p] = "up" /\ rx[p] = SockBuf

(* What ends a promise of the server: the end of its process, or a peer    *)
(* that lets it wait for ever.                                             *)
Excused == Stopped \/ []Blocked

(* A connection that waits for accept() gets it, *)
Accepted ==
  \A p \in Peer : (link[p] # "none" /\ sock[p] = 0) ~> (sock[p] # 0 \/ Excused)

(* what a watched peer sends is read, and when it has closed its           *)
(* connection is closed, even if its entry is the one an unwatch moved out *)
(* of the way of the loop (what is accepted while the table is full is     *)
(* never watched, read or closed),                                         *)
Served ==
  \A p \in Peer :
    /\ (sock[p] \in Watched /\ Unread(p) > 0) ~> (Unread(p) = 0 \/ Excused)
    /\ (sock[p] \in Watched /\ Closed(p)) ~> (link[p] = "none" \/ Excused)

(* and a message reaches every registered client that stays, but for those *)
(* that have been written nothing when the ring fills up: their offset is  *)
(* start and end, and nothing is ever written to them.  For them           *)
(* poll_server_impl.c:130, "Messages from one client are broadcast to all  *)
(* others", does not hold.                                                 *)
Delivered ==
  \A p \in Peer :
    (sock[p] \in Registered /\ Len(got[p]) < Len(Content))
      ~> \/ Excused
         \/ link[p] # "up"
         \/ sock[p] \notin Registered
         \/ Len(got[p]) = Len(Content)
         \/ start = end /\ got[p] = << >>

-----------------------------------------------------------------------------
(* What a comment of poll_server_impl.c says. *)

(* 129, "Multiple clients can connect and disconnect cleanly": a client    *)
(* that leaves does not take the server with it.                           *)
SurvivesDisconnects == pc # "killed"

(* 132, "Kick clients whose lag exceeds a threshold": a client that is     *)
(* dropped has not been written more messages than the threshold.          *)
KicksByLag ==
  [][DropSlowConsumers =>
       \A p \in Peer :
         sock[p] \in Registered /\ sock[p] \notin Registered' =>
           Lag(p) > Capacity - drop_before_offset]_vars

=============================================================================
