----------------------------- MODULE PollProofs -----------------------------
(***************************************************************************)
(* What the event loop of the chat server keeps true, for any peers, ring, *)
(* table and number of descriptors, whatever fails.                        *)
(***************************************************************************)
EXTENDS PollServer, ServerLemmas, FiniteSetTheorems

(* The places at which there is a table with the server in it *)
Looping ==
  { "poll", "server", "clients", "q", "drop", "again", "flush", "killed" }

(* The list of addresses is freed when no address is needed any more. *)
Booting == servinfo = 1 <=> pc \in { "socket", "bind" }

(* The server's entry is the first, and each descriptor has one. *)
Table ==
  /\ pc \in Looping => Len(fds) >= 1 /\ fds[1].fd = ServerFd
  /\ pc \notin Looping => fds = << >>
  /\ \A k \in 1 .. Len(fds) : fds[k].fd \in { -1, ServerFd } \cup Open
  /\ \A k \in 1 .. Len(fds) : fds[k].revents # {} => fds[k].fd # -1
  /\ \A j, k \in 1 .. Len(fds) : fds[j].fd = fds[k].fd => j = k

(* A client is a connection that is open, or what a failed accept() left. *)
List ==
  /\ \A k \in 1 .. Len(clients) : clients[k].fd \in { -1 } \cup Open
  /\ \A j, k \in 1 .. Len(clients) :
       clients[j].fd = clients[k].fd /\ clients[j].fd # -1 => j = k
  /\ ~ exists => clients = << >>

(* What the loop holds, and where *)
Loops ==
  /\ idx >= 2
  /\ readbuf # NULL <=> pc \in { "q", "drop", "again" }
  /\ writing \in { Nobody, -1 } \cup Open
  /\ pc \notin { "flush", "killed" } => Idle

(* The inductive invariant of the tables *)
TableInv == TypeOK /\ Wired /\ Booting /\ Table /\ List /\ Loops

-----------------------------------------------------------------------------
(* Numbers *)

LEMMA AdvanceTyped ==
  ASSUME NEW slot \in Slot
  PROVE  Advance(slot) \in Slot
BY QueueAssumption DEF Slot, Advance

LEMMA ZeroIsSlot == 0 \in Slot
BY QueueAssumption DEF Slot

LEMMA ServerIsNoClient ==
  Wired => ServerFd \notin Open /\ -1 \notin Open /\ Nobody \notin Open
             /\ Open \subseteq Int
<1>1. ASSUME NEW fd \in Descriptor PROVE fd \in Int /\ fd > ServerFd
  BY SocketsAssumption DEF Descriptor, ServerFd
<1> QED
  BY <1>1, OpenTyped DEF ServerFd, Nobody

LEMMA SockIsDescriptor ==
  ASSUME Wired, NEW p \in Peer
  PROVE  sock[p] # -1 /\ sock[p] # Nobody
<1>1. sock[p] = 0 \/ sock[p] \in Open
  BY DEF Open
<1>2. -1 \notin Open /\ Nobody \notin Open
  BY ServerIsNoClient
<1> QED
  BY <1>1, <1>2 DEF Nobody

-----------------------------------------------------------------------------
(* The table: what watch and unwatch do *)

FdEntry == [fd : Int, revents : SUBSET WatchedEvents]

LEMMA EntryIndex ==
  ASSUME FdsTypeOK, NEW fd
  PROVE  /\ Entry(fd) \in 0 .. Len(fds)
         /\ Entry(fd) = 0 => \A k \in 1 .. Len(fds) : fds[k].fd # fd
         /\ Entry(fd) # 0 => fds[Entry(fd)].fd = fd
<1> DEFINE I == { k \in 1 .. Len(fds) : fds[k].fd = fd }
<1>1. Entry(fd)
        = IF I # {} THEN CHOOSE x \in I : \A y \in I : x =< y ELSE 0
  BY DEF Entry, SelectInSeq, Min
<1>2. I \in SUBSET Nat
  OBVIOUS
<1>3. I # {} => \E x \in I : \A y \in I : x =< y
  BY <1>2, Least
<1>4. Len(fds) \in Nat
  BY DEF FdsTypeOK
<1>5. CASE I = {}
  BY <1>1, <1>4, <1>5
<1>6. CASE I # {}
  <2>1. Entry(fd) \in I
    BY <1>1, <1>3, <1>6
  <2> QED
    BY <1>4, <2>1
<1> QED
  BY <1>5, <1>6

(* The last entry takes the place of the removed one. *)
LEMMA UnwatchIs ==
  ASSUME FdsTypeOK, NEW n \in 1 .. Len(fds),
         \A j, k \in 1 .. Len(fds) : fds[j].fd = fds[k].fd => j = k,
         fd_state__unwatch(fds[n].fd)
  PROVE  /\ FdsTypeOK' /\ Len(fds') = Len(fds) - 1
         /\ \A k \in 1 .. Len(fds) - 1 :
              fds'[k] = IF k = n THEN fds[Len(fds)] ELSE fds[k]
<1>1. fds \in Seq(FdEntry) /\ Len(fds) \in Nat
  BY DEF FdsTypeOK, FdEntry
<1>2. Entry(fds[n].fd) = n
  <2> DEFINE e == Entry(fds[n].fd)
  <2>1. e \in 0 .. Len(fds) /\ e # 0 /\ fds[e].fd = fds[n].fd
    BY EntryIndex
  <2> HIDE DEF e
  <2>2. e \in 1 .. Len(fds)
    BY <1>1, <2>1
  <2> QED
    BY <2>1, <2>2 DEF e
<1> DEFINE moved == [fds EXCEPT ![n] = fds[Len(fds)]]
<1>3. fds' = SubSeq(moved, 1, Len(moved) - 1)
  <2>1. n # 0
    BY <1>1
  <2> QED
    BY <1>2, <2>1 DEF fd_state__unwatch, Front, Last
<1> HIDE DEF FdEntry
<1>4. /\ moved \in Seq(FdEntry) /\ Len(moved) = Len(fds)
      /\ \A k \in 1 .. Len(fds) :
           moved[k] = IF k = n THEN fds[Len(fds)] ELSE fds[k]
  BY <1>1
<1> HIDE DEF moved
<1>5. /\ fds' \in Seq(FdEntry) /\ Len(fds') = Len(fds) - 1
      /\ \A k \in 1 .. Len(fds) - 1 : fds'[k] = moved[k]
  BY <1>1, <1>3, <1>4
<1> QED
  BY <1>1, <1>4, <1>5 DEF FdsTypeOK, FdEntry

(* A new descriptor is put behind the others, if there is a place. *)
LEMMA WatchIs ==
  ASSUME FdsTypeOK, NEW fd \in Int, fd_state__watch(fd)
  PROVE  /\ FdsTypeOK'
         /\ \/ fds' = fds
            \/ /\ Len(fds) < FdsCapacity /\ Len(fds') = Len(fds) + 1
               /\ \A k \in 1 .. Len(fds) :
                    fds'[k] = fds[k] /\ fds[k].fd # fd
               /\ fds'[Len(fds) + 1] = [fd |-> fd, revents |-> {}]
<1>1. fds \in Seq(FdEntry) /\ Len(fds) \in Nat
  BY DEF FdsTypeOK, FdEntry
<1>2. CASE fds' = fds
  BY <1>2 DEF FdsTypeOK
<1>3. CASE fds' # fds
  <2> DEFINE new == [fd |-> fd, revents |-> {}]
  <2>1. /\ ~ (Len(fds) >= FdsCapacity) /\ fds' = Append(fds, new)
        /\ ~ \E k \in DOMAIN fds : fds[k].fd \in { fd, Complement(fd) }
    BY <1>3 DEF fd_state__watch
  <2>2. new \in FdEntry
    BY DEF FdEntry
  <2> HIDE DEF FdEntry, new
  <2>3. /\ fds' \in Seq(FdEntry) /\ Len(fds') = Len(fds) + 1
        /\ \A k \in 1 .. Len(fds) : fds'[k] = fds[k]
        /\ fds'[Len(fds) + 1] = new /\ DOMAIN fds = 1 .. Len(fds)
    BY <1>1, <2>1, <2>2
  <2>4. Len(fds) < FdsCapacity
    BY <1>1, <2>1, FdsAssumption
  <2> QED
    BY <2>1, <2>3, <2>4 DEF FdsTypeOK, FdEntry, new
<1> QED
  BY <1>2, <1>3

-----------------------------------------------------------------------------
(* The list: what the calls of the queue do to it *)

Client == [fd : Int, roff : Slot]

LEMMA ClientIndex ==
  ASSUME QueueTypeOK, NEW fd
  PROVE  /\ ClientOf(fd) \in 0 .. Len(clients)
         /\ ClientOf(fd) = 0 => \A k \in 1 .. Len(clients) : clients[k].fd # fd
         /\ ClientOf(fd) # 0 => /\ ClientOf(fd) \in 1 .. Len(clients)
                                /\ clients[ClientOf(fd)].fd = fd
<1> DEFINE I == { k \in 1 .. Len(clients) : clients[k].fd = fd }
<1>0. Len(clients) \in Nat
  BY DEF QueueTypeOK
<1>1. ClientOf(fd)
        = IF I # {} THEN CHOOSE x \in I : \A y \in I : x =< y ELSE 0
  BY DEF ClientOf, SelectInSeq, Min
<1>2. I \in SUBSET Nat
  OBVIOUS
<1>3. I # {} => \E x \in I : \A y \in I : x =< y
  BY <1>2, Least
<1>4. CASE I = {}
  BY <1>0, <1>1, <1>4
<1>5. CASE I # {}
  <2>1. ClientOf(fd) \in I
    BY <1>1, <1>3, <1>5
  <2> QED
    BY <1>0, <2>1
<1> QED
  BY <1>4, <1>5

(* The list is now what it was at the places `at`. *)
Selects(at) ==
  /\ at \in [1 .. Len(clients') -> 1 .. Len(clients)]
  /\ \A j, k \in 1 .. Len(clients') : at[j] = at[k] => j = k
  /\ \A k \in 1 .. Len(clients') : clients'[k] = clients[at[k]]

LEMMA RegisterIs ==
  ASSUME QueueTypeOK, NEW fd \in Int, message_queue__register_client(fd)
  PROVE  /\ QueueTypeOK' /\ Idle /\ UNCHANGED << Ring, Loop >>
         /\ \/ clients' = clients /\ result' = "-1"
            \/ /\ exists /\ Len(clients') = Len(clients) + 1
               /\ clients'[1] = NewClient(fd)
               /\ \A k \in 1 .. Len(clients) : clients'[k + 1] = clients[k]
<1>0. Idle /\ UNCHANGED << Ring, Loop >> /\ result' \in ReturnCode
  BY DEF message_queue__register_client, ReturnCode
<1>1. CASE clients' = clients /\ result' = "-1"
  BY <1>0, <1>1 DEF QueueTypeOK, Ring, Loop
<1>2. CASE ~ (clients' = clients /\ result' = "-1")
  <2> DEFINE new == NewClient(fd)
  <2>1. exists /\ clients' = << new >> \o clients
    BY <1>2 DEF message_queue__register_client
  <2>2. new \in Client
    BY ZeroIsSlot DEF NewClient, Client, QueueTypeOK
  <2>3. clients \in Seq(Client) /\ Len(clients) \in Nat
    BY DEF QueueTypeOK, Client
  <2> HIDE DEF new, Client
  <2>4. << new >> \in Seq(Client) /\ Len(<< new >>) = 1 /\ << new >>[1] = new
    BY <2>2
  <2>5. /\ clients' \in Seq(Client) /\ Len(clients') = 1 + Len(clients)
        /\ \A k \in 1 .. 1 + Len(clients) :
             clients'[k] = IF k <= 1 THEN << new >>[k] ELSE clients[k - 1]
    BY <2>1, <2>3, <2>4, ConcatProperties
  <2>6. ASSUME NEW k \in 1 .. Len(clients)
        PROVE  clients'[k + 1] = clients[k]
    <3>1. k + 1 \in 1 .. 1 + Len(clients) /\ ~ (k + 1 <= 1)
            /\ (k + 1) - 1 = k
      BY <2>3
    <3> QED
      BY <2>5, <3>1
  <2>7. clients'[1] = new
    BY <2>3, <2>4, <2>5
  <2>8. QueueTypeOK'
    BY <1>0, <2>5 DEF QueueTypeOK, Ring, Loop, Client
  <2> QED
    BY <1>0, <2>1, <2>3, <2>5, <2>6, <2>7, <2>8 DEF new
<1> QED
  BY <1>1, <1>2

LEMMA UnregisterIs ==
  ASSUME QueueTypeOK, NEW fd, message_queue__unregister_client(fd),
         ~ exists => clients = << >>,
         \A j, k \in 1 .. Len(clients) :
           clients[j].fd = fd /\ clients[k].fd = fd => j = k
  PROVE  /\ QueueTypeOK' /\ Idle /\ UNCHANGED << Ring, Loop >>
         /\ \A k \in 1 .. Len(clients') : clients'[k].fd # fd
         /\ \E at :
              /\ Selects(at)
              /\ \A j \in 1 .. Len(clients) :
                   clients[j].fd # fd =>
                     \E k \in 1 .. Len(clients') : at[k] = j
<1>0. /\ Idle /\ UNCHANGED << Ring, Loop >> /\ result' \in ReturnCode
      /\ clients \in Seq(Client) /\ Len(clients) \in Nat
  BY DEF message_queue__unregister_client, ReturnCode, QueueTypeOK, Client
<1> DEFINE n == ClientOf(fd)
<1>1. /\ n \in 0 .. Len(clients)
      /\ n = 0 => \A k \in 1 .. Len(clients) : clients[k].fd # fd
      /\ n # 0 => n \in 1 .. Len(clients) /\ clients[n].fd = fd
  BY ClientIndex
<1>2. CASE ~ (exists /\ n # 0)
  <2> DEFINE at == [k \in 1 .. Len(clients) |-> k]
  <2>1. clients' = clients
    BY <1>2 DEF message_queue__unregister_client
  <2>2. \A k \in 1 .. Len(clients') : clients'[k].fd # fd
    BY <1>1, <1>2, <2>1
  <2>3. Selects(at)
    BY <2>1 DEF Selects
  <2>4. QueueTypeOK'
    BY <1>0, <2>1 DEF QueueTypeOK, Ring, Loop
  <2>5. \A j \in 1 .. Len(clients) : \E k \in 1 .. Len(clients') : at[k] = j
    BY <2>1
  <2> QED
    BY <1>0, <2>2, <2>3, <2>4, <2>5
<1>3. CASE exists /\ n # 0
  <2> DEFINE at == [k \in 1 .. Len(clients) - 1 |-> IF k < n THEN k ELSE k + 1]
  <2>1. clients' = RemoveAt(clients, n) /\ n \in 1 .. Len(clients)
    BY <1>1, <1>3 DEF message_queue__unregister_client
  <2> HIDE DEF n, Client
  <2>2. /\ clients' \in Seq(Client) /\ Len(clients') = Len(clients) - 1
        /\ \A k \in 1 .. Len(clients) - 1 :
             clients'[k] = IF k < n THEN clients[k] ELSE clients[k + 1]
    BY <1>0, <2>1, RemoveAtShifts
  <2>3. /\ at \in [1 .. Len(clients) - 1 -> 1 .. Len(clients)]
        /\ \A j, k \in 1 .. Len(clients) - 1 : at[j] = at[k] => j = k
        /\ \A k \in 1 .. Len(clients) - 1 : at[k] # n
        /\ \A k \in 1 .. Len(clients) - 1 : clients'[k] = clients[at[k]]
    BY <1>0, <2>1, <2>2
  <2>9. \A k \in 1 .. Len(clients) - 1 : at[k] = IF k < n THEN k ELSE k + 1
    OBVIOUS
  <2> HIDE DEF at
  <2>4. ASSUME NEW j \in 1 .. Len(clients), j # n
        PROVE  \E k \in 1 .. Len(clients) - 1 : at[k] = j
    <3>1. CASE j < n
      BY <1>0, <2>1, <2>9, <3>1
    <3>2. CASE ~ (j < n)
      <4>1. /\ j - 1 \in 1 .. Len(clients) - 1 /\ ~ (j - 1 < n)
            /\ (j - 1) + 1 = j
        BY <1>0, <2>1, <2>4, <3>2
      <4>2. at[j - 1] = j
        BY <2>9, <4>1
      <4> QED
        BY <4>1, <4>2
    <3> QED
      BY <3>1, <3>2
  <2>5. Selects(at)
    BY <2>2, <2>3 DEF Selects
  <2>6. ASSUME NEW k \in 1 .. Len(clients) - 1
        PROVE  clients'[k].fd # fd
    BY <1>1, <1>3, <2>1, <2>3
  <2>7. QueueTypeOK'
    BY <1>0, <2>2 DEF QueueTypeOK, Ring, Loop, Client
  <2>8. \A j \in 1 .. Len(clients) : clients[j].fd # fd =>
          \E k \in 1 .. Len(clients') : at[k] = j
    BY <1>1, <1>3, <2>1, <2>2, <2>4
  <2> QED
    BY <1>0, <2>2, <2>5, <2>6, <2>7, <2>8
<1> QED
  BY <1>2, <1>3


(* Consumers are dropped, the others keep their order. *)
LEMMA DropIs ==
  ASSUME QueueTypeOK, message_queue__drop_slow_consumers
  PROVE  /\ QueueTypeOK' /\ Idle /\ UNCHANGED << Ring, Loop, result >>
         /\ \E at : Selects(at)
<1>0. /\ Idle /\ UNCHANGED << Ring, Loop, result >>
      /\ clients \in Seq(Client) /\ Len(clients) \in Nat
  BY DEF message_queue__drop_slow_consumers, QueueTypeOK, Client
<1> DEFINE kept == { c \in ToSet(clients) :
                       client_off(c) >= drop_before_offset }
<1>1. clients' = clients \/ clients' = Keep(clients, kept)
  BY DEF message_queue__drop_slow_consumers
<1> HIDE DEF kept, Client
<1>2. CASE clients' = clients
  <2> DEFINE at == [k \in 1 .. Len(clients) |-> k]
  <2>1. Selects(at)
    BY <1>2 DEF Selects
  <2>2. QueueTypeOK'
    BY <1>0, <1>2 DEF QueueTypeOK, Ring, Loop
  <2> QED
    BY <1>0, <2>1, <2>2
<1>3. CASE clients' = Keep(clients, kept)
  <2>1. clients' \in Seq(Client \cap kept)
    BY <1>0, <1>3, KeepPicks
  <2>2. PICK at : Picks(at, clients', clients, Len(clients), kept)
    BY <1>0, <1>3, KeepPicks
  <2>3. clients' \in Seq(Client)
    BY <2>1, SeqWider
  <2>4. Len(clients') \in Nat
    BY <2>3
  <2>5. \A j, k \in 1 .. Len(clients') : at[j] = at[k] => j = k
    <3>1. \A j, k \in 1 .. Len(clients') : j < k \/ k < j \/ j = k
      BY <2>4
    <3>2. at \in [1 .. Len(clients') -> 1 .. Len(clients)]
      BY <2>2 DEF Picks
    <3>3. \A j, k \in 1 .. Len(clients') : j < k => at[j] < at[k]
      BY <2>2 DEF Picks
    <3>4. \A j \in 1 .. Len(clients') : ~ (at[j] < at[j])
      BY <1>0, <3>2
    <3> QED
      BY <3>1, <3>3, <3>4
  <2>6. Selects(at)
    BY <2>2, <2>5 DEF Picks, Selects
  <2>7. QueueTypeOK'
    BY <1>0, <2>3 DEF QueueTypeOK, Ring, Loop, Client
  <2> QED
    BY <1>0, <2>6, <2>7
<1> QED
  BY <1>1, <1>2, <1>3

LEMMA EnqueueIs ==
  ASSUME QueueTypeOK, NEW message \in Message, message_queue__q(message)
  PROVE  QueueTypeOK' /\ Idle /\ UNCHANGED << exists, clients, Loop >>
<1>1. Idle /\ UNCHANGED << exists, clients, Loop >> /\ result' \in ReturnCode
  BY DEF message_queue__q, ReturnCode, Ring
<1>2. /\ messages' \in [Slot -> Message \cup {NULL}]
      /\ start' \in Slot \cup {MQ_EMPTY_SENTINEL}
      /\ end' \in Slot
  BY AdvanceTyped, ZeroIsSlot DEF message_queue__q, Ring, QueueTypeOK
<1>3. /\ exists' \in BOOLEAN /\ writing' \in Int /\ i' \in Slot
      /\ clients' \in Seq([fd : Int, roff : Slot])
  BY <1>1 DEF QueueTypeOK, Loop
<1> QED
  BY <1>1, <1>2, <1>3 DEF QueueTypeOK

(* A traversal of the ring ends: one client's offset has changed. *)
LEMMA LeaveLoopIs ==
  ASSUME QueueTypeOK, NEW roff \in Slot, NEW code \in ReturnCode,
         LeaveLoop(roff, code)
  PROVE  /\ QueueTypeOK' /\ UNCHANGED Ring /\ writing' = Nobody
         /\ Len(clients') = Len(clients)
         /\ \A k \in 1 .. Len(clients) :
              clients'[k] = [fd |-> clients[k].fd,
                             roff |-> IF k = ClientOf(writing) THEN roff
                                      ELSE clients[k].roff]
<1> DEFINE n == ClientOf(writing)
<1>1. /\ clients' = [clients EXCEPT ![n].roff = roff]
      /\ UNCHANGED Ring /\ writing' = Nobody /\ i' = 0 /\ result' = code
  BY DEF LeaveLoop
<1>2. clients \in Seq(Client) /\ Len(clients) \in Nat
  BY DEF QueueTypeOK, Client
<1> HIDE DEF n
<1>3. \A k \in 1 .. Len(clients) :
        clients[k] = [fd |-> clients[k].fd, roff |-> clients[k].roff]
          /\ clients[k] \in Client
  <2>1. \A k \in 1 .. Len(clients) : clients[k] \in Client
    BY <1>2
  <2>2. \A c \in Client : c = [fd |-> c.fd, roff |-> c.roff]
    BY DEF Client
  <2> QED
    BY <2>1, <2>2
<1>4. DOMAIN clients = 1 .. Len(clients)
  BY <1>2
<1>5. /\ clients' = [k \in 1 .. Len(clients) |->
                      IF k = n THEN [clients[n] EXCEPT !.roff = roff]
                      ELSE clients[k]]
  <2> DEFINE m == [clients[n] EXCEPT !.roff = roff]
  <2>1. clients' = [clients EXCEPT ![n] = m]
    BY <1>1
  <2> HIDE DEF m
  <2>2. clients' = [k \in 1 .. Len(clients) |->
                      IF k = n THEN m ELSE clients[k]]
    BY <1>2, <1>4, <2>1, Zenon
  <2> QED
    BY <2>2 DEF m
<1>6. \A k \in 1 .. Len(clients) :
        clients'[k] = [fd |-> clients[k].fd,
                       roff |-> IF k = n THEN roff ELSE clients[k].roff]
  <2> SUFFICES ASSUME NEW k \in 1 .. Len(clients)
               PROVE  clients'[k] = [fd |-> clients[k].fd,
                           roff |-> IF k = n THEN roff ELSE clients[k].roff]
    OBVIOUS
  <2>1. CASE k = n
    <3>1. clients'[k] = [clients[k] EXCEPT !.roff = roff]
      BY <1>5, <2>1
    <3>2. clients[k] \in Client
      BY <1>3
    <3> QED
      BY <2>1, <3>1, <3>2 DEF Client
  <2>2. CASE k # n
    BY <1>3, <1>5, <2>2
  <2> QED
    BY <2>1, <2>2
<1>7. \A k \in 1 .. Len(clients) : clients'[k] \in Client
  <2>1. \A c \in Client : c.fd \in Int /\ c.roff \in Slot
    BY DEF Client
  <2>2. \A a \in Int, b \in Slot : [fd |-> a, roff |-> b] \in Client
    BY DEF Client
  <2>3. ASSUME NEW k \in 1 .. Len(clients)
        PROVE  /\ clients[k].fd \in Int
               /\ (IF k = n THEN roff ELSE clients[k].roff) \in Slot
    BY <1>3, <2>1
  <2> QED
    BY <1>6, <2>2, <2>3
<1>8. clients' \in [1 .. Len(clients) -> Client]
  BY <1>5, <1>7
<1> HIDE DEF Client
<1>9. clients' \in Seq(Client) /\ Len(clients') = Len(clients)
  BY <1>2, <1>8, SeqDef
<1>10. QueueTypeOK'
  BY <1>1, <1>9, ZeroIsSlot DEF QueueTypeOK, Ring, Client, Nobody
<1> QED
  BY <1>1, <1>6, <1>9, <1>10 DEF n

LEMMA QueueCreated ==
  ASSUME QueueTypeOK, message_queue__init
  PROVE  QueueTypeOK' /\ UNCHANGED << Loop, result >> /\ clients' = << >>
<1>1. EmptyRing \in [Slot -> Message \cup {NULL}]
  BY DEF EmptyRing
<1> QED
  BY <1>1, ZeroIsSlot DEF message_queue__init, QueueTypeOK, Loop

LEMMA SameQueue ==
  ASSUME QueueTypeOK, UNCHANGED queueVars PROVE QueueTypeOK'
BY DEF QueueTypeOK, queueVars

-----------------------------------------------------------------------------
(* What most steps leave alone *)

LEMMA SameTable ==
  ASSUME FdsTypeOK, Table, UNCHANGED fds, Open \subseteq Open',
         pc \in Looping <=> pc' \in Looping
  PROVE  FdsTypeOK' /\ Table'
<1>1. FdsTypeOK'
  BY DEF FdsTypeOK
<1>2. \A k \in 1 .. Len(fds') : fds'[k].fd \in { -1, ServerFd } \cup Open'
  BY DEF Table
<1> QED
  BY <1>1, <1>2 DEF Table

LEMMA SameList ==
  ASSUME List, UNCHANGED clients, exists => exists', Open \subseteq Open'
  PROVE  List'
<1>1. \A k \in 1 .. Len(clients') : clients'[k].fd \in { -1 } \cup Open'
  BY DEF List
<1> QED
  BY <1>1 DEF List

LEMMA FewerClients ==
  ASSUME List, QueueTypeOK, QueueTypeOK', exists => exists',
         NEW at \in [1 .. Len(clients') -> 1 .. Len(clients)],
         \A j, k \in 1 .. Len(clients') : at[j] = at[k] => j = k,
         \A k \in 1 .. Len(clients') : clients'[k].fd = clients[at[k]].fd,
         \A k \in 1 .. Len(clients') : clients'[k].fd \in { -1 } \cup Open'
  PROVE  List'
<1>1. \A j, k \in 1 .. Len(clients') :
        clients'[j].fd = clients'[k].fd /\ clients'[j].fd # -1 => j = k
  BY DEF List
<1>2. ~ exists' => clients' = << >>
  <2> SUFFICES ASSUME ~ exists' PROVE clients' = << >>
    OBVIOUS
  <2>1. clients = << >> /\ Len(clients) = 0
    BY DEF List
  <2>2. clients' \in Seq([fd : Int, roff : Slot]) /\ Len(clients') \in Nat
    BY DEF QueueTypeOK
  <2>3. 1 \notin 1 .. Len(clients')
    BY <2>1
  <2> QED
    BY <2>2, <2>3
<1> QED
  BY <1>1, <1>2 DEF List

LEMMA SameBooting ==
  ASSUME Booting, UNCHANGED servinfo,
         pc \in { "socket", "bind" } <=> pc' \in { "socket", "bind" }
  PROVE  Booting'
BY DEF Booting

LEMMA SameFds ==
  ASSUME TableInv, QueueTypeOK', List', UNCHANGED fds,
         Wired', Open' = Open,
         ServerTypeOK', Booting', pc \in Looping <=> pc' \in Looping, Loops'
  PROVE  TableInv'
<1>1. FdsTypeOK' /\ Table'
  BY SameTable DEF TableInv, TypeOK
<1> QED
  BY <1>1 DEF TableInv, TypeOK, Wired

LEMMA SameTables ==
  ASSUME TableInv, UNCHANGED << queueVars, fds >>,
         Wired', Open' = Open,
         ServerTypeOK', Booting', pc \in Looping <=> pc' \in Looping, Loops'
  PROVE  TableInv'
<1>1. QueueTypeOK'
  BY SameQueue DEF TableInv, TypeOK
<1>2. List'
  BY SameList DEF TableInv, queueVars
<1> QED
  BY <1>1, <1>2, SameFds

-----------------------------------------------------------------------------
(* The tables are kept. *)

LEMMA InitTables == Init => TableInv
<1> SUFFICES ASSUME Init PROVE TableInv
  OBVIOUS
<1>1. Wired
  BY InitWired DEF Init
<1>2. QueueTypeOK
  BY ZeroIsSlot
  DEF Init, QueueTypeOK, EmptyRing, Nobody, ReturnCode
<1>3. FdsTypeOK
  BY DEF Init, FdsTypeOK
<1>4. pc = "start" /\ untried = 0 /\ servinfo = 0
  BY DEF Init, Boot!ListeningInit
<1>5. ServerTypeOK
  BY <1>4, ServerAssumption DEF Init, ServerTypeOK, Boot!Starting
<1>6. Booting /\ Table /\ List /\ Loops
  BY <1>4 DEF Init, Booting, Table, List, Loops, Looping, Idle
<1> QED
  BY <1>1, <1>2, <1>3, <1>5, <1>6 DEF TableInv, TypeOK, Wired

LEMMA OutsideTables ==
  ASSUME TableInv, Wired', Open' = Open, got' \in [Peer -> Seq(Message)],
         UNCHANGED << queueVars, fds, serverVars, bootVars >>
  PROVE  TableInv'
<1>1. ServerTypeOK'
  BY DEF TableInv, TypeOK, ServerTypeOK, serverVars, bootVars, Boot!Starting
<1>2. Booting'
  BY SameBooting DEF TableInv, serverVars, bootVars
<1>3. Loops'
  BY DEF TableInv, Loops, serverVars, queueVars, Idle
<1> QED
  BY <1>1, <1>2, <1>3, SameTables DEF serverVars

LEMMA EnvironmentTables ==
  ASSUME TableInv, Environment
  PROVE  TableInv'
<1>0. Wired /\ got \in [Peer -> Seq(Message)]
  BY DEF TableInv, TypeOK, ServerTypeOK
<1>1. ASSUME NEW p \in Peer, Outside(Joins(p)) PROVE TableInv'
  <2>1. Wired' /\ Open' = Open
    BY <1>0, <1>1, ConnectWired DEF Outside, Joins
  <2>2. got' \in [Peer -> Seq(Message)]
    BY <1>0, <1>1 DEF Outside, Joins
  <2> QED
    BY <1>1, <2>1, <2>2, OutsideTables DEF Outside
<1>2. ASSUME NEW p \in Peer, Outside(Send(p) /\ UNCHANGED got)
      PROVE  TableInv'
  BY <1>0, <1>2, SendWired, OutsideTables DEF Outside
<1>3. ASSUME NEW p \in Peer, Outside(PeerReads(p) /\ UNCHANGED got)
      PROVE  TableInv'
  BY <1>0, <1>3, PeerReadsWired, OutsideTables DEF Outside
<1>4. ASSUME NEW p \in Peer, Outside(PeerCloses(p) /\ UNCHANGED got)
      PROVE  TableInv'
  BY <1>0, <1>4, PeerClosesWired, OutsideTables DEF Outside
<1>5. ASSUME NEW p \in Peer, Outside(ResetArrives(p) /\ UNCHANGED got)
      PROVE  TableInv'
  BY <1>0, <1>5, ResetArrivesWired, OutsideTables DEF Outside
<1> QED
  BY <1>1, <1>2, <1>3, <1>4, <1>5 DEF Environment

LEMMA StartTables ==
  ASSUME TableInv, Start \/ StartFails
  PROVE  TableInv'
<1>0. /\ QueueTypeOK /\ FdsTypeOK /\ Wired /\ ServerTypeOK /\ Loops
      /\ Booting /\ Table /\ List
  BY DEF TableInv, TypeOK
<1>1. ASSUME UNCHANGED StartVars,
             untried' \in 0 .. MaxAddr, servinfo' \in { 0, 1 }, Booting',
             pc \in Boot!Starting,
             pc' \in Boot!Starting \cup { "queue", "exited" }
      PROVE  TableInv'
  <2>1. Wired' /\ Open' = Open
    BY <1>0, <1>1, StillWired DEF StartVars
  <2>2. ServerTypeOK'
    BY <1>0, <1>1 DEF ServerTypeOK, StartVars, Boot!Starting
  <2>3. Loops'
    BY <1>0, <1>1 DEF Loops, StartVars, queueVars, Idle, Boot!Starting
  <2>4. pc \in Looping <=> pc' \in Looping
    BY <1>1 DEF Looping, Boot!Starting
  <2> QED
    BY <1>1, <2>1, <2>2, <2>3, <2>4, SameTables DEF StartVars
<1>2. CASE GetServerSocket \/ GetServerSocketFails
  <2>1. pc \in Boot!Starting /\ UNCHANGED StartVars
    BY <1>2
    DEF GetServerSocket, GetServerSocketFails, Boot!Proceeds, Boot!GivesUp,
        Boot!GetAddrInfo, Boot!GetAddrInfoFails, Boot!Socket, Boot!SocketFails,
        Boot!NoSocket, Boot!Bind, Boot!BindFails, Boot!Listen,
        Boot!ListenFails, Boot!Starting
  <2>2. untried \in 0 .. MaxAddr /\ MaxAddr \in Nat /\ servinfo \in { 0, 1 }
    BY <1>0, ServerAssumption DEF ServerTypeOK
  <2>3. untried' \in 0 .. MaxAddr
    BY <1>2, <2>2
    DEF GetServerSocket, GetServerSocketFails, Boot!Proceeds, Boot!GivesUp,
        Boot!GetAddrInfo, Boot!GetAddrInfoFails, Boot!Socket, Boot!SocketFails,
        Boot!NoSocket, Boot!Bind, Boot!BindFails, Boot!Listen,
        Boot!ListenFails, Boot!Exit
  <2>4. /\ servinfo' \in { 0, 1 }
        /\ servinfo' = 1 <=> pc' \in { "socket", "bind" }
        /\ pc' \in Boot!Starting \cup { "queue", "exited" }
    BY <1>0, <1>2, <2>2
    DEF GetServerSocket, GetServerSocketFails, Boot!Proceeds, Boot!GivesUp,
        Boot!GetAddrInfo, Boot!GetAddrInfoFails, Boot!Socket, Boot!SocketFails,
        Boot!NoSocket, Boot!Bind, Boot!BindFails, Boot!Listen,
        Boot!ListenFails, Boot!Exit, Boot!Free, Boot!Starting, Booting
  <2> QED
    BY <1>1, <2>1, <2>3, <2>4 DEF Booting
<1>3. CASE CreateQueue
  <2>1. /\ pc = "queue" /\ pc' = "table"
        /\ UNCHANGED << bootVars, fds, idx, readbuf, kernelVars, got >>
        /\ \/ message_queue__init
           \/ UNCHANGED queueVars
    BY <1>3 DEF CreateQueue
  <2>2. Wired' /\ Open' = Open
    BY <1>0, <2>1, StillWired
  <2>3. ServerTypeOK' /\ Booting' /\ (pc \in Looping <=> pc' \in Looping)
    BY <1>0, <2>1 DEF ServerTypeOK, bootVars, Boot!Starting, Booting, Looping
  <2>4. CASE message_queue__init
    <3>1. QueueTypeOK' /\ UNCHANGED Loop /\ clients' = << >>
      BY <1>0, <2>4, QueueCreated
    <3>2. List'
      BY <3>1 DEF List
    <3>3. Loops'
      BY <1>0, <2>1, <2>2, <3>1 DEF Loops, Loop, Idle
    <3> QED
      BY <2>1, <2>2, <2>3, <3>1, <3>2, <3>3, SameFds
  <2>5. CASE UNCHANGED queueVars
    <3>1. Loops'
      BY <1>0, <2>1, <2>2, <2>5 DEF Loops, queueVars, Idle
    <3> QED
      BY <2>1, <2>2, <2>3, <2>5, <3>1, SameTables
  <2> QED
    BY <2>1, <2>4, <2>5
<1>4. CASE CreateTable \/ CreateTableFails
  <2>1. /\ pc = "table" /\ pc' \in { "watch", "exited" }
        /\ UNCHANGED << bootVars, queueVars, idx, readbuf, kernelVars, got >>
        /\ fds' = << >> \/ fds' = fds
    BY <1>4 DEF CreateTable, CreateTableFails, fds_state__init
  <2>2. fds = << >>
    BY <1>0, <2>1 DEF Table, Looping
  <2>3. Wired' /\ Open' = Open
    BY <1>0, <2>1, StillWired
  <2>4. ServerTypeOK' /\ Booting' /\ (pc \in Looping <=> pc' \in Looping)
    BY <1>0, <2>1 DEF ServerTypeOK, bootVars, Boot!Starting, Booting, Looping
  <2>5. Loops'
    BY <1>0, <2>1, <2>3 DEF Loops, queueVars, Idle
  <2> QED
    BY <2>1, <2>2, <2>3, <2>4, <2>5, SameTables
<1>5. CASE WatchServer
  <2>1. /\ pc = "watch" /\ fd_state__watch(ServerFd)
        /\ pc' = IF WatchReturns = -1 THEN "exited" ELSE "poll"
        /\ UNCHANGED << bootVars, queueVars, idx, readbuf, kernelVars, got >>
    BY <1>5 DEF WatchServer
  <2>2. fds = << >> /\ Len(fds) = 0
    BY <1>0, <2>1 DEF Table, Looping
  <2>3. Wired' /\ Open' = Open
    BY <1>0, <2>1, StillWired
  <2>4. ServerTypeOK' /\ Booting'
    BY <1>0, <2>1 DEF ServerTypeOK, bootVars, Boot!Starting, Booting
  <2>5. Loops'
    BY <1>0, <2>1, <2>3 DEF Loops, queueVars, Idle
  <2>6. QueueTypeOK' /\ List'
    BY <1>0, <2>1, <2>3, SameQueue, SameList DEF queueVars
  <2>7. CASE Len(fds) >= FdsCapacity
    <3>1. fds' = fds /\ pc' = "exited"
      BY <2>1, <2>7 DEF fd_state__watch, WatchReturns
    <3>2. pc \in Looping <=> pc' \in Looping
      BY <2>1, <3>1 DEF Looping
    <3> QED
      BY <2>3, <2>4, <2>5, <2>6, <3>1, <3>2, SameFds
  <2>8. CASE ~ (Len(fds) >= FdsCapacity)
    <3> DEFINE new == [fd |-> ServerFd, revents |-> {}]
    <3>1. pc' = "poll" /\ fds' = Append(fds, new)
      <4>1. WatchReturns = 0
        BY <2>8 DEF WatchReturns
      <4>2. DOMAIN fds = {}
        BY <2>2
      <4> QED
        BY <2>1, <2>8, <4>1, <4>2 DEF fd_state__watch
    <3>2. fds' = << new >> /\ Len(fds') = 1 /\ fds'[1] = new
      BY <2>2, <3>1
    <3>3. new \in [fd : Int, revents : SUBSET WatchedEvents]
      BY DEF ServerFd
    <3>4. \A k \in 1 .. Len(fds') : k = 1
      BY <3>2
    <3>5. FdsTypeOK'
      <4> HIDE DEF new
      <4> QED
        BY <3>2, <3>3 DEF FdsTypeOK
    <3>6. Table'
      BY <3>1, <3>2, <3>4 DEF Table, Looping
    <3> QED
      BY <2>3, <2>4, <2>5, <2>6, <3>5, <3>6 DEF TableInv, TypeOK, Wired
  <2> QED
    BY <2>7, <2>8
<1> QED
  BY <1>2, <1>3, <1>4, <1>5 DEF Start, StartFails

(* ppoll() marks the entries it has events for. *)
LEMMA PollIs ==
  ASSUME FdsTypeOK, NEW late \in BOOLEAN,
         fds' = [k \in DOMAIN fds |->
                   [fds[k] EXCEPT !.revents = Events(fds[k].fd, late)]]
  PROVE  /\ FdsTypeOK' /\ Len(fds') = Len(fds)
         /\ \A k \in 1 .. Len(fds) :
              /\ fds'[k].fd = fds[k].fd
              /\ fds'[k].revents = Events(fds[k].fd, late)
<1>1. fds \in Seq(FdEntry) /\ Len(fds) \in Nat /\ DOMAIN fds = 1 .. Len(fds)
  BY DEF FdsTypeOK, FdEntry
<1>2. \A fd : Events(fd, late) \in SUBSET WatchedEvents
  BY DEF Events, WatchedEvents
<1>3. \A e \in FdEntry, r \in SUBSET WatchedEvents :
        /\ [e EXCEPT !.revents = r] \in FdEntry
        /\ [e EXCEPT !.revents = r].fd = e.fd
        /\ [e EXCEPT !.revents = r].revents = r
  BY DEF FdEntry
<1>4. \A k \in 1 .. Len(fds) : fds[k] \in FdEntry
  BY <1>1
<1>5. \A k \in 1 .. Len(fds) :
        /\ fds'[k] \in FdEntry /\ fds'[k].fd = fds[k].fd
        /\ fds'[k].revents = Events(fds[k].fd, late)
  BY <1>1, <1>2, <1>3, <1>4
<1>6. fds' \in [1 .. Len(fds) -> FdEntry]
  BY <1>1, <1>5
<1>7. fds' \in Seq(FdEntry) /\ Len(fds') = Len(fds)
  BY <1>1, <1>6, SeqDef
<1> QED
  BY <1>5, <1>7 DEF FdsTypeOK, FdEntry

LEMMA PollTables ==
  ASSUME TableInv, Poll, UNCHANGED bootVars
  PROVE  TableInv'
<1>0. /\ QueueTypeOK /\ FdsTypeOK /\ Wired /\ ServerTypeOK /\ Loops
      /\ Booting /\ Table /\ List
  BY DEF TableInv, TypeOK
<1>1. PICK late \in BOOLEAN :
        fds' = [k \in DOMAIN fds |->
                  [fds[k] EXCEPT !.revents = Events(fds[k].fd, late)]]
  BY DEF Poll
<1>2. /\ pc = "poll" /\ pc' = "server"
      /\ UNCHANGED << queueVars, idx, readbuf, kernelVars, got >>
  BY DEF Poll
<1>3. \A fd : Events(fd, late) # {} => fd # -1
  BY DEF Events
<1>4. /\ FdsTypeOK' /\ Len(fds') = Len(fds)
      /\ \A k \in 1 .. Len(fds) :
           /\ fds'[k].fd = fds[k].fd
           /\ fds'[k].revents = Events(fds[k].fd, late)
  BY <1>0, <1>1, PollIs
<1>5. Wired' /\ Open' = Open
  BY <1>0, <1>2, StillWired
<1>6. Table'
  BY <1>0, <1>2, <1>3, <1>4, <1>5 DEF Table, Looping
<1>7. ServerTypeOK' /\ Booting'
  BY <1>0, <1>2 DEF ServerTypeOK, bootVars, Boot!Starting, Booting
<1>8. Loops'
  BY <1>0, <1>2, <1>5 DEF Loops, queueVars, Idle
<1>9. QueueTypeOK' /\ List'
  BY <1>0, <1>2, <1>5, SameQueue, SameList DEF queueVars
<1> QED
  BY <1>4, <1>5, <1>6, <1>7, <1>8, <1>9 DEF TableInv, TypeOK, Wired

(* The table is destroyed. *)
LEMMA FailsTables ==
  ASSUME TableInv, Fails, UNCHANGED bootVars
  PROVE  TableInv'
<1>0. /\ QueueTypeOK /\ FdsTypeOK /\ Wired /\ ServerTypeOK /\ Loops
      /\ Booting /\ Table /\ List
  BY DEF TableInv, TypeOK
<1>1. /\ pc \in { "poll", "server" } /\ pc' = "exited" /\ fds' = << >>
      /\ UNCHANGED << queueVars, idx, readbuf, kernelVars, got >>
  BY DEF Fails, PollFails, ServerFails, LeavesLoop, fds_state__destroy
<1>2. Wired' /\ Open' = Open
  BY <1>0, <1>1, StillWired
<1>3. FdsTypeOK' /\ Table'
  BY <1>1 DEF FdsTypeOK, Table, Looping
<1>4. ServerTypeOK' /\ Booting'
  BY <1>0, <1>1 DEF ServerTypeOK, bootVars, Boot!Starting, Booting
<1>5. Loops'
  BY <1>0, <1>1, <1>2 DEF Loops, queueVars, Idle
<1>6. QueueTypeOK' /\ List'
  BY <1>0, <1>1, <1>2, SameQueue, SameList DEF queueVars
<1> QED
  BY <1>2, <1>3, <1>4, <1>5, <1>6 DEF TableInv, TypeOK, Wired

(* Steps that only move the place in the loop *)
LEMMA MovesTables ==
  ASSUME TableInv, UNCHANGED bootVars,
         NoConnection \/ NoEvent \/ ClientsDone \/ FlushDone \/ Killed
  PROVE  TableInv'
<1>0. /\ QueueTypeOK /\ FdsTypeOK /\ Wired /\ ServerTypeOK /\ Loops
      /\ Booting /\ Table /\ List
  BY DEF TableInv, TypeOK
<1>1. /\ UNCHANGED << queueVars, fds, readbuf, kernelVars, got >>
      /\ pc \in { "server", "clients", "flush" }
      /\ pc' \in { "clients", "flush", "poll", "killed" }
      /\ idx' \in { 2, idx, idx + 1 }
      /\ pc' \notin { "flush", "killed" } =>
           Idle \/ pc \in { "server", "clients" }
  BY DEF NoConnection, NoEvent, ClientsDone, FlushDone, Killed, ToClients,
         AtClient
<1>2. Wired' /\ Open' = Open
  BY <1>0, <1>1, StillWired
<1>3. ServerTypeOK' /\ Booting' /\ (pc \in Looping <=> pc' \in Looping)
  BY <1>0, <1>1 DEF ServerTypeOK, bootVars, Boot!Starting, Booting, Looping
<1>4. idx' \in Nat /\ idx' >= 2
  BY <1>0, <1>1 DEF Loops, ServerTypeOK
<1>5. Loops'
  BY <1>0, <1>1, <1>2, <1>4 DEF Loops, queueVars, Idle
<1> QED
  BY <1>1, <1>2, <1>3, <1>5, SameTables

-----------------------------------------------------------------------------
(* The tables change: a connection is accepted, *)

LEMMA AcceptTables ==
  ASSUME TableInv, NEW fd \in AcceptReturns, Accept(fd), UNCHANGED bootVars
  PROVE  TableInv'
<1>0. /\ QueueTypeOK /\ FdsTypeOK /\ Wired /\ ServerTypeOK /\ Loops
      /\ Booting /\ Table /\ List
  BY DEF TableInv, TypeOK
<1>1. /\ pc = "server" /\ fd_state__watch(fd)
      /\ pc' = "clients" /\ idx' = 2
      /\ UNCHANGED << readbuf, got, bootVars >>
      /\ UNCHANGED queueVars \/ message_queue__register_client(fd)
      /\ IF fd = -1 THEN UNCHANGED kernelVars ELSE Accepts(fd)
  BY DEF Accept, ToClients
<1>2. fd = -1 \/ fd \in Descriptor \ Open
  BY DEF AcceptReturns, FreeFds
<1>3. /\ ServerFd \notin Open /\ -1 \notin Open /\ Open \subseteq Int
      /\ fd \in Int
  <2>1. -1 \in Int /\ Descriptor \subseteq Int
    BY SocketsAssumption DEF Descriptor, ServerFd
  <2> QED
    BY <1>0, <1>2, <2>1, ServerIsNoClient
<1>4. Wired' /\ Open \subseteq Open' /\ Open' \subseteq Open \cup { fd }
        /\ fd \in { -1 } \cup Open'
  <2>1. CASE fd = -1
    BY <1>0, <1>1, <2>1, StillWired
  <2>2. CASE fd # -1
    BY <1>0, <1>1, <1>2, <2>2, AcceptsWired
  <2> QED
    BY <2>1, <2>2
<1>5. fd # ServerFd
  BY <1>2 DEF Descriptor, ServerFd
<1>6. FdsTypeOK' /\ Table'
  <2>1. CASE fds' = fds
    BY <1>0, <1>1, <1>4, <2>1, SameTable DEF Looping
  <2>2. CASE fds' # fds
    <3>1. /\ FdsTypeOK' /\ Len(fds') = Len(fds) + 1
          /\ \A k \in 1 .. Len(fds) : fds'[k] = fds[k] /\ fds[k].fd # fd
          /\ fds'[Len(fds) + 1] = [fd |-> fd, revents |-> {}]
      BY <1>0, <1>1, <1>3, <2>2, WatchIs
    <3>2. Len(fds) \in Nat /\ Len(fds) >= 1 /\ fds[1].fd = ServerFd
      BY <1>0, <1>1 DEF FdsTypeOK, Table, Looping
    <3>3. \A k \in 1 .. Len(fds') :
            \/ k \in 1 .. Len(fds) /\ fds'[k] = fds[k] /\ fds[k].fd # fd
            \/ k = Len(fds) + 1 /\ fds'[k].fd = fd /\ fds'[k].revents = {}
      <4>1. \A k \in 1 .. Len(fds) + 1 :
              k \in 1 .. Len(fds) \/ k = Len(fds) + 1
        BY <3>2
      <4> QED
        BY <3>1, <4>1
    <3>4. \A k \in 1 .. Len(fds') : fds'[k].fd \in { -1, ServerFd } \cup Open'
      BY <1>0, <1>4, <3>3 DEF Table
    <3>5. \A k \in 1 .. Len(fds') : fds'[k].revents # {} => fds'[k].fd # -1
      BY <1>0, <3>3 DEF Table
    <3>6. \A j, k \in 1 .. Len(fds') : fds'[j].fd = fds'[k].fd => j = k
      BY <1>0, <3>3 DEF Table
    <3>7. Len(fds') >= 1 /\ fds'[1].fd = ServerFd
      BY <3>1, <3>2
    <3> QED
      BY <1>1, <3>1, <3>4, <3>5, <3>6, <3>7 DEF Table, Looping
  <2> QED
    BY <2>1, <2>2
<1>7. QueueTypeOK' /\ List' /\ UNCHANGED Loop
  <2>1. CASE UNCHANGED queueVars
    BY <1>0, <1>4, <2>1, SameQueue, SameList DEF queueVars, Loop
  <2>2. CASE message_queue__register_client(fd)
    <3>1. /\ QueueTypeOK' /\ UNCHANGED << Ring, Loop >>
          /\ \/ clients' = clients
             \/ /\ exists /\ Len(clients') = Len(clients) + 1
                /\ clients'[1] = NewClient(fd)
                /\ \A k \in 1 .. Len(clients) : clients'[k + 1] = clients[k]
      BY <1>0, <1>3, <2>2, RegisterIs
    <3>2. CASE clients' = clients
      BY <1>0, <1>4, <3>1, <3>2, SameList DEF Ring
    <3>3. CASE clients' # clients
      <4>1. Len(clients) \in Nat
        BY <1>0 DEF QueueTypeOK
      <4>2. \A k \in 1 .. Len(clients') :
              \/ k = 1 /\ clients'[k].fd = fd
              \/ /\ k - 1 \in 1 .. Len(clients)
                 /\ clients'[k] = clients[k - 1]
        <5>1. ASSUME NEW k \in 1 .. Len(clients) + 1, k # 1
              PROVE  k - 1 \in 1 .. Len(clients) /\ (k - 1) + 1 = k
          BY <4>1, <5>1
        <5>2. clients'[1].fd = fd
          BY <3>1, <3>3 DEF NewClient
        <5> QED
          BY <3>1, <3>3, <5>1, <5>2
      <4>3. \A k \in 1 .. Len(clients') : clients'[k].fd \in { -1 } \cup Open'
        BY <1>0, <1>4, <4>2 DEF List
      <4>4. \A k \in 1 .. Len(clients) : clients[k].fd = fd => fd = -1
        BY <1>0, <1>2 DEF List
      <4>5. ASSUME NEW j \in 1 .. Len(clients'), NEW k \in 1 .. Len(clients'),
                   clients'[j].fd = clients'[k].fd, clients'[j].fd # -1
            PROVE  j = k
        <5>1. CASE j = 1 \/ k = 1
          BY <4>2, <4>4, <4>5, <5>1
        <5>2. CASE j # 1 /\ k # 1
          <6>1. /\ j - 1 \in 1 .. Len(clients) /\ k - 1 \in 1 .. Len(clients)
                /\ clients'[j] = clients[j - 1] /\ clients'[k] = clients[k - 1]
            BY <4>2, <5>2
          <6>2. j - 1 = k - 1
            BY <1>0, <4>5, <6>1 DEF List
          <6>3. Len(clients') \in Nat
            BY <3>1, <3>3, <4>1
          <6> QED
            BY <6>2, <6>3
        <5> QED
          BY <5>1, <5>2
      <4>6. exists'
        BY <3>1, <3>3 DEF Ring
      <4> QED
        BY <3>1, <4>3, <4>5, <4>6 DEF List
    <3> QED
      BY <3>2, <3>3
  <2> QED
    BY <1>1, <2>1, <2>2
<1>8. ServerTypeOK' /\ Booting'
  BY <1>0, <1>1 DEF ServerTypeOK, bootVars, Boot!Starting, Booting
<1>9. Loops'
  BY <1>0, <1>1, <1>4, <1>7 DEF Loops, Loop, Idle
<1> QED
  BY <1>4, <1>6, <1>7, <1>8, <1>9 DEF TableInv, TypeOK, Wired

(* An event is one of an open connection. *)
LEMMA EventOfOpen ==
  ASSUME TableInv, AtClient, NEW e, Event(e)
  PROVE  /\ idx \in 2 .. Len(fds)
         /\ PeerOf(fds[idx].fd) \in Peer /\ fds[idx].fd \in Open
         /\ sock[PeerOf(fds[idx].fd)] = fds[idx].fd /\ fds[idx].fd # 0
<1>1. idx \in Nat /\ idx >= 2 /\ idx <= Len(fds) /\ Len(fds) \in Nat
  BY DEF TableInv, TypeOK, ServerTypeOK, FdsTypeOK, Loops, AtClient
<1>2. idx \in 1 .. Len(fds) /\ 1 \in 1 .. Len(fds) /\ idx # 1
        /\ idx \in 2 .. Len(fds)
  BY <1>1
<1>3. fds[idx].revents # {}
  BY DEF Event
<1>4. fds[idx].fd # -1
  BY <1>2, <1>3 DEF TableInv, Table
<1>5. fds[idx].fd # ServerFd
  BY <1>2 DEF TableInv, Table, AtClient, Looping
<1>6. fds[idx].fd \in Open
  BY <1>2, <1>4, <1>5 DEF TableInv, Table
<1> QED
  BY <1>2, <1>6, PeerOfOpen

(* a connection is closed. *)
LEMMA DisconnectTables ==
  ASSUME TableInv, NEW p \in Peer, AtClient, idx \in 2 .. Len(fds),
         fds[idx].fd = sock[p], sock[p] # 0,
         Disconnect(p), UNCHANGED bootVars
  PROVE  TableInv'
<1>0. /\ QueueTypeOK /\ FdsTypeOK /\ Wired /\ ServerTypeOK /\ Loops
      /\ Booting /\ Table /\ List
  BY DEF TableInv, TypeOK
<1>1. /\ pc = "clients" /\ pc' = pc /\ idx' = idx + 1
      /\ UNCHANGED << readbuf, got, bootVars >>
      /\ fd_state__unwatch(sock[p])
      /\ message_queue__unregister_client(sock[p])
      /\ Closes(p)
  BY DEF Disconnect, AtClient
<1>2. Wired' /\ Open' = Open \ { sock[p] } /\ sock[p] \in Open
  BY <1>0, <1>1, ClosesWired, PeerOfSock
<1>3. ServerFd \notin Open /\ -1 \notin Open
  BY <1>0, ServerIsNoClient
<1>4. Len(fds) \in Nat
  BY <1>0 DEF FdsTypeOK
<1>5. idx \in 1 .. Len(fds) /\ Len(fds) >= 2
  BY <1>4
<1>6. /\ FdsTypeOK' /\ Len(fds') = Len(fds) - 1
      /\ \A k \in 1 .. Len(fds) - 1 :
           fds'[k] = IF k = idx THEN fds[Len(fds)] ELSE fds[k]
  BY <1>0, <1>1, <1>5, UnwatchIs DEF Table
<1> DEFINE from == [k \in 1 .. Len(fds) - 1 |->
                      IF k = idx THEN Len(fds) ELSE k]
<1>7. /\ \A k \in 1 .. Len(fds) - 1 : from[k] \in 1 .. Len(fds)
      /\ \A k \in 1 .. Len(fds) - 1 : from[k] # idx
      /\ \A j, k \in 1 .. Len(fds) - 1 : from[j] = from[k] => j = k
      /\ from[1] = 1 /\ 1 \in 1 .. Len(fds) - 1
  BY <1>4, <1>5
<1>8. \A k \in 1 .. Len(fds) - 1 : fds'[k] = fds[from[k]]
  BY <1>6
<1> HIDE DEF from
<1>9. ASSUME NEW k \in 1 .. Len(fds')
      PROVE  /\ fds'[k].fd \in { -1, ServerFd } \cup Open'
             /\ fds'[k].revents # {} => fds'[k].fd # -1
  <2>1. k \in 1 .. Len(fds) - 1
    BY <1>6
  <2>2. from[k] \in 1 .. Len(fds) /\ from[k] # idx /\ fds'[k] = fds[from[k]]
    BY <1>7, <1>8, <2>1
  <2>3. fds[from[k]].fd # sock[p]
    BY <1>0, <1>5, <2>2 DEF Table
  <2> QED
    BY <1>0, <1>2, <2>2, <2>3 DEF Table
<1>10. ASSUME NEW j \in 1 .. Len(fds'), NEW k \in 1 .. Len(fds'),
              fds'[j].fd = fds'[k].fd
       PROVE  j = k
  <2>1. j \in 1 .. Len(fds) - 1 /\ k \in 1 .. Len(fds) - 1
    BY <1>6
  <2>2. from[j] \in 1 .. Len(fds) /\ from[k] \in 1 .. Len(fds)
    BY <1>7, <2>1
  <2>3. fds[from[j]].fd = fds[from[k]].fd
    BY <1>8, <1>10, <2>1
  <2>4. from[j] = from[k]
    BY <1>0, <2>2, <2>3 DEF Table
  <2> QED
    BY <1>7, <2>1, <2>4
<1>11. Len(fds') >= 1 /\ fds'[1].fd = ServerFd
  <2>1. fds[1].fd = ServerFd
    BY <1>0, <1>1 DEF Table, Looping
  <2> QED
    BY <1>4, <1>5, <1>6, <1>7, <1>8, <2>1
<1>12. Table'
  BY <1>1, <1>9, <1>10, <1>11 DEF Table, Looping
<1>13. /\ QueueTypeOK' /\ UNCHANGED << Ring, Loop >>
       /\ \A k \in 1 .. Len(clients') : clients'[k].fd # sock[p]
       /\ \E at : Selects(at)
  <2>1. \A j, k \in 1 .. Len(clients) :
          clients[j].fd = sock[p] /\ clients[k].fd = sock[p] => j = k
    BY <1>0, <1>2, <1>3 DEF List
  <2>2. ~ exists => clients = << >>
    BY <1>0 DEF List
  <2> QED
    BY <1>0, <1>1, <2>1, <2>2, UnregisterIs
<1>14. PICK at : Selects(at)
  BY <1>13
<1>15. ASSUME NEW k \in 1 .. Len(clients')
       PROVE  clients'[k].fd \in { -1 } \cup Open'
  <2>1. at[k] \in 1 .. Len(clients) /\ clients'[k] = clients[at[k]]
    BY <1>14 DEF Selects
  <2>2. clients'[k].fd \in { -1 } \cup Open /\ clients'[k].fd # sock[p]
    BY <1>0, <1>13, <2>1 DEF List
  <2> QED
    BY <1>2, <2>2
<1>16. List'
  <2>1. UNCHANGED exists
    BY <1>13 DEF Ring
  <2> QED
    BY <1>0, <1>13, <1>14, <1>15, <2>1, FewerClients DEF Selects
<1>17. ServerTypeOK' /\ Booting'
  BY <1>0, <1>1 DEF ServerTypeOK, bootVars, Boot!Starting, Booting
<1>18. Loops'
  BY <1>0, <1>1, <1>13 DEF Loops, ServerTypeOK, Loop, Idle
<1> QED
  BY <1>2, <1>6, <1>12, <1>13, <1>16, <1>17, <1>18
  DEF TableInv, TypeOK, Wired

-----------------------------------------------------------------------------
(* The client's message is read and queued, *)

LEMMA ReadTables ==
  ASSUME TableInv, NEW n \in 1 .. ReadMax, ReadMessage(n), UNCHANGED bootVars
  PROVE  TableInv'
<1>0. /\ QueueTypeOK /\ FdsTypeOK /\ Wired /\ ServerTypeOK /\ Loops
      /\ Booting /\ Table /\ List
  BY DEF TableInv, TypeOK
<1> DEFINE p == PeerOf(fds[idx].fd)
<1>1. /\ AtClient /\ pc = "clients" /\ pc' = "q" /\ Reads(p, n)
      /\ readbuf' = [from |-> p, first |-> taken[p] + 1, last |-> taken[p] + n]
      /\ UNCHANGED << queueVars, fds, idx, got >>
      /\ Event("IN")
  BY DEF ReadMessage, AtClient
<1>2. p \in Peer
  BY <1>1, EventOfOpen
<1> HIDE DEF p
<1>3. n \in Nat /\ n >= 1 /\ n <= ReadMax /\ ReadMax \in Nat
  BY ServerAssumption
<1>4. Wired' /\ Open' = Open
  BY <1>0, <1>1, <1>2, <1>3, ReadsWired
<1>5. /\ taken[p] \in Nat /\ given[p] \in Nat /\ sends \in Nat
      /\ given[p] <= sends /\ sends <= MaxUnits /\ n <= given[p] - taken[p]
      /\ MaxUnits \in Nat
  BY <1>0, <1>1, <1>2, SocketsAssumption
  DEF Wired, SocketsTypeOK, Reads, Unread
<1>6. readbuf' \in Message
  <2>1. /\ taken[p] + 1 \in 1 .. MaxUnits /\ taken[p] + n \in 1 .. MaxUnits
        /\ taken[p] + 1 <= taken[p] + n
        /\ taken[p] + n < (taken[p] + 1) + ReadMax
    BY <1>3, <1>5
  <2> QED
    BY <1>1, <1>2, <2>1, ServerAssumption
<1>7. ServerTypeOK' /\ Booting' /\ (pc \in Looping <=> pc' \in Looping)
  BY <1>0, <1>1, <1>6
  DEF ServerTypeOK, bootVars, Boot!Starting, Booting, Looping
<1>8. readbuf' # NULL
  BY <1>6, QueueAssumption
<1>9. Loops'
  BY <1>0, <1>1, <1>4, <1>8 DEF Loops, queueVars, Idle
<1> QED
  BY <1>1, <1>4, <1>7, <1>9, SameTables

LEMMA EnqueueTables ==
  ASSUME TableInv, Enqueue \/ EnqueueAgain, UNCHANGED bootVars
  PROVE  TableInv'
<1>0. /\ QueueTypeOK /\ FdsTypeOK /\ Wired /\ ServerTypeOK /\ Loops
      /\ Booting /\ Table /\ List
  BY DEF TableInv, TypeOK
<1>1. /\ pc \in { "q", "again" } /\ message_queue__q(readbuf)
      /\ UNCHANGED << fds, kernelVars, got, bootVars >>
      /\ \/ pc' = "drop" /\ UNCHANGED << idx, readbuf >>
         \/ pc' = "clients" /\ idx' = idx + 1 /\ readbuf' = NULL
  BY DEF Enqueue, EnqueueAgain, HandlerReturns
<1>2. readbuf \in Message
  BY <1>0, <1>1 DEF Loops, ServerTypeOK
<1>3. QueueTypeOK' /\ UNCHANGED << exists, clients, Loop >>
  BY <1>0, <1>1, <1>2, EnqueueIs
<1>4. Wired' /\ Open' = Open
  BY <1>0, <1>1, StillWired
<1>5. ServerTypeOK' /\ Booting' /\ (pc \in Looping <=> pc' \in Looping)
  BY <1>0, <1>1 DEF ServerTypeOK, bootVars, Boot!Starting, Booting, Looping
<1>6. List'
  BY <1>0, <1>3, <1>4, SameList
<1>7. Loops'
  BY <1>0, <1>1, <1>3, <1>4 DEF Loops, ServerTypeOK, Loop, Idle
<1> QED
  BY <1>1, <1>3, <1>4, <1>5, <1>6, <1>7, SameFds

LEMMA DropTables ==
  ASSUME TableInv, DropSlowConsumers, UNCHANGED bootVars
  PROVE  TableInv'
<1>0. /\ QueueTypeOK /\ FdsTypeOK /\ Wired /\ ServerTypeOK /\ Loops
      /\ Booting /\ Table /\ List
  BY DEF TableInv, TypeOK
<1>1. /\ pc = "drop" /\ pc' = "again" /\ message_queue__drop_slow_consumers
      /\ UNCHANGED << idx, readbuf, fds, kernelVars, got, bootVars >>
  BY DEF DropSlowConsumers
<1>2. /\ QueueTypeOK' /\ UNCHANGED << exists, Loop >>
      /\ \E at : Selects(at)
  BY <1>0, <1>1, DropIs DEF Ring
<1>3. Wired' /\ Open' = Open
  BY <1>0, <1>1, StillWired
<1>4. ServerTypeOK' /\ Booting' /\ (pc \in Looping <=> pc' \in Looping)
  BY <1>0, <1>1 DEF ServerTypeOK, bootVars, Boot!Starting, Booting, Looping
<1>5. List'
  <2>1. PICK at : Selects(at)
    BY <1>2
  <2>2. \A k \in 1 .. Len(clients') : clients'[k].fd \in { -1 } \cup Open'
    BY <1>0, <1>3, <2>1 DEF List, Selects
  <2> QED
    BY <1>0, <1>2, <2>1, <2>2, FewerClients DEF Selects
<1>6. Loops'
  BY <1>0, <1>1, <1>2, <1>3 DEF Loops, Loop, Idle
<1> QED
  BY <1>1, <1>2, <1>3, <1>4, <1>5, <1>6, SameFds

-----------------------------------------------------------------------------
(* and written to the others. *)

(* A step of a flush *)
LEMMA FlushStepTables ==
  ASSUME TableInv, QueueTypeOK', List', Wired', Open' = Open,
         pc = "flush", UNCHANGED << pc, readbuf, fds, bootVars >>,
         idx' \in { idx, idx + 1 }, got' \in [Peer -> Seq(Message)],
         writing' \in { Nobody, -1 } \cup Open
  PROVE  TableInv'
<1>0. ServerTypeOK /\ Loops /\ Booting
  BY DEF TableInv, TypeOK
<1>1. ServerTypeOK' /\ Booting' /\ (pc \in Looping <=> pc' \in Looping)
  BY <1>0 DEF ServerTypeOK, bootVars, Boot!Starting, Booting
<1>2. Loops'
  BY <1>0 DEF Loops, ServerTypeOK
<1> QED
  BY <1>1, <1>2, SameFds

LEMMA FlushTables ==
  ASSUME TableInv, Flush, UNCHANGED bootVars
  PROVE  TableInv'
<1>0. /\ QueueTypeOK /\ FdsTypeOK /\ Wired /\ ServerTypeOK /\ Loops
      /\ Booting /\ Table /\ List
  BY DEF TableInv, TypeOK
<1>1. /\ pc = "flush" /\ idx <= Len(fds) /\ idx' \in { idx, idx + 1 }
      /\ message_queue__flush(fds[idx].fd)
      /\ UNCHANGED << pc, readbuf, fds, kernelVars, got, bootVars >>
  BY DEF Flush, AfterFlush
<1>2. Wired' /\ Open' = Open
  BY <1>0, <1>1, StillWired
<1>3. idx \in 1 .. Len(fds) /\ 1 \in 1 .. Len(fds) /\ idx # 1
  BY <1>0, <1>1 DEF Loops, ServerTypeOK, FdsTypeOK
<1>4. fds[idx].fd \in { -1 } \cup Open
  BY <1>0, <1>1, <1>3 DEF Table, Looping
<1>5. Open \subseteq Int
  BY <1>0, ServerIsNoClient
<1>6. /\ writing' \in { writing, fds[idx].fd } /\ i' \in Slot
      /\ UNCHANGED << Ring, clients >> /\ result' \in ReturnCode
  <2>1. ASSUME ClientOf(fds[idx].fd) # 0
        PROVE  clients[ClientOf(fds[idx].fd)].roff \in Slot
    <3> DEFINE n == ClientOf(fds[idx].fd)
    <3>1. n \in 1 .. Len(clients)
      BY <1>0, <2>1, ClientIndex
    <3> HIDE DEF n
    <3>2. clients \in Seq(Client)
      BY <1>0 DEF QueueTypeOK, Client
    <3>3. clients[n] \in Client
      BY <3>1, <3>2
    <3>4. clients[n].roff \in Slot
      BY <3>3 DEF Client
    <3> QED
      BY <3>4 DEF n
  <2> QED
    BY <1>0, <1>1, <2>1
    DEF message_queue__flush, Loop, QueueTypeOK, ReturnCode
<1>7. QueueTypeOK'
  BY <1>0, <1>4, <1>5, <1>6 DEF QueueTypeOK, Ring
<1>8. List'
  BY <1>0, <1>2, <1>6, SameList DEF Ring
<1>9. writing' \in { Nobody, -1 } \cup Open
  BY <1>0, <1>4, <1>6 DEF Loops
<1> QED
  BY <1>0, <1>1, <1>2, <1>7, <1>8, <1>9, FlushStepTables DEF ServerTypeOK

LEMMA LeaveLoopKeeps ==
  ASSUME QueueTypeOK, NEW roff \in Slot, NEW code \in ReturnCode,
         LeaveLoop(roff, code)
  PROVE  /\ QueueTypeOK' /\ UNCHANGED Ring /\ writing' = Nobody
         /\ Len(clients') = Len(clients) /\ DOMAIN clients' = DOMAIN clients
         /\ \A k \in 1 .. Len(clients) : clients'[k].fd = clients[k].fd
<1>1. /\ QueueTypeOK' /\ UNCHANGED Ring /\ writing' = Nobody
      /\ Len(clients') = Len(clients)
      /\ \A k \in 1 .. Len(clients) :
            clients'[k] = [fd |-> clients[k].fd,
                           roff |-> IF k = ClientOf(writing) THEN roff
                                    ELSE clients[k].roff]
  BY LeaveLoopIs
<1>2. ASSUME NEW k \in 1 .. Len(clients)
      PROVE  clients'[k].fd = clients[k].fd
  <2> DEFINE a == clients[k].fd
             b == IF k = ClientOf(writing) THEN roff ELSE clients[k].roff
  <2>1. clients'[k] = [fd |-> a, roff |-> b]
    BY <1>1
  <2> HIDE DEF a, b
  <2>2. clients'[k].fd = a
    BY <2>1
  <2> QED
    BY <2>2 DEF a
<1>3. /\ DOMAIN clients' = 1 .. Len(clients')
      /\ DOMAIN clients = 1 .. Len(clients)
  BY <1>1 DEF QueueTypeOK
<1> QED
  BY <1>1, <1>2, <1>3

LEMMA LeaveLoopList ==
  ASSUME QueueTypeOK, List, NEW roff \in Slot, NEW code \in ReturnCode,
         LeaveLoop(roff, code), Open' = Open
  PROVE  QueueTypeOK' /\ List' /\ writing' = Nobody
<1>1. /\ QueueTypeOK' /\ UNCHANGED Ring /\ writing' = Nobody
      /\ Len(clients') = Len(clients)
      /\ \A k \in 1 .. Len(clients) : clients'[k].fd = clients[k].fd
  BY LeaveLoopKeeps
<1> DEFINE at == [k \in 1 .. Len(clients') |-> k]
<1>2. /\ at \in [1 .. Len(clients') -> 1 .. Len(clients)]
      /\ \A j, k \in 1 .. Len(clients') : at[j] = at[k] => j = k
      /\ \A k \in 1 .. Len(clients') : clients'[k].fd = clients[at[k]].fd
  BY <1>1
<1> HIDE DEF at
<1>3. \A k \in 1 .. Len(clients') : clients'[k].fd \in { -1 } \cup Open'
  BY <1>1 DEF List
<1>4. UNCHANGED exists
  BY <1>1 DEF Ring
<1> QED
  BY <1>1, <1>2, <1>3, <1>4, FewerClients

LEMMA FlushFinishesTables ==
  ASSUME TableInv, FlushFinishes, UNCHANGED bootVars
  PROVE  TableInv'
<1>0. /\ QueueTypeOK /\ FdsTypeOK /\ Wired /\ ServerTypeOK /\ Loops
      /\ Booting /\ Table /\ List
  BY DEF TableInv, TypeOK
<1>1. /\ pc = "flush" /\ idx' \in { idx, idx + 1 }
      /\ FlushSkips \/ FlushEnds
      /\ UNCHANGED << pc, readbuf, fds, kernelVars, got, bootVars >>
  BY DEF FlushFinishes, AfterFlush
<1>2. Wired' /\ Open' = Open
  BY <1>0, <1>1, StillWired
<1>3. CASE FlushSkips
  <2>1. /\ QueueTypeOK' /\ writing' = writing
        /\ UNCHANGED << exists, clients >>
    BY <1>0, <1>3, AdvanceTyped DEF FlushSkips, QueueTypeOK, Ring
  <2>2. List'
    BY <1>0, <1>2, <2>1, SameList
  <2> QED
    BY <1>0, <1>1, <1>2, <2>1, <2>2, FlushStepTables DEF ServerTypeOK, Loops
<1>4. CASE FlushEnds
  <2>1. LeaveLoop(end, "0") /\ end \in Slot /\ "0" \in ReturnCode
    BY <1>0, <1>4 DEF FlushEnds, QueueTypeOK, ReturnCode
  <2>2. QueueTypeOK' /\ List' /\ writing' = Nobody
    BY <1>0, <1>2, <2>1, LeaveLoopList
  <2> QED
    BY <1>0, <1>1, <1>2, <2>2, FlushStepTables DEF ServerTypeOK
<1> QED
  BY <1>1, <1>3, <1>4

LEMMA WritingIsPeer ==
  ASSUME TableInv, writing # Nobody, writing # -1
  PROVE  /\ writing \in Open /\ PeerOf(writing) \in Peer
         /\ sock[PeerOf(writing)] = writing /\ writing # 0
<1>1. writing \in Open
  BY DEF TableInv, Loops
<1> QED
  BY <1>1, PeerOfOpen

LEMMA WriteTables ==
  ASSUME TableInv, Write, UNCHANGED bootVars
  PROVE  TableInv'
<1>0. /\ QueueTypeOK /\ FdsTypeOK /\ Wired /\ ServerTypeOK /\ Loops
      /\ Booting /\ Table /\ List
  BY DEF TableInv, TypeOK
<1> DEFINE p == PeerOf(writing)
<1>1. /\ pc = "flush" /\ FlushWrites /\ writing > 0 /\ Writes(p)
      /\ got' = [got EXCEPT ![p] = Append(@, messages[i])]
      /\ UNCHANGED << serverVars, fds, bootVars >>
  BY DEF Write
<1>2. p \in Peer
  <2>1. writing # Nobody /\ writing # -1
    BY <1>0, <1>1 DEF Nobody, QueueTypeOK
  <2> QED
    BY <2>1, WritingIsPeer
<1> HIDE DEF p
<1>3. Wired' /\ Open' = Open
  BY <1>0, <1>1, <1>2, WritesWired
<1>4. messages[i] \in Message
  BY <1>0, <1>1 DEF FlushWrites, AtMessage, QueueTypeOK
<1>5. got' \in [Peer -> Seq(Message)]
  <2>1. got \in [Peer -> Seq(Message)]
    BY <1>0 DEF ServerTypeOK
  <2>2. Append(got[p], messages[i]) \in Seq(Message)
    BY <1>2, <1>4, <2>1
  <2> QED
    BY <1>1, <2>1, <2>2
<1>6. /\ QueueTypeOK' /\ writing' = writing
      /\ UNCHANGED << exists, clients >>
  BY <1>0, <1>1, AdvanceTyped DEF FlushWrites, QueueTypeOK, Ring
<1>7. List'
  BY <1>0, <1>3, <1>6, SameList
<1> QED
  BY <1>0, <1>1, <1>3, <1>5, <1>6, <1>7, FlushStepTables
  DEF serverVars, Loops

LEMMA WriteFailsTables ==
  ASSUME TableInv, WriteFails, UNCHANGED bootVars
  PROVE  TableInv'
<1>0. /\ QueueTypeOK /\ FdsTypeOK /\ Wired /\ ServerTypeOK /\ Loops
      /\ Booting /\ Table /\ List
  BY DEF TableInv, TypeOK
<1>1. /\ pc = "flush" /\ idx' \in { idx, idx + 1 }
      /\ LeaveLoop(i, "-1") /\ writing # Nobody
      /\ IF writing = -1 THEN UNCHANGED kernelVars
         ELSE ReportsReset(PeerOf(writing))
      /\ UNCHANGED << pc, readbuf, fds, got, bootVars >>
  BY DEF WriteFails, FlushFails, AtMessage, AfterFlush, Idle
<1>2. Wired' /\ Open' = Open
  <2>1. CASE writing = -1
    BY <1>0, <1>1, <2>1, StillWired
  <2>2. CASE writing # -1
    BY <1>0, <1>1, <2>2, WritingIsPeer, ReportsResetWired
  <2> QED
    BY <2>1, <2>2
<1>3. i \in Slot /\ "-1" \in ReturnCode
  BY <1>0 DEF QueueTypeOK, ReturnCode
<1>4. QueueTypeOK' /\ List' /\ writing' = Nobody
  BY <1>0, <1>1, <1>2, <1>3, LeaveLoopList
<1> QED
  BY <1>0, <1>1, <1>2, <1>4, FlushStepTables DEF ServerTypeOK

-----------------------------------------------------------------------------
LEMMA ServerTables ==
  ASSUME TableInv, Server, UNCHANGED bootVars
  PROVE  TableInv'
<1>1. CASE ReadEnds \/ HangsUp
  <2>1. PICK e : AtClient /\ Event(e) /\ Disconnect(PeerOf(fds[idx].fd))
    BY <1>1 DEF ReadEnds, HangsUp
  <2>2. /\ idx \in 2 .. Len(fds) /\ PeerOf(fds[idx].fd) \in Peer
        /\ sock[PeerOf(fds[idx].fd)] = fds[idx].fd /\ fds[idx].fd # 0
    BY <2>1, EventOfOpen
  <2> QED
    BY <2>1, <2>2, DisconnectTables
<1>2. CASE ~ (ReadEnds \/ HangsUp)
  BY <1>2, PollTables, MovesTables, AcceptTables, ReadTables, EnqueueTables,
     DropTables, FlushTables, FlushFinishesTables, WriteTables,
     WriteFailsTables
  DEF Server
<1> QED
  BY <1>1, <1>2

LEMMA NextTables ==
  ASSUME TableInv, [Next]_vars
  PROVE  TableInv'
<1>1. CASE UNCHANGED vars
  <2>1. Wired' /\ Open' = Open
    BY <1>1, StillWired DEF vars, TableInv
  <2>2. got' \in [Peer -> Seq(Message)]
    BY <1>1 DEF vars, TableInv, TypeOK, ServerTypeOK
  <2> QED
    BY <1>1, <2>1, <2>2, OutsideTables DEF vars
<1>2. CASE Next
  BY <1>2, StartTables, ServerTables, FailsTables, EnvironmentTables
  DEF Next, Listening
<1> QED
  BY <1>1, <1>2

(* The types, the two tables and the place in the loop fit together at     *)
(* every step, whatever fails.                                             *)
THEOREM TablesHold == Spec => []TableInv
BY InitTables, NextTables, PTL DEF Spec

(* What is in the table and in the list is open. *)
LEMMA EntriesAreOpen ==
  ASSUME TableInv PROVE Watched \subseteq Open /\ Registered \subseteq Open
<1>0. Table /\ List /\ FdsTypeOK /\ DOMAIN clients = 1 .. Len(clients)
  BY DEF TableInv, TypeOK, QueueTypeOK
<1>1. Registered \subseteq Open
  BY <1>0 DEF Registered, List
<1>2. ASSUME NEW k \in 2 .. Len(fds) PROVE fds[k].fd \in { -1 } \cup Open
  <2>1. Len(fds) \in Nat /\ fds # << >>
    BY <1>0, <1>2 DEF FdsTypeOK
  <2>2. k \in 1 .. Len(fds) /\ 1 \in 1 .. Len(fds) /\ k # 1
    BY <2>1
  <2> QED
    BY <1>0, <2>1, <2>2 DEF Table
<1> QED
  BY <1>1, <1>2 DEF Watched

(* Whatever is accepted, fails or leaves, in whatever order: what is in    *)
(* the table of descriptors and in the list of clients is open, and once,  *)
(* so that no entry speaks for a connection it was not made for.           *)
THEOREM NoEntryOutlivesItsConnection == Spec => []NoStaleDescriptor
<1>1. TableInv => NoStaleDescriptor
  <2> SUFFICES ASSUME TableInv PROVE NoStaleDescriptor
    OBVIOUS
  <2>1. /\ Table /\ List
        /\ DOMAIN fds = 1 .. Len(fds) /\ DOMAIN clients = 1 .. Len(clients)
    BY DEF TableInv, TypeOK, FdsTypeOK, QueueTypeOK
  <2> QED
    BY <2>1, EntriesAreOpen DEF NoStaleDescriptor, Table, List
<1> QED
  BY <1>1, TablesHold, PTL

-----------------------------------------------------------------------------
(* The history.  The server takes no message out of the ring, so the       *)
(* oldest one stays in slot 0, and the ring fills up once.                 *)
Filled ==
  /\ start \in { MQ_EMPTY_SENTINEL, 0 }
  /\ start = MQ_EMPTY_SENTINEL => end = 0
  /\ ~ exists => start = MQ_EMPTY_SENTINEL
  /\ \A slot \in Slot : messages[slot] # NULL <=> slot < get_length
  /\ pc = "drop" => exists /\ start = end

(* The slot at which a client goes on that has been written n messages *)
Lap(n) == IF n = Capacity THEN 0 ELSE n

Position(c) == IF writing = c.fd THEN i ELSE c.roff

(* What was written to a connection is the first part of the history, and  *)
(* its client's offset tells how much.                                     *)
Shown ==
  /\ \A p \in Peer :
       /\ Len(got[p]) <= get_length
       /\ \A k \in 1 .. Len(got[p]) : got[p][k] = messages[k - 1]
       /\ sock[p] = 0 /\ link[p] # "none" => got[p] = << >>
  /\ \A p \in Peer : \A k \in 1 .. Len(clients) :
       clients[k].fd = sock[p] =>
         Position(clients[k]) = Lap(Len(got[p]))
  /\ writing \in Open =>
       \E k \in 1 .. Len(clients) : clients[k].fd = writing

HistoryInv == Filled /\ Shown

(* The history, as long as no message is taken out *)
History == [k \in 1 .. get_length |-> messages[k - 1]]

LEMMA LengthIs ==
  ASSUME QueueTypeOK, Filled
  PROVE  /\ get_length \in 0 .. Capacity /\ end = Lap(get_length)
         /\ start = MQ_EMPTY_SENTINEL <=> get_length = 0
         /\ start = end <=> get_length = Capacity
<1>1. end \in 0 .. Capacity - 1 /\ Capacity \in Nat \ {0}
  BY QueueAssumption DEF QueueTypeOK, Slot
<1>2. CASE start = MQ_EMPTY_SENTINEL
  BY <1>1, <1>2 DEF get_length, Lap, Filled, MQ_EMPTY_SENTINEL
<1>3. CASE start # MQ_EMPTY_SENTINEL
  <2>1. start = 0
    BY <1>3 DEF Filled
  <2>2. get_length = IF 0 < end THEN end - 0 ELSE (Capacity - 0) + end
    BY <1>3, <2>1 DEF get_length
  <2> QED
    BY <1>1, <1>3, <2>1, <2>2 DEF Lap
<1> QED
  BY <1>2, <1>3

LEMMA ContentIs ==
  ASSUME QueueTypeOK, Filled
  PROVE  /\ Content = History /\ Content \in Seq(Message)
         /\ Len(Content) = get_length
         /\ \A k \in 1 .. get_length : Content[k] = messages[k - 1]
<1> DEFINE L == get_length
<1>1. L \in 0 .. Capacity /\ Capacity \in Nat \ {0} /\ L \in Nat
        /\ (L > 0 => start = 0)
  BY LengthIs, QueueAssumption DEF Filled
<1>2. \A slot \in Slot : messages[slot] # NULL <=> slot < L
  BY DEF Filled
<1> HIDE DEF L
<1> DEFINE First(n) ==
      /\ \A k \in 0 .. n - 1 : messages[(start + k) % Capacity] = NULL
      /\ n < L => messages[(start + n) % Capacity] # NULL
<1>3. Skipped = CHOOSE n \in 0 .. L : First(n)
  BY DEF Skipped, L
<1>4. L > 0 => messages[(start + 0) % Capacity] # NULL
  <2> SUFFICES ASSUME L > 0 PROVE messages[(start + 0) % Capacity] # NULL
    OBVIOUS
  <2>1. start = 0 /\ (start + 0) % Capacity = 0 /\ 0 \in Slot
    BY <1>1, ZeroIsSlot
  <2> QED
    BY <1>2, <2>1
<1>5. First(0) /\ 0 \in 0 .. L
  BY <1>1, <1>4
<1>6. ASSUME NEW n \in 0 .. L, First(n) PROVE n = 0
  <2>1. CASE n = 0
    BY <2>1
  <2>2. CASE n # 0
    <3>1. 0 \in 0 .. n - 1 /\ L > 0
      BY <1>1, <1>6, <2>2
    <3>2. messages[(start + 0) % Capacity] = NULL
      BY <1>6, <3>1
    <3> QED
      BY <1>4, <3>1, <3>2
  <2> QED
    BY <2>1, <2>2
<1>7. Skipped = 0
  <2> HIDE DEF First
  <2> QED
    BY <1>3, <1>5, <1>6
<1>8. Content = [k \in 1 .. L - 0 |->
                   messages[(start + 0 + k - 1) % Capacity]]
  BY <1>7 DEF Content, L
<1>9. \A k \in 1 .. L : /\ (start + 0 + k - 1) % Capacity = k - 1
                        /\ k - 1 \in Slot /\ k - 1 < L
  <2> SUFFICES ASSUME NEW k \in 1 .. L
               PROVE  /\ (start + 0 + k - 1) % Capacity = k - 1
                      /\ k - 1 \in Slot /\ k - 1 < L
    OBVIOUS
  <2>1. start = 0 /\ k - 1 \in 0 .. Capacity - 1 /\ k - 1 < L
    BY <1>1
  <2>2. start + 0 + k - 1 = k - 1
    BY <1>1, <2>1
  <2>3. (k - 1) % Capacity = k - 1
    BY <1>1, <2>1
  <2> QED
    BY <2>1, <2>2, <2>3 DEF Slot
<1>10. Content = [k \in 1 .. L |-> messages[k - 1]] /\ L - 0 = L
  <2>1. L - 0 = L
    BY <1>1
  <2>2. Content = [k \in 1 .. L |-> messages[(start + 0 + k - 1) % Capacity]]
    BY <1>8, <2>1
  <2>3. \A k \in 1 .. L : messages[(start + 0 + k - 1) % Capacity]
                             = messages[k - 1]
    BY <1>9, Zenon
  <2> QED
    BY <2>1, <2>2, <2>3, Zenon
<1>11. \A k \in 1 .. L : messages[k - 1] \in Message
  BY <1>2, <1>9 DEF QueueTypeOK
<1>12. Content \in [1 .. L -> Message]
  BY <1>10, <1>11
<1>13. Content \in Seq(Message) /\ Len(Content) = L
  BY <1>1, <1>12, SeqDef
<1> QED
  BY <1>10, <1>13 DEF History, L

LEMMA SameHistory ==
  ASSUME UNCHANGED Ring PROVE get_length' = get_length /\ History' = History
BY DEF Ring, get_length, History

LEMMA SameFilled ==
  ASSUME Filled, UNCHANGED Ring, pc' = "drop" => exists /\ start = end
  PROVE  Filled'
<1>1. get_length' = get_length
  BY SameHistory
<1> QED
  BY <1>1 DEF Filled, Ring

LEMMA SameShown ==
  ASSUME Shown, UNCHANGED << Ring, Loop, clients, sock, got >>,
         \A p \in Peer : link'[p] # "none" => link[p] # "none"
  PROVE  Shown'
<1>1. get_length' = get_length
  BY SameHistory
<1> QED
  BY <1>1 DEF Shown, Ring, Loop, Position, Open

-----------------------------------------------------------------------------
(* Every step keeps the history and what is known of its readers. *)

LEMMA InitHistory == Init => HistoryInv
<1> SUFFICES ASSUME Init PROVE HistoryInv
  OBVIOUS
<1>1. get_length = 0
  BY DEF Init, get_length
<1>2. Filled
  BY <1>1, QueueAssumption
  DEF Init, Filled, EmptyRing, Slot, Boot!ListeningInit
<1>3. \A p \in Peer : got[p] = << >> /\ Len(got[p]) = 0
  BY DEF Init
<1>4. writing \notin Open /\ clients = << >> /\ Len(clients) = 0
  <2>1. Open = {}
    BY DEF Init, SocketsInit, Open
  <2> QED
    BY <2>1 DEF Init
<1>5. Shown
  BY <1>1, <1>3, <1>4 DEF Shown
<1> QED
  BY <1>2, <1>5 DEF HistoryInv

LEMMA JoinsHistory ==
  ASSUME TableInv, HistoryInv, NEW p \in Peer, Outside(Joins(p))
  PROVE  HistoryInv'
<1>0. Filled /\ Shown /\ Wired /\ QueueTypeOK /\ ServerTypeOK
  BY DEF HistoryInv, TableInv, TypeOK
<1>1. /\ Connect(p) /\ got' = [got EXCEPT ![p] = << >>]
      /\ UNCHANGED << Ring, Loop, clients, pc, sock >>
      /\ link' = [link EXCEPT ![p] = "up"]
  BY DEF Outside, Joins, Connect, queueVars, serverVars, Ring, Loop
<1>2. sock[p] = 0 /\ Open' = Open
  BY <1>0, <1>1, ConnectWired
<1>3. Filled'
  BY <1>0, <1>1, SameFilled DEF Filled
<1>4. /\ \A q \in Peer : got'[q] = IF q = p THEN << >> ELSE got[q]
      /\ \A q \in Peer : link'[q] = IF q = p THEN "up" ELSE link[q]
  BY <1>0, <1>1 DEF ServerTypeOK, Wired, SocketsTypeOK
<1>5. get_length' = get_length /\ get_length \in Nat /\ Len(<< >>) = 0
  BY <1>0, <1>1, SameHistory, LengthIs, QueueAssumption
<1>6. UNCHANGED << writing, i, messages >>
  BY <1>1 DEF Ring, Loop
<1>7. \A q \in Peer :
        /\ Len(got'[q]) <= get_length'
        /\ \A k \in 1 .. Len(got'[q]) : got'[q][k] = messages'[k - 1]
        /\ sock'[q] = 0 /\ link'[q] # "none" => got'[q] = << >>
  BY <1>0, <1>1, <1>4, <1>5, <1>6 DEF Shown
<1>8. ASSUME NEW q \in Peer, NEW k \in 1 .. Len(clients),
             clients[k].fd = sock[q]
      PROVE  Position(clients[k])' = Lap(Len(got'[q]))
  <2>1. q # p
    <3>1. clients[k].fd # 0
      <4>1. 0 \notin Open
        BY DEF Open
      <4> QED
        BY <4>1 DEF TableInv, List
    <3> QED
      BY <1>2, <1>8, <3>1
  <2> QED
    BY <1>0, <1>1, <1>4, <1>6, <1>8, <2>1 DEF Shown, Position
<1>9. Shown'
  BY <1>0, <1>1, <1>2, <1>6, <1>7, <1>8 DEF Shown, Lap
<1> QED
  BY <1>3, <1>9 DEF HistoryInv

(* Steps that leave the queue and the connections as they are *)
LEMMA QuietHistory ==
  ASSUME HistoryInv, UNCHANGED << Ring, Loop, clients, sock, got >>,
         pc' = "drop" => exists /\ start = end,
         \A p \in Peer : link'[p] # "none" => link[p] # "none"
  PROVE  HistoryInv'
BY SameFilled, SameShown DEF HistoryInv

LEMMA EnvironmentHistory ==
  ASSUME TableInv, HistoryInv, Environment
  PROVE  HistoryInv'
<1>1. CASE \E p \in Peer : Outside(Joins(p))
  BY <1>1, JoinsHistory
<1>2. CASE ~ \E p \in Peer : Outside(Joins(p))
  <2>1. PICK p \in Peer :
          \/ Outside(Send(p) /\ UNCHANGED got)
          \/ Outside(PeerReads(p) /\ UNCHANGED got)
          \/ Outside(PeerCloses(p) /\ UNCHANGED got)
          \/ Outside(ResetArrives(p) /\ UNCHANGED got)
    BY <1>2 DEF Environment
  <2>2. UNCHANGED << Ring, Loop, clients, pc, sock, got >>
    BY <2>1
    DEF Outside, Send, PeerReads, PeerCloses, ResetArrives, queueVars,
        serverVars, Ring, Loop
  <2>3. link \in [Peer -> LinkState]
    BY DEF TableInv, Wired, SocketsTypeOK
  <2>4. \A q \in Peer : link'[q] # "none" => link[q] # "none"
    BY <2>1, <2>3 DEF Outside, Send, PeerReads, PeerCloses, ResetArrives
  <2> QED
    BY <2>2, <2>4, QuietHistory DEF HistoryInv, Filled
<1> QED
  BY <1>1, <1>2

LEMMA StartHistory ==
  ASSUME TableInv, HistoryInv, Start \/ StartFails
  PROVE  HistoryInv'
<1>0. /\ UNCHANGED << kernelVars, got >> /\ pc' # "drop"
      /\ UNCHANGED queueVars \/ message_queue__init
  BY DEF Start, StartFails, GetServerSocket, GetServerSocketFails,
         CreateQueue, CreateTable, CreateTableFails, WatchServer, StartVars,
         Boot!Proceeds, Boot!GivesUp, Boot!GetAddrInfo, Boot!GetAddrInfoFails,
         Boot!Socket, Boot!SocketFails, Boot!NoSocket, Boot!Bind,
         Boot!BindFails, Boot!Listen, Boot!ListenFails, Boot!Exit
<1>1. CASE UNCHANGED queueVars
  BY <1>0, <1>1, QuietHistory DEF queueVars, kernelVars, Ring, Loop
<1>2. CASE message_queue__init
  <2>1. /\ messages' = EmptyRing /\ start' = MQ_EMPTY_SENTINEL /\ end' = 0
        /\ exists' /\ clients' = << >> /\ UNCHANGED Loop /\ ~ exists
    BY <1>2 DEF message_queue__init
  <2>2. get_length' = 0
    BY <2>1 DEF get_length
  <2>3. Filled'
    BY <1>0, <2>1, <2>2, QueueAssumption DEF Filled, EmptyRing, Slot
  <2>4. QueueTypeOK /\ Filled /\ Shown /\ got \in [Peer -> Seq(Message)]
    BY DEF TableInv, TypeOK, ServerTypeOK, HistoryInv
  <2>5. get_length = 0
    BY <2>1, <2>4, LengthIs DEF Filled
  <2>6. \A p \in Peer : got[p] = << >> /\ Len(got[p]) = 0
    BY <2>4, <2>5 DEF Shown
  <2>7. clients = << >> /\ Len(clients) = 0 /\ Len(clients') = 0
    BY <2>1 DEF TableInv, List
  <2>8. UNCHANGED << sock, link, got, writing >>
    BY <1>0, <2>1 DEF kernelVars, Loop
  <2>9. writing \notin Open
    BY <2>4, <2>7 DEF Shown
  <2>10. Open' = Open
    BY <2>8 DEF Open
  <2>11. Shown'
    BY <2>2, <2>6, <2>7, <2>8, <2>9, <2>10 DEF Shown
  <2> QED
    BY <2>3, <2>11 DEF HistoryInv
<1> QED
  BY <1>0, <1>1, <1>2

LEMMA ServerIsQuiet ==
  ASSUME TableInv, HistoryInv,
         \/ Poll \/ NoConnection \/ NoEvent \/ ClientsDone \/ Killed
         \/ FlushDone \/ Fails \/ \E n \in 1 .. ReadMax : ReadMessage(n)
  PROVE  HistoryInv'
<1>1. UNCHANGED << Ring, Loop, clients, sock, link, got >> /\ pc' # "drop"
  BY DEF Poll, NoConnection, NoEvent, ClientsDone, Killed, FlushDone, Fails,
         PollFails, ServerFails, LeavesLoop, ReadMessage, Reads, ToClients,
         AtClient, queueVars, kernelVars, Ring, Loop
<1> QED
  BY <1>1, QuietHistory

LEMMA AcceptHistory ==
  ASSUME TableInv, TableInv', HistoryInv, NEW fd \in AcceptReturns, Accept(fd)
  PROVE  HistoryInv'
<1>0. /\ QueueTypeOK /\ Wired /\ ServerTypeOK /\ Loops /\ List
      /\ Filled /\ Shown
  BY DEF TableInv, TypeOK, HistoryInv
<1>1. /\ pc = "server" /\ pc' = "clients" /\ UNCHANGED got
      /\ UNCHANGED queueVars \/ message_queue__register_client(fd)
      /\ IF fd = -1 THEN UNCHANGED kernelVars ELSE Accepts(fd)
  BY DEF Accept, ToClients
<1>2. fd = -1 \/ fd \in Descriptor \ Open
  BY DEF AcceptReturns, FreeFds
<1>3. fd \in Int
  <2>1. -1 \in Int /\ Descriptor \subseteq Int
    BY SocketsAssumption DEF Descriptor, ServerFd
  <2> QED
    BY <1>2, <2>1
<1> DEFINE new == Head(backlog)
<1>4. \A p \in Peer : sock'[p] = fd /\ fd # -1 => got[p] = << >>
  <2> SUFFICES ASSUME NEW p \in Peer, sock'[p] = fd, fd # -1
               PROVE  got[p] = << >>
    OBVIOUS
  <2>1. /\ new \in Peer /\ sock[new] = 0 /\ link[new] # "none"
        /\ sock' = [sock EXCEPT ![new] = fd]
    BY <1>0, <1>1, <1>2, AcceptsWired
  <2>2. sock[p] # fd
    BY <1>2, PeerOfSock, <1>0 DEF Descriptor, ServerFd
  <2>3. p = new
    BY <1>0, <2>1, <2>2 DEF Wired, SocketsTypeOK
  <2> QED
    BY <1>0, <2>1, <2>3 DEF Shown
<1>5. \A p \in Peer : sock'[p] # fd \/ fd = -1 => sock'[p] = sock[p]
  <2>1. CASE fd = -1
    BY <1>1, <2>1 DEF kernelVars
  <2>2. CASE fd # -1
    <3>1. new \in Peer /\ sock' = [sock EXCEPT ![new] = fd]
      BY <1>0, <1>1, <1>2, <2>2, AcceptsWired
    <3> QED
      BY <1>0, <2>2, <3>1 DEF Wired, SocketsTypeOK
  <2> QED
    BY <2>1, <2>2
<1>6. UNCHANGED link
  BY <1>1 DEF kernelVars, Accepts
<1>7. /\ UNCHANGED << Ring, Loop >>
      /\ \/ clients' = clients
         \/ /\ Len(clients') = Len(clients) + 1
            /\ clients'[1] = NewClient(fd)
            /\ \A k \in 1 .. Len(clients) : clients'[k + 1] = clients[k]
  <2>1. CASE UNCHANGED queueVars
    BY <2>1 DEF queueVars, Ring, Loop
  <2>2. CASE message_queue__register_client(fd)
    BY <1>0, <1>3, <2>2, RegisterIs
  <2> QED
    BY <1>1, <2>1, <2>2
<1>8. Filled'
  BY <1>0, <1>1, <1>7, SameFilled
<1>9. get_length' = get_length /\ UNCHANGED << messages, start, writing, i >>
  BY <1>7, SameHistory DEF Ring, Loop
<1>10. writing = Nobody
  BY <1>0, <1>1 DEF Loops, Idle
<1>11. writing' \notin Open'
  <2>1. (Wired => Nobody \notin Open)'
    BY ServerIsNoClient, PTL
  <2> QED
    BY <1>9, <1>10, <2>1 DEF TableInv, Nobody
<1>12. \A p \in Peer :
         sock'[p] = 0 /\ link'[p] # "none" => got'[p] = << >>
  BY <1>0, <1>1, <1>2, <1>5, <1>6 DEF Shown, Descriptor, ServerFd
<1>13. ASSUME NEW p \in Peer, NEW k \in 1 .. Len(clients),
              clients[k].fd = sock'[p]
       PROVE  clients[k].roff = Lap(Len(got[p]))
  <2>1. clients[k].fd \in { -1 } \cup Open
    BY <1>0 DEF List
  <2>2. sock'[p] # fd \/ fd = -1
    BY <1>2, <1>13, <2>1
  <2>3. sock[p] = clients[k].fd
    BY <1>5, <1>13, <2>2
  <2>4. Position(clients[k]) = clients[k].roff
    <3>1. clients[k].fd # Nobody
      BY <1>0, <2>1, ServerIsNoClient DEF Nobody
    <3> QED
      BY <1>10, <3>1 DEF Position
  <2> QED
    BY <1>0, <2>3, <2>4 DEF Shown
<1>14. Len(clients) \in Nat
  BY <1>0 DEF QueueTypeOK
<1>15. ASSUME NEW p \in Peer, NEW k \in 1 .. Len(clients'),
              clients'[k].fd = sock'[p]
       PROVE  clients'[k].roff = Lap(Len(got[p]))
  <2>1. CASE clients' = clients
    BY <1>13, <1>15, <2>1
  <2>2. CASE clients' # clients
    <3>1. CASE k = 1
      <4>1. clients'[k].fd = fd /\ clients'[k].roff = 0
        BY <1>0, <1>7, <2>2, <3>1 DEF NewClient, Filled
      <4>2. sock'[p] \in { 0 } \cup Descriptor
        BY DEF TableInv, TypeOK, SocketsTypeOK
      <4>3. fd # -1
        BY <1>15, <4>1, <4>2, SocketsAssumption DEF Descriptor, ServerFd
      <4>4. got[p] = << >>
        BY <1>4, <1>15, <4>1, <4>3
      <4>5. Len(got[p]) = 0 /\ 0 # Capacity
        BY <4>4, QueueAssumption
      <4> QED
        BY <4>1, <4>5 DEF Lap
    <3>2. CASE k # 1
      <4>1. k - 1 \in 1 .. Len(clients) /\ (k - 1) + 1 = k
        BY <1>7, <1>14, <2>2, <3>2
      <4>2. clients'[k] = clients[k - 1]
        BY <1>7, <2>2, <4>1
      <4> QED
        BY <1>13, <1>15, <4>1, <4>2
    <3> QED
      BY <3>1, <3>2
  <2> QED
    BY <2>1, <2>2
<1>16. ASSUME NEW p \in Peer, NEW k \in 1 .. Len(clients'),
              clients'[k].fd = sock'[p]
       PROVE  Position(clients[k])' = Lap(Len(got[p]))
  <2>1. clients'[k].fd \in { -1 } \cup Open'
    BY DEF TableInv, List
  <2>2. Nobody \notin Open'
    BY <1>9, <1>10, <1>11
  <2>3. clients'[k].fd # writing'
    BY <1>9, <1>10, <2>1, <2>2 DEF Nobody
  <2> QED
    BY <1>15, <1>16, <2>3 DEF Position
<1>17. \A p \in Peer : /\ Len(got'[p]) <= get_length'
                       /\ \A k \in 1 .. Len(got'[p]) :
                            got'[p][k] = messages'[k - 1]
  BY <1>0, <1>1, <1>9 DEF Shown
<1>18. Shown'
  BY <1>1, <1>11, <1>12, <1>16, <1>17 DEF Shown, Lap
<1> QED
  BY <1>8, <1>18 DEF HistoryInv

(* Clients leave the list; the others keep their offset. *)
LEMMA FewerShown ==
  ASSUME TableInv, Shown, UNCHANGED << Ring, Loop, got >>, Idle,
         NEW at, Selects(at),
         \A p \in Peer : link'[p] # "none" =>
                           sock'[p] = sock[p] /\ link[p] # "none",
         \A p \in Peer : \A k \in 1 .. Len(clients') :
           clients'[k].fd = sock'[p] => sock'[p] = sock[p],
         writing \notin Open'
  PROVE  Shown'
<1>1. get_length' = get_length /\ UNCHANGED << messages, writing, i >>
  BY SameHistory DEF Ring, Loop
<1>2. ASSUME NEW p \in Peer, NEW k \in 1 .. Len(clients'),
             clients'[k].fd = sock'[p]
      PROVE  Position(clients[k])' = Lap(Len(got[p]))
  <2>1. at[k] \in 1 .. Len(clients) /\ clients'[k] = clients[at[k]]
    BY DEF Selects
  <2>2. clients[at[k]].fd = sock[p]
    BY <1>2, <2>1
  <2>3. Position(clients[at[k]]) = Lap(Len(got[p]))
    BY <2>1, <2>2 DEF Shown
  <2> QED
    BY <1>1, <2>1, <2>3 DEF Position
<1> QED
  BY <1>1, <1>2 DEF Shown, Lap

LEMMA DisconnectHistory ==
  ASSUME TableInv, TableInv', HistoryInv, NEW p \in Peer, AtClient,
         sock[p] # 0, Disconnect(p)
  PROVE  HistoryInv'
<1>0. /\ QueueTypeOK /\ Wired /\ Loops /\ List /\ Filled /\ Shown
  BY DEF TableInv, TypeOK, HistoryInv
<1>1. /\ pc = "clients" /\ pc' = pc /\ UNCHANGED got
      /\ message_queue__unregister_client(sock[p])
      /\ sock' = [sock EXCEPT ![p] = 0] /\ link' = [link EXCEPT ![p] = "none"]
  BY DEF Disconnect, AtClient, Closes
<1>2. /\ \A q \in Peer : sock'[q] = IF q = p THEN 0 ELSE sock[q]
      /\ \A q \in Peer : link'[q] = IF q = p THEN "none" ELSE link[q]
  BY <1>0, <1>1 DEF Wired, SocketsTypeOK
<1>3. sock[p] \in Open /\ -1 \notin Open
  BY <1>0, PeerOfSock, ServerIsNoClient
<1>4. /\ UNCHANGED << Ring, Loop >> /\ Idle
      /\ \E at : Selects(at)
  <2>1. \A j, k \in 1 .. Len(clients) :
          clients[j].fd = sock[p] /\ clients[k].fd = sock[p] => j = k
    BY <1>0, <1>3 DEF List
  <2>2. ~ exists => clients = << >>
    BY <1>0 DEF List
  <2> QED
    BY <1>0, <1>1, <2>1, <2>2, UnregisterIs
<1>5. PICK at : Selects(at)
  BY <1>4
<1>6. Filled'
  BY <1>0, <1>1, <1>4, SameFilled DEF Filled
<1>7. \A k \in 1 .. Len(clients') : clients'[k].fd \in { -1 } \cup Open'
  BY DEF TableInv, List
<1>8. \A q \in Peer : \A k \in 1 .. Len(clients') :
        clients'[k].fd = sock'[q] => sock'[q] = sock[q]
  <2>1. 0 \notin Open'
    BY DEF Open
  <2> QED
    BY <1>2, <1>7, <2>1
<1>9. writing \notin Open'
  <2>1. Nobody \notin Open
    BY <1>0, ServerIsNoClient
  <2>2. writing \notin Open
    BY <1>4, <2>1 DEF Idle
  <2>3. Open' \subseteq Open
    BY <1>2 DEF Open
  <2> QED
    BY <2>2, <2>3
<1>10. Shown'
  BY <1>0, <1>1, <1>2, <1>4, <1>5, <1>8, <1>9, FewerShown
<1> QED
  BY <1>6, <1>10 DEF HistoryInv

LEMMA DropHistory ==
  ASSUME TableInv, HistoryInv, DropSlowConsumers
  PROVE  HistoryInv'
<1>0. /\ QueueTypeOK /\ Wired /\ Filled /\ Shown
  BY DEF TableInv, TypeOK, HistoryInv
<1>1. /\ message_queue__drop_slow_consumers /\ pc' # "drop"
      /\ UNCHANGED << kernelVars, got >>
  BY DEF DropSlowConsumers
<1>2. /\ UNCHANGED << Ring, Loop >> /\ Idle
      /\ \E at : Selects(at)
  BY <1>0, <1>1, DropIs
<1>3. PICK at : Selects(at)
  BY <1>2
<1>4. Open' = Open /\ UNCHANGED << sock, link >>
  BY <1>1 DEF kernelVars, Open
<1>5. writing \notin Open'
  <2>1. Nobody \notin Open
    BY <1>0, ServerIsNoClient
  <2> QED
    BY <1>2, <1>4, <2>1 DEF Idle
<1>6. Shown'
  BY <1>0, <1>1, <1>2, <1>3, <1>4, <1>5, FewerShown
<1> QED
  BY <1>0, <1>1, <1>2, <1>6, SameFilled DEF HistoryInv

LEMMA EnqueueHistory ==
  ASSUME TableInv, TableInv', HistoryInv, Enqueue \/ EnqueueAgain
  PROVE  /\ HistoryInv' /\ UNCHANGED got
         /\ \/ UNCHANGED Ring
            \/ /\ exists /\ start # end /\ get_length' = get_length + 1
               /\ messages' = [messages EXCEPT ![get_length] = readbuf]
<1>0. /\ QueueTypeOK /\ Wired /\ Filled /\ Shown
      /\ got \in [Peer -> Seq(Message)]
  BY DEF TableInv, TypeOK, ServerTypeOK, HistoryInv
<1>1. /\ pc \in { "q", "again" } /\ message_queue__q(readbuf)
      /\ UNCHANGED << kernelVars, got >>
      /\ pc' = "drop" => result' = "MQERR_FULL"
  BY DEF Enqueue, EnqueueAgain, HandlerReturns
<1>2. readbuf # NULL
  BY <1>1 DEF TableInv, Loops
<1>3. UNCHANGED << exists, clients, Loop >>
  BY <1>1 DEF message_queue__q, Ring
<1>4. UNCHANGED << sock, link >>
  BY <1>1 DEF kernelVars
<1>5. CASE UNCHANGED Ring
  <2>1. pc' = "drop" => exists /\ start = end
    BY <1>1, <1>5 DEF message_queue__q, Ring
  <2> QED
    BY <1>1, <1>3, <1>4, <1>5, <2>1, QuietHistory
<1>6. CASE ~ UNCHANGED Ring
  <2> DEFINE L == get_length
  <2>1. /\ messages' = [messages EXCEPT ![end] = readbuf]
        /\ exists /\ end # start /\ end' = Advance(end) /\ result' = "0"
        /\ start' = IF start = MQ_EMPTY_SENTINEL THEN 0 ELSE start
    BY <1>1, <1>6 DEF message_queue__q
  <2>2. /\ L \in 0 .. Capacity /\ end = Lap(L) /\ L # Capacity
        /\ Capacity \in Nat \ {0} /\ start' = 0
    BY <1>0, <2>1, LengthIs, QueueAssumption DEF Filled
  <2> HIDE DEF L
  <2>3. L \in Slot /\ end = L
    BY <2>2 DEF Lap, Slot
  <2>4. end' = IF L + 1 = Capacity THEN 0 ELSE L + 1
    BY <2>1, <2>2, <2>3 DEF Advance, Slot
  <2>5. get_length' = L + 1
    <3>1. get_length' = IF 0 < end' THEN end' - 0 ELSE (Capacity - 0) + end'
      BY <2>2 DEF get_length, MQ_EMPTY_SENTINEL
    <3>2. CASE L + 1 = Capacity
      BY <2>2, <2>4, <3>1, <3>2
    <3>3. CASE L + 1 # Capacity
      BY <2>2, <2>4, <3>1, <3>3
    <3> QED
      BY <3>2, <3>3
  <2>6. \A slot \in Slot :
          messages'[slot] = IF slot = L THEN readbuf ELSE messages[slot]
    BY <1>0, <2>1, <2>3 DEF QueueTypeOK
  <2>7. \A slot \in Slot : messages[slot] # NULL <=> slot < L
    BY <1>0 DEF Filled, L
  <2>8. \A slot \in Slot : messages'[slot] # NULL <=> slot < L + 1
    BY <1>2, <2>2, <2>6, <2>7 DEF Slot
  <2>9. pc' # "drop"
    BY <1>1, <2>1
  <2>10. Filled'
    BY <1>3, <2>1, <2>2, <2>5, <2>8, <2>9 DEF Filled, MQ_EMPTY_SENTINEL
  <2>11. ASSUME NEW p \in Peer
         PROVE  /\ Len(got[p]) <= L + 1
                /\ \A k \in 1 .. Len(got[p]) : got[p][k] = messages'[k - 1]
    <3>1. Len(got[p]) <= L /\ Len(got[p]) \in Nat
      BY <1>0 DEF Shown, L
    <3>2. \A k \in 1 .. Len(got[p]) : k - 1 \in Slot /\ k - 1 # L
      BY <2>2, <3>1 DEF Slot
    <3> QED
      BY <1>0, <2>2, <2>6, <3>1, <3>2 DEF Shown
  <2>12. UNCHANGED << writing, i, got, clients >>
    BY <1>1, <1>3 DEF Loop
  <2>13. Shown'
    BY <1>0, <1>4, <2>5, <2>11, <2>12 DEF Shown, Position, Open, Lap
  <2> QED
    BY <1>1, <2>1, <2>3, <2>5, <2>10, <2>13 DEF HistoryInv, L
<1> QED
  BY <1>5, <1>6

-----------------------------------------------------------------------------
(* The traversals of the ring *)

LEMMA FlushHistory ==
  ASSUME TableInv, HistoryInv, Flush
  PROVE  HistoryInv'
<1>0. /\ QueueTypeOK /\ Wired /\ List /\ Filled /\ Shown
  BY DEF TableInv, TypeOK, HistoryInv
<1> DEFINE fd == fds[idx].fd
           n == ClientOf(fd)
<1>1. /\ message_queue__flush(fd) /\ pc = "flush" /\ pc' = pc
      /\ UNCHANGED << kernelVars, got >>
  BY DEF Flush
<1>2. /\ Idle /\ UNCHANGED << Ring, clients >>
      /\ \/ UNCHANGED Loop
         \/ writing' = fd /\ n # 0 /\ i' = clients[n].roff
  BY <1>1 DEF message_queue__flush
<1>3. UNCHANGED << sock, link >>
  BY <1>1 DEF kernelVars
<1>4. CASE UNCHANGED Loop
  BY <1>1, <1>2, <1>3, <1>4, QuietHistory
<1>5. CASE ~ UNCHANGED Loop
  <2>1. n \in 1 .. Len(clients) /\ clients[n].fd = fd
    BY <1>0, <1>2, <1>5, ClientIndex
  <2> HIDE DEF n, fd
  <2>2. writing' = fd /\ i' = clients[n].roff /\ UNCHANGED messages
    BY <1>2, <1>5 DEF Ring
  <2>3. get_length' = get_length
    BY <1>2, SameHistory
  <2>4. ASSUME NEW p \in Peer, NEW k \in 1 .. Len(clients),
               clients[k].fd = sock[p]
        PROVE  Position(clients[k])' = Lap(Len(got[p]))
    <3>1. sock[p] # -1 /\ sock[p] # Nobody
      BY <1>0, SockIsDescriptor
    <3>2. Position(clients[k]) = clients[k].roff
      BY <1>2, <2>4, <3>1 DEF Idle, Position
    <3>3. clients[k].fd = fd => k = n
      BY <1>0, <2>1, <2>4, <3>1 DEF List
    <3>4. Position(clients[k])' = clients[k].roff
      BY <1>2, <2>1, <2>2, <3>3 DEF Position
    <3> QED
      BY <1>0, <2>4, <3>2, <3>4 DEF Shown
  <2>5. \E k \in 1 .. Len(clients) : clients[k].fd = writing'
    BY <2>1, <2>2
  <2>6. Shown'
    BY <1>0, <1>1, <1>2, <1>3, <2>2, <2>3, <2>4, <2>5 DEF Shown, Lap
  <2> QED
    BY <1>0, <1>1, <1>2, <2>6, SameFilled DEF HistoryInv
<1> QED
  BY <1>4, <1>5

(* A traversal for an open connection is at the message after those that   *)
(* were written to it.                                                     *)
LEMMA TraversalIs ==
  ASSUME TableInv, HistoryInv, writing \in Open
  PROVE  /\ PeerOf(writing) \in Peer /\ sock[PeerOf(writing)] = writing
         /\ i = Lap(Len(got[PeerOf(writing)]))
         /\ i # end => /\ i = Len(got[PeerOf(writing)]) /\ i < get_length
                       /\ messages[i] # NULL
<1>0. /\ QueueTypeOK /\ Filled /\ Shown /\ got \in [Peer -> Seq(Message)]
  BY DEF TableInv, TypeOK, HistoryInv, ServerTypeOK
<1> DEFINE p == PeerOf(writing)
           m == Len(got[p])
           L == get_length
<1>1. p \in Peer /\ sock[p] = writing
  BY PeerOfOpen
<1>2. PICK k \in 1 .. Len(clients) : clients[k].fd = writing
  BY <1>0 DEF Shown
<1>3. i = Lap(m)
  BY <1>0, <1>1, <1>2 DEF Shown, Position
<1>4. m \in Nat /\ m <= L /\ L \in 0 .. Capacity /\ end = Lap(L)
        /\ Capacity \in Nat
  BY <1>0, <1>1, LengthIs, QueueAssumption DEF Shown
<1>5. \A slot \in Slot : messages[slot] # NULL <=> slot < L
  BY <1>0 DEF Filled
<1> HIDE DEF m, L
<1>6. i # end => i = m /\ i < L
  BY <1>3, <1>4 DEF Lap
<1>7. i # end => messages[i] # NULL
  BY <1>0, <1>5, <1>6 DEF QueueTypeOK
<1> QED
  BY <1>1, <1>3, <1>6, <1>7 DEF m, L

(* The offset a traversal leaves behind is where it was. *)
LEMMA LeaveLoopHistory ==
  ASSUME TableInv, HistoryInv, NEW code \in ReturnCode, LeaveLoop(i, code),
         writing # Nobody, UNCHANGED << pc, sock, got >>,
         \A p \in Peer : link'[p] # "none" => link[p] # "none"
  PROVE  HistoryInv'
<1>0. /\ QueueTypeOK /\ Wired /\ List /\ Loops /\ Filled /\ Shown
  BY DEF TableInv, TypeOK, HistoryInv
<1> DEFINE n == ClientOf(writing)
<1>1. /\ UNCHANGED Ring /\ writing' = Nobody
      /\ Len(clients') = Len(clients)
      /\ \A k \in 1 .. Len(clients) :
           clients'[k] = [fd |-> clients[k].fd,
                          roff |-> IF k = n THEN i ELSE clients[k].roff]
  BY <1>0, LeaveLoopIs DEF QueueTypeOK
<1>2. n # 0 => n \in 1 .. Len(clients) /\ clients[n].fd = writing
  BY <1>0, ClientIndex
<1>3. n = 0 => \A k \in 1 .. Len(clients) : clients[k].fd # writing
  BY <1>0, ClientIndex
<1> HIDE DEF n
<1>4. get_length' = get_length /\ UNCHANGED messages
  BY <1>1, SameHistory DEF Ring
<1>5. ASSUME NEW p \in Peer, NEW k \in 1 .. Len(clients),
             clients'[k].fd = sock[p]
      PROVE  Position(clients[k])' = Lap(Len(got[p]))
  <2> DEFINE b == IF k = n THEN i ELSE clients[k].roff
  <2>1. clients'[k].fd = clients[k].fd /\ clients'[k].roff = b
    <3>1. clients'[k] = [fd |-> clients[k].fd, roff |-> b]
      BY <1>1
    <3> HIDE DEF b
    <3> QED
      BY <3>1
  <2>2. clients[k].fd \in { -1 } \cup Open /\ sock[p] # -1
    BY <1>0, SockIsDescriptor DEF List
  <2>3. clients[k].fd \in Open /\ Nobody \notin Open
    BY <1>0, <1>5, <2>1, <2>2, ServerIsNoClient
  <2>4. clients[k].fd = writing <=> k = n
    <3>1. ASSUME clients[k].fd = writing PROVE k = n
      <4>1. n \in 1 .. Len(clients) /\ clients[n].fd = clients[k].fd
        BY <1>2, <1>3, <3>1
      <4>2. clients[k].fd # -1
        BY <1>5, <2>1, <2>2
      <4> QED
        BY <1>0, <4>1, <4>2 DEF List
    <3>2. ASSUME k = n PROVE clients[k].fd = writing
      <4>1. Len(clients) \in Nat /\ k # 0
        BY <1>0 DEF QueueTypeOK
      <4> QED
        BY <1>2, <3>2, <4>1
    <3> QED
      BY <3>1, <3>2
  <2>5. Position(clients[k]) = b
    BY <2>4 DEF Position
  <2>6. Position(clients[k])' = b
    BY <1>1, <2>1, <2>3 DEF Position
  <2> HIDE DEF b
  <2>7. Position(clients[k]) = Lap(Len(got[p]))
    <3>1. clients[k].fd = sock[p]
      BY <1>5, <2>1
    <3> QED
      BY <1>0, <3>1 DEF Shown
  <2> QED
    BY <2>5, <2>6, <2>7
<1>6. writing' \notin Open'
  <2>1. Open' = Open /\ Nobody \notin Open
    BY <1>0, ServerIsNoClient DEF Open
  <2> QED
    BY <1>1, <2>1
<1>7. Shown'
  BY <1>0, <1>1, <1>4, <1>5, <1>6 DEF Shown, Lap
<1>8. Filled'
  BY <1>0, <1>1, SameFilled DEF Filled
<1> QED
  BY <1>7, <1>8 DEF HistoryInv

LEMMA FlushFinishesHistory ==
  ASSUME TableInv, HistoryInv, FlushFinishes
  PROVE  HistoryInv'
<1>0. /\ QueueTypeOK /\ Wired /\ List /\ Loops /\ Filled /\ Shown
  BY DEF TableInv, TypeOK, HistoryInv
<1>1. /\ pc = "flush"
      /\ FlushSkips \/ FlushEnds
      /\ UNCHANGED << pc, kernelVars, got >>
  BY DEF FlushFinishes
<1>2. UNCHANGED << sock, link >>
  BY <1>1 DEF kernelVars
<1>3. CASE FlushEnds
  <2>1. LeaveLoop(i, "0") /\ writing # Nobody /\ "0" \in ReturnCode
    BY <1>3 DEF FlushEnds, Idle, ReturnCode
  <2> QED
    BY <1>1, <1>2, <2>1, LeaveLoopHistory
<1>4. CASE FlushSkips
  <2>1. /\ i # end /\ messages[i] = NULL
        /\ UNCHANGED << Ring, clients, writing >>
    BY <1>4 DEF FlushSkips
  <2>2. writing \notin Open
    BY <2>1, TraversalIs
  <2>3. get_length' = get_length /\ UNCHANGED messages
    BY <2>1, SameHistory DEF Ring
  <2>4. ASSUME NEW p \in Peer, NEW k \in 1 .. Len(clients),
               clients[k].fd = sock[p]
        PROVE  Position(clients[k])' = Lap(Len(got[p]))
    <3>1. clients[k].fd # -1
      BY <1>0, <2>4, SockIsDescriptor
    <3>2. clients[k].fd # writing
      BY <1>0, <2>2, <3>1 DEF List
    <3> QED
      BY <1>0, <2>1, <2>4, <3>2 DEF Shown, Position
  <2>5. Open' = Open
    BY <1>2 DEF Open
  <2>6. Shown'
    BY <1>0, <1>1, <1>2, <2>1, <2>2, <2>3, <2>4, <2>5 DEF Shown, Lap
  <2> QED
    <3>1. pc' # "drop" /\ UNCHANGED Ring
      BY <1>1, <2>1
    <3>2. Filled'
      BY <1>0, <3>1, SameFilled
    <3> QED
      BY <2>6, <3>2 DEF HistoryInv
<1> QED
  BY <1>1, <1>3, <1>4

LEMMA WriteFailsHistory ==
  ASSUME TableInv, HistoryInv, WriteFails
  PROVE  HistoryInv'
<1>1. /\ LeaveLoop(i, "-1") /\ writing # Nobody /\ "-1" \in ReturnCode
      /\ UNCHANGED << pc, got >>
      /\ IF writing = -1 THEN UNCHANGED kernelVars
         ELSE ReportsReset(PeerOf(writing))
  BY DEF WriteFails, FlushFails, AtMessage, Idle, ReturnCode
<1>2. UNCHANGED sock
  BY <1>1 DEF kernelVars, ReportsReset
<1>3. \A p \in Peer : link'[p] # "none" => link[p] # "none"
  <2>1. link \in [Peer -> LinkState]
    BY DEF TableInv, Wired, SocketsTypeOK
  <2> QED
    BY <1>1, <2>1 DEF kernelVars, ReportsReset
<1> QED
  BY <1>1, <1>2, <1>3, LeaveLoopHistory

LEMMA WriteHistory ==
  ASSUME TableInv, HistoryInv, Write
  PROVE  /\ HistoryInv' /\ UNCHANGED Ring
         /\ \E p \in Peer :
              /\ Len(got[p]) < get_length
              /\ got' = [got EXCEPT ![p] = Append(@, messages[Len(got[p])])]
<1>0. /\ QueueTypeOK /\ Wired /\ List /\ Loops /\ Filled /\ Shown
      /\ got \in [Peer -> Seq(Message)]
  BY DEF TableInv, TypeOK, HistoryInv, ServerTypeOK
<1> DEFINE p == PeerOf(writing)
           m == Len(got[p])
           L == get_length
<1>1. /\ writing > 0 /\ AtMessage /\ i' = Advance(i) /\ Writes(p)
      /\ got' = [got EXCEPT ![p] = Append(@, messages[i])]
      /\ UNCHANGED << Ring, clients, writing, pc >>
  BY DEF Write, FlushWrites, serverVars
<1>2. writing \in Open
  <2>1. writing # Nobody /\ writing # -1
    BY <1>0, <1>1 DEF Nobody, QueueTypeOK
  <2> QED
    BY <2>1, WritingIsPeer
<1>3. p \in Peer /\ sock[p] = writing /\ i = m /\ m < L /\ i = Lap(m)
  BY <1>1, <1>2, TraversalIs DEF AtMessage
<1> HIDE DEF p
<1>4. /\ m \in Nat /\ L \in 0 .. Capacity /\ Capacity \in Nat \ {0}
      /\ m \in Slot
  <2>1. L \in 0 .. Capacity /\ Capacity \in Nat \ {0}
    BY <1>0, LengthIs, QueueAssumption
  <2>2. m \in Nat
    <3>1. got[p] \in Seq(Message)
      BY <1>0, <1>3
    <3> QED
      BY <3>1
  <2> HIDE DEF m, L
  <2>3. m < L
    BY <1>3
  <2> QED
    BY <2>1, <2>2, <2>3 DEF Slot
<1>5. messages[m] \in Message
  <2>1. messages[m] # NULL
    BY <1>1, <1>3 DEF AtMessage
  <2> QED
    BY <1>0, <1>4, <2>1 DEF QueueTypeOK
<1>6. /\ got' = [got EXCEPT ![p] = Append(got[p], messages[m])]
      /\ got'[p] = Append(got[p], messages[m])
      /\ \A q \in Peer : q # p => got'[q] = got[q]
  BY <1>0, <1>1, <1>3
<1> DEFINE s == got[p]
<1>7. s \in Seq(Message) /\ Len(s) = m
  BY <1>0, <1>3
<1> HIDE DEF s, m, L
<1>8. /\ Len(Append(s, messages[m])) = m + 1
      /\ \A k \in 1 .. m : Append(s, messages[m])[k] = s[k]
      /\ Append(s, messages[m])[m + 1] = messages[m]
  BY <1>5, <1>7
<1>9. Len(got'[p]) = m + 1 /\ m + 1 <= L
  <2>1. Len(got'[p]) = m + 1
    BY <1>6, <1>8 DEF s
  <2>2. m + 1 <= L
    <3>1. m < L
      BY <1>3
    <3>2. m \in Nat /\ L \in Nat
      BY <1>4
    <3> QED
      BY <3>1, <3>2
  <2> QED
    BY <2>1, <2>2
<1>10. \A k \in 1 .. m + 1 : got'[p][k] = messages[k - 1]
  <2>1. \A k \in 1 .. m : got'[p][k] = messages[k - 1]
    BY <1>0, <1>3, <1>6, <1>8 DEF s, m, Shown
  <2>2. got'[p][m + 1] = messages[(m + 1) - 1]
    BY <1>4, <1>6, <1>8 DEF s
  <2>3. \A k \in 1 .. m + 1 : k \in 1 .. m \/ k = m + 1
    BY <1>4
  <2> QED
    BY <2>1, <2>2, <2>3
<1>11. get_length' = L /\ UNCHANGED messages
  BY <1>1, SameHistory DEF Ring, L
<1>12. UNCHANGED sock /\ Open' = Open
  BY <1>1 DEF Writes, Open
<1>13. \A q \in Peer : link'[q] # "none" => link[q] # "none"
  BY <1>0, <1>1, <1>3 DEF Writes, Wired, SocketsTypeOK
<1>14. i' = Lap(m + 1)
  BY <1>1, <1>3, <1>4, <1>9 DEF Advance, Lap
<1>15. ASSUME NEW q \in Peer, NEW k \in 1 .. Len(clients),
              clients[k].fd = sock[q]
       PROVE  Position(clients[k])' = Lap(Len(got'[q]))
  <2>1. CASE q = p
    BY <1>1, <1>3, <1>9, <1>14, <1>15, <2>1 DEF Position
  <2>2. CASE q # p
    <3>1. writing # 0
      BY <1>1
    <3>2. sock[q] # writing
      BY <1>0, <1>3, <2>2, <3>1 DEF Wired
    <3> QED
      BY <1>0, <1>1, <1>6, <1>15, <2>2, <3>2 DEF Position, Shown
  <2> QED
    BY <2>1, <2>2
<1>16. ASSUME NEW q \in Peer
       PROVE  /\ Len(got'[q]) <= L
              /\ \A k \in 1 .. Len(got'[q]) : got'[q][k] = messages[k - 1]
              /\ sock[q] = 0 /\ link'[q] # "none" => got'[q] = << >>
  <2>1. CASE q = p
    <3>1. Len(got'[q]) <= L
      BY <1>9, <2>1
    <3>2. \A k \in 1 .. Len(got'[q]) : got'[q][k] = messages[k - 1]
      BY <1>9, <1>10, <2>1
    <3>3. sock[q] # 0
      <4>1. writing # 0
        BY <1>1
      <4> QED
        BY <1>3, <2>1, <4>1
    <3> QED
      BY <3>1, <3>2, <3>3
  <2>2. CASE q # p
    BY <1>0, <1>6, <1>13, <2>2 DEF Shown, L
  <2> QED
    BY <2>1, <2>2
<1>17. Shown'
  BY <1>0, <1>1, <1>11, <1>12, <1>15, <1>16 DEF Shown, Lap
<1>18. Filled'
  BY <1>0, <1>1, SameFilled DEF Filled
<1> QED
  BY <1>1, <1>3, <1>6, <1>17, <1>18 DEF HistoryInv, L, m

LEMMA NextHistory ==
  ASSUME TableInv, TableInv', HistoryInv, [Next]_vars
  PROVE  HistoryInv'
<1>1. CASE UNCHANGED vars
  <2>1. UNCHANGED << Ring, Loop, clients, sock, got, pc, link >>
    BY <1>1 DEF vars, queueVars, kernelVars, serverVars, Ring, Loop
  <2> QED
    BY <2>1, QuietHistory DEF HistoryInv, Filled
<1>2. CASE ReadEnds \/ HangsUp
  <2>1. PICK e : AtClient /\ Event(e) /\ Disconnect(PeerOf(fds[idx].fd))
    BY <1>2 DEF ReadEnds, HangsUp
  <2>2. /\ PeerOf(fds[idx].fd) \in Peer
        /\ sock[PeerOf(fds[idx].fd)] = fds[idx].fd /\ fds[idx].fd # 0
    BY <2>1, EventOfOpen
  <2> QED
    BY <2>1, <2>2, DisconnectHistory
<1>3. CASE Next /\ ~ (ReadEnds \/ HangsUp)
  BY <1>3, StartHistory, EnvironmentHistory, ServerIsQuiet, AcceptHistory,
     EnqueueHistory, DropHistory, FlushHistory, FlushFinishesHistory,
     WriteHistory, WriteFailsHistory
  DEF Next, Listening, Server
<1> QED
  BY <1>1, <1>2, <1>3

LEMMA HistoryHolds == Spec => [](TableInv /\ HistoryInv)
BY InitTables, NextTables, InitHistory, NextHistory, PTL DEF Spec

-----------------------------------------------------------------------------
(* The room *)

(* A step posts a message, shows one, lets one join, or does not matter. *)
LEMMA SameContent ==
  ASSUME TableInv, TableInv', HistoryInv, HistoryInv', UNCHANGED Ring
  PROVE  Content' = Content
<1>1. (QueueTypeOK /\ Filled => Content = History)'
  BY ContentIs, PTL
<1>2. Content' = History' /\ Content = History
  BY <1>1, ContentIs DEF TableInv, TypeOK, HistoryInv
<1> QED
  BY <1>2, SameHistory

LEMMA CreationKeepsContent ==
  ASSUME TableInv, TableInv', HistoryInv, HistoryInv', message_queue__init
  PROVE  Content' = Content /\ start' # end' /\ start # end
<1>1. (QueueTypeOK /\ Filled => Content = History)'
  BY ContentIs, PTL
<1>2. Content' = History' /\ Content = History
  BY <1>1, ContentIs DEF TableInv, TypeOK, HistoryInv
<1>3. get_length = 0 /\ start # end
  BY LengthIs
  DEF message_queue__init, TableInv, TypeOK, HistoryInv, Filled,
      MQ_EMPTY_SENTINEL
<1>4. get_length' = 0 /\ start' # end'
  BY DEF message_queue__init, get_length, MQ_EMPTY_SENTINEL
<1>5. \A k \in 1 .. 0 : FALSE
  OBVIOUS
<1>6. History = [k \in {} |-> messages[k - 1]]
        /\ History' = [k \in {} |-> messages'[k - 1]]
  BY <1>3, <1>4, <1>5 DEF History
<1> QED
  BY <1>2, <1>3, <1>4, <1>6

(* A message is lost, or becomes the last of the history. *)
LEMMA EnqueueAppends ==
  ASSUME TableInv, TableInv', HistoryInv, HistoryInv', Enqueue \/ EnqueueAgain
  PROVE  \/ UNCHANGED Ring
         \/ /\ start # end /\ readbuf \in Message
            /\ Content' = Append(Content, readbuf)
<1> DEFINE L == get_length
           new == Append(Content, readbuf)
<1>0. QueueTypeOK /\ Filled
  BY DEF TableInv, TypeOK, HistoryInv
<1>1. (QueueTypeOK /\ Filled => Content = History)'
  BY ContentIs, PTL
<1>2. /\ Content' = History' /\ Content = History
      /\ Content \in Seq(Message) /\ Len(Content) = L
  BY <1>0, <1>1, ContentIs DEF TableInv, TypeOK, HistoryInv
<1> SUFFICES ASSUME ~ UNCHANGED Ring
             PROVE  start # end /\ readbuf \in Message /\ Content' = new
  OBVIOUS
<1>3. /\ start # end /\ get_length' = L + 1
      /\ messages' = [messages EXCEPT ![L] = readbuf]
  BY EnqueueHistory
<1>4. /\ L \in 0 .. Capacity /\ L # Capacity /\ Capacity \in Nat
      /\ messages \in [Slot -> Message \cup {NULL}]
  BY <1>0, <1>3, LengthIs, QueueAssumption DEF QueueTypeOK
<1>5. readbuf \in Message
  BY DEF Enqueue, EnqueueAgain, TableInv, Loops, TypeOK, ServerTypeOK
<1>6. /\ Content' = [k \in 1 .. L + 1 |-> messages'[k - 1]]
      /\ Content = [k \in 1 .. L |-> messages[k - 1]]
  BY <1>2, <1>3 DEF History
<1> HIDE DEF L
<1>7. \A k \in 1 .. L + 1 :
        messages'[k - 1] = IF k = L + 1 THEN readbuf ELSE messages[k - 1]
  <2>1. \A k \in 1 .. L + 1 : k - 1 \in Slot /\ (k - 1 = L <=> k = L + 1)
    BY <1>4 DEF Slot
  <2> QED
    BY <1>3, <1>4, <2>1
<1>8. /\ new \in Seq(Message) /\ Len(new) = L + 1
      /\ \A k \in 1 .. L : new[k] = Content[k]
      /\ new[L + 1] = readbuf
  BY <1>2, <1>5
<1> HIDE DEF new
<1>9. new = [k \in 1 .. L + 1 |-> new[k]]
  BY <1>8
<1>10. \A k \in 1 .. L + 1 : k = L + 1 \/ k \in 1 .. L
  BY <1>4
<1>11. \A k \in 1 .. L + 1 :
         new[k] = IF k = L + 1 THEN readbuf ELSE messages[k - 1]
  <2>1. \A k \in 1 .. L : k # L + 1
    BY <1>4
  <2> QED
    BY <1>6, <1>8, <1>10, <2>1
<1>12. Content' = [k \in 1 .. L + 1 |-> new[k]]
  BY <1>6, <1>7, <1>11, Zenon
<1> QED
  BY <1>3, <1>5, <1>9, <1>12

LEMMA NextOfRoom ==
  ASSUME TableInv, TableInv', HistoryInv, HistoryInv', [Next]_vars
  PROVE  [Room!Next]_<< Content, got >>
<1>0. /\ Content = History /\ Len(Content) = get_length
      /\ \A k \in 1 .. get_length : Content[k] = messages[k - 1]
      /\ get_length \in Nat
  BY ContentIs, LengthIs, QueueAssumption DEF TableInv, TypeOK, HistoryInv
<1>3. ASSUME UNCHANGED Ring PROVE Content' = Content
  BY <1>3, SameContent
<1>4. got \in [Peer -> Seq(Message)]
  BY DEF TableInv, TypeOK, ServerTypeOK
<1>5. CASE Enqueue \/ EnqueueAgain
  <2>1. UNCHANGED got
    BY <1>5, EnqueueHistory
  <2>2. CASE UNCHANGED Ring
    BY <1>3, <2>1, <2>2
  <2>3. CASE ~ UNCHANGED Ring
    <3>1. Room!Post
      BY <1>5, <2>1, <2>3, EnqueueAppends DEF Room!Post
    <3> QED
      BY <3>1 DEF Room!Next
  <2> QED
    BY <2>2, <2>3
<1>6. CASE Write
  <2>1. UNCHANGED Ring
    BY <1>6, WriteHistory
  <2>2. PICK p \in Peer :
          /\ Len(got[p]) < get_length
          /\ got' = [got EXCEPT ![p] = Append(@, messages[Len(got[p])])]
    BY <1>6, WriteHistory
  <2> DEFINE m == Len(got[p])
  <2>3. m \in Nat
    BY <1>4
  <2>4. m < Len(Content) /\ Content[m + 1] = messages[m]
    <3>1. m < get_length
      BY <2>2
    <3> HIDE DEF m
    <3>2. m + 1 \in 1 .. get_length /\ (m + 1) - 1 = m
      BY <1>0, <2>3, <3>1
    <3> QED
      BY <1>0, <3>1, <3>2
  <2>5. Room!Show(p)
    BY <1>3, <2>1, <2>2, <2>4 DEF Room!Show
  <2> QED
    BY <2>5 DEF Room!Next
<1>7. CASE Environment
  <2>1. UNCHANGED Ring
    BY <1>7 DEF Environment, Outside, queueVars, Ring
  <2>2. \/ UNCHANGED got
        \/ \E p \in Peer : got' = [got EXCEPT ![p] = << >>]
    BY <1>7 DEF Environment, Outside, Joins
  <2> QED
    BY <1>3, <2>1, <2>2 DEF Room!Join, Room!Next
<1>8. CASE Start \/ StartFails
  <2>1. UNCHANGED got /\ (UNCHANGED queueVars \/ message_queue__init)
    BY <1>8
    DEF Start, StartFails, GetServerSocket, GetServerSocketFails,
        CreateQueue, CreateTable, CreateTableFails, WatchServer, StartVars
  <2>2. CASE UNCHANGED queueVars
    BY <1>3, <2>1, <2>2 DEF queueVars, Ring
  <2>3. CASE message_queue__init
    BY <2>1, <2>3, CreationKeepsContent
  <2> QED
    BY <2>1, <2>2, <2>3
<1>9. CASE UNCHANGED vars
  BY <1>3, <1>9 DEF vars, queueVars, Ring
<1>10. CASE /\ (Server /\ ~ Enqueue /\ ~ EnqueueAgain /\ ~ Write) \/ Fails
  <2>1. UNCHANGED << Ring, got >>
    BY <1>10
    DEF Server, Fails, Poll, NoConnection, Accept, NoEvent, ReadEnds, HangsUp,
        Disconnect, ReadMessage, DropSlowConsumers, ClientsDone, Flush,
        FlushFinishes, WriteFails, Killed, FlushDone, PollFails, ServerFails,
        LeavesLoop, queueVars, Ring, message_queue__register_client,
        message_queue__unregister_client, message_queue__drop_slow_consumers,
        message_queue__flush, FlushSkips, FlushEnds, FlushFails, LeaveLoop
  <2> QED
    BY <1>3, <2>1
<1> QED
  BY <1>5, <1>6, <1>7, <1>8, <1>9, <1>10 DEF Next, Listening

(* There is one order of the messages, and whatever joins, fails, leaves,  *)
(* is dropped or gets the descriptor of another: every connection is shown *)
(* the messages in this order, from the first on, without a gap and once.  *)
THEOREM EveryoneSeesOneHistory == Spec => RoomSpec
<1>1. Init => Room!Init
  <2> SUFFICES ASSUME Init PROVE Room!Init
    OBVIOUS
  <2>1. QueueTypeOK /\ Filled /\ get_length = 0
    BY InitTables, InitHistory DEF TableInv, TypeOK, HistoryInv, Init,
       get_length
  <2>2. Content \in Seq(Message) /\ Len(Content) = 0
    BY <2>1, ContentIs
  <2>3. Content = << >>
    BY <2>2
  <2> QED
    BY <2>3 DEF Init, Room!Init
<1> QED
  BY <1>1, HistoryHolds, NextOfRoom, PTL DEF Spec, RoomSpec, Room!Spec

(* What is dropped is what is further behind than the threshold as far as  *)
(* its offset tells: a client that has been written everything has the     *)
(* offset of one that is a whole lap behind.                               *)
LEMMA DropIsByLag ==
  ASSUME TableInv, HistoryInv, DropSlowConsumers, NEW p \in Peer,
         sock[p] \in Registered
  PROVE  sock[p] \in Registered'
           <=> Apparent(Lag(p)) <= Capacity - drop_before_offset
<1>0. /\ QueueTypeOK /\ Wired /\ List /\ Filled /\ Shown
      /\ got \in [Peer -> Seq(Message)]
  BY DEF TableInv, TypeOK, ServerTypeOK, HistoryInv
<1>1. /\ pc = "drop" /\ message_queue__drop_slow_consumers
      /\ exists /\ start = end
  BY <1>0 DEF DropSlowConsumers, Filled
<1> DEFINE m == Len(got[p])
           D == drop_before_offset
           kept == { c \in ToSet(clients) : client_off(c) >= D }
<1>2. Capacity \in Nat \ {0} /\ get_length = Capacity /\ start = 0
  BY <1>0, <1>1, LengthIs, QueueAssumption DEF Filled
<1>3. Len(Content) = Capacity
  BY <1>0, <1>2, ContentIs
<1>4. m \in 0 .. Capacity
  BY <1>0, <1>2 DEF Shown
<1>5. D \in Nat
  BY <1>2 DEF drop_before_offset
<1>6. get_length >= (Capacity * 8) \div 10 /\ start # MQ_EMPTY_SENTINEL
  BY <1>2 DEF MQ_EMPTY_SENTINEL
<1>7. clients' = Keep(clients, kept)
  BY <1>1, <1>6 DEF message_queue__drop_slow_consumers
<1>8. writing = Nobody
  BY <1>1 DEF TableInv, Loops, Idle
<1>9. clients \in Seq(Client) /\ DOMAIN clients = 1 .. Len(clients)
  BY <1>0 DEF QueueTypeOK, Client
<1>10. PICK n \in 1 .. Len(clients) : clients[n].fd = sock[p]
  BY <1>9 DEF Registered
<1>11. clients[n].roff = Lap(m)
  <2>1. Position(clients[n]) = Lap(m)
    BY <1>0, <1>10 DEF Shown
  <2>2. sock[p] # Nobody
    BY <1>0, SockIsDescriptor
  <2> QED
    BY <1>8, <1>10, <2>1, <2>2 DEF Position
<1>12. client_off(clients[n]) = Lap(m)
  <2>1. client_off(clients[n]) = ((Capacity + Lap(m)) - 0) % Capacity
    BY <1>2, <1>11 DEF client_off
  <2> HIDE DEF m
  <2>2. ((Capacity + Lap(m)) - 0) % Capacity = Lap(m)
    BY <1>2, <1>4 DEF Lap
  <2> QED
    BY <2>1, <2>2
<1>13. clients[n] \in kept <=> Lap(m) >= D
  BY <1>9, <1>12 DEF ToSet
<1> HIDE DEF kept
<1>14. /\ clients' \in Seq(Client \cap kept)
       /\ \E at : Picks(at, clients', clients, Len(clients), kept)
  BY <1>7, <1>9, KeepPicks
<1>15. PICK at : Picks(at, clients', clients, Len(clients), kept)
  BY <1>14
<1>16. sock[p] # -1
  BY <1>0, SockIsDescriptor
<1>17. DOMAIN clients' = 1 .. Len(clients')
  BY <1>14
<1>18. UNCHANGED sock
  BY DEF DropSlowConsumers, kernelVars
<1>19. sock[p] \in Registered' <=> Lap(m) >= D
  <2>1. ASSUME Lap(m) >= D PROVE sock[p] \in Registered'
    <3>1. PICK k \in 1 .. Len(clients') : at[k] = n
      BY <1>13, <1>15, <2>1 DEF Picks
    <3>2. clients'[k].fd = sock[p]
      BY <1>10, <1>15, <3>1 DEF Picks
    <3> QED
      BY <1>16, <1>17, <3>2 DEF Registered
  <2>2. ASSUME sock[p] \in Registered' PROVE Lap(m) >= D
    <3>1. PICK k \in 1 .. Len(clients') : clients'[k].fd = sock[p]
      BY <1>17, <2>2 DEF Registered
    <3>2. at[k] \in 1 .. Len(clients) /\ clients'[k] = clients[at[k]]
      BY <1>15 DEF Picks
    <3>3. at[k] = n
      BY <1>0, <1>10, <1>16, <3>1, <3>2 DEF List
    <3>4. clients'[k] \in kept
      BY <1>14
    <3> QED
      BY <1>13, <3>2, <3>3, <3>4
  <2> QED
    BY <2>1, <2>2
<1>20. Lap(m) >= D <=> Apparent(Capacity - m) <= Capacity - D
  <2> HIDE DEF m, D
  <2> QED
    BY <1>2, <1>4, <1>5 DEF Lap, Apparent
<1> QED
  BY <1>3, <1>19, <1>20 DEF Lag

(* The arithmetic on offsets drops by the lag, with the one exception that *)
(* a client without any lag is taken for one a lap behind.                 *)
THEOREM SlowConsumersAreDropped == Spec => DropsByLag
<1>1. /\ TableInv /\ HistoryInv /\ [Next]_vars
      => [DropSlowConsumers =>
            \A p \in Peer :
              sock[p] \in Registered =>
                (sock[p] \in Registered'
                   <=> Apparent(Lag(p)) <= Capacity - drop_before_offset)]_vars
  BY DropIsByLag
<1> QED
  BY <1>1, HistoryHolds, PTL DEF Spec, DropsByLag

-----------------------------------------------------------------------------
(* The rounds of the loop *)

(* Each registered connection is watched. *)
Covered ==
  /\ pc \in Boot!Starting \cup { "queue", "table", "watch" } => clients = << >>
  /\ pc \in Looping =>
       \A k \in 1 .. Len(clients) :
         clients[k].fd # -1 =>
           \E j \in 2 .. Len(fds) : fds[j].fd = clients[k].fd

(* This connection, unless it is dead, has been written all there is. *)
UpToDate(p) ==
  link[p] = "up" /\ start # end /\ sock[p] \in Registered =>
    Len(got[p]) = get_length

(* The second loop leaves nobody behind. *)
Rounds ==
  /\ pc = "flush" /\ writing # Nobody =>
       idx <= Len(fds) /\ fds[idx].fd = writing
  /\ pc = "flush" =>
       \A p \in Peer : \A j \in 2 .. Len(fds) :
         j < idx /\ fds[j].fd = sock[p] => UpToDate(p)
  /\ pc = "poll" => \A p \in Peer : UpToDate(p)

RoundInv == Covered /\ Rounds

Early == Boot!Starting \cup { "queue", "table", "watch" }

LEMMA SameCovered ==
  ASSUME Covered, UNCHANGED fds, pc' \notin Early,
         pc' \in Looping => pc \in Looping,
         \A k \in 1 .. Len(clients') :
           \E n \in 1 .. Len(clients) : clients[n].fd = clients'[k].fd
  PROVE  Covered'
BY DEF Covered, Early

LEMMA SameUpToDate ==
  ASSUME NEW p \in Peer, UpToDate(p), UNCHANGED Ring,
         link'[p] = "up" /\ sock'[p] \in Registered' =>
           /\ link[p] = "up" /\ sock[p] \in Registered /\ got'[p] = got[p]
  PROVE  UpToDate(p)'
<1>1. get_length' = get_length /\ UNCHANGED << start, end >>
  BY SameHistory DEF Ring
<1> QED
  BY <1>1 DEF UpToDate

LEMMA RegisteredIsOpen ==
  ASSUME TableInv
  PROVE  Registered \subseteq Open /\ 0 \notin Registered
<1>1. 0 \notin Open
  BY DEF Open
<1> QED
  BY <1>1, EntriesAreOpen

LEMMA InitRounds == Init => RoundInv
BY DEF Init, Boot!ListeningInit, RoundInv, Covered, Rounds, Boot!Starting,
       Looping

LEMMA EnvironmentRounds ==
  ASSUME TableInv, RoundInv, Environment
  PROVE  RoundInv'
<1>1. UNCHANGED << clients, fds, pc, idx, writing, Ring, sock >>
  BY DEF Environment, Outside, Joins, Connect, Send, PeerReads, PeerCloses,
         ResetArrives, queueVars, serverVars, Ring
<1>2. link \in [Peer -> LinkState] /\ got \in [Peer -> Seq(Message)]
  BY DEF TableInv, Wired, SocketsTypeOK, TypeOK, ServerTypeOK
<1>3. ASSUME NEW q \in Peer, link'[q] = "up", sock'[q] \in Registered'
      PROVE  link[q] = "up" /\ sock[q] \in Registered /\ got'[q] = got[q]
  <2>1. sock[q] \in Registered /\ sock[q] # 0
    BY <1>1, <1>3, RegisteredIsOpen DEF Registered
  <2>2. ASSUME NEW p \in Peer, Outside(Joins(p))
        PROVE  link[q] = "up" /\ got'[q] = got[q]
    <3>1. sock[p] = 0
      BY <2>2, ConnectWired DEF Outside, Joins, TableInv
    <3>2. p # q
      BY <2>1, <3>1
    <3> QED
      BY <1>2, <1>3, <2>2, <3>2 DEF Outside, Joins, Connect
  <2>3. CASE ~ \E p \in Peer : Outside(Joins(p))
    <3>1. PICK p \in Peer :
            \/ Outside(Send(p) /\ UNCHANGED got)
            \/ Outside(PeerReads(p) /\ UNCHANGED got)
            \/ Outside(PeerCloses(p) /\ UNCHANGED got)
            \/ Outside(ResetArrives(p) /\ UNCHANGED got)
      BY <2>3 DEF Environment
    <3>2. UNCHANGED got
      BY <3>1 DEF Outside
    <3>3. link[q] = "up"
      BY <1>2, <1>3, <3>1
      DEF Outside, Send, PeerReads, PeerCloses, ResetArrives
    <3> QED
      BY <2>1, <3>2, <3>3
  <2> QED
    BY <2>1, <2>2, <2>3
<1>4. \A q \in Peer : UpToDate(q) => UpToDate(q)'
  BY <1>1, <1>3, SameUpToDate
<1>5. Covered'
  BY <1>1 DEF RoundInv, Covered
<1>6. Rounds'
  BY <1>1, <1>4 DEF RoundInv, Rounds
<1> QED
  BY <1>5, <1>6 DEF RoundInv

LEMMA StartRounds ==
  ASSUME TableInv, RoundInv, Start \/ StartFails
  PROVE  RoundInv'
<1>1. /\ pc \in Early /\ pc' # "flush"
      /\ pc' \in Looping => pc' = "poll"
      /\ UNCHANGED clients \/ clients' = << >>
  BY DEF Start, StartFails, GetServerSocket, GetServerSocketFails,
         CreateQueue, CreateTable, CreateTableFails, WatchServer, StartVars,
         Boot!Proceeds, Boot!GivesUp, Boot!GetAddrInfo, Boot!GetAddrInfoFails,
         Boot!Socket, Boot!SocketFails, Boot!NoSocket, Boot!Bind,
         Boot!BindFails, Boot!Listen, Boot!ListenFails, Boot!Exit,
         Boot!Starting, Looping, Early, queueVars, message_queue__init
<1>2. clients' = << >>
  BY <1>1 DEF RoundInv, Covered, Early
<1>3. Covered'
  BY <1>2 DEF Covered
<1>4. Registered' = {}
  BY <1>2 DEF Registered
<1>5. Rounds'
  BY <1>1, <1>4 DEF Rounds, UpToDate
<1> QED
  BY <1>3, <1>5 DEF RoundInv

LEMMA ServerIsBusy ==
  ASSUME TableInv, TableInv', RoundInv,
         \/ Poll \/ NoConnection \/ NoEvent \/ Killed \/ Fails \/ Enqueue
         \/ EnqueueAgain \/ \E n \in 1 .. ReadMax : ReadMessage(n)
  PROVE  RoundInv'
<1>1. /\ UNCHANGED clients
      /\ pc' \notin Early \cup { "poll", "flush" }
      /\ pc' \in Looping => pc \in Looping
  BY DEF Poll, NoConnection, NoEvent, Killed, Fails, PollFails, ServerFails,
         LeavesLoop, ReadMessage, Enqueue, EnqueueAgain, HandlerReturns,
         message_queue__q, ToClients, AtClient, queueVars, Early, Looping,
         Boot!Starting
<1>2. pc' \in Looping =>
        /\ Len(fds') = Len(fds)
        /\ \A j \in 1 .. Len(fds) : fds'[j].fd = fds[j].fd
  <2>1. CASE Poll
    BY <2>1, PollIs DEF Poll, TableInv, TypeOK
  <2>2. CASE ~ Poll /\ pc' \in Looping
    <3>1. fds' = fds
      BY <2>2
      DEF NoConnection, NoEvent, Killed, Fails, PollFails, ServerFails,
          LeavesLoop, ReadMessage, Enqueue, EnqueueAgain, Looping
    <3> QED
      BY <3>1
  <2> QED
    BY <2>1, <2>2
<1>3. Covered'
  <2> SUFFICES ASSUME pc' \in Looping PROVE Covered'
    BY <1>1 DEF Covered, Early
  <2>1. Len(fds) \in Nat
    BY DEF TableInv, TypeOK, FdsTypeOK
  <2>2. \A j \in 2 .. Len(fds) : j \in 1 .. Len(fds)
    BY <2>1
  <2> QED
    BY <1>1, <1>2, <2>2 DEF RoundInv, Covered, Early
<1>4. Rounds'
  BY <1>1 DEF Rounds
<1> QED
  BY <1>3, <1>4 DEF RoundInv

LEMMA DropRounds ==
  ASSUME TableInv, RoundInv, DropSlowConsumers
  PROVE  RoundInv'
<1>1. /\ message_queue__drop_slow_consumers /\ pc = "drop" /\ pc' = "again"
      /\ UNCHANGED fds
  BY DEF DropSlowConsumers
<1>2. PICK at : Selects(at)
  BY <1>1, DropIs DEF TableInv, TypeOK
<1>3. \A k \in 1 .. Len(clients') :
        \E n \in 1 .. Len(clients) : clients[n].fd = clients'[k].fd
  BY <1>2 DEF Selects
<1>4. Covered'
  BY <1>1, <1>3, SameCovered DEF Looping, Early, RoundInv, Boot!Starting
<1>5. Rounds'
  BY <1>1 DEF Rounds
<1> QED
  BY <1>4, <1>5 DEF RoundInv

(* What is accepted is watched as long as there is room in the table. *)
LEMMA AcceptedIsWatched ==
  ASSUME TableInv, NEW fd \in AcceptReturns, Accept(fd), fd # -1,
         WatchReturns # -1
  PROVE  \E j \in 2 .. Len(fds') : fds'[j].fd = fd
<1>0. /\ FdsTypeOK /\ Wired /\ Table
      /\ Len(fds) \in Nat /\ DOMAIN fds = 1 .. Len(fds)
  BY DEF TableInv, TypeOK, FdsTypeOK
<1>1. fd_state__watch(fd) /\ pc = "server" /\ ~ (Len(fds) >= FdsCapacity)
  BY DEF Accept, WatchReturns
<1>2. fd \in Descriptor \ Open /\ fd \in Int /\ fd > 3
  <2>1. fd \in Descriptor \ Open
    BY DEF AcceptReturns, FreeFds
  <2> QED
    BY <2>1, SocketsAssumption DEF Descriptor, ServerFd
<1>3. \A k \in 1 .. Len(fds) : fds[k].fd # fd /\ fds[k].fd # Complement(fd)
  <2>1. Complement(fd) < -1 /\ Complement(fd) \in Int
    BY <1>2 DEF Complement
  <2>2. \A f \in Open : f > 3
    BY <1>0, OpenTyped, SocketsAssumption DEF Descriptor, ServerFd
  <2>3. \A k \in 1 .. Len(fds) :
          fds[k].fd = -1 \/ fds[k].fd = 3 \/ fds[k].fd \in Open
    BY <1>0 DEF Table, ServerFd
  <2>4. /\ Complement(fd) \notin Open
        /\ Complement(fd) # -1 /\ Complement(fd) # 3
    <3>1. Complement(fd) # -1 /\ Complement(fd) # 3 /\ ~ (Complement(fd) > 3)
      BY <2>1
    <3> QED
      BY <2>2, <3>1
  <2>5. fd \notin Open /\ fd # 3 /\ fd # -1
    BY <1>2
  <2> QED
    BY <2>3, <2>4, <2>5
<1> DEFINE new == [fd |-> fd, revents |-> {}]
<1>4. fds' = Append(fds, new)
  BY <1>0, <1>1, <1>3 DEF fd_state__watch
<1>5. fds \in Seq(FdEntry) /\ new \in FdEntry
  BY <1>0, <1>2 DEF FdsTypeOK, FdEntry
<1> HIDE DEF new, FdEntry
<1>6. Len(fds') = Len(fds) + 1 /\ fds'[Len(fds) + 1] = new
  BY <1>4, <1>5
<1>7. Len(fds) >= 1
  BY <1>0, <1>1 DEF Table, Looping
<1>8. Len(fds) + 1 \in 2 .. Len(fds')
  BY <1>0, <1>6, <1>7
<1> QED
  BY <1>6, <1>8 DEF new

LEMMA AcceptRounds ==
  ASSUME TableInv, RoundInv, NEW fd \in AcceptReturns, Accept(fd)
  PROVE  RoundInv'
<1>0. /\ QueueTypeOK /\ FdsTypeOK /\ Wired /\ Table /\ List /\ Covered
      /\ Len(fds) \in Nat /\ Len(clients) \in Nat
  BY DEF TableInv, TypeOK, RoundInv, FdsTypeOK, QueueTypeOK
<1>1. /\ pc = "server" /\ pc' = "clients" /\ fd_state__watch(fd)
      /\ IF WatchReturns = -1 THEN UNCHANGED queueVars
         ELSE message_queue__register_client(fd)
  BY DEF Accept, ToClients
<1>2. fd = -1 \/ fd \in Descriptor \ Open
  BY DEF AcceptReturns, FreeFds
<1>3. fd \in Int
  <2>1. -1 \in Int /\ Descriptor \subseteq Int
    BY SocketsAssumption DEF Descriptor, ServerFd
  <2> QED
    BY <1>2, <2>1
<1>4. /\ Len(fds') >= Len(fds) /\ Len(fds') \in Nat
      /\ \A j \in 1 .. Len(fds) : fds'[j] = fds[j]
  <2>1. \/ fds' = fds
        \/ /\ Len(fds') = Len(fds) + 1
           /\ \A k \in 1 .. Len(fds) : fds'[k] = fds[k]
    BY <1>0, <1>1, <1>3, WatchIs
  <2> QED
    BY <1>0, <2>1
<1>5. \A j \in 2 .. Len(fds) : j \in 1 .. Len(fds) /\ j \in 2 .. Len(fds')
  BY <1>0, <1>4
<1>6. \A k \in 1 .. Len(clients) : clients[k].fd # -1 =>
        \E j \in 2 .. Len(fds') : fds'[j].fd = clients[k].fd
  BY <1>0, <1>1, <1>4, <1>5 DEF Covered, Looping
<1>7. WatchReturns # -1 /\ fd # -1 =>
        \E j \in 2 .. Len(fds') : fds'[j].fd = fd
  BY AcceptedIsWatched
<1>8. ASSUME NEW k \in 1 .. Len(clients'), clients'[k].fd # -1
      PROVE  \E j \in 2 .. Len(fds') : fds'[j].fd = clients'[k].fd
  <2>1. CASE clients' = clients
    BY <1>6, <1>8, <2>1
  <2>2. CASE clients' # clients
    <3>1. WatchReturns # -1 /\ message_queue__register_client(fd)
      BY <1>1, <2>2 DEF queueVars
    <3>2. /\ Len(clients') = Len(clients) + 1
          /\ clients'[1] = NewClient(fd)
          /\ \A n \in 1 .. Len(clients) : clients'[n + 1] = clients[n]
      BY <1>0, <1>3, <2>2, <3>1, RegisterIs
    <3>3. CASE k = 1
      <4>1. clients'[k].fd = fd
        BY <3>2, <3>3 DEF NewClient
      <4> QED
        BY <1>7, <1>8, <3>1, <4>1
    <3>4. CASE k # 1
      <4>1. k - 1 \in 1 .. Len(clients) /\ (k - 1) + 1 = k
        BY <1>0, <3>2, <3>4
      <4>2. clients'[k] = clients[k - 1]
        BY <3>2, <4>1
      <4> QED
        BY <1>6, <1>8, <4>1, <4>2
    <3> QED
      BY <3>3, <3>4
  <2> QED
    BY <2>1, <2>2
<1>9. Covered'
  BY <1>1, <1>8 DEF Covered, Boot!Starting
<1>10. Rounds'
  BY <1>1 DEF Rounds
<1> QED
  BY <1>9, <1>10 DEF RoundInv

(* An entry that is not removed is moved at most. *)
LEMMA SurvivesUnwatch ==
  ASSUME Len(fds) \in Nat, idx \in 2 .. Len(fds),
         Len(fds') = Len(fds) - 1,
         \A k \in 1 .. Len(fds) - 1 :
           fds'[k] = IF k = idx THEN fds[Len(fds)] ELSE fds[k],
         NEW j \in 2 .. Len(fds), fds[j].fd # fds[idx].fd
  PROVE  \E k \in 2 .. Len(fds') : fds'[k].fd = fds[j].fd
<1> DEFINE k == IF j = Len(fds) THEN idx ELSE j
<1>1. j # idx
  OBVIOUS
<1>2. k \in 2 .. Len(fds) - 1 /\ k \in 1 .. Len(fds) - 1
  BY <1>1
<1>3. fds'[k] = fds[j]
  BY <1>1, <1>2
<1> HIDE DEF k
<1> QED
  BY <1>2, <1>3

LEMMA DisconnectRounds ==
  ASSUME TableInv, RoundInv, NEW p \in Peer, AtClient, idx \in 2 .. Len(fds),
         fds[idx].fd = sock[p], sock[p] # 0, Disconnect(p)
  PROVE  RoundInv'
<1>0. /\ QueueTypeOK /\ FdsTypeOK /\ Wired /\ Table /\ List /\ Covered
      /\ Len(fds) \in Nat
  BY DEF TableInv, TypeOK, RoundInv, FdsTypeOK
<1>1. /\ pc = "clients" /\ pc' = pc /\ fd_state__unwatch(sock[p])
      /\ message_queue__unregister_client(sock[p])
  BY DEF Disconnect, AtClient
<1>2. idx \in 1 .. Len(fds)
  BY <1>0
<1>3. /\ Len(fds') = Len(fds) - 1
      /\ \A k \in 1 .. Len(fds) - 1 :
           fds'[k] = IF k = idx THEN fds[Len(fds)] ELSE fds[k]
  BY <1>0, <1>1, <1>2, UnwatchIs DEF Table
<1>4. ASSUME NEW j \in 2 .. Len(fds), fds[j].fd # sock[p]
      PROVE  \E k \in 2 .. Len(fds') : fds'[k].fd = fds[j].fd
  BY <1>0, <1>3, <1>4, SurvivesUnwatch
<1>5. /\ \A k \in 1 .. Len(clients') : clients'[k].fd # sock[p]
      /\ \E at : Selects(at)
  <2>1. -1 \notin Open /\ sock[p] \in Open
    BY <1>0, PeerOfSock, ServerIsNoClient
  <2>2. \A j, k \in 1 .. Len(clients) :
          clients[j].fd = sock[p] /\ clients[k].fd = sock[p] => j = k
    BY <1>0, <2>1 DEF List
  <2>3. ~ exists => clients = << >>
    BY <1>0 DEF List
  <2> QED
    BY <1>0, <1>1, <2>2, <2>3, UnregisterIs
<1>6. PICK at : Selects(at)
  BY <1>5
<1>7. ASSUME NEW k \in 1 .. Len(clients'), clients'[k].fd # -1
      PROVE  \E j \in 2 .. Len(fds') : fds'[j].fd = clients'[k].fd
  <2>1. at[k] \in 1 .. Len(clients) /\ clients'[k] = clients[at[k]]
    BY <1>6 DEF Selects
  <2>2. PICK j \in 2 .. Len(fds) : fds[j].fd = clients[at[k]].fd
    BY <1>0, <1>1, <1>7, <2>1 DEF Covered, Looping
  <2> QED
    BY <1>4, <1>5, <2>1, <2>2
<1>8. Covered'
  BY <1>1, <1>7 DEF Covered, Boot!Starting
<1>9. Rounds'
  BY <1>1 DEF Rounds
<1> QED
  BY <1>8, <1>9 DEF RoundInv

LEMMA SecondLoopBegins ==
  ASSUME TableInv, RoundInv, ClientsDone
  PROVE  RoundInv'
<1>1. /\ pc = "clients" /\ pc' = "flush" /\ idx' = 2
      /\ UNCHANGED << clients, fds, writing >>
  BY DEF ClientsDone, queueVars
<1>2. writing = Nobody
  BY <1>1 DEF TableInv, Loops, Idle
<1>3. Covered'
  BY <1>1 DEF RoundInv, Covered, Looping, Boot!Starting
<1>4. \A j \in 2 .. Len(fds) : ~ (j < 2)
  BY DEF TableInv, TypeOK, FdsTypeOK
<1>5. Rounds'
  BY <1>1, <1>2, <1>4 DEF Rounds
<1> QED
  BY <1>3, <1>5 DEF RoundInv

LEMMA SecondLoopEnds ==
  ASSUME TableInv, RoundInv, FlushDone
  PROVE  RoundInv'
<1>1. /\ pc = "flush" /\ pc' = "poll" /\ idx > Len(fds)
      /\ UNCHANGED << clients, fds, Ring, sock, link, got >>
  BY DEF FlushDone, queueVars, kernelVars, Ring
<1>2. Covered'
  BY <1>1 DEF RoundInv, Covered, Looping, Boot!Starting
<1>3. ASSUME NEW p \in Peer PROVE UpToDate(p)
  <2> SUFFICES ASSUME sock[p] \in Registered PROVE UpToDate(p)
    BY DEF UpToDate
  <2>1. DOMAIN clients = 1 .. Len(clients) /\ Len(fds) \in Nat /\ idx \in Nat
    BY DEF TableInv, TypeOK, QueueTypeOK, FdsTypeOK, ServerTypeOK
  <2>2. PICK k \in 1 .. Len(clients) :
          clients[k].fd = sock[p] /\ clients[k].fd # -1
    BY <2>1 DEF Registered
  <2>3. PICK j \in 2 .. Len(fds) : fds[j].fd = sock[p]
    BY <1>1, <2>2 DEF RoundInv, Covered, Looping
  <2>4. j < idx
    BY <1>1, <2>1
  <2> QED
    BY <1>1, <2>3, <2>4 DEF RoundInv, Rounds
<1>4. \A p \in Peer : UpToDate(p)'
  <2>1. Registered' = Registered
    BY <1>1 DEF Registered
  <2> QED
    BY <1>1, <1>3, <2>1, SameUpToDate
<1>5. Rounds'
  BY <1>1, <1>4 DEF Rounds
<1> QED
  BY <1>2, <1>5 DEF RoundInv

(* A step of the second loop, which leaves what it has done done *)
LEMMA SecondLoopRounds ==
  ASSUME TableInv, RoundInv, pc = "flush",
         UNCHANGED << pc, fds, sock, Ring >>,
         Len(clients') = Len(clients),
         \A k \in 1 .. Len(clients) : clients'[k].fd = clients[k].fd,
         DOMAIN clients' = DOMAIN clients,
         \A q \in Peer : link'[q] = "up" => link[q] = "up",
         \A q \in Peer : sock[q] = fds[idx].fd \/ got'[q] = got[q],
         writing' # Nobody => idx' = idx /\ writing' = fds[idx].fd,
         idx' = idx
           \/ /\ idx' = idx + 1 /\ UNCHANGED got
              /\ \A p \in Peer : sock[p] = fds[idx].fd => UpToDate(p)',
         idx \in 1 .. Len(fds)
  PROVE  RoundInv'
<1>1. DOMAIN clients = 1 .. Len(clients)
  BY DEF TableInv, TypeOK, QueueTypeOK
<1>2. Registered' = Registered
  BY <1>1 DEF Registered
<1>3. ASSUME NEW p \in Peer, UpToDate(p),
             sock[p] # fds[idx].fd \/ UNCHANGED got
      PROVE  UpToDate(p)'
  BY <1>2, <1>3, SameUpToDate
<1>4. idx \in Nat /\ Len(fds) \in Nat
  BY DEF TableInv, TypeOK, ServerTypeOK, FdsTypeOK
<1>5. ASSUME NEW p \in Peer, NEW j \in 2 .. Len(fds), j < idx',
             fds[j].fd = sock[p]
      PROVE  UpToDate(p)'
  <2>1. CASE j < idx
    <3>1. UpToDate(p)
      BY <1>5, <2>1 DEF RoundInv, Rounds
    <3>2. j \in 1 .. Len(fds) /\ j # idx
      BY <1>4, <2>1
    <3>3. sock[p] # fds[idx].fd
      BY <1>5, <3>2 DEF TableInv, Table
    <3> QED
      BY <1>3, <3>1, <3>3
  <2>2. CASE ~ (j < idx)
    <3>1. idx' # idx /\ idx' = idx + 1
      BY <1>5, <2>2
    <3>2. j = idx
      BY <1>4, <1>5, <2>2, <3>1
    <3> QED
      BY <1>5, <3>1, <3>2
  <2> QED
    BY <2>1, <2>2
<1>6. Rounds'
  BY <1>5 DEF Rounds
<1>7. Covered'
  BY DEF RoundInv, Covered, Boot!Starting, Looping
<1> QED
  BY <1>6, <1>7 DEF RoundInv

LEMMA FlushRounds ==
  ASSUME TableInv, HistoryInv, RoundInv, Flush
  PROVE  RoundInv'
<1>0. /\ QueueTypeOK /\ FdsTypeOK /\ Loops /\ Wired /\ List /\ Table
      /\ Filled /\ Shown
      /\ idx \in Nat /\ got \in [Peer -> Seq(Message)]
  BY DEF TableInv, TypeOK, ServerTypeOK, HistoryInv
<1>1. /\ pc = "flush" /\ idx <= Len(fds) /\ message_queue__flush(fds[idx].fd)
      /\ idx' = IF writing' = Nobody THEN idx + 1 ELSE idx
      /\ UNCHANGED << pc, fds, sock, link, got >>
  BY DEF Flush, AfterFlush, kernelVars
<1> DEFINE fd == fds[idx].fd
<1>2. /\ writing = Nobody /\ UNCHANGED << Ring, clients >>
      /\ \/ writing' = fd
         \/ writing' = Nobody
              /\ (~ exists \/ get_length = 0 \/ ClientOf(fd) = 0)
  BY <1>1 DEF message_queue__flush, Idle, Loop
<1>3. idx \in 1 .. Len(fds)
  BY <1>0, <1>1 DEF Loops, FdsTypeOK
<1>4. fd # Nobody
  BY <1>0, <1>3, ServerIsNoClient DEF Table, ServerFd, Nobody
<1>5. ASSUME writing' = Nobody, NEW p \in Peer, sock[p] = fd
      PROVE  UpToDate(p)
  <2>1. ~ exists \/ get_length = 0 \/ ClientOf(fd) = 0
    BY <1>2, <1>4, <1>5
  <2>2. DOMAIN clients = 1 .. Len(clients)
    BY <1>0 DEF QueueTypeOK
  <2>3. CASE ~ exists
    <3>1. clients = << >>
      BY <1>0, <2>3 DEF List
    <3>2. Registered = {}
      BY <3>1 DEF Registered
    <3> QED
      BY <3>2 DEF UpToDate
  <2>4. CASE get_length = 0
    <3>1. Len(got[p]) \in Nat /\ Len(got[p]) <= 0
      BY <1>0, <2>4 DEF Shown
    <3> QED
      BY <2>4, <3>1 DEF UpToDate
  <2>5. CASE ClientOf(fd) = 0
    <3>1. \A k \in 1 .. Len(clients) : clients[k].fd # fd
      BY <1>0, <2>5, ClientIndex
    <3>2. sock[p] \notin Registered
      BY <1>5, <2>2, <3>1 DEF Registered
    <3> QED
      BY <3>2 DEF UpToDate
  <2> QED
    BY <2>1, <2>3, <2>4, <2>5
<1>6. Registered' = Registered
  BY <1>2 DEF Registered
<1>7. ASSUME writing' = Nobody, NEW p \in Peer, sock[p] = fd
      PROVE  UpToDate(p)'
  BY <1>1, <1>2, <1>5, <1>6, <1>7, SameUpToDate
<1> HIDE DEF fd
<1>8. /\ writing' # Nobody => idx' = idx /\ writing' = fd
      /\ writing' = Nobody => idx' = idx + 1
  BY <1>1, <1>2
<1> QED
  BY <1>1, <1>2, <1>3, <1>7, <1>8, SecondLoopRounds DEF fd

LEMMA FlushFinishesRounds ==
  ASSUME TableInv, HistoryInv, RoundInv, FlushFinishes
  PROVE  RoundInv'
<1>0. /\ QueueTypeOK /\ FdsTypeOK /\ Loops /\ Wired /\ List /\ Table
      /\ Filled /\ Shown /\ Rounds
      /\ idx \in Nat /\ got \in [Peer -> Seq(Message)]
  BY DEF TableInv, TypeOK, ServerTypeOK, HistoryInv, RoundInv
<1>1. /\ pc = "flush" /\ writing # Nobody
      /\ FlushSkips \/ FlushEnds
      /\ idx' = IF writing' = Nobody THEN idx + 1 ELSE idx
      /\ UNCHANGED << pc, fds, sock, link, got >>
  BY DEF FlushFinishes, AfterFlush, FlushSkips, FlushEnds, Idle, kernelVars
<1>2. fds[idx].fd = writing
  BY <1>0, <1>1 DEF Rounds
<1>3. idx \in 1 .. Len(fds)
  BY <1>0, <1>1 DEF Rounds, Loops, FdsTypeOK
<1>4. CASE FlushSkips
  BY <1>1, <1>2, <1>3, <1>4, SecondLoopRounds DEF FlushSkips
<1>5. CASE FlushEnds
  <2>1. i = end /\ LeaveLoop(end, "0") /\ end \in Slot /\ "0" \in ReturnCode
    BY <1>0, <1>5 DEF FlushEnds, QueueTypeOK, ReturnCode
  <2>2. /\ UNCHANGED Ring /\ writing' = Nobody
        /\ Len(clients') = Len(clients)
        /\ \A k \in 1 .. Len(clients) : clients'[k].fd = clients[k].fd
        /\ DOMAIN clients' = DOMAIN clients
    BY <1>0, <2>1, LeaveLoopKeeps
  <2>3. ASSUME NEW p \in Peer, sock[p] = fds[idx].fd PROVE UpToDate(p)
    <3> DEFINE m == Len(got[p])
               L == get_length
    <3> SUFFICES ASSUME start # end, sock[p] \in Registered PROVE m = L
      BY DEF UpToDate
    <3>1. writing \in Open
      BY <1>2, <2>3, RegisteredIsOpen
    <3>2. PeerOf(writing) = p
      <4>1. sock[p] # 0
        BY RegisteredIsOpen
      <4> QED
        BY <1>0, <1>2, <2>3, <4>1, PeerOfSock
    <3>3. i = Lap(m)
      BY <3>1, <3>2, TraversalIs
    <3>4. m <= L /\ m \in Nat
      BY <1>0 DEF Shown
    <3>5. L \in 0 .. Capacity /\ L # Capacity /\ end = Lap(L)
            /\ Capacity \in Nat
      BY <1>0, LengthIs, QueueAssumption
    <3> HIDE DEF m, L
    <3>6. m # Capacity
      BY <3>4, <3>5
    <3> QED
      BY <2>1, <3>3, <3>5, <3>6 DEF Lap
  <2>4. Registered' = Registered
    <3>1. DOMAIN clients = 1 .. Len(clients)
      BY <1>0 DEF QueueTypeOK
    <3> QED
      BY <2>2, <3>1 DEF Registered
  <2>5. \A p \in Peer : sock[p] = fds[idx].fd => UpToDate(p)'
    BY <1>1, <2>2, <2>3, <2>4, SameUpToDate
  <2>6. idx' = idx + 1
    BY <1>1, <2>2
  <2> QED
    BY <1>1, <1>3, <2>2, <2>5, <2>6, SecondLoopRounds
<1> QED
  BY <1>1, <1>4, <1>5

LEMMA WriteRounds ==
  ASSUME TableInv, HistoryInv, RoundInv, Write
  PROVE  RoundInv'
<1>0. /\ QueueTypeOK /\ FdsTypeOK /\ Loops /\ Wired /\ Rounds
      /\ idx \in Nat /\ got \in [Peer -> Seq(Message)]
  BY DEF TableInv, TypeOK, ServerTypeOK, RoundInv
<1>1. /\ pc = "flush" /\ writing # Nobody /\ writing # -1
      /\ Writes(PeerOf(writing))
      /\ got' = [got EXCEPT ![PeerOf(writing)] = Append(@, messages[i])]
      /\ UNCHANGED << pc, fds, idx, Ring, clients, writing >>
  BY <1>0 DEF Write, FlushWrites, AtMessage, Idle, serverVars, QueueTypeOK
<1>2. PeerOf(writing) \in Peer /\ sock[PeerOf(writing)] = writing
  BY <1>1, WritingIsPeer
<1>3. fds[idx].fd = writing
  BY <1>0, <1>1 DEF Rounds
<1>4. idx \in 1 .. Len(fds)
  BY <1>0, <1>1 DEF Rounds, Loops, FdsTypeOK
<1>5. \A q \in Peer : sock[q] = fds[idx].fd \/ got'[q] = got[q]
  BY <1>0, <1>1, <1>2, <1>3
<1>6. /\ UNCHANGED sock
      /\ \A q \in Peer : link'[q] = "up" => link[q] = "up"
  BY <1>0, <1>1, <1>2 DEF Writes, Wired, SocketsTypeOK
<1> QED
  BY <1>1, <1>3, <1>4, <1>5, <1>6, SecondLoopRounds

LEMMA WriteFailsRounds ==
  ASSUME TableInv, HistoryInv, RoundInv, WriteFails
  PROVE  RoundInv'
<1>0. /\ QueueTypeOK /\ FdsTypeOK /\ Loops /\ Wired /\ Rounds
      /\ idx \in Nat /\ i \in Slot /\ "-1" \in ReturnCode
  BY DEF TableInv, TypeOK, ServerTypeOK, RoundInv, QueueTypeOK, ReturnCode
<1>1. /\ pc = "flush" /\ writing # Nobody /\ LeaveLoop(i, "-1")
      /\ IF writing = -1 THEN UNCHANGED kernelVars
         ELSE ReportsReset(PeerOf(writing))
      /\ idx' = IF writing' = Nobody THEN idx + 1 ELSE idx
      /\ UNCHANGED << pc, fds, got >>
  BY DEF WriteFails, FlushFails, AtMessage, Idle, AfterFlush
<1>2. fds[idx].fd = writing
  BY <1>0, <1>1 DEF Rounds
<1>3. idx \in 1 .. Len(fds)
  BY <1>0, <1>1 DEF Rounds, Loops, FdsTypeOK
<1>4. /\ UNCHANGED Ring /\ writing' = Nobody
      /\ Len(clients') = Len(clients)
      /\ \A k \in 1 .. Len(clients) : clients'[k].fd = clients[k].fd
      /\ DOMAIN clients' = DOMAIN clients
  BY <1>0, <1>1, LeaveLoopKeeps
<1>5. link \in [Peer -> LinkState]
  BY <1>0 DEF Wired, SocketsTypeOK
<1>6. /\ UNCHANGED sock
      /\ \A q \in Peer : link'[q] = "up" => link[q] = "up"
      /\ writing # -1 => link' = [link EXCEPT ![PeerOf(writing)] = "broken"]
  BY <1>1, <1>5 DEF ReportsReset, kernelVars
<1>7. ASSUME NEW p \in Peer, sock[p] = fds[idx].fd PROVE UpToDate(p)'
  <2>1. writing # -1
    BY <1>0, <1>2, <1>7, SockIsDescriptor
  <2>2. PeerOf(writing) = p
    BY <1>0, <1>1, <1>2, <1>7, <2>1, PeerOfSock, WritingIsPeer
  <2>3. link'[p] = "broken"
    BY <1>5, <1>6, <2>1, <2>2
  <2> QED
    BY <2>3 DEF UpToDate
<1> QED
  BY <1>1, <1>3, <1>4, <1>6, <1>7, SecondLoopRounds

LEMMA NextRounds ==
  ASSUME TableInv, TableInv', HistoryInv, RoundInv, [Next]_vars
  PROVE  RoundInv'
<1>1. CASE UNCHANGED vars
  <2>1. UNCHANGED << Ring, clients, writing, sock, link, got, pc, fds, idx >>
    BY <1>1 DEF vars, queueVars, kernelVars, serverVars, Ring
  <2>2. Covered'
    BY <2>1 DEF RoundInv, Covered
  <2>3. Registered' = Registered
    BY <2>1 DEF Registered
  <2>4. \A p \in Peer : UpToDate(p) => UpToDate(p)'
    BY <2>1, <2>3, SameUpToDate
  <2>5. Rounds'
    BY <2>1, <2>4 DEF RoundInv, Rounds
  <2> QED
    BY <2>2, <2>5 DEF RoundInv
<1>2. CASE ReadEnds \/ HangsUp
  <2>1. PICK e : AtClient /\ Event(e) /\ Disconnect(PeerOf(fds[idx].fd))
    BY <1>2 DEF ReadEnds, HangsUp
  <2>2. /\ idx \in 2 .. Len(fds) /\ PeerOf(fds[idx].fd) \in Peer
        /\ sock[PeerOf(fds[idx].fd)] = fds[idx].fd /\ fds[idx].fd # 0
    BY <2>1, EventOfOpen
  <2> QED
    BY <2>1, <2>2, DisconnectRounds
<1>3. CASE Next /\ ~ (ReadEnds \/ HangsUp)
  BY <1>3, StartRounds, EnvironmentRounds, ServerIsBusy, AcceptRounds,
     DropRounds, SecondLoopBegins, SecondLoopEnds, FlushRounds,
     FlushFinishesRounds, WriteRounds, WriteFailsRounds
  DEF Next, Listening, Server
<1> QED
  BY <1>1, <1>2, <1>3

(* When the loop comes round, every registered client whose connection is  *)
(* alive has been written the whole history, unless the ring is full,      *)
(* however often unwatch moved an entry.                                   *)
THEOREM NobodyLagsAfterARound == Spec => []CaughtUpEachRound
<1>1. Spec => [](TableInv /\ HistoryInv /\ RoundInv)
  BY HistoryHolds, InitRounds, NextRounds, PTL DEF Spec
<1>2. ASSUME TableInv, HistoryInv, RoundInv PROVE CaughtUpEachRound
  <2> SUFFICES ASSUME pc = "poll", start # end, NEW p \in Peer,
                      link[p] = "up", sock[p] \in Registered
               PROVE  got[p] = Content
    BY DEF CaughtUpEachRound
  <2>1. /\ QueueTypeOK /\ Filled /\ Shown /\ UpToDate(p)
        /\ got[p] \in Seq(Message)
    BY <1>2
    DEF TableInv, TypeOK, ServerTypeOK, HistoryInv, RoundInv, Rounds
  <2>2. Len(got[p]) = get_length
    BY <2>1 DEF UpToDate
  <2>3. /\ Content \in Seq(Message) /\ Len(Content) = get_length
        /\ \A k \in 1 .. get_length : Content[k] = messages[k - 1]
    BY <2>1, ContentIs
  <2>4. \A k \in 1 .. Len(got[p]) : got[p][k] = Content[k]
    BY <2>1, <2>2, <2>3 DEF Shown
  <2> QED
    BY <2>1, <2>2, <2>3, <2>4, SeqEqual
<1> QED
  BY <1>1, <1>2, PTL

-----------------------------------------------------------------------------
(* The units of the peers *)

(* What was written of each peer, as far as it is in the ring *)
Own(p) == Keep(Content, From(p))

LastUnit(s) == IF s = << >> THEN 0 ELSE s[Len(s)].last

Chained(s) ==
  \A k \in 1 .. Len(s) :
    s[k].first = (IF k = 1 THEN 0 ELSE s[k - 1].last) + 1

(* Without failures there is a queue once it should have been created. *)
Queued == pc \in Looping \cup { "table", "watch" } => exists

(* Nothing is left in a connection that is closed, or about to be because  *)
(* only its hang-up was reported.                                          *)
ReadOut ==
  /\ \A p \in Peer : link[p] = "none" => Unread(p) = 0
  /\ \A p \in Peer : \A k \in 1 .. Len(fds) :
       /\ fds[k].fd = sock[p]
       /\ "HUP" \in fds[k].revents
       /\ "IN" \notin fds[k].revents
       => Closed(p) /\ Unread(p) = 0

(* The units of a peer in the ring follow one another, and up to the last  *)
(* one read none is missing: it is in the ring or in the buffer.           *)
InOrder ==
  \A p \in Peer :
    /\ Chained(Own(p))
    /\ start # end =>
         IF readbuf \in From(p)
         THEN /\ readbuf.first = LastUnit(Own(p)) + 1
              /\ taken[p] = readbuf.last
         ELSE taken[p] = LastUnit(Own(p))

UnitsInv == TableInv /\ HistoryInv /\ Queued /\ ReadOut /\ InOrder

LEMMA InitQueued == Init => Queued
BY DEF Init, Boot!ListeningInit, Queued, Looping

LEMMA NextQueued ==
  ASSUME Failures = FALSE, Queued, [Next]_vars
  PROVE  Queued'
<1>1. CASE Start \/ StartFails
  <2>1. CASE GetServerSocket \/ GetServerSocketFails
    BY <2>1
    DEF GetServerSocket, GetServerSocketFails, Boot!Proceeds, Boot!GivesUp,
        Boot!GetAddrInfo, Boot!GetAddrInfoFails, Boot!Socket, Boot!SocketFails,
        Boot!NoSocket, Boot!Bind, Boot!BindFails, Boot!Listen,
        Boot!ListenFails, Boot!Exit, Queued, Looping
  <2>2. CASE CreateQueue
    BY <2>2 DEF CreateQueue, message_queue__init, Queued
  <2>3. CASE CreateTable \/ CreateTableFails \/ WatchServer
    BY <2>3
    DEF CreateTable, CreateTableFails, WatchServer, queueVars, Queued, Looping
  <2> QED
    BY <1>1, <2>1, <2>2, <2>3 DEF Start, StartFails
<1>2. CASE Listening
  <2>1. UNCHANGED exists
    BY <1>2
    DEF Listening, Server, Fails, Poll, NoConnection, Accept, NoEvent,
        ReadEnds, HangsUp, Disconnect, ReadMessage, Enqueue,
        DropSlowConsumers, EnqueueAgain, ClientsDone, Flush, FlushFinishes,
        Write, WriteFails, Killed, FlushDone, PollFails, ServerFails,
        LeavesLoop, queueVars, Ring, message_queue__q,
        message_queue__register_client, message_queue__unregister_client,
        message_queue__drop_slow_consumers, message_queue__flush,
        FlushSkips, FlushEnds, FlushWrites, FlushFails, LeaveLoop
  <2>2. pc \in Looping
    BY <1>2
    DEF Listening, Server, Fails, Poll, NoConnection, Accept, NoEvent,
        ReadEnds, HangsUp, AtClient, ReadMessage, Enqueue,
        DropSlowConsumers, EnqueueAgain, ClientsDone, Flush, FlushFinishes,
        Write, WriteFails, Killed, FlushDone, PollFails, ServerFails, Looping
  <2> QED
    BY <2>1, <2>2 DEF Queued
<1>3. CASE Environment \/ UNCHANGED vars
  <2>1. UNCHANGED << pc, exists >>
    BY <1>3 DEF Environment, Outside, vars, queueVars, serverVars
  <2> QED
    BY <2>1 DEF Queued
<1> QED
  BY <1>1, <1>2, <1>3 DEF Next

-----------------------------------------------------------------------------
(* What is closed has been read out. *)

LEMMA InitReadOut == Init => ReadOut
<1> SUFFICES ASSUME Init PROVE ReadOut
  OBVIOUS
<1>1. \A p \in Peer : Unread(p) = 0
  BY DEF Init, SocketsInit, Unread
<1>2. fds = << >> /\ Len(fds) = 0
  BY DEF Init
<1> QED
  BY <1>1, <1>2 DEF ReadOut

(* Steps that open or empty no connection and report nothing *)
LEMMA SameReadOut ==
  ASSUME ReadOut, UNCHANGED << fds, sock >>,
         \A p \in Peer :
           /\ link'[p] = "none" => link[p] = "none"
           /\ Closed(p) => Closed(p)'
           /\ (link[p] = "none" \/ Closed(p)) /\ Unread(p) = 0 =>
                Unread(p)' = 0
  PROVE  ReadOut'
BY DEF ReadOut

LEMMA EnvironmentReadOut ==
  ASSUME TableInv, ReadOut, Environment
  PROVE  ReadOut'
<1>0. /\ SocketsTypeOK /\ \A p \in Peer : Unread(p) = given[p] - taken[p]
  BY DEF TableInv, TypeOK, Unread
<1>1. PICK p \in Peer : \/ Connect(p) \/ Send(p) \/ PeerReads(p)
                        \/ PeerCloses(p) \/ ResetArrives(p)
  BY DEF Environment, Outside, Joins
<1>2. UNCHANGED << fds, sock >>
  BY <1>1 DEF Environment, Outside, Connect, Send, PeerReads, PeerCloses,
              ResetArrives
<1>3. ASSUME NEW q \in Peer
      PROVE  /\ link'[q] = "none" => link[q] = "none"
             /\ Closed(q) => Closed(q)'
  BY <1>0, <1>1
  DEF SocketsTypeOK, Closed, LinkState, Connect, Send, PeerReads, PeerCloses,
      ResetArrives
<1>4. ASSUME NEW q \in Peer, link[q] = "none" \/ Closed(q), Unread(q) = 0
      PROVE  Unread(q)' = 0
  <2>1. given \in [Peer -> Nat] /\ taken \in [Peer -> Nat]
    BY <1>0 DEF SocketsTypeOK
  <2>2. given[q] - taken[q] = 0
    BY <1>4 DEF Unread
  <2>3. given'[q] = given[q]
    BY <1>1, <1>4, <2>1
    DEF Connect, Send, PeerReads, PeerCloses, ResetArrives, Closed
  <2>4. taken'[q] = taken[q] \/ taken'[q] = given[q]
    BY <1>1, <2>1 DEF Connect, Send, PeerReads, PeerCloses, ResetArrives
  <2>5. given[q] - given[q] = 0
    BY <2>1
  <2> QED
    BY <2>2, <2>3, <2>4, <2>5 DEF Unread
<1> QED
  BY <1>2, <1>3, <1>4, SameReadOut

(* Without events, or with those that ppoll() finds *)
LEMMA PollReadOut ==
  ASSUME TableInv, ReadOut, Poll
  PROVE  ReadOut'
<1>1. PICK late \in BOOLEAN :
        fds' = [k \in DOMAIN fds |->
                  [fds[k] EXCEPT !.revents = Events(fds[k].fd, late)]]
  BY DEF Poll
<1>2. UNCHANGED << sock, link, given, taken >>
  BY DEF Poll, kernelVars
<1>3. FdsTypeOK /\ Wired /\ Table
  BY DEF TableInv, TypeOK
<1>4. /\ Len(fds') = Len(fds)
      /\ \A k \in 1 .. Len(fds) :
           /\ fds'[k].fd = fds[k].fd
           /\ fds'[k].revents = Events(fds[k].fd, late)
  BY <1>1, <1>3, PollIs
<1>5. ASSUME NEW p \in Peer, NEW k \in 1 .. Len(fds), fds[k].fd = sock[p],
             "HUP" \in Events(fds[k].fd, late),
             "IN" \notin Events(fds[k].fd, late)
      PROVE  Closed(p) /\ Unread(p) = 0
  <2>1. fds[k].fd \in { -1, ServerFd } \cup Open
    BY <1>3 DEF Table
  <2>2. fds[k].fd # ServerFd /\ fds[k].fd # -1 /\ ~ (fds[k].fd < 0)
    BY <1>5 DEF Events, ServerFd
  <2>3. sock[p] # 0 /\ PeerOf(fds[k].fd) = p
    <3>1. sock[p] # 0
      BY <1>5, <2>1, <2>2 DEF Open
    <3> QED
      BY <1>3, <1>5, <3>1, PeerOfSock
  <2>4. Closed(p) /\ ~ (Unread(p) > 0)
    BY <1>5, <2>2, <2>3 DEF Events, WatchedEvents
  <2>5. Unread(p) \in Int /\ Unread(p) >= 0
    BY <1>3 DEF Wired, SocketsTypeOK, Unread
  <2> QED
    BY <2>4, <2>5
<1> QED
  BY <1>2, <1>4, <1>5 DEF ReadOut, Closed, Unread

LEMMA DisconnectReadOut ==
  ASSUME TableInv, ReadOut, NEW p \in Peer, AtClient, idx \in 2 .. Len(fds),
         fds[idx].fd = sock[p], sock[p] # 0, Disconnect(p), Unread(p) = 0
  PROVE  ReadOut'
<1>0. /\ FdsTypeOK /\ Wired /\ Table /\ Len(fds) \in Nat
  BY DEF TableInv, TypeOK, FdsTypeOK
<1>1. fd_state__unwatch(sock[p]) /\ Closes(p)
  BY DEF Disconnect
<1>2. idx \in 1 .. Len(fds)
  BY <1>0
<1>3. /\ Len(fds') = Len(fds) - 1
      /\ \A k \in 1 .. Len(fds) - 1 :
           fds'[k] = IF k = idx THEN fds[Len(fds)] ELSE fds[k]
  BY <1>0, <1>1, <1>2, UnwatchIs DEF Table
<1>4. /\ \A q \in Peer : sock'[q] = IF q = p THEN 0 ELSE sock[q]
      /\ \A q \in Peer : link'[q] = IF q = p THEN "none" ELSE link[q]
      /\ UNCHANGED << given, taken >>
  BY <1>0, <1>1 DEF Closes, Wired, SocketsTypeOK
<1>5. \A q \in Peer : Unread(q)' = Unread(q)
  BY <1>4 DEF Unread
<1>6. \A k \in 1 .. Len(fds') :
        \E j \in 1 .. Len(fds) : fds'[k] = fds[j] /\ fds'[k].fd # 0
  <2> SUFFICES ASSUME NEW k \in 1 .. Len(fds')
               PROVE  \E j \in 1 .. Len(fds) : fds'[k] = fds[j]
                                                 /\ fds'[k].fd # 0
    OBVIOUS
  <2>1. k \in 1 .. Len(fds) - 1 /\ k \in 1 .. Len(fds)
          /\ Len(fds) \in 1 .. Len(fds)
    BY <1>0, <1>3
  <2>2. \A j \in 1 .. Len(fds) : fds[j].fd # 0
    <3>1. 0 \notin { -1, ServerFd } \cup Open
      BY DEF ServerFd, Open
    <3> QED
      BY <1>0, <3>1 DEF Table
  <2>3. PICK j \in 1 .. Len(fds) : fds'[k] = fds[j]
    BY <1>3, <2>1
  <2> QED
    BY <2>2, <2>3
<1>7. \A q \in Peer : link'[q] = "none" => Unread(q)' = 0
  BY <1>4, <1>5 DEF ReadOut
<1>8. ASSUME NEW q \in Peer, NEW k \in 1 .. Len(fds'),
             fds'[k].fd = sock'[q],
             "HUP" \in fds'[k].revents, "IN" \notin fds'[k].revents
      PROVE  Closed(q)' /\ Unread(q)' = 0
  <2>1. PICK j \in 1 .. Len(fds) : fds'[k] = fds[j] /\ fds'[k].fd # 0
    BY <1>6
  <2>2. q # p /\ sock'[q] = sock[q] /\ link'[q] = link[q]
    BY <1>4, <1>8, <2>1
  <2>3. Closed(q) /\ Unread(q) = 0
    BY <1>8, <2>1, <2>2 DEF ReadOut
  <2> QED
    BY <1>5, <2>2, <2>3 DEF Closed
<1> QED
  BY <1>7, <1>8 DEF ReadOut

LEMMA AcceptReadOut ==
  ASSUME TableInv, ReadOut, NEW fd \in AcceptReturns, Accept(fd)
  PROVE  ReadOut'
<1>0. /\ FdsTypeOK /\ Wired /\ Table /\ Len(fds) \in Nat
  BY DEF TableInv, TypeOK, FdsTypeOK
<1>1. /\ fd_state__watch(fd)
      /\ IF fd = -1 THEN UNCHANGED kernelVars ELSE Accepts(fd)
  BY DEF Accept
<1>2. fd = -1 \/ fd \in Descriptor \ Open
  BY DEF AcceptReturns, FreeFds
<1>3. fd \in Int
  <2>1. -1 \in Int /\ Descriptor \subseteq Int
    BY SocketsAssumption DEF Descriptor, ServerFd
  <2> QED
    BY <1>2, <2>1
<1>4. UNCHANGED << link, given, taken >>
  BY <1>1 DEF kernelVars, Accepts
<1>5. \A p \in Peer : Unread(p)' = Unread(p) /\ (Closed(p) => Closed(p)')
  BY <1>4 DEF Unread, Closed
<1>6. \/ fds' = fds
      \/ /\ Len(fds') = Len(fds) + 1
         /\ \A k \in 1 .. Len(fds) : fds'[k] = fds[k]
         /\ fds'[Len(fds) + 1] = [fd |-> fd, revents |-> {}]
  BY <1>0, <1>1, <1>3, WatchIs
<1>7. \A k \in 1 .. Len(fds') :
        \/ k \in 1 .. Len(fds) /\ fds'[k] = fds[k]
        \/ fds'[k].revents = {}
  <2>1. CASE fds' = fds
    BY <2>1
  <2>2. CASE fds' # fds
    <3>1. \A k \in 1 .. Len(fds') : k \in 1 .. Len(fds) \/ k = Len(fds) + 1
      BY <1>0, <1>6, <2>2
    <3> QED
      BY <1>6, <2>2, <3>1
  <2> QED
    BY <2>1, <2>2
<1>8. \A p \in Peer : sock'[p] = sock[p] \/ (sock'[p] = fd /\ fd # -1)
  <2>1. CASE fd = -1
    BY <1>1, <2>1 DEF kernelVars
  <2>2. CASE fd # -1
    <3>1. sock' = [sock EXCEPT ![Head(backlog)] = fd]
      BY <1>1, <2>2 DEF Accepts
    <3> QED
      BY <1>0, <2>2, <3>1 DEF Wired, SocketsTypeOK
  <2> QED
    BY <2>1, <2>2
<1>9. ASSUME NEW p \in Peer, NEW k \in 1 .. Len(fds'),
             fds'[k].fd = sock'[p],
             "HUP" \in fds'[k].revents, "IN" \notin fds'[k].revents
      PROVE  Closed(p)' /\ Unread(p)' = 0
  <2>1. k \in 1 .. Len(fds) /\ fds'[k] = fds[k]
    BY <1>7, <1>9
  <2>2. fds[k].fd \in { -1, ServerFd } \cup Open
    BY <1>0, <2>1 DEF Table
  <2>3. sock'[p] = sock[p]
    <3>1. fd # -1 => fd # ServerFd /\ fd \notin Open
      BY <1>2, SocketsAssumption DEF Descriptor, ServerFd
    <3> QED
      BY <1>8, <1>9, <2>1, <2>2, <3>1
  <2> QED
    BY <1>5, <1>9, <2>1, <2>3 DEF ReadOut
<1> QED
  BY <1>4, <1>5, <1>9 DEF ReadOut

LEMMA NextReadOut ==
  ASSUME TableInv, ReadOut, [Next]_vars
  PROVE  ReadOut'
<1>0. /\ Wired /\ Table /\ FdsTypeOK /\ link \in [Peer -> LinkState]
      /\ given \in [Peer -> Nat] /\ taken \in [Peer -> Nat]
      /\ \A p \in Peer : taken[p] <= given[p]
  BY DEF TableInv, TypeOK, Wired, SocketsTypeOK
<1>1. CASE ReadEnds \/ HangsUp
  <2>1. PICK e : AtClient /\ Event(e) /\ Disconnect(PeerOf(fds[idx].fd))
    BY <1>1 DEF ReadEnds, HangsUp
  <2> DEFINE p == PeerOf(fds[idx].fd)
  <2>2. /\ idx \in 2 .. Len(fds) /\ p \in Peer
        /\ sock[p] = fds[idx].fd /\ fds[idx].fd # 0
    BY <2>1, EventOfOpen
  <2>3. Unread(p) = 0
    <3>1. idx \in 1 .. Len(fds)
      BY <1>0, <2>2 DEF FdsTypeOK
    <3> QED
      BY <1>1, <2>2, <3>1 DEF ReadEnds, HangsUp, Event, ReadOut
  <2> QED
    BY <2>1, <2>2, <2>3, DisconnectReadOut
<1>2. CASE \E n \in 1 .. ReadMax : ReadMessage(n)
  <2>1. PICK n \in 1 .. ReadMax : ReadMessage(n)
    BY <1>2
  <2> DEFINE p == PeerOf(fds[idx].fd)
  <2>2. /\ UNCHANGED << fds, sock, link, given >> /\ n <= Unread(p)
        /\ taken' = [taken EXCEPT ![p] = @ + n]
    BY <2>1 DEF ReadMessage, Reads
  <2>3. p \in Peer
    BY <2>1, EventOfOpen DEF ReadMessage
  <2> HIDE DEF p
  <2>4. \A q \in Peer : Unread(q) = 0 => Unread(q)' = 0
    <3> SUFFICES ASSUME NEW q \in Peer, Unread(q) = 0 PROVE Unread(q)' = 0
      OBVIOUS
    <3>1. q # p
      BY <2>2, ServerAssumption
    <3> QED
      BY <1>0, <2>2, <3>1 DEF Unread
  <2> QED
    BY <2>2, <2>4, SameReadOut DEF Closed
<1>3. CASE Write \/ WriteFails
  <2>1. /\ UNCHANGED << fds, sock, given, taken >>
        /\ \A q \in Peer : link'[q] = "none" => link[q] = "none"
        /\ \A q \in Peer : Closed(q) => Closed(q)'
    BY <1>0, <1>3
    DEF Write, WriteFails, Writes, ReportsReset, kernelVars, Closed, LinkState
  <2>2. \A q \in Peer : Unread(q)' = Unread(q)
    BY <2>1 DEF Unread
  <2> QED
    BY <2>1, <2>2, SameReadOut
<1>4. CASE \E fd \in AcceptReturns : Accept(fd)
  BY <1>4, AcceptReadOut
<1>5. CASE \/ NoConnection \/ NoEvent \/ Enqueue \/ DropSlowConsumers
           \/ EnqueueAgain \/ ClientsDone \/ Flush \/ FlushFinishes
           \/ Killed \/ FlushDone \/ UNCHANGED vars
  <2>1. UNCHANGED << fds, sock, link, given, taken >>
    BY <1>5
    DEF NoConnection, NoEvent, Enqueue, DropSlowConsumers, EnqueueAgain,
        ClientsDone, Flush, FlushFinishes, Killed, FlushDone, vars, kernelVars
  <2>2. \A q \in Peer : Unread(q)' = Unread(q)
    BY <2>1 DEF Unread
  <2> QED
    BY <2>1, <2>2, SameReadOut DEF Closed
<1>6. CASE Start \/ StartFails \/ Fails
  <2>1. UNCHANGED << sock, link, given, taken >>
    BY <1>6
    DEF Start, StartFails, GetServerSocket, GetServerSocketFails,
        CreateQueue, CreateTable, CreateTableFails, WatchServer, StartVars,
        Fails, PollFails, ServerFails, LeavesLoop, kernelVars
  <2>2. \A q \in Peer : Unread(q)' = Unread(q)
    BY <2>1 DEF Unread
  <2>3. CASE UNCHANGED fds
    BY <2>1, <2>2, <2>3, SameReadOut DEF Closed
  <2>4. CASE fds' = << >>
    <3>1. Len(fds') = 0
      BY <2>4
    <3> QED
      BY <2>1, <2>2, <3>1 DEF ReadOut
  <2>5. CASE WatchServer
    <3>1. fds = << >>
      BY <1>0, <2>5 DEF WatchServer, Table, Looping
    <3>2. fds' = << >> \/ fds' = << [fd |-> ServerFd, revents |-> {}] >>
      <4> DEFINE new == [fd |-> ServerFd, revents |-> {}]
      <4>1. fds' = fds \/ fds' = Append(fds, new)
        BY <2>5 DEF WatchServer, fd_state__watch
      <4> HIDE DEF new
      <4>2. Append(<< >>, new) = << new >>
        OBVIOUS
      <4> QED
        BY <3>1, <4>1, <4>2 DEF new
    <3>3. \A k \in 1 .. Len(fds') : fds'[k].revents = {}
      BY <3>2
    <3> QED
      BY <2>1, <2>2, <3>3 DEF ReadOut
  <2> QED
    BY <1>6, <2>3, <2>4, <2>5
    DEF Start, StartFails, GetServerSocket, GetServerSocketFails,
        CreateQueue, CreateTable, CreateTableFails, StartVars, Fails,
        PollFails, ServerFails, LeavesLoop, fds_state__init,
        fds_state__destroy
<1> QED
  BY <1>1, <1>2, <1>3, <1>4, <1>5, <1>6, PollReadOut, EnvironmentReadOut
  DEF Next, Listening, Server

-----------------------------------------------------------------------------
(* The units of each peer, in their order *)

LEMMA OwnIs ==
  ASSUME QueueTypeOK, Filled, NEW p \in Peer
  PROVE  /\ Own(p) \in Seq(Message)
         /\ \A x \in Message :
              Keep(Append(Content, x), From(p))
                = IF x \in From(p) THEN Append(Own(p), x) ELSE Own(p)
<1>1. Content \in Seq(Message)
  BY ContentIs
<1>2. Own(p) \in Seq(Message \cap From(p))
  BY <1>1, KeepPicks DEF Own
<1>3. Own(p) \in Seq(Message)
  BY <1>2, SeqWider
<1> QED
  BY <1>1, <1>3, KeepAppend DEF Own

LEMMA ChainedAppend ==
  ASSUME NEW s \in Seq(Message), NEW x \in Message,
         Chained(s), x.first = LastUnit(s) + 1
  PROVE  Chained(Append(s, x)) /\ LastUnit(Append(s, x)) = x.last
<1> DEFINE t == Append(s, x)
           n == Len(s)
<1>1. /\ n \in Nat /\ Len(t) = n + 1 /\ t[n + 1] = x /\ t # << >>
      /\ \A k \in 1 .. n : t[k] = s[k]
  OBVIOUS
<1>2. s = << >> <=> n = 0
  OBVIOUS
<1> HIDE DEF t
<1>3. LastUnit(t) = x.last
  BY <1>1 DEF LastUnit
<1>4. ASSUME NEW k \in 1 .. n + 1
      PROVE  t[k].first = (IF k = 1 THEN 0 ELSE t[k - 1].last) + 1
  <2>1. CASE k = n + 1
    <3>1. CASE n = 0
      BY <1>1, <1>2, <2>1, <3>1 DEF LastUnit
    <3>2. CASE n # 0
      <4>1. n \in 1 .. n /\ k - 1 = n /\ k # 1
        BY <1>1, <2>1, <3>2
      <4>2. LastUnit(s) = s[n].last
        BY <1>2, <3>2 DEF LastUnit
      <4> QED
        BY <1>1, <2>1, <4>1, <4>2
    <3> QED
      BY <3>1, <3>2
  <2>2. CASE k # n + 1
    <3>1. k \in 1 .. n /\ (k # 1 => k - 1 \in 1 .. n)
      BY <1>1, <2>2
    <3>2. s[k].first = (IF k = 1 THEN 0 ELSE s[k - 1].last) + 1
      BY <3>1 DEF Chained
    <3> QED
      BY <1>1, <3>1, <3>2
  <2> QED
    BY <2>1, <2>2
<1>5. Chained(t)
  BY <1>1, <1>4 DEF Chained
<1> QED
  BY <1>3, <1>5 DEF t

LEMMA InitInOrder == Init => InOrder
<1> SUFFICES ASSUME Init PROVE InOrder
  OBVIOUS
<1>1. QueueTypeOK /\ Filled /\ get_length = 0
  BY InitTables, InitHistory DEF TableInv, TypeOK, HistoryInv, Init,
     get_length
<1>2. Content \in Seq(Message) /\ Len(Content) = 0
  BY <1>1, ContentIs
<1>3. Content = << >>
  BY <1>2
<1>4. \A p \in Peer : Own(p) = << >> /\ Len(Own(p)) = 0
  BY <1>3, KeepEmpty DEF Own
<1>5. \A p \in Peer : LastUnit(Own(p)) = 0 /\ Chained(Own(p))
  BY <1>4 DEF LastUnit, Chained
<1>6. \A p \in Peer : taken[p] = 0 /\ readbuf \notin From(p)
  BY QueueAssumption DEF Init, SocketsInit, From
<1> QED
  BY <1>5, <1>6 DEF InOrder

LEMMA SameInOrder ==
  ASSUME InOrder, Content' = Content, start' # end' => start # end,
         UNCHANGED << readbuf, taken >>
  PROVE  InOrder'
BY DEF InOrder, Own

(* A message is read: it goes on where the last one ended. *)
LEMMA ReadInOrder ==
  ASSUME TableInv, TableInv', HistoryInv, HistoryInv', InOrder,
         NEW n \in 1 .. ReadMax, ReadMessage(n)
  PROVE  InOrder'
<1> DEFINE p == PeerOf(fds[idx].fd)
<1>0. /\ taken \in [Peer -> Nat] /\ readbuf' \in Message
  BY DEF TableInv, TypeOK, SocketsTypeOK, ServerTypeOK, Loops, ReadMessage
<1>1. /\ pc = "clients" /\ UNCHANGED queueVars
      /\ readbuf' = [from |-> p, first |-> taken[p] + 1,
                     last |-> taken[p] + n]
      /\ taken' = [taken EXCEPT ![p] = @ + n]
  BY DEF ReadMessage, AtClient, Reads
<1>2. p \in Peer
  BY EventOfOpen DEF ReadMessage
<1> HIDE DEF p
<1>3. UNCHANGED << Ring, start, end >>
  BY <1>1 DEF queueVars, Ring
<1>4. Content' = Content
  BY <1>3, SameContent
<1>5. readbuf = NULL
  BY <1>1 DEF TableInv, Loops
<1>6. \A q \in Peer : readbuf \notin From(q)
  BY <1>5, QueueAssumption DEF From
<1>7. readbuf'.from = p /\ readbuf'.first = taken[p] + 1
        /\ readbuf'.last = taken[p] + n
  BY <1>1
<1>8. taken'[p] = taken[p] + n
        /\ \A q \in Peer : q # p => taken'[q] = taken[q]
  BY <1>0, <1>1, <1>2
<1>9. \A q \in Peer : readbuf' \in From(q) <=> q = p
  BY <1>0, <1>7 DEF From
<1>10. ASSUME NEW q \in Peer
       PROVE  /\ Chained(Own(q)')
              /\ start' # end' =>
                   IF readbuf' \in From(q)
                   THEN /\ readbuf'.first = LastUnit(Own(q)') + 1
                        /\ taken'[q] = readbuf'.last
                   ELSE taken'[q] = LastUnit(Own(q)')
  <2>1. Own(q)' = Own(q)
    BY <1>4 DEF Own
  <2>2. Chained(Own(q)) /\ (start # end => taken[q] = LastUnit(Own(q)))
    BY <1>6 DEF InOrder
  <2>3. CASE q = p
    BY <1>3, <1>7, <1>8, <1>9, <2>1, <2>2, <2>3
  <2>4. CASE q # p
    BY <1>3, <1>8, <1>9, <2>1, <2>2, <2>4
  <2> QED
    BY <2>3, <2>4
<1> QED
  BY <1>10 DEF InOrder, Chained, LastUnit

(* The message is queued, unless the ring is full. *)
LEMMA EnqueueInOrder ==
  ASSUME Failures = FALSE, TableInv, TableInv', HistoryInv, HistoryInv',
         Queued, InOrder, Enqueue \/ EnqueueAgain
  PROVE  InOrder'
<1>0. /\ pc \in { "q", "again" } /\ exists /\ UNCHANGED taken
      /\ message_queue__q(readbuf)
      /\ result' # "MQERR_ALLOC_FAIL"
      /\ readbuf' = NULL \/ (UNCHANGED readbuf /\ result' = "MQERR_FULL")
      /\ QueueTypeOK /\ Filled
  BY DEF Enqueue, EnqueueAgain, HandlerReturns, Queued, Looping, kernelVars,
         TableInv, TypeOK, HistoryInv
<1>1. CASE UNCHANGED Ring
  <2>1. Content' = Content
    BY <1>1, SameContent
  <2>2. readbuf \notin TooLong
    BY ServerAssumption
  <2>3. exists' => start' = end' /\ start = end
    BY <1>0, <1>1, <2>2, QueueAssumption
    DEF message_queue__q, Ring, Advance, QueueTypeOK, Slot
  <2> QED
    BY <1>0, <1>1, <2>1, <2>3 DEF Ring, InOrder, Own
<1>2. CASE ~ UNCHANGED Ring
  <2>1. /\ start # end /\ readbuf \in Message
        /\ Content' = Append(Content, readbuf)
    BY <1>2, EnqueueAppends
  <2>2. readbuf' = NULL
    BY <1>0, <1>2 DEF message_queue__q
  <2>3. ASSUME NEW p \in Peer
        PROVE  Chained(Own(p)') /\ taken'[p] = LastUnit(Own(p)')
                 /\ readbuf' \notin From(p)
    <3>1. Own(p)' = IF readbuf \in From(p) THEN Append(Own(p), readbuf)
                                           ELSE Own(p)
      BY <1>0, <2>1, OwnIs DEF Own
    <3>2. Own(p) \in Seq(Message) /\ Chained(Own(p))
      BY <1>0, OwnIs DEF InOrder
    <3>3. readbuf' \notin From(p)
      BY <2>2, QueueAssumption DEF From
    <3>4. CASE readbuf \in From(p)
      <4>1. readbuf.first = LastUnit(Own(p)) + 1 /\ taken[p] = readbuf.last
        BY <2>1, <3>4 DEF InOrder
      <4> QED
        BY <1>0, <2>1, <3>1, <3>2, <3>3, <3>4, <4>1, ChainedAppend
    <3>5. CASE readbuf \notin From(p)
      BY <1>0, <2>1, <3>1, <3>2, <3>3, <3>5 DEF InOrder
    <3> QED
      BY <3>4, <3>5
  <2> QED
    BY <2>3 DEF InOrder, Chained, LastUnit
<1> QED
  BY <1>1, <1>2

LEMMA EnvironmentInOrder ==
  ASSUME TableInv, TableInv', HistoryInv, HistoryInv', ReadOut, InOrder,
         Environment
  PROVE  InOrder'
<1>1. UNCHANGED << Ring, readbuf, start, end >>
  BY DEF Environment, Outside, queueVars, serverVars, Ring
<1>2. Content' = Content
  BY <1>1, SameContent
<1>3. given \in [Peer -> Nat] /\ taken \in [Peer -> Nat]
  BY DEF TableInv, TypeOK, SocketsTypeOK
<1>4. UNCHANGED taken
  <2>1. ASSUME NEW p \in Peer, Connect(p) PROVE UNCHANGED taken
    <3>1. taken' = [taken EXCEPT ![p] = given[p]] /\ link[p] = "none"
      BY <2>1 DEF Connect
    <3>2. given[p] = taken[p]
      BY <1>3, <3>1 DEF ReadOut, Unread
    <3> QED
      BY <1>3, <3>1, <3>2
  <2> QED
    BY <2>1
    DEF Environment, Outside, Joins, Send, PeerReads, PeerCloses,
        ResetArrives
<1> QED
  BY <1>1, <1>2, <1>4, SameInOrder

LEMMA NextInOrder ==
  ASSUME Failures = FALSE, TableInv, TableInv', HistoryInv, HistoryInv',
         Queued, ReadOut, InOrder, [Next]_vars
  PROVE  InOrder'
<1>1. CASE Start \/ StartFails
  <2>1. UNCHANGED << readbuf, taken >>
          /\ (UNCHANGED queueVars \/ message_queue__init)
    BY <1>1
    DEF Start, StartFails, GetServerSocket, GetServerSocketFails,
        CreateQueue, CreateTable, CreateTableFails, WatchServer, StartVars,
        kernelVars
  <2>2. CASE UNCHANGED queueVars
    <3>1. UNCHANGED << Ring, start, end >>
      BY <2>2 DEF queueVars, Ring
    <3> QED
      BY <2>1, <3>1, SameContent, SameInOrder
  <2>3. CASE message_queue__init
    BY <2>1, <2>3, CreationKeepsContent, SameInOrder
  <2> QED
    BY <2>1, <2>2, <2>3
<1>2. CASE /\ Server /\ ~ Enqueue /\ ~ EnqueueAgain
           /\ ~ \E n \in 1 .. ReadMax : ReadMessage(n)
  <2>1. UNCHANGED << Ring, start, end >>
    BY <1>2
    DEF Server, Poll, NoConnection, Accept, NoEvent, ReadEnds, HangsUp,
        Disconnect, DropSlowConsumers, ClientsDone, Flush, FlushFinishes,
        Write, WriteFails, Killed, FlushDone, queueVars, Ring,
        message_queue__register_client, message_queue__unregister_client,
        message_queue__drop_slow_consumers, message_queue__flush,
        FlushSkips, FlushEnds, FlushWrites, FlushFails, LeaveLoop
  <2>2. UNCHANGED << readbuf, taken >>
    BY <1>2
    DEF Server, Poll, NoConnection, Accept, NoEvent, ReadEnds, HangsUp,
        Disconnect, DropSlowConsumers, ClientsDone, Flush, FlushFinishes,
        Write, WriteFails, Killed, FlushDone, ToClients, serverVars,
        kernelVars, Accepts, Closes, Writes, ReportsReset
  <2> QED
    BY <2>1, <2>2, SameContent, SameInOrder
<1>3. CASE Fails \/ UNCHANGED vars
  <2>1. UNCHANGED << Ring, start, end, readbuf, taken >>
    BY <1>3
    DEF Fails, PollFails, ServerFails, LeavesLoop, vars, queueVars,
        serverVars, kernelVars, Ring
  <2> QED
    BY <2>1, SameContent, SameInOrder
<1> QED
  BY <1>1, <1>2, <1>3, EnvironmentInOrder, ReadInOrder, EnqueueInOrder
  DEF Next, Listening

LEMMA UnitsHold ==
  ASSUME Failures = FALSE PROVE Spec => []UnitsInv
<1>1. Init => UnitsInv
  BY InitTables, InitHistory, InitQueued, InitReadOut, InitInOrder
  DEF UnitsInv
<1>2. UnitsInv /\ [Next]_vars => UnitsInv'
  <2> SUFFICES ASSUME UnitsInv, [Next]_vars PROVE UnitsInv'
    OBVIOUS
  <2>1. TableInv' /\ HistoryInv'
    BY NextTables, NextHistory DEF UnitsInv
  <2> QED
    BY <2>1, NextQueued, NextReadOut, NextInOrder DEF UnitsInv
<1> QED
  BY <1>1, <1>2, PTL DEF Spec

(* If no allocation fails, every unit a peer sends that the server reads   *)
(* is in the history, in the order sent, once, until the ring is full,     *)
(* however reads split and merge the units and however often the peer      *)
(* comes back, and none is left in a connection when it is closed.         *)
THEOREM UnitsStayInOrder ==
  ASSUME Failures = FALSE PROVE Spec => []UnitsInOrder
<1>1. ASSUME UnitsInv PROVE UnitsInOrder
  <2> DEFINE pending == IF readbuf = NULL \/ start = end THEN << >>
                        ELSE << readbuf >>
             own(p) == Keep(Content \o pending, From(p))
  <2>0. /\ QueueTypeOK /\ Filled /\ ReadOut /\ InOrder
        /\ readbuf \in Message \cup { NULL } /\ NULL \notin Message
    BY <1>1, QueueAssumption
    DEF UnitsInv, TableInv, TypeOK, HistoryInv, ServerTypeOK
  <2>1. Content \in Seq(Message)
    BY <2>0, ContentIs
  <2>2. ASSUME NEW p \in Peer
        PROVE  /\ own(p) \in Seq(Message) /\ Chained(own(p))
               /\ start # end => taken[p] = LastUnit(own(p))
    <3>1. Own(p) \in Seq(Message) /\ Chained(Own(p))
      BY <2>0, OwnIs DEF InOrder
    <3>2. CASE readbuf = NULL \/ start = end
      <4>1. own(p) = Own(p)
        BY <2>1, <3>2, ConcatEmptySeq DEF Own
      <4>2. readbuf = NULL => readbuf \notin From(p)
        BY <2>0 DEF From
      <4> HIDE DEF own
      <4> QED
        BY <2>0, <3>1, <3>2, <4>1, <4>2 DEF InOrder
    <3>3. CASE ~ (readbuf = NULL \/ start = end)
      <4>1. readbuf \in Message
        BY <2>0, <3>3
      <4>2. own(p) = IF readbuf \in From(p) THEN Append(Own(p), readbuf)
                     ELSE Own(p)
        <5>1. Content \o pending = Append(Content, readbuf)
          BY <2>1, <3>3, <4>1, AppendIsConcat
        <5> QED
          BY <2>0, <4>1, <5>1, OwnIs
      <4>3. CASE readbuf \in From(p)
        <5>1. /\ readbuf.first = LastUnit(Own(p)) + 1
              /\ taken[p] = readbuf.last
          BY <2>0, <3>3, <4>3 DEF InOrder
        <5>2. own(p) = Append(Own(p), readbuf)
          BY <4>2, <4>3
        <5> HIDE DEF own
        <5> QED
          BY <3>1, <4>1, <5>1, <5>2, ChainedAppend
      <4>4. CASE readbuf \notin From(p)
        <5>1. own(p) = Own(p)
          BY <4>2, <4>4
        <5> HIDE DEF own
        <5> QED
          BY <2>0, <3>1, <3>3, <4>4, <5>1 DEF InOrder
      <4> QED
        BY <4>3, <4>4
    <3> QED
      BY <3>2, <3>3
  <2>3. ASSUME NEW s \in Seq(Message), Chained(s)
        PROVE  /\ \A k \in DOMAIN s :
                    s[k].first = (IF k = 1 THEN 0 ELSE s[k - 1].last) + 1
               /\ LastUnit(s) = IF s = << >> THEN 0 ELSE Last(s).last
    BY <2>3 DEF Chained, LastUnit, Last
  <2> HIDE DEF own
  <2>4. ASSUME NEW p \in Peer
        PROVE  /\ \A k \in DOMAIN own(p) :
                    own(p)[k].first
                      = (IF k = 1 THEN 0 ELSE own(p)[k - 1].last) + 1
               /\ start # end =>
                    taken[p] = IF own(p) = << >> THEN 0 ELSE Last(own(p)).last
               /\ link[p] = "none" => Unread(p) = 0
    BY <2>0, <2>2, <2>3 DEF ReadOut
  <2> QED
    BY <2>4 DEF UnitsInOrder, own
<1> QED
  BY <1>1, UnitsHold, PTL

-----------------------------------------------------------------------------
(* The three tables *)

(* Every open connection is watched and, as long as the ring has never     *)
(* been full, registered.                                                  *)
Known ==
  /\ pc \notin Looping => Open = {}
  /\ \A fd \in Open : \E j \in 2 .. Len(fds) : fds[j].fd = fd
  /\ start # end =>
       \A fd \in Open : \E k \in 1 .. Len(clients) : clients[k].fd = fd

KnownInv == TableInv /\ HistoryInv /\ Queued /\ Known

LEMMA InitKnown == Init => Known
<1> SUFFICES ASSUME Init PROVE Known
  OBVIOUS
<1>1. Open = {}
  BY DEF Init, SocketsInit, Open
<1> QED
  BY <1>1 DEF Known

(* Steps that open no connection and take nobody out of a table *)
LEMMA SameKnown ==
  ASSUME Known, Open' \subseteq Open,
         pc' \notin Looping => pc \notin Looping,
         \A fd \in Open' : \A j \in 2 .. Len(fds) :
           fds[j].fd = fd => \E k \in 2 .. Len(fds') : fds'[k].fd = fd,
         start' # end' =>
           /\ start # end
           /\ \A fd \in Open' : \A j \in 1 .. Len(clients) :
                clients[j].fd = fd =>
                  \E k \in 1 .. Len(clients') : clients'[k].fd = fd
  PROVE  Known'
<1>1. pc' \notin Looping => Open' = {}
  BY DEF Known
<1>2. \A fd \in Open' : \E k \in 2 .. Len(fds') : fds'[k].fd = fd
  BY DEF Known
<1>3. start' # end' =>
        \A fd \in Open' : \E k \in 1 .. Len(clients') : clients'[k].fd = fd
  BY DEF Known
<1> QED
  BY <1>1, <1>2, <1>3 DEF Known

(* Before the loop nothing is open. *)
LEMMA NothingOpen ==
  ASSUME Open' = {} PROVE Known'
BY DEF Known

(* The table has an entry for the server and one for each descriptor that  *)
(* is open, and perhaps one for descriptor -1: while a descriptor is free, *)
(* no more than there are descriptors.                                     *)
LEMMA TableHasRoom ==
  ASSUME TableInv, FdsCapacity >= MaxFd - 1, NEW fd \in Descriptor \ Open
  PROVE  Len(fds) < FdsCapacity
<1> DEFINE S == 1 .. Len(fds)
           T == 3 .. MaxFd
           g == [k \in S |-> IF fds[k].fd = -1 THEN fd ELSE fds[k].fd]
<1>0. /\ Table /\ Wired /\ FdsTypeOK /\ Len(fds) \in Nat
      /\ MaxFd \in Nat /\ FdsCapacity \in Nat
  BY SocketsAssumption, FdsAssumption DEF TableInv, TypeOK, FdsTypeOK
<1>1. fd \in T /\ fd # 3 /\ MaxFd >= 4 /\ Descriptor \subseteq T
  BY <1>0 DEF Descriptor, ServerFd
<1>2. \A k \in S : fds[k].fd = -1 \/ fds[k].fd = 3 \/ fds[k].fd \in Open
  BY <1>0 DEF Table, ServerFd
<1>3. Open \subseteq T /\ 3 \in T
  <2>1. Open \subseteq Descriptor
    BY <1>0, OpenTyped
  <2> QED
    BY <1>0, <1>1, <2>1
<1>4. g \in [S -> T]
  BY <1>1, <1>2, <1>3
<1>5. ASSUME NEW j \in S, NEW k \in S, g[j] = g[k]
      PROVE  j = k
  <2>1. fds[j].fd = fds[k].fd
    BY <1>1, <1>2, <1>5
  <2> QED
    BY <1>0, <2>1 DEF Table
<1>6. /\ IsFiniteSet(S) /\ IsFiniteSet(T)
      /\ Cardinality(S) = IF 1 > Len(fds) THEN 0 ELSE Len(fds) - 1 + 1
      /\ Cardinality(T) = IF 3 > MaxFd THEN 0 ELSE MaxFd - 3 + 1
  BY <1>0, FS_Interval
<1>7. Cardinality(S) = Len(fds) /\ Cardinality(T) = MaxFd - 2
  BY <1>0, <1>1, <1>6
<1> HIDE DEF S, T, g
<1>8. ~ (Cardinality(T) < Cardinality(S))
  BY <1>4, <1>5, <1>6, FS_PigeonHole
<1> QED
  BY <1>0, <1>7, <1>8

LEMMA PollKnown ==
  ASSUME TableInv, Known, Poll
  PROVE  Known'
<1>0. FdsTypeOK /\ Len(fds) \in Nat
  BY DEF TableInv, TypeOK, FdsTypeOK
<1>1. /\ Len(fds') = Len(fds)
      /\ \A k \in 1 .. Len(fds) : fds'[k].fd = fds[k].fd
  BY <1>0, PollIs DEF Poll
<1>2. Open' = Open /\ UNCHANGED << clients, start, end >>
  BY DEF Poll, Open, kernelVars, queueVars
<1>3. \A k \in 2 .. Len(fds) : fds'[k].fd = fds[k].fd
  <2>1. \A k \in 2 .. Len(fds) : k \in 1 .. Len(fds)
    BY <1>0
  <2> QED
    BY <1>1, <2>1
<1>4. pc \in Looping
  BY DEF Poll, Looping
<1>5. pc' \in Looping
  BY DEF Poll, Looping
<1> QED
  BY <1>1, <1>2, <1>3, <1>5, SameKnown

(* Without failures, what is accepted is watched and registered. *)
LEMMA AcceptKnown ==
  ASSUME Failures = FALSE, FdsCapacity >= MaxFd - 1,
         KnownInv, NEW fd \in AcceptReturns, Accept(fd)
  PROVE  Known'
<1>0. /\ QueueTypeOK /\ FdsTypeOK /\ Wired /\ Known /\ Queued
      /\ Len(fds) \in Nat /\ Len(clients) \in Nat
  BY DEF KnownInv, TableInv, TypeOK, FdsTypeOK, QueueTypeOK
<1>1. /\ pc = "server" /\ pc' = "clients" /\ fd_state__watch(fd)
      /\ IF WatchReturns = -1
         THEN UNCHANGED queueVars
         ELSE /\ message_queue__register_client(fd)
              /\ result' = "-1" => ~ exists \/ Failures
      /\ IF fd = -1 THEN UNCHANGED kernelVars ELSE Accepts(fd)
  BY DEF Accept, ToClients
<1>2. fd = -1 \/ fd \in Descriptor \ Open
  BY DEF AcceptReturns, FreeFds
<1>3. fd \in Int
  <2>1. -1 \in Int /\ Descriptor \subseteq Int
    BY SocketsAssumption DEF Descriptor, ServerFd
  <2> QED
    BY <1>2, <2>1
<1>4. /\ Len(fds') >= Len(fds) /\ Len(fds') \in Nat
      /\ \A j \in 1 .. Len(fds) : fds'[j] = fds[j]
  <2>1. \/ fds' = fds
        \/ /\ Len(fds') = Len(fds) + 1
           /\ \A k \in 1 .. Len(fds) : fds'[k] = fds[k]
    BY <1>0, <1>1, <1>3, WatchIs
  <2> QED
    BY <1>0, <2>1
<1>5. \A j \in 2 .. Len(fds) : j \in 1 .. Len(fds) /\ j \in 2 .. Len(fds')
  BY <1>0, <1>4
<1>6. \A f \in Open : \E j \in 2 .. Len(fds') : fds'[j].fd = f
  BY <1>0, <1>4, <1>5 DEF Known
<1>7. /\ UNCHANGED << start, end >>
      /\ \/ UNCHANGED clients
         \/ /\ Len(clients') = Len(clients) + 1
            /\ clients'[1].fd = fd
            /\ \A k \in 1 .. Len(clients) : clients'[k + 1] = clients[k]
  <2>1. CASE WatchReturns = -1
    BY <1>1, <2>1 DEF queueVars
  <2>2. CASE WatchReturns # -1
    <3>1. /\ UNCHANGED << Ring, Loop >>
          /\ \/ clients' = clients /\ result' = "-1"
             \/ /\ exists /\ Len(clients') = Len(clients) + 1
                /\ clients'[1] = NewClient(fd)
                /\ \A k \in 1 .. Len(clients) : clients'[k + 1] = clients[k]
      BY <1>0, <1>1, <1>3, <2>2, RegisterIs
    <3>2. NewClient(fd).fd = fd
      BY DEF NewClient
    <3> QED
      BY <3>1, <3>2 DEF Ring
  <2> QED
    BY <2>1, <2>2
<1>8. \A k \in 1 .. Len(clients) :
        \E n \in 1 .. Len(clients') : clients'[n].fd = clients[k].fd
  <2>1. CASE UNCHANGED clients
    BY <2>1
  <2>2. CASE ~ UNCHANGED clients
    <3>1. \A k \in 1 .. Len(clients) : k + 1 \in 1 .. Len(clients')
      BY <1>0, <1>7, <2>2
    <3> QED
      BY <1>7, <2>2, <3>1
  <2> QED
    BY <2>1, <2>2
<1>9. start # end =>
        \A f \in Open : \E k \in 1 .. Len(clients') : clients'[k].fd = f
  BY <1>0, <1>8 DEF Known
<1>10. CASE fd = -1
  <2>1. Open' = Open
    BY <1>1, <1>10 DEF kernelVars, Open
  <2> QED
    BY <1>1, <1>6, <1>7, <1>9, <2>1 DEF Known, Looping
<1>11. CASE fd # -1
  <2>1. Open' = Open \cup { fd }
    BY <1>0, <1>1, <1>2, <1>11, AcceptsWired
  <2>2. WatchReturns # -1
    <3>1. Len(fds) < FdsCapacity
      BY <1>2, <1>11, TableHasRoom DEF KnownInv
    <3>2. ~ (Len(fds) >= FdsCapacity)
      BY <1>0, <3>1, FdsAssumption
    <3> QED
      BY <3>2 DEF WatchReturns
  <2>3. \E j \in 2 .. Len(fds') : fds'[j].fd = fd
    BY <1>11, <2>2, AcceptedIsWatched DEF KnownInv
  <2>4. \E k \in 1 .. Len(clients') : clients'[k].fd = fd
    <3>1. exists
      BY <1>0, <1>1 DEF Queued, Looping
    <3>2. message_queue__register_client(fd) /\ result' # "-1"
      BY <1>1, <2>2, <3>1
    <3>3. Len(clients') = Len(clients) + 1 /\ clients'[1] = NewClient(fd)
      BY <1>0, <1>3, <3>2, RegisterIs
    <3>4. 1 \in 1 .. Len(clients')
      BY <1>0, <3>3
    <3>5. clients'[1].fd = fd
      BY <3>3 DEF NewClient
    <3> QED
      BY <3>4, <3>5
  <2> QED
    BY <1>1, <1>6, <1>7, <1>9, <2>1, <2>3, <2>4 DEF Known, Looping
<1> QED
  BY <1>10, <1>11

LEMMA DisconnectKnown ==
  ASSUME TableInv, Known, NEW p \in Peer, AtClient, idx \in 2 .. Len(fds),
         fds[idx].fd = sock[p], sock[p] # 0, Disconnect(p)
  PROVE  Known'
<1>0. /\ QueueTypeOK /\ FdsTypeOK /\ Wired /\ Table /\ List
      /\ Len(fds) \in Nat
  BY DEF TableInv, TypeOK, FdsTypeOK
<1>1. /\ pc = "clients" /\ pc' = pc /\ fd_state__unwatch(sock[p])
      /\ message_queue__unregister_client(sock[p]) /\ Closes(p)
  BY DEF Disconnect, AtClient
<1>2. idx \in 1 .. Len(fds)
  BY <1>0
<1>3. Open' = Open \ { sock[p] }
  <2>1. sock \in [Peer -> { 0 } \cup Descriptor]
    BY <1>0 DEF Wired, SocketsTypeOK
  <2>2. sock' = [sock EXCEPT ![p] = 0]
    BY <1>1 DEF Closes
  <2>3. \A q \in Peer : sock'[q] = IF q = p THEN 0 ELSE sock[q]
    BY <2>1, <2>2
  <2>4. \A q \in Peer : sock[q] = sock[p] => q = p
    BY <1>0 DEF Wired
  <2> QED
    BY <2>3, <2>4 DEF Open
<1>4. /\ Len(fds') = Len(fds) - 1
      /\ \A k \in 1 .. Len(fds) - 1 :
           fds'[k] = IF k = idx THEN fds[Len(fds)] ELSE fds[k]
  BY <1>0, <1>1, <1>2, UnwatchIs DEF Table
<1>5. ASSUME NEW j \in 2 .. Len(fds), fds[j].fd # sock[p]
      PROVE  \E k \in 2 .. Len(fds') : fds'[k].fd = fds[j].fd
  BY <1>0, <1>4, <1>5, SurvivesUnwatch
<1>6. /\ UNCHANGED << start, end >>
      /\ \E at :
           /\ Selects(at)
           /\ \A j \in 1 .. Len(clients) :
                clients[j].fd # sock[p] =>
                  \E k \in 1 .. Len(clients') : at[k] = j
  <2>1. -1 \notin Open /\ sock[p] \in Open
    BY <1>0, PeerOfSock, ServerIsNoClient
  <2>2. \A j, k \in 1 .. Len(clients) :
          clients[j].fd = sock[p] /\ clients[k].fd = sock[p] => j = k
    BY <1>0, <2>1 DEF List
  <2>3. ~ exists => clients = << >>
    BY <1>0 DEF List
  <2> QED
    BY <1>0, <1>1, <2>2, <2>3, UnregisterIs DEF Ring
<1>7. ASSUME NEW j \in 1 .. Len(clients), clients[j].fd # sock[p]
      PROVE  \E k \in 1 .. Len(clients') : clients'[k].fd = clients[j].fd
  BY <1>6, <1>7 DEF Selects
<1> QED
  BY <1>1, <1>3, <1>5, <1>6, <1>7, SameKnown

LEMMA NextKnown ==
  ASSUME Failures = FALSE, FdsCapacity >= MaxFd - 1,
         KnownInv, TableInv', [Next]_vars
  PROVE  Known'
<1>0. TableInv /\ Known /\ QueueTypeOK /\ Filled
  BY DEF KnownInv, TableInv, TypeOK, HistoryInv
<1>1. ASSUME Open' = Open, UNCHANGED fds,
             pc' \notin Looping => pc \notin Looping,
             UNCHANGED << start, end, clients >> \/ start' = end'
      PROVE  Known'
  BY <1>0, <1>1, SameKnown
<1>2. CASE Start \/ StartFails
  <2>1. Open = {} /\ Open' = Open
    BY <1>0, <1>2
    DEF Start, StartFails, GetServerSocket, GetServerSocketFails,
        CreateQueue, CreateTable, CreateTableFails, WatchServer, StartVars,
        Boot!Proceeds, Boot!GivesUp, Boot!GetAddrInfo, Boot!GetAddrInfoFails,
        Boot!Socket, Boot!SocketFails, Boot!NoSocket, Boot!Bind,
        Boot!BindFails, Boot!Listen, Boot!ListenFails, Known, Looping,
        kernelVars, Open
  <2> QED
    BY <2>1, NothingOpen
<1>3. CASE Environment
  <2>1. UNCHANGED << fds, pc, start, end, clients, sock >>
    BY <1>3 DEF Environment, Outside, Joins, Connect, Send, PeerReads,
                PeerCloses, ResetArrives, queueVars, serverVars
  <2> QED
    BY <1>1, <2>1 DEF Open
<1>4. CASE Poll
  BY <1>0, <1>4, PollKnown
<1>5. CASE \E fd \in AcceptReturns : Accept(fd)
  BY <1>5, AcceptKnown
<1>6. CASE ReadEnds \/ HangsUp
  <2>1. PICK e : AtClient /\ Event(e) /\ Disconnect(PeerOf(fds[idx].fd))
    BY <1>6 DEF ReadEnds, HangsUp
  <2>2. /\ idx \in 2 .. Len(fds) /\ PeerOf(fds[idx].fd) \in Peer
        /\ sock[PeerOf(fds[idx].fd)] = fds[idx].fd /\ fds[idx].fd # 0
    BY <1>0, <2>1, EventOfOpen
  <2> QED
    BY <1>0, <2>1, <2>2, DisconnectKnown
<1>7. CASE \/ NoConnection \/ NoEvent \/ ClientsDone \/ Flush \/ Killed
           \/ FlushDone \/ \E n \in 1 .. ReadMax : ReadMessage(n)
           \/ UNCHANGED vars
  <2>1. /\ UNCHANGED << fds, sock, start, end, clients >>
        /\ pc' \notin Looping => pc \notin Looping
    BY <1>7
    DEF NoConnection, NoEvent, ClientsDone, Flush, Killed, FlushDone,
        ReadMessage, Reads, ToClients, AtClient, message_queue__flush, vars,
        queueVars, kernelVars, serverVars, Ring, Looping
  <2> QED
    BY <1>1, <2>1 DEF Open
<1>8. CASE Enqueue \/ EnqueueAgain
  <2>1. /\ UNCHANGED << fds, sock, clients >>
        /\ pc' \in Looping
        /\ start = end => UNCHANGED << start, end >>
    BY <1>8
    DEF Enqueue, EnqueueAgain, HandlerReturns, message_queue__q, kernelVars,
        Ring, Looping
  <2> QED
    BY <1>0, <2>1, SameKnown DEF Open
<1>9. CASE DropSlowConsumers
  <2>1. /\ UNCHANGED << fds, sock, start, end >>
        /\ pc' \in Looping /\ start = end
    BY <1>0, <1>9
    DEF DropSlowConsumers, message_queue__drop_slow_consumers, kernelVars,
        Ring, Looping, Filled
  <2> QED
    BY <1>1, <2>1 DEF Open
<1>10. CASE FlushFinishes \/ Write \/ WriteFails
  <2>1. /\ UNCHANGED << fds, sock, pc, start, end >>
        /\ UNCHANGED clients \/ LeaveLoop(end, "0") \/ LeaveLoop(i, "-1")
    BY <1>10
    DEF FlushFinishes, Write, WriteFails, FlushSkips, FlushEnds, FlushWrites,
        FlushFails, LeaveLoop, Writes, ReportsReset, kernelVars, serverVars,
        Ring
  <2>2. /\ Len(clients') = Len(clients)
        /\ \A k \in 1 .. Len(clients) : clients'[k].fd = clients[k].fd
    <3>1. /\ end \in Slot /\ i \in Slot
          /\ "0" \in ReturnCode /\ "-1" \in ReturnCode
      BY <1>0 DEF QueueTypeOK, ReturnCode
    <3> QED
      BY <1>0, <2>1, <3>1, LeaveLoopKeeps
  <2> QED
    BY <1>0, <2>1, <2>2, SameKnown DEF Open
<1>11. CASE Fails
  BY <1>11 DEF Fails, PollFails, ServerFails
<1> QED
  BY <1>2, <1>3, <1>4, <1>5, <1>6, <1>7, <1>8, <1>9, <1>10, <1>11
  DEF Next, Listening, Server

(* If no allocation fails and the table has a place for every descriptor   *)
(* the process may open: every open connection is watched, and registered  *)
(* as long as the ring has never been full, and nothing else is, whoever   *)
(* comes and goes and whatever unwatch moves.                              *)
THEOREM TheTablesAgree ==
  ASSUME Failures = FALSE, FdsCapacity >= MaxFd - 1
  PROVE  Spec => []TablesAgree
<1>1. Init => KnownInv
  BY InitTables, InitHistory, InitQueued, InitKnown DEF KnownInv
<1>2. KnownInv /\ [Next]_vars => KnownInv'
  <2> SUFFICES ASSUME KnownInv, [Next]_vars PROVE KnownInv'
    OBVIOUS
  <2>1. TableInv' /\ HistoryInv'
    BY NextTables, NextHistory DEF KnownInv
  <2> QED
    BY <2>1, NextQueued, NextKnown DEF KnownInv
<1>3. KnownInv => TablesAgree
  <2> SUFFICES ASSUME KnownInv PROVE TablesAgree
    OBVIOUS
  <2>1. Watched \subseteq Open /\ Registered \subseteq Open /\ TypeOK
    BY EntriesAreOpen DEF KnownInv, TableInv
  <2>2. Open \subseteq Watched /\ (start # end => Open \subseteq Registered)
    <3>1. Known /\ -1 \notin Open /\ DOMAIN clients = 1 .. Len(clients)
      BY ServerIsNoClient
      DEF KnownInv, TableInv, TypeOK, QueueTypeOK
    <3> QED
      BY <3>1 DEF Known, Watched, Registered
  <2> QED
    BY <2>1, <2>2 DEF TablesAgree
<1> QED
  BY <1>1, <1>2, <1>3, PTL DEF Spec

=============================================================================
