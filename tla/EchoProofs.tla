----------------------------- MODULE EchoProofs -----------------------------
(***************************************************************************)
(* What the two echo servers do for any peers, any number of threads and   *)
(* of descriptors, however recv() cuts what it is sent: every descriptor   *)
(* has one owner, and every connection is sent back what was said on it.   *)
(***************************************************************************)
EXTENDS EchoServers, ServerLemmas, FiniteSetTheorems

(* What a thread may be *)
WorkerRecord ==
  [pc : { "idle", "start", "hello", "recv", "send" },
   fd : { 0 } \cup Descriptor,
   buf : Seq([from : Peer, unit : Nat])]

Owned == { worker[t].fd : t \in Busy }

Starters == { t \in Thread : worker[t].pc = "start" }

(* Which of the two servers gets where; nobody is served before it listens *)
OneServer ==
  /\ main \in { "malloc", "create" } => threads
  /\ main \in Boot!Starting => worker = [t \in Thread |-> Idle]
  /\ \A t \in Thread : worker[t].pc = "idle" => worker[t] = Idle
  /\ threads \/ ~ Stopped =>
       (servinfo = 1 <=> \/ main \in { "socket", "bind" }
                         \/ ~ threads /\ main # "start")

(* The main thread has a descriptor from accept() to pthread_create(), and *)
(* to that point nobody else has it.                                       *)
Owners ==
  /\ Owned \cup ({ incoming } \ {0}) = Open \ leaked
  /\ incoming \notin Owned
  /\ \A t, u \in Busy : worker[t].fd = worker[u].fd => t = u
  /\ ~ Stopped => (incoming # 0 <=> main \in { "malloc", "create" })

Blocks ==
  ~ Stopped =>
    heap = Cardinality(Starters) + (IF main = "create" THEN 1 ELSE 0)

(* The units a peer has been sent back end here. *)
Due(p) == since[p] + Len(got[p])

(* Writing to these connections can succeed. *)
Writable == { "up", "fin", "rstsent" }

(* What was read on p's connection and not sent back is what its thread    *)
(* holds, in order.                                                        *)
Conversation(p) ==
  link[p] \in Writable =>
    /\ Due(p) <= taken[p]
    /\ \A t \in Busy : worker[t].fd = sock[p] =>
         worker[t].buf = Units(p, Due(p) + 1, taken[p])
    /\ sock[p] \notin Owned => taken[p] = Due(p)

Conversations == \A p \in Peer : Conversation(p)

(* The inductive invariant.  OneOwner is inductive only together with what *)
(* the kernel guarantees (Wired) and with the places in the code where the *)
(* main thread holds a descriptor; Conversations needs OneOwner, for no    *)
(* other thread to read or write on the connection.                        *)
IInv ==
  /\ TypeOK
  /\ Wired
  /\ OneServer
  /\ Owners
  /\ Blocks
  /\ Conversations

-----------------------------------------------------------------------------
(* So accept() finds a descriptor that is not in use. *)
LEMMA NewFdIsFree ==
  ASSUME FreeFds # {}
  PROVE  NewFd \in Descriptor \ Open /\ NewFd \notin leaked /\ NewFd # 0
<1>1. FreeFds \in SUBSET Nat
  BY SocketsAssumption DEF FreeFds, Descriptor, ServerFd
<1>2. \E fd \in FreeFds : \A f \in FreeFds : fd <= f
  BY <1>1, Least
<1>3. NewFd \in FreeFds
  BY <1>2 DEF NewFd
<1> QED
  BY <1>3 DEF FreeFds, Descriptor, ServerFd

LEMMA ThreadFinite == IsFiniteSet(Thread) /\ IsFiniteSet(Starters)
<1>1. IsFiniteSet(Thread)
  BY EchoAssumption, FS_Interval DEF Thread
<1>2. Starters \in SUBSET Thread
  BY DEF Starters
<1> QED
  BY <1>1, <1>2, FS_Subset

LEMMA SeqByLength ==
  ASSUME NEW S, NEW n \in Nat, NEW f \in [1 .. n -> S]
  PROVE  f \in Seq(S) /\ Len(f) = n
<1>1. f \in Seq(S)
  BY SeqDef
<1> QED
  BY <1>1, LenProperties

LEMMA UnitsTyped ==
  ASSUME NEW p \in Peer, NEW first \in Nat, NEW last \in Nat,
         first <= last + 1
  PROVE  /\ Units(p, first, last) \in Seq([from : Peer, unit : Nat])
         /\ Len(Units(p, first, last)) = last - first + 1
<1> DEFINE n == last - first + 1
<1>1. n \in Nat /\ \A k \in 1 .. n : first + k - 1 \in Nat
  OBVIOUS
<1>2. Units(p, first, last)
        = [k \in 1 .. n |-> [from |-> p, unit |-> first + k - 1]]
  BY DEF Units
<1>3. Units(p, first, last) \in [1 .. n -> [from : Peer, unit : Nat]]
  BY <1>1, <1>2
<1>4. n \in Nat
  BY <1>1
<1> DEFINE units == Units(p, first, last)
           Unit == [from : Peer, unit : Nat]
<1>5. units \in [1 .. n -> Unit]
  BY <1>3
<1> HIDE DEF n, units, Unit
<1>6. units \in Seq(Unit) /\ Len(units) = n
  BY <1>4, <1>5, SeqByLength
<1> QED
  BY <1>6 DEF n, units, Unit

-----------------------------------------------------------------------------
(* What a thread's step changes of who owns what *)

(* A thread that is doing something serves one connection. *)
LEMMA Serving ==
  ASSUME IInv, NEW t \in Thread, worker[t].pc # "idle"
  PROVE  /\ t \in Busy /\ worker[t].fd \in Owned
         /\ worker[t].fd \in Open \ leaked /\ worker[t].fd # 0
         /\ Client(t) \in Peer /\ sock[Client(t)] = worker[t].fd
         /\ link[Client(t)] # "none"
         /\ \A p \in Peer : sock[p] = worker[t].fd => p = Client(t)
<1>1. t \in Busy
  BY DEF Busy, Idle
<1>2. worker[t].fd \in Owned
  BY <1>1 DEF Owned
<1>3. worker[t].fd \in Open \ leaked
  BY <1>2 DEF IInv, Owners
<1>4. /\ worker[t].fd # 0 /\ Client(t) \in Peer
      /\ sock[Client(t)] = worker[t].fd
  BY <1>3, PeerOfOpen DEF Client
<1> QED
  BY <1>1, <1>2, <1>3, <1>4 DEF IInv, Wired

(* Thread t is put into state w. *)
LEMMA Put ==
  ASSUME TypeOK, NEW t \in Thread, NEW w \in WorkerRecord,
         w.pc = "send" <=> w.buf # << >>,
         worker' = [worker EXCEPT ![t] = w]
  PROVE  /\ worker' \in [Thread -> WorkerRecord]
         /\ \A u \in Thread : worker'[u].pc = "send" <=> worker'[u].buf # << >>
         /\ \A u \in Thread : worker'[u] = IF u = t THEN w ELSE worker[u]
<1>1. worker \in [Thread -> WorkerRecord]
  BY DEF TypeOK, WorkerRecord
<1>2. \A u \in Thread : worker'[u] = IF u = t THEN w ELSE worker[u]
  BY <1>1
<1>3. worker' \in [Thread -> WorkerRecord]
  BY <1>1
<1> QED
  BY <1>2, <1>3 DEF TypeOK

(* A thread starts to serve fd. *)
LEMMA Begins ==
  ASSUME IInv, NEW t \in Thread, NEW w \in WorkerRecord,
         worker[t] = Idle, w.pc # "idle", w.fd \notin Owned,
         \A u \in Thread : worker'[u] = IF u = t THEN w ELSE worker[u]
  PROVE  /\ Busy' = Busy \cup { t } /\ t \notin Busy
         /\ Owned' = Owned \cup { w.fd }
         /\ \A u, v \in Busy' : worker'[u].fd = worker'[v].fd => u = v
         /\ Starters' = IF w.pc = "start" THEN Starters \cup { t }
                        ELSE Starters
         /\ t \notin Starters
<1>1. w # Idle
  BY DEF Idle
<1>2. Busy' = Busy \cup { t } /\ t \notin Busy
  BY <1>1 DEF Busy
<1>3. Owned' = Owned \cup { w.fd }
  BY <1>2 DEF Owned, Busy
<1>4. \A u, v \in Busy' : worker'[u].fd = worker'[v].fd => u = v
  BY <1>2 DEF IInv, Owners, Owned, Busy
<1>5. worker[t].pc # "start"
  BY DEF Idle
<1>6. /\ Starters' = IF w.pc = "start" THEN Starters \cup { t } ELSE Starters
      /\ t \notin Starters
  BY <1>5 DEF Starters
<1> QED
  BY <1>2, <1>3, <1>4, <1>6

(* It goes on with the same connection. *)
LEMMA GoesOn ==
  ASSUME IInv, NEW t \in Thread, NEW w \in WorkerRecord,
         worker[t].pc # "idle", w.pc # "idle", w.fd = worker[t].fd,
         w.pc # "start",
         \A u \in Thread : worker'[u] = IF u = t THEN w ELSE worker[u]
  PROVE  /\ Busy' = Busy /\ Owned' = Owned
         /\ \A u, v \in Busy' : worker'[u].fd = worker'[v].fd => u = v
         /\ \A u \in Busy : worker'[u].fd = worker[u].fd
         /\ Starters' = Starters \ { t }
<1>1. worker[t] # Idle /\ w # Idle
  BY DEF Idle
<1>2. Busy' = Busy
  BY <1>1 DEF Busy
<1>3. \A u \in Busy : worker'[u].fd = worker[u].fd
  BY DEF Busy
<1>4. Owned' = Owned
  BY <1>2, <1>3 DEF Owned
<1>5. \A u, v \in Busy' : worker'[u].fd = worker'[v].fd => u = v
  BY <1>2, <1>3 DEF IInv, Owners
<1>6. Starters' = Starters \ { t }
  BY DEF Starters
<1> QED
  BY <1>2, <1>3, <1>4, <1>5, <1>6

(* It ends, and its descriptor has no owner any more. *)
LEMMA Stops ==
  ASSUME IInv, NEW t \in Thread, worker[t].pc \notin { "idle", "start" },
         \A u \in Thread : worker'[u] = IF u = t THEN Idle ELSE worker[u]
  PROVE  /\ Busy' = Busy \ { t } /\ Owned' = Owned \ { worker[t].fd }
         /\ \A u, v \in Busy' : worker'[u].fd = worker'[v].fd => u = v
         /\ Starters' = Starters
<1>1. Busy' = Busy \ { t } /\ t \in Busy
  BY DEF Busy, Idle
<1>2. \A u \in Busy' : worker'[u] = worker[u]
  BY <1>1 DEF Busy
<1>3. \A u \in Busy' : worker[u].fd # worker[t].fd
  BY <1>1 DEF IInv, Owners
<1>4. Owned' = Owned \ { worker[t].fd }
  BY <1>1, <1>2, <1>3 DEF Owned
<1>5. \A u, v \in Busy' : worker'[u].fd = worker'[v].fd => u = v
  BY <1>1, <1>2 DEF IInv, Owners
<1>6. Starters' = Starters
  BY DEF Starters, Idle
<1> QED
  BY <1>1, <1>4, <1>5, <1>6

(* Nobody starts or stops. *)
LEMMA SameWorkers ==
  ASSUME UNCHANGED worker
  PROVE  Busy' = Busy /\ Owned' = Owned /\ Starters' = Starters
BY DEF Busy, Owned, Starters

(* A step that is not about p's connection leaves what is said on it. *)
LEMMA Unconcerned ==
  ASSUME IInv, NEW p \in Peer,
         link'[p] \in Writable => link[p] \in Writable,
         sock'[p] = sock[p], taken'[p] = taken[p],
         since'[p] = since[p], got'[p] = got[p],
         \A t \in Busy' : worker'[t].fd = sock[p] =>
           /\ t \in Busy /\ worker[t].fd = sock[p]
           /\ worker'[t].buf = worker[t].buf,
         sock[p] \notin Owned' => sock[p] \notin Owned
  PROVE  Conversation(p)'
<1>1. Due(p)' = Due(p)
  BY DEF Due
<1>2. ASSUME link[p] \in Writable
      PROVE  Due(p) <= taken[p] /\ (sock[p] \notin Owned => taken[p] = Due(p))
  BY <1>2 DEF IInv, Conversations, Conversation
<1>3. ASSUME link[p] \in Writable, NEW t \in Busy', worker'[t].fd = sock[p]
      PROVE  worker'[t].buf = Units(p, Due(p) + 1, taken[p])
  BY <1>3 DEF IInv, Conversations, Conversation
<1>4. Units(p, Due(p) + 1, taken[p])' = Units(p, Due(p) + 1, taken[p])
  BY <1>1 DEF Units
<1> QED
  BY <1>1, <1>2, <1>3, <1>4 DEF Conversation

-----------------------------------------------------------------------------
(* The start *)

LEMMA InitInv == Init => IInv
<1> SUFFICES ASSUME Init PROVE IInv
  OBVIOUS
<1>1. Wired /\ SocketsTypeOK
  BY InitWired DEF Init, Wired
<1>2. Idle \in WorkerRecord
  BY DEF Idle, WorkerRecord
<1>3. worker = [t \in Thread |-> Idle] /\ \A t \in Thread : worker[t] = Idle
  BY DEF Init
<1>4. TypeOK
  BY <1>1, <1>2, <1>3, EchoAssumption
  DEF Init, TypeOK, Boot!ListeningInit, Boot!Starting, WorkerRecord, Idle
<1>5. OneServer
  BY <1>3 DEF Init, OneServer, Boot!ListeningInit, Boot!Starting, Stopped
<1>6. Busy = {} /\ Owned = {} /\ Starters = {}
  BY <1>3 DEF Busy, Owned, Starters, Idle
<1>7. Open = {} /\ \A p \in Peer : link[p] = "none"
  BY DEF Init, SocketsInit, Open
<1>8. Owners
  BY <1>6, <1>7 DEF Owners, Init, Boot!ListeningInit
<1>9. Blocks
  BY <1>6, FS_EmptySet DEF Blocks, Init, Boot!ListeningInit
<1>10. Conversations
  BY <1>7 DEF Conversations, Conversation, Writable
<1> QED
  BY <1>1, <1>4, <1>5, <1>8, <1>9, <1>10 DEF IInv

(* The step of the start of both, whose only way on is to accept(): nobody *)
(* is connected, nothing is allocated but the list of addresses.           *)
LEMMA StartInv ==
  ASSUME IInv, Start \/ StartFails
  PROVE  IInv'
<1>1. UNCHANGED StartVars
  BY DEF Start, StartFails
<1>2. Busy' = Busy /\ Owned' = Owned /\ Starters' = Starters
  BY <1>1, SameWorkers DEF StartVars
<1>3. Wired' /\ Open' = Open
  BY <1>1, StillWired DEF StartVars, IInv
<1>4. /\ main \in Boot!Starting
      /\ main' \in Boot!Starting \cup { "accept", "exited" }
      /\ untried' \in 0 .. MaxAddr /\ servinfo' \in { 0, 1 }
      /\ (threads \/ ~ Stopped)' =>
           (servinfo' = 1 <=> \/ main' \in { "socket", "bind" }
                              \/ ~ threads /\ main' # "start")
  <2>1. /\ untried \in 0 .. MaxAddr /\ servinfo \in { 0, 1 }
        /\ threads' = threads /\ MaxAddr \in Nat \ {0}
        /\ main \in Boot!Starting =>
             (servinfo = 1 <=> \/ main \in { "socket", "bind" }
                               \/ ~ threads /\ main # "start")
    BY <1>1, EchoAssumption
    DEF IInv, TypeOK, OneServer, StartVars, Stopped, Boot!Starting
  <2>2. CASE Start
    BY <2>1, <2>2
    DEF Start, Boot!Proceeds, Boot!GetAddrInfo, Boot!Socket,
        Boot!SocketFails, Boot!NoSocket, Boot!Bind, Boot!Listen, Boot!Free,
        Boot!Exit, Boot!Starting, Stopped
  <2>3. CASE StartFails
    BY <2>1, <2>3
    DEF StartFails, Boot!GivesUp, Boot!GetAddrInfoFails, Boot!BindFails,
        Boot!ListenFails, Boot!Free, Boot!Exit, Boot!Starting, Stopped
  <2> QED
    BY <2>2, <2>3
<1>5. TypeOK'
  BY <1>1, <1>3, <1>4 DEF IInv, TypeOK, StartVars, Wired
<1>6. OneServer'
  BY <1>1, <1>4 DEF IInv, OneServer, StartVars, Boot!Starting
<1>7. incoming = 0 /\ ~ Stopped /\ main # "create"
  BY <1>4 DEF IInv, Owners, Boot!Starting, Stopped
<1>8. Owners'
  BY <1>1, <1>2, <1>3, <1>4, <1>7
  DEF IInv, Owners, StartVars, Boot!Starting, Stopped
<1>9. Blocks'
  BY <1>1, <1>2, <1>4, <1>7
  DEF IInv, Blocks, StartVars, Boot!Starting
<1>10. Conversations'
  BY <1>1, <1>2, <1>3
  DEF IInv, Conversations, Conversation, StartVars, kernelVars, Due, Units
<1> QED
  BY <1>3, <1>5, <1>6, <1>8, <1>9, <1>10 DEF IInv

-----------------------------------------------------------------------------
(* The main thread of tcp/pthreads *)

(* A descriptor accept() returns is nobody's yet, and nothing has been     *)
(* sent back on its connection.                                            *)
LEMMA AcceptedAlone ==
  ASSUME IInv, FreeFds # {}, Accepts(NewFd)
  PROVE  /\ Wired' /\ NewFd \in Descriptor /\ NewFd # 0
         /\ Open' = Open \cup { NewFd }
         /\ NewFd \notin leaked /\ NewFd \notin Owned /\ NewFd # incoming
         /\ \A p \in Peer : sock[p] # NewFd
         /\ sock' = [sock EXCEPT ![Head(backlog)] = NewFd]
         /\ Head(backlog) \in Peer /\ sock[Head(backlog)] = 0
         /\ UNCHANGED << link, given, taken >>
<1>1. NewFd \in Descriptor \ Open /\ NewFd \notin leaked /\ NewFd # 0
  BY NewFdIsFree
<1>2. NewFd \notin Owned /\ NewFd # incoming
  BY <1>1 DEF IInv, Owners
<1>3. \A p \in Peer : sock[p] # NewFd
  BY <1>1 DEF Open
<1> HIDE DEF NewFd
<1> QED
  BY <1>1, <1>2, <1>3, AcceptsWired DEF IInv, Accepts

LEMMA AcceptInv ==
  ASSUME IInv, Accept
  PROVE  IInv'
<1>1. /\ Wired' /\ NewFd \in Descriptor /\ NewFd # 0
      /\ Open' = Open \cup { NewFd }
      /\ NewFd \notin leaked /\ NewFd \notin Owned /\ NewFd # incoming
      /\ sock' = [sock EXCEPT ![Head(backlog)] = NewFd]
      /\ Head(backlog) \in Peer /\ sock[Head(backlog)] = 0
      /\ UNCHANGED << link, given, taken >>
  BY AcceptedAlone DEF Accept
<1>2. /\ threads /\ main = "accept" /\ main' = "malloc" /\ incoming' = NewFd
      /\ UNCHANGED << settled, worker, heap, leaked, since, got >>
  BY DEF Accept
<1> HIDE DEF NewFd
<1>3. Busy' = Busy /\ Owned' = Owned /\ Starters' = Starters
  BY <1>2, SameWorkers
<1>4. TypeOK'
  BY <1>1, <1>2 DEF IInv, TypeOK, Wired, settled
<1>5. OneServer'
  BY <1>2 DEF IInv, OneServer, settled, Boot!Starting, Stopped
<1>6. incoming = 0
  BY <1>2 DEF IInv, Owners, Stopped
<1>7. Owners'
  BY <1>1, <1>2, <1>3, <1>6 DEF IInv, Owners, Stopped
<1>8. Blocks'
  BY <1>2, <1>3 DEF IInv, Blocks, Stopped
<1>9. Conversations'
  <2> SUFFICES ASSUME NEW p \in Peer PROVE Conversation(p)'
    BY DEF Conversations
  <2>1. CASE p = Head(backlog)
    <3>1. 0 \notin Owned /\ sock'[p] = NewFd
      BY <1>1, <2>1 DEF IInv, Owners, Open, Wired, SocketsTypeOK
    <3>2. link[p] \in Writable => Due(p) = taken[p] /\ Due(p) \in Nat
      BY <1>1, <2>1, <3>1
      DEF IInv, Conversations, Conversation, Wired, SocketsTypeOK
    <3>3. \A t \in Busy' : worker'[t].fd # NewFd
      BY <1>1, <1>3 DEF Owned
    <3> QED
      BY <1>1, <1>2, <3>1, <3>2, <3>3 DEF Conversation, Due
  <2>2. CASE p # Head(backlog)
    <3>1. sock'[p] = sock[p]
      BY <1>1, <2>2 DEF IInv, Wired, SocketsTypeOK
    <3> QED
      BY <1>1, <1>2, <1>3, <3>1, Unconcerned
  <2> QED
    BY <2>1, <2>2
<1> QED
  BY <1>1, <1>4, <1>5, <1>7, <1>8, <1>9 DEF IInv

LEMMA MallocInv ==
  ASSUME IInv, Malloc
  PROVE  IInv'
<1>1. /\ main = "malloc" /\ main' = "create" /\ heap' = heap + 1
      /\ UNCHANGED << settled, incoming, worker, leaked, kernelVars, since,
                      got >>
  BY DEF Malloc
<1>2. Busy' = Busy /\ Owned' = Owned /\ Starters' = Starters
  BY <1>1, SameWorkers
<1>3. Wired' /\ Open' = Open
  BY <1>1, StillWired DEF IInv
<1>4. TypeOK'
  <2>1. heap' \in Nat
    BY <1>1 DEF IInv, TypeOK
  <2> QED
    BY <1>1, <1>3, <2>1 DEF IInv, TypeOK, Wired, settled
<1>5. OneServer'
  BY <1>1 DEF IInv, OneServer, settled, Boot!Starting, Stopped
<1>6. Owners'
  BY <1>1, <1>2, <1>3 DEF IInv, Owners, Stopped
<1>7. Blocks'
  <2>1. Cardinality(Starters) \in Nat
    BY ThreadFinite, FS_CardinalityType
  <2> QED
    BY <1>1, <1>2, <2>1 DEF IInv, Blocks, Stopped
<1>8. Conversations'
  BY <1>1, <1>2
  DEF IInv, Conversations, Conversation, kernelVars, Due, Units
<1> QED
  BY <1>3, <1>4, <1>5, <1>6, <1>7, <1>8 DEF IInv

LEMMA MallocFailsInv ==
  ASSUME IInv, MallocFails
  PROVE  IInv'
<1>1. /\ main = "malloc" /\ main' = "accept"
      /\ leaked' = leaked \cup { incoming } /\ incoming' = 0
      /\ UNCHANGED << settled, worker, heap, kernelVars, since, got >>
  BY DEF MallocFails
<1>2. Busy' = Busy /\ Owned' = Owned /\ Starters' = Starters
  BY <1>1, SameWorkers
<1>3. Wired' /\ Open' = Open
  BY <1>1, StillWired DEF IInv
<1>4. incoming # 0 /\ incoming \in Open
  BY <1>1 DEF IInv, Owners, Stopped
<1>5. TypeOK'
  BY <1>1, <1>3, <1>4, OpenTyped DEF IInv, TypeOK, Wired, settled
<1>6. OneServer'
  BY <1>1 DEF IInv, OneServer, settled, Boot!Starting, Stopped
<1>7. Owners'
  <2>1. 0 \notin Owned
    BY DEF IInv, Owners, Open
  <2> QED
    BY <1>1, <1>2, <1>3, <1>4, <2>1 DEF IInv, Owners, Stopped
<1>8. Blocks'
  BY <1>1, <1>2 DEF IInv, Blocks, Stopped
<1>9. Conversations'
  BY <1>1, <1>2
  DEF IInv, Conversations, Conversation, kernelVars, Due, Units
<1> QED
  BY <1>3, <1>5, <1>6, <1>7, <1>8, <1>9 DEF IInv

LEMMA CreateThreadInv ==
  ASSUME IInv, NEW t \in Thread, CreateThread(t)
  PROVE  IInv'
<1> DEFINE w == [Idle EXCEPT !.pc = "start", !.fd = incoming]
<1>1. /\ main = "create" /\ main' = "accept" /\ incoming' = 0
      /\ worker[t] = Idle /\ worker' = [worker EXCEPT ![t] = w]
      /\ UNCHANGED << settled, heap, leaked, kernelVars, since, got >>
  BY DEF CreateThread
<1>2. w \in WorkerRecord /\ w.pc = "start" /\ w.fd = incoming
        /\ w.buf = << >>
  <2>1. incoming \in { 0 } \cup Descriptor
    BY DEF IInv, TypeOK
  <2>2. << >> \in Seq([from : Peer, unit : Nat])
    BY EmptySeq
  <2> QED
    BY <2>1, <2>2 DEF WorkerRecord, Idle
<1> HIDE DEF w
<1>3. /\ worker' \in [Thread -> WorkerRecord]
      /\ \A u \in Thread : worker'[u].pc = "send" <=> worker'[u].buf # << >>
      /\ \A u \in Thread : worker'[u] = IF u = t THEN w ELSE worker[u]
  BY <1>1, <1>2, Put DEF IInv
<1>4. incoming # 0 /\ incoming \notin Owned /\ incoming \in Open
  BY <1>1 DEF IInv, Owners, Stopped
<1>5. /\ Busy' = Busy \cup { t } /\ t \notin Busy
      /\ Owned' = Owned \cup { incoming }
      /\ \A u, v \in Busy' : worker'[u].fd = worker'[v].fd => u = v
      /\ Starters' = Starters \cup { t } /\ t \notin Starters
  BY <1>1, <1>2, <1>3, <1>4, Begins
<1>6. Wired' /\ Open' = Open
  BY <1>1, StillWired DEF IInv
<1>7. TypeOK'
  BY <1>1, <1>3, <1>6 DEF IInv, TypeOK, Wired, settled, WorkerRecord
<1>8. OneServer'
  BY <1>1, <1>2, <1>3 DEF IInv, OneServer, settled, Boot!Starting, Stopped
<1>9. Owners'
  <2>1. 0 \notin Owned'
    BY <1>4, <1>5 DEF IInv, Owners, Open
  <2> QED
    BY <1>1, <1>4, <1>5, <1>6, <2>1 DEF IInv, Owners, Stopped
<1>10. Blocks'
  <2>1. Cardinality(Starters') = Cardinality(Starters) + 1
    BY <1>5, ThreadFinite, FS_AddElement
  <2>2. Cardinality(Starters) \in Nat
    BY ThreadFinite, FS_CardinalityType
  <2>3. heap = Cardinality(Starters) + 1
    BY <1>1 DEF IInv, Blocks, Stopped
  <2> QED
    BY <1>1, <2>1, <2>2, <2>3 DEF Blocks, Stopped
<1>11. Conversations'
  <2> SUFFICES ASSUME NEW p \in Peer PROVE Conversation(p)'
    BY DEF Conversations
  <2>1. CASE sock[p] = incoming
    <3>1. link[p] \in Writable => taken[p] = Due(p) /\ Due(p) \in Nat
      BY <1>4, <2>1
      DEF IInv, Conversations, Conversation, Wired, SocketsTypeOK
    <3>2. \A u \in Busy' : worker'[u].fd = incoming => u = t
      BY <1>2, <1>3, <1>5
    <3>3. Due(p) \in Nat => << >> = Units(p, Due(p) + 1, Due(p))
      <4>1. \A n \in Nat : n - (n + 1) + 1 = 0
        OBVIOUS
      <4> QED
        BY <4>1 DEF Units
    <3> QED
      BY <1>1, <1>2, <1>3, <1>5, <2>1, <3>1, <3>2, <3>3
      DEF Conversation, Due, kernelVars, Units
  <2>2. CASE sock[p] # incoming
    <3>1. UNCHANGED << link, sock, taken, since, got >>
      BY <1>1 DEF kernelVars
    <3>2. \A u \in Busy' : worker'[u].fd = sock[p] =>
            /\ u \in Busy /\ worker[u].fd = sock[p]
            /\ worker'[u].buf = worker[u].buf
      BY <1>2, <1>3, <1>5, <2>2 DEF Busy
    <3> QED
      BY <1>5, <2>2, <3>1, <3>2, Unconcerned
  <2> QED
    BY <2>1, <2>2
<1> QED
  BY <1>6, <1>7, <1>8, <1>9, <1>10, <1>11 DEF IInv

LEMMA CreateFailsInv ==
  ASSUME IInv, CreateFails
  PROVE  IInv'
<1> DEFINE q == PeerOf(incoming)
<1>1. /\ main = "create" /\ main' = "accept" /\ incoming' = 0
      /\ heap' = heap - 1 /\ Closes(q)
      /\ UNCHANGED << settled, worker, leaked, since, got >>
  BY DEF CreateFails
<1>2. incoming # 0 /\ incoming \notin Owned /\ incoming \in Open
  BY <1>1 DEF IInv, Owners, Stopped
<1>3. q \in Peer /\ sock[q] = incoming
  BY <1>2, PeerOfOpen
<1> HIDE DEF q
<1>4. Busy' = Busy /\ Owned' = Owned /\ Starters' = Starters
  BY <1>1, SameWorkers
<1>5. Wired' /\ Open' = Open \ { incoming }
  BY <1>1, <1>2, <1>3, ClosesWired DEF IInv
<1>6. heap = Cardinality(Starters) + 1 /\ Cardinality(Starters) \in Nat
  BY <1>1, ThreadFinite, FS_CardinalityType DEF IInv, Blocks, Stopped
<1>7. heap' = Cardinality(Starters)
  BY <1>1, <1>6
<1>8. TypeOK'
  BY <1>1, <1>5, <1>6, <1>7 DEF IInv, TypeOK, Wired, settled
<1>9. OneServer'
  BY <1>1 DEF IInv, OneServer, settled, Boot!Starting, Stopped
<1>10. Owners'
  <2>1. 0 \notin Owned
    BY DEF IInv, Owners, Open
  <2> QED
    BY <1>1, <1>2, <1>4, <1>5, <2>1 DEF IInv, Owners, Stopped
<1>11. Blocks'
  BY <1>1, <1>4, <1>6, <1>7 DEF Blocks, Stopped
<1>12. Conversations'
  <2> SUFFICES ASSUME NEW p \in Peer PROVE Conversation(p)'
    BY DEF Conversations
  <2>1. CASE p = q
    <3>1. link'[p] = "none"
      BY <1>1, <2>1 DEF Closes, IInv, Wired, SocketsTypeOK
    <3> QED
      BY <3>1 DEF Conversation, Writable
  <2>2. CASE p # q
    <3>1. /\ sock'[p] = sock[p] /\ link'[p] = link[p]
          /\ taken'[p] = taken[p]
      BY <1>1, <2>2 DEF Closes, IInv, Wired, SocketsTypeOK
    <3> QED
      BY <1>1, <1>4, <3>1, Unconcerned
  <2> QED
    BY <2>1, <2>2
<1> QED
  BY <1>5, <1>8, <1>9, <1>10, <1>11, <1>12 DEF IInv

-----------------------------------------------------------------------------
(* The threads *)

(* A worker that goes on with its connection keeps the invariant when it   *)
(* accounts for what it has taken from it and sent back.                   *)
LEMMA GoesOnInv ==
  ASSUME IInv, NEW t \in Thread, NEW w \in WorkerRecord, NEW p \in Peer,
         ~ Stopped, worker[t].pc # "idle", p = Client(t),
         w.pc \notin { "idle", "start" }, w.fd = worker[t].fd,
         w.pc = "send" <=> w.buf # << >>,
         worker' = [worker EXCEPT ![t] = w],
         Wired', UNCHANGED << settled, main, incoming, leaked, since, sock >>,
         heap' = IF worker[t].pc = "start" THEN heap - 1 ELSE heap,
         got' \in [Peer -> Seq([from : Peer, unit : Nat])],
         \A q \in Peer \ { p } :
           link'[q] = link[q] /\ taken'[q] = taken[q] /\ got'[q] = got[q],
         link'[p] \in Writable =>
           Due(p)' <= taken'[p] /\ w.buf = Units(p, Due(p)' + 1, taken'[p])
  PROVE  IInv'
<1>1. /\ worker' \in [Thread -> WorkerRecord]
      /\ \A u \in Thread : worker'[u].pc = "send" <=> worker'[u].buf # << >>
      /\ \A u \in Thread : worker'[u] = IF u = t THEN w ELSE worker[u]
  BY Put DEF IInv
<1>2. /\ Busy' = Busy /\ Owned' = Owned
      /\ \A u, v \in Busy' : worker'[u].fd = worker'[v].fd => u = v
      /\ \A u \in Busy : worker'[u].fd = worker[u].fd
      /\ Starters' = Starters \ { t }
  BY <1>1, GoesOn
<1>3. /\ t \in Busy /\ worker[t].fd \in Owned
      /\ sock[p] = worker[t].fd
      /\ \A q \in Peer : sock[q] = worker[t].fd => q = p
  BY Serving
<1>4. \/ heap' = heap
      \/ /\ heap = Cardinality(Starters) + (IF main = "create" THEN 1 ELSE 0)
         /\ Cardinality(Starters) \in Nat /\ Cardinality(Starters) > 0
         /\ heap' = heap - 1
  <2>1. Cardinality(Starters) \in Nat
    BY ThreadFinite, FS_CardinalityType
  <2>2. CASE worker[t].pc = "start"
    <3>1. t \in Starters
      BY <2>2 DEF Starters
    <3>2. Cardinality(Starters) # 0
      BY <3>1, ThreadFinite, FS_EmptySet
    <3> QED
      BY <2>1, <2>2, <3>2 DEF IInv, Blocks
  <2> QED
    BY <2>1, <2>2
<1>5. heap' \in Nat
  BY <1>4 DEF IInv, TypeOK
<1>6. TypeOK'
  BY <1>1, <1>5 DEF IInv, TypeOK, Wired, WorkerRecord, settled
<1>7. OneServer'
  <2>1. main \notin Boot!Starting
    BY <1>3 DEF IInv, OneServer, Busy
  <2>2. \A u \in Thread : worker'[u].pc = "idle" => worker'[u] = Idle
    BY <1>1 DEF IInv, OneServer
  <2> QED
    BY <2>1, <2>2 DEF IInv, OneServer, Stopped, settled
<1>8. Owners'
  <2>1. Open' = Open
    BY DEF Open
  <2> QED
    BY <1>2, <2>1 DEF IInv, Owners, Stopped
<1>9. Blocks'
  <2>1. Cardinality(Starters) \in Nat
    BY ThreadFinite, FS_CardinalityType
  <2>2. CASE worker[t].pc = "start"
    <3>1. t \in Starters
      BY <2>2 DEF Starters
    <3>2. Cardinality(Starters') = Cardinality(Starters) - 1
      BY <1>2, <3>1, ThreadFinite, FS_RemoveElement
    <3>3. heap' = heap - 1
      BY <2>2
    <3> QED
      BY <2>1, <3>2, <3>3 DEF IInv, Blocks, Stopped
  <2>3. CASE worker[t].pc # "start"
    <3>1. Starters' = Starters
      BY <1>2, <2>3 DEF Starters
    <3> QED
      BY <2>3, <3>1 DEF IInv, Blocks, Stopped
  <2> QED
    BY <2>2, <2>3
<1>10. Conversations'
  <2> SUFFICES ASSUME NEW q \in Peer PROVE Conversation(q)'
    BY DEF Conversations
  <2>1. CASE q = p
    <3>1. \A u \in Busy' : worker'[u].fd = sock'[p] => u = t
      BY <1>2, <1>3
    <3>2. sock'[p] \in Owned'
      BY <1>2, <1>3
    <3>3. worker'[t].buf = w.buf
      BY <1>1
    <3>4. Units(p, Due(p) + 1, taken[p])' = Units(p, Due(p)' + 1, taken'[p])
      BY DEF Units
    <3> QED
      BY <2>1, <3>1, <3>2, <3>3, <3>4 DEF Conversation
  <2>2. CASE q # p
    <3>1. \A u \in Busy' : worker'[u].fd = sock[q] =>
            /\ u \in Busy /\ worker[u].fd = sock[q]
            /\ worker'[u].buf = worker[u].buf
      BY <1>1, <1>2, <1>3, <2>2 DEF Busy
    <3>2. /\ sock'[q] = sock[q] /\ link'[q] = link[q]
          /\ taken'[q] = taken[q] /\ got'[q] = got[q] /\ since'[q] = since[q]
      BY <2>2
    <3> QED
      BY <1>2, <3>1, <3>2, Unconcerned
  <2> QED
    BY <2>1, <2>2
<1> QED
  BY <1>6, <1>7, <1>8, <1>9, <1>10 DEF IInv

(* What a worker knows of its own connection *)
LEMMA Talking ==
  ASSUME IInv, NEW t \in Thread, worker[t].pc # "idle",
         NEW p \in Peer, p = Client(t)
  PROVE  /\ sock[p] # 0 /\ Due(p) \in Nat /\ taken[p] \in Nat
         /\ link[p] \in Writable =>
              /\ Due(p) <= taken[p]
              /\ worker[t].buf = Units(p, Due(p) + 1, taken[p])
<1>1. t \in Busy /\ sock[p] = worker[t].fd /\ sock[p] # 0
  BY Serving
<1>2. Due(p) \in Nat /\ taken[p] \in Nat
  BY DEF IInv, TypeOK, Wired, SocketsTypeOK, Due
<1>3. link[p] \in Writable =>
        Due(p) <= taken[p] /\ worker[t].buf = Units(p, Due(p) + 1, taken[p])
  BY <1>1 DEF IInv, Conversations, Conversation
<1> QED
  BY <1>1, <1>2, <1>3

(* A worker that holds nothing has sent back all it has read, and          *)
(* conversely.                                                             *)
LEMMA NothingHeld ==
  ASSUME NEW p \in Peer, NEW due \in Nat, NEW n \in Nat, due <= n
  PROVE  /\ Len(Units(p, due + 1, n)) = n - due
         /\ Units(p, due + 1, n) = << >> <=> n = due
<1>1. /\ due + 1 \in Nat /\ due + 1 <= n + 1 /\ n - (due + 1) + 1 = n - due
      /\ n - due = 0 <=> n = due
  OBVIOUS
<1>2. /\ Units(p, due + 1, n) \in Seq([from : Peer, unit : Nat])
      /\ Len(Units(p, due + 1, n)) = n - due
  BY <1>1, UnitsTyped
<1> QED
  BY <1>1, <1>2, EmptySeq

(* The states a worker is put into *)
LEMMA NextState ==
  ASSUME IInv, NEW t \in Thread, NEW pc \in { "recv", "send" },
         NEW buf \in Seq([from : Peer, unit : Nat])
  PROVE  LET w == [worker[t] EXCEPT !.pc = pc, !.buf = buf] IN
         /\ w \in WorkerRecord
         /\ w.pc = pc /\ w.fd = worker[t].fd /\ w.buf = buf
<1>1. worker[t] \in WorkerRecord
  BY DEF IInv, TypeOK, WorkerRecord
<1> QED
  BY <1>1 DEF WorkerRecord

LEMMA TakeArgumentsInv ==
  ASSUME IInv, NEW t \in Thread, TakeArguments(t)
  PROVE  IInv'
<1> DEFINE w == [worker[t] EXCEPT !.pc = "recv", !.buf = << >>]
<1>1. /\ ~ Stopped /\ worker[t].pc = "start" /\ heap' = heap - 1
      /\ worker' = [worker EXCEPT ![t] = w]
      /\ UNCHANGED << settled, main, incoming, leaked, kernelVars, since,
                      got >>
  BY DEF TakeArguments, At, Goes
<1>2. << >> \in Seq([from : Peer, unit : Nat])
  BY EmptySeq
<1>3. /\ w \in WorkerRecord
      /\ w.pc = "recv" /\ w.fd = worker[t].fd /\ w.buf = << >>
  BY <1>2, NextState
<1> HIDE DEF w
<1>4. worker[t].buf = << >>
  BY <1>1 DEF IInv, TypeOK
<1>5. PICK p \in Peer : p = Client(t)
  BY <1>1, Serving
<1>6. link[p] \in Writable =>
        Due(p) <= taken[p] /\ << >> = Units(p, Due(p) + 1, taken[p])
  BY <1>1, <1>4, <1>5, Talking
<1>7. Wired'
  BY <1>1, StillWired DEF IInv
<1>8. got' \in [Peer -> Seq([from : Peer, unit : Nat])]
  BY <1>1 DEF IInv, TypeOK
<1>9. UNCHANGED << sock, link, taken >> /\ Due(p)' = Due(p)
  BY <1>1 DEF kernelVars, Due
<1> QED
  BY <1>1, <1>3, <1>5, <1>6, <1>7, <1>8, <1>9, GoesOnInv

(* What the greeting leaves: nothing has been read, whatever the state of  *)
(* the connection.                                                         *)
LEMMA HelloInv ==
  ASSUME IInv, Hello
  PROVE  IInv'
<1> DEFINE w == [worker[1] EXCEPT !.pc = "recv", !.buf = << >>]
<1>0. 1 \in Thread
  BY EchoAssumption DEF Thread
<1>1. /\ ~ Stopped /\ worker[1].pc = "hello"
      /\ worker' = [worker EXCEPT ![1] = w]
      /\ UNCHANGED << settled, main, incoming, heap, leaked, since, got >>
  BY DEF Hello, At, Goes
<1>2. Writes(Client(1)) \/ ReportsReset(Client(1))
  BY DEF Hello
<1>3. << >> \in Seq([from : Peer, unit : Nat])
  BY EmptySeq
<1>4. /\ w \in WorkerRecord
      /\ w.pc = "recv" /\ w.fd = worker[1].fd /\ w.buf = << >>
  BY <1>0, <1>3, NextState
<1> HIDE DEF w
<1>5. worker[1].buf = << >>
  BY <1>0, <1>1 DEF IInv, TypeOK
<1>6. PICK p \in Peer : p = Client(1)
  BY <1>0, <1>1, Serving
<1>7. link[p] \in Writable =>
        Due(p) <= taken[p] /\ << >> = Units(p, Due(p) + 1, taken[p])
  BY <1>0, <1>1, <1>5, <1>6, Talking
<1>8. Wired'
  BY <1>2, <1>6, WritesWired, ReportsResetWired DEF IInv
<1>9. got' \in [Peer -> Seq([from : Peer, unit : Nat])]
  BY <1>1 DEF IInv, TypeOK
<1>10. /\ UNCHANGED << sock, taken >> /\ Due(p)' = Due(p)
       /\ \A q \in Peer \ { p } : link'[q] = link[q]
       /\ link'[p] \in Writable => link[p] \in Writable
  BY <1>1, <1>2, <1>6
  DEF Writes, ReportsReset, Due, Writable, IInv, Wired, SocketsTypeOK
<1>11. link'[p] \in Writable =>
         Due(p)' <= taken'[p] /\ w.buf = Units(p, Due(p)' + 1, taken'[p])
  BY <1>4, <1>7, <1>10
<1>12. /\ heap' = IF worker[1].pc = "start" THEN heap - 1 ELSE heap
       /\ \A q \in Peer \ { p } :
            link'[q] = link[q] /\ taken'[q] = taken[q] /\ got'[q] = got[q]
       /\ UNCHANGED << settled, main, incoming, leaked, since, sock >>
  BY <1>1, <1>10
<1>13. /\ ~ Stopped /\ worker[1].pc # "idle"
       /\ worker' = [worker EXCEPT ![1] = w]
       /\ w.pc \notin { "idle", "start" }
       /\ w.pc = "send" <=> w.buf # << >>
  BY <1>1, <1>4
<1> QED
  BY <1>0, <1>4, <1>6, <1>8, <1>9, <1>11, <1>12, <1>13, GoesOnInv

(* What recv() returns follows what has been sent back: the worker held    *)
(* nothing before.                                                         *)
LEMMA RecvInv ==
  ASSUME IInv, NEW t \in Thread, NEW n \in 1 .. ReadMax, Recv(t, n)
  PROVE  IInv'
<1>0. n \in Nat /\ n > 0
  BY EchoAssumption
<1>1. PICK p \in Peer : p = Client(t) /\ worker[t].pc = "recv"
  BY Serving DEF Recv, At
<1>2. Due(p) \in Nat /\ taken[p] \in Nat
  BY <1>1, Talking
<1> DEFINE buf == Units(p, taken[p] + 1, taken[p] + n)
           w == [worker[t] EXCEPT !.pc = "send", !.buf = buf]
<1>3. /\ ~ Stopped /\ Reads(p, n)
      /\ worker' = [worker EXCEPT ![t] = w]
      /\ UNCHANGED << settled, main, incoming, heap, leaked, since, got >>
  BY <1>1 DEF Recv, At
<1>4. buf \in Seq([from : Peer, unit : Nat]) /\ Len(buf) = n
  <2>1. /\ taken[p] + 1 \in Nat /\ taken[p] + n \in Nat
        /\ taken[p] + 1 <= (taken[p] + n) + 1
        /\ (taken[p] + n) - (taken[p] + 1) + 1 = n
    BY <1>0, <1>2
  <2> QED
    BY <2>1, UnitsTyped
<1>5. buf # << >>
  BY <1>0, <1>4
<1> HIDE DEF buf
<1>6. /\ w \in WorkerRecord
      /\ w.pc = "send" /\ w.fd = worker[t].fd /\ w.buf = buf
  BY <1>4, NextState
<1> HIDE DEF w
<1>7. link[p] \in Writable => taken[p] = Due(p)
  <2>1. worker[t].buf = << >>
    BY <1>1 DEF IInv, TypeOK
  <2> QED
    BY <1>1, <1>2, <2>1, Talking, NothingHeld
<1>8. Wired'
  BY <1>0, <1>3, ReadsWired DEF IInv
<1>9. got' \in [Peer -> Seq([from : Peer, unit : Nat])]
  BY <1>3 DEF IInv, TypeOK
<1>10. /\ UNCHANGED << sock, link >> /\ Due(p)' = Due(p)
       /\ taken'[p] = taken[p] + n
       /\ \A q \in Peer \ { p } : taken'[q] = taken[q]
  BY <1>3 DEF Reads, Due, IInv, Wired, SocketsTypeOK
<1>11. link'[p] \in Writable =>
         Due(p)' <= taken'[p] /\ w.buf = Units(p, Due(p)' + 1, taken'[p])
  <2>1. \A d \in Nat : d <= d + n
    BY <1>0
  <2> QED
    BY <1>2, <1>6, <1>7, <1>10, <2>1 DEF buf
<1> QED
  BY <1>1, <1>3, <1>5, <1>6, <1>8, <1>9, <1>10, <1>11, GoesOnInv

(* send() takes what the worker held, and the peer has been sent back all  *)
(* that was read.                                                          *)
LEMMA SendBackInv ==
  ASSUME IInv, NEW t \in Thread, SendBack(t)
  PROVE  IInv'
<1> DEFINE w == [worker[t] EXCEPT !.pc = "recv", !.buf = << >>]
<1>1. PICK p \in Peer : p = Client(t) /\ worker[t].pc = "send"
  BY Serving DEF SendBack, At
<1>2. /\ ~ Stopped /\ Writes(p)
      /\ got' = [got EXCEPT ![p] = @ \o worker[t].buf]
      /\ worker' = [worker EXCEPT ![t] = w]
      /\ UNCHANGED << settled, main, incoming, heap, leaked, since >>
  BY <1>1 DEF SendBack, At, Goes
<1>3. << >> \in Seq([from : Peer, unit : Nat])
  BY EmptySeq
<1>4. /\ w \in WorkerRecord
      /\ w.pc = "recv" /\ w.fd = worker[t].fd /\ w.buf = << >>
  BY <1>3, NextState
<1> HIDE DEF w
<1>5. /\ Due(p) \in Nat /\ taken[p] \in Nat
      /\ link[p] \in Writable => Due(p) <= taken[p]
           /\ worker[t].buf = Units(p, Due(p) + 1, taken[p])
  BY <1>1, Talking
<1>6. /\ UNCHANGED << sock, taken >> /\ link[p] \in Writable
      /\ \A q \in Peer \ { p } : link'[q] = link[q]
  BY <1>2 DEF Writes, Writable, IInv, Wired, SocketsTypeOK
<1>7. /\ worker[t].buf \in Seq([from : Peer, unit : Nat])
      /\ got[p] \in Seq([from : Peer, unit : Nat]) /\ since[p] \in Nat
  BY DEF IInv, TypeOK
<1>8. /\ got[p] \o worker[t].buf \in Seq([from : Peer, unit : Nat])
      /\ Len(got[p] \o worker[t].buf) = Len(got[p]) + Len(worker[t].buf)
      /\ Len(got[p]) \in Nat
  BY <1>7, ConcatProperties, LenProperties
<1>9. /\ got' \in [Peer -> Seq([from : Peer, unit : Nat])]
      /\ got'[p] = got[p] \o worker[t].buf
      /\ \A q \in Peer \ { p } : got'[q] = got[q]
  BY <1>2, <1>8 DEF IInv, TypeOK
<1>10. Due(p)' = taken[p]
  <2>1. Len(worker[t].buf) = taken[p] - Due(p)
    BY <1>5, <1>6, NothingHeld
  <2>2. Due(p)' = since[p] + (Len(got[p]) + Len(worker[t].buf))
    BY <1>2, <1>8, <1>9 DEF Due
  <2>3. \A a, b, c \in Nat : a + (b + (c - (a + b))) = c
    OBVIOUS
  <2> QED
    BY <1>5, <1>7, <1>8, <2>1, <2>2, <2>3 DEF Due
<1>11. Due(p)' <= taken'[p] /\ << >> = Units(p, Due(p)' + 1, taken'[p])
  BY <1>5, <1>6, <1>10, NothingHeld
<1>12. Wired'
  BY <1>2, WritesWired DEF IInv
<1> QED
  BY <1>1, <1>2, <1>4, <1>6, <1>9, <1>11, <1>12, GoesOnInv

(* A worker that ends keeps the invariant when it closes its descriptor,   *)
(* or loses it on a connection that is over.                               *)
LEMMA EndsInv ==
  ASSUME IInv, NEW t \in Thread, NEW p \in Peer,
         ~ Stopped, worker[t].pc \notin { "idle", "start" }, p = Client(t),
         Ends(t), Wired',
         UNCHANGED << settled, main, incoming, heap, since, got, taken >>,
         \/ Open' = Open \ { worker[t].fd } /\ UNCHANGED leaked
         \/ Open' = Open /\ leaked' = leaked \cup { worker[t].fd },
         \A q \in Peer \ { p } : link'[q] = link[q] /\ sock'[q] = sock[q],
         link'[p] \notin Writable
  PROVE  IInv'
<1>1. Idle \in WorkerRecord /\ Idle.pc = "idle" /\ Idle.buf = << >>
  <2>1. << >> \in Seq([from : Peer, unit : Nat])
    BY EmptySeq
  <2> QED
    BY <2>1 DEF Idle, WorkerRecord
<1>2. /\ worker' \in [Thread -> WorkerRecord]
      /\ \A u \in Thread : worker'[u].pc = "send" <=> worker'[u].buf # << >>
      /\ \A u \in Thread : worker'[u] = IF u = t THEN Idle ELSE worker[u]
  BY <1>1, Put DEF Ends, IInv
<1>3. /\ Busy' = Busy \ { t } /\ Owned' = Owned \ { worker[t].fd }
      /\ \A u, v \in Busy' : worker'[u].fd = worker'[v].fd => u = v
      /\ Starters' = Starters
  BY <1>2, Stops
<1>4. /\ t \in Busy /\ worker[t].fd \in Open \ leaked /\ worker[t].fd # 0
      /\ worker[t].fd \in Owned /\ sock[p] = worker[t].fd
      /\ \A q \in Peer : sock[q] = worker[t].fd => q = p
  BY Serving
<1>5. TypeOK'
  <2>1. leaked' \subseteq Descriptor
    BY <1>4, OpenTyped DEF IInv, TypeOK
  <2> QED
    BY <1>2, <2>1 DEF IInv, TypeOK, Wired, WorkerRecord, settled
<1>6. OneServer'
  <2>1. main \notin Boot!Starting
    BY <1>4 DEF IInv, OneServer, Busy
  <2>2. \A u \in Thread : worker'[u].pc = "idle" => worker'[u] = Idle
    BY <1>2 DEF IInv, OneServer
  <2> QED
    BY <2>1, <2>2 DEF IInv, OneServer, Stopped, settled
<1>7. Owners'
  <2>1. Open' \ leaked' = (Open \ leaked) \ { worker[t].fd }
    BY <1>4
  <2>2. incoming # worker[t].fd
    BY <1>4 DEF IInv, Owners
  <2> QED
    BY <1>3, <1>4, <2>1, <2>2 DEF IInv, Owners, Stopped
<1>8. Blocks'
  BY <1>3 DEF IInv, Blocks, Stopped
<1>9. Conversations'
  <2> SUFFICES ASSUME NEW q \in Peer PROVE Conversation(q)'
    BY DEF Conversations
  <2>1. CASE q = p
    BY <2>1 DEF Conversation
  <2>2. CASE q # p
    <3>1. \A u \in Busy' : worker'[u] = worker[u] /\ u \in Busy
      BY <1>2, <1>3 DEF Busy
    <3>2. sock[q] # worker[t].fd
      BY <1>4, <2>2
    <3> QED
      BY <1>3, <2>2, <3>1, <3>2, Unconcerned
  <2> QED
    BY <2>1, <2>2
<1> QED
  BY <1>5, <1>6, <1>7, <1>8, <1>9 DEF IInv

(* ... by close() *)
LEMMA ClosesAndEndsInv ==
  ASSUME IInv, NEW t \in Thread, ~ Stopped,
         worker[t].pc \notin { "idle", "start" },
         Closes(Client(t)), Ends(t),
         UNCHANGED << settled, main, incoming, heap, leaked, since, got >>
  PROVE  IInv'
<1>1. PICK p \in Peer : /\ p = Client(t) /\ sock[p] = worker[t].fd
                        /\ worker[t].fd # 0
  BY Serving
<1>2. Wired' /\ Open' = Open \ { worker[t].fd }
  BY <1>1, ClosesWired DEF IInv
<1>3. /\ \A q \in Peer \ { p } : link'[q] = link[q] /\ sock'[q] = sock[q]
      /\ link'[p] \notin Writable /\ UNCHANGED taken
  BY <1>1 DEF Closes, Writable, IInv, Wired, SocketsTypeOK
<1> QED
  BY <1>1, <1>2, <1>3, EndsInv

LEMMA RecvEndsInv ==
  ASSUME IInv, NEW t \in Thread, RecvEnds(t)
  PROVE  IInv'
BY ClosesAndEndsInv DEF RecvEnds, At

LEMMA RecvFailsInv ==
  ASSUME IInv, NEW t \in Thread, RecvFails(t)
  PROVE  IInv'
<1>1. /\ ~ Stopped /\ worker[t].pc = "recv" /\ Ends(t)
      /\ UNCHANGED << settled, main, incoming, heap, since, got >>
  BY DEF RecvFails, At
<1>2. CASE threads
  BY <1>1, <1>2, ClosesAndEndsInv DEF RecvFails
<1>3. CASE ~ threads
  <2>1. ReportsReset(Client(t)) /\ leaked' = leaked \cup { worker[t].fd }
    BY <1>3 DEF RecvFails
  <2>2. PICK p \in Peer : p = Client(t)
    BY <1>1, Serving
  <2>3. Wired' /\ Open' = Open
    BY <2>1, <2>2, ReportsResetWired DEF IInv
  <2>4. /\ \A q \in Peer \ { p } : link'[q] = link[q] /\ sock'[q] = sock[q]
        /\ link'[p] \notin Writable /\ UNCHANGED taken
    BY <2>1, <2>2 DEF ReportsReset, Writable, IInv, Wired, SocketsTypeOK
  <2> QED
    BY <1>1, <2>1, <2>2, <2>3, <2>4, EndsInv
<1> QED
  BY <1>2, <1>3

(* tcp/single_connection drops what the worker held, and never writes to   *)
(* the connection again.                                                   *)
LEMMA SendFailsInv ==
  ASSUME IInv, NEW t \in Thread, SendFails(t)
  PROVE  IInv'
<1>1. /\ ~ Stopped /\ worker[t].pc = "send"
      /\ UNCHANGED << settled, main, incoming, heap, leaked, since, got >>
  BY DEF SendFails, At
<1>2. CASE threads
  BY <1>1, <1>2, ClosesAndEndsInv DEF SendFails
<1>3. CASE ~ threads
  <2> DEFINE w == [worker[t] EXCEPT !.pc = "recv", !.buf = << >>]
  <2>1. ReportsReset(Client(t)) /\ worker' = [worker EXCEPT ![t] = w]
    BY <1>3 DEF SendFails, Goes
  <2>2. << >> \in Seq([from : Peer, unit : Nat])
    BY EmptySeq
  <2>3. /\ w \in WorkerRecord
        /\ w.pc = "recv" /\ w.fd = worker[t].fd /\ w.buf = << >>
    BY <2>2, NextState
  <2> HIDE DEF w
  <2>4. PICK p \in Peer : p = Client(t)
    BY <1>1, Serving
  <2>5. Wired'
    BY <2>1, <2>4, ReportsResetWired DEF IInv
  <2>6. /\ UNCHANGED << sock, taken >>
        /\ \A q \in Peer \ { p } : link'[q] = link[q]
        /\ link'[p] \notin Writable
    BY <2>1, <2>4 DEF ReportsReset, Writable, IInv, Wired, SocketsTypeOK
  <2>7. got' \in [Peer -> Seq([from : Peer, unit : Nat])]
    BY <1>1 DEF IInv, TypeOK
  <2> QED
    BY <1>1, <2>1, <2>3, <2>4, <2>5, <2>6, <2>7, GoesOnInv
<1> QED
  BY <1>2, <1>3

(* The process is gone, whatever it held. *)
LEMMA GoneInv ==
  ASSUME IInv, main' \in { "exited", "killed" },
         UNCHANGED << threads, untried, incoming, worker, heap, leaked,
                      kernelVars, since, got >>,
         servinfo' \in { 0, 1 }, threads => servinfo' = 0
  PROVE  IInv'
<1>1. Busy' = Busy /\ Owned' = Owned
  BY SameWorkers
<1>2. Wired' /\ Open' = Open
  BY StillWired DEF IInv
<1>3. TypeOK'
  BY <1>2 DEF IInv, TypeOK, Wired
<1>4. OneServer'
  BY DEF IInv, OneServer, Stopped, Boot!Starting
<1>5. Owners' /\ Blocks'
  BY <1>1, <1>2 DEF IInv, Owners, Blocks, Stopped
<1>6. Conversations'
  BY <1>1
  DEF IInv, Conversations, Conversation, kernelVars, Due, Units
<1> QED
  BY <1>2, <1>3, <1>4, <1>5, <1>6 DEF IInv

LEMMA KilledInv ==
  ASSUME IInv, NEW t \in Thread, Killed(t)
  PROVE  IInv'
<1>1. /\ ~ Stopped /\ worker[t].pc \in { "send", "hello" }
      /\ main' = "killed"
      /\ UNCHANGED << settled, incoming, worker, heap, leaked, kernelVars,
                      since, got >>
  BY DEF Killed, At
<1>2. main \notin Boot!Starting
  <2>1. worker[t] # Idle
    BY <1>1 DEF Idle
  <2> QED
    BY <2>1 DEF IInv, OneServer
<1>3. servinfo \in { 0, 1 } /\ (threads => servinfo = 0)
  BY <1>1, <1>2 DEF IInv, TypeOK, OneServer, Boot!Starting, Stopped
<1> QED
  BY <1>1, <1>3, GoneInv DEF settled

-----------------------------------------------------------------------------
(* The main thread of tcp/single_connection *)

LEMMA AcceptFailsInv ==
  ASSUME IInv, AcceptFails
  PROVE  IInv'
<1>1. /\ ~ threads /\ main = "accept" /\ main' = "exited"
      /\ servinfo' = servinfo - 1
      /\ UNCHANGED << threads, untried, incoming, worker, heap, leaked,
                      kernelVars, since, got >>
  BY DEF AcceptFails, Boot!Free
<1>2. servinfo = 1
  BY <1>1 DEF IInv, OneServer, Stopped
<1>3. servinfo' = 0
  BY <1>1, <1>2
<1> QED
  BY <1>1, <1>3, GoneInv

LEMMA AcceptOneInv ==
  ASSUME IInv, AcceptOne
  PROVE  IInv'
<1> DEFINE w == [Idle EXCEPT !.pc = "hello", !.fd = NewFd]
<1>0. 1 \in Thread
  BY EchoAssumption DEF Thread
<1>1. /\ Wired' /\ NewFd \in Descriptor /\ NewFd # 0
      /\ Open' = Open \cup { NewFd }
      /\ NewFd \notin leaked /\ NewFd \notin Owned /\ NewFd # incoming
      /\ sock' = [sock EXCEPT ![Head(backlog)] = NewFd]
      /\ Head(backlog) \in Peer /\ sock[Head(backlog)] = 0
      /\ \A p \in Peer : sock[p] # NewFd
      /\ UNCHANGED << link, given, taken >>
  BY AcceptedAlone DEF AcceptOne
<1>2. /\ ~ threads /\ main = "accept" /\ worker[1] = Idle
      /\ worker' = [worker EXCEPT ![1] = w]
      /\ UNCHANGED << settled, main, incoming, heap, leaked, since, got >>
  BY DEF AcceptOne
<1>3. w \in WorkerRecord /\ w.pc = "hello" /\ w.fd = NewFd /\ w.buf = << >>
  <2>1. << >> \in Seq([from : Peer, unit : Nat])
    BY EmptySeq
  <2> HIDE DEF NewFd
  <2> QED
    BY <1>1, <2>1 DEF WorkerRecord, Idle
<1> HIDE DEF w, NewFd
<1>4. /\ worker' \in [Thread -> WorkerRecord]
      /\ \A u \in Thread : worker'[u].pc = "send" <=> worker'[u].buf # << >>
      /\ \A u \in Thread : worker'[u] = IF u = 1 THEN w ELSE worker[u]
  BY <1>0, <1>2, <1>3, Put DEF IInv
<1>5. /\ Busy' = Busy \cup { 1 } /\ 1 \notin Busy
      /\ Owned' = Owned \cup { NewFd }
      /\ \A u, v \in Busy' : worker'[u].fd = worker'[v].fd => u = v
      /\ Starters' = Starters
  BY <1>0, <1>1, <1>2, <1>3, <1>4, Begins
<1>6. TypeOK'
  BY <1>1, <1>2, <1>4 DEF IInv, TypeOK, Wired, settled, WorkerRecord
<1>7. OneServer'
  BY <1>2, <1>3, <1>4 DEF IInv, OneServer, settled, Boot!Starting, Stopped
<1>8. Owners'
  BY <1>1, <1>2, <1>5 DEF IInv, Owners, Stopped
<1>9. Blocks'
  BY <1>2, <1>5 DEF IInv, Blocks, Stopped
<1>10. Conversations'
  <2> SUFFICES ASSUME NEW p \in Peer PROVE Conversation(p)'
    BY DEF Conversations
  <2>1. CASE p = Head(backlog)
    <3>1. 0 \notin Owned /\ sock'[p] = NewFd
      BY <1>1, <2>1 DEF IInv, Owners, Open, Wired, SocketsTypeOK
    <3>2. link[p] \in Writable =>
            Due(p) = taken[p] /\ Due(p) <= taken[p] /\ Due(p) \in Nat
      BY <1>1, <2>1, <3>1
      DEF IInv, Conversations, Conversation, Wired, SocketsTypeOK
    <3>3. \A t \in Busy' : worker'[t].fd = NewFd => t = 1
      BY <1>1, <1>4, <1>5 DEF Owned, Busy
    <3>4. worker'[1].buf = << >>
      BY <1>0, <1>3, <1>4
    <3>5. Due(p) \in Nat => << >> = Units(p, Due(p) + 1, Due(p))
      <4>1. \A n \in Nat : n - (n + 1) + 1 = 0
        OBVIOUS
      <4> QED
        BY <4>1 DEF Units
    <3>6. Due(p)' = Due(p) /\ Units(p, Due(p) + 1, taken[p])'
                                = Units(p, Due(p) + 1, taken[p])
      BY <1>1, <1>2 DEF Due, Units
    <3> QED
      BY <1>1, <1>2, <1>5, <3>1, <3>2, <3>3, <3>4, <3>5, <3>6
      DEF Conversation
  <2>2. CASE p # Head(backlog)
    <3>1. sock'[p] = sock[p]
      BY <1>1, <2>2 DEF IInv, Wired, SocketsTypeOK
    <3>2. sock[p] # NewFd
      BY <1>1
    <3>3. \A u \in Busy' : worker'[u].fd = sock[p] =>
            /\ u \in Busy /\ worker[u].fd = sock[p]
            /\ worker'[u].buf = worker[u].buf
      BY <1>3, <1>4, <1>5, <3>2 DEF Busy
    <3> QED
      BY <1>1, <1>2, <1>5, <3>1, <3>2, <3>3, Unconcerned
  <2> QED
    BY <2>1, <2>2
<1> QED
  BY <1>1, <1>6, <1>7, <1>8, <1>9, <1>10 DEF IInv

-----------------------------------------------------------------------------
(* The peers and the network *)

(* A step of theirs on p's connection which is not that of p's coming, nor *)
(* one the server could notice in what it has read or sent back            *)
LEMMA OutsideInv ==
  ASSUME IInv, NEW p \in Peer, Wired', Open' \ leaked = Open \ leaked,
         UNCHANGED << serverVars, since, got, taken >>,
         \A q \in Peer \ { p } : link'[q] = link[q] /\ sock'[q] = sock[q],
         \/ link'[p] \notin Writable
         \/ sock'[p] = sock[p] /\ link[p] \in Writable
  PROVE  IInv'
<1>1. Busy' = Busy /\ Owned' = Owned /\ Starters' = Starters
  BY SameWorkers DEF serverVars
<1>2. UNCHANGED << threads, untried, servinfo, main, incoming, worker, heap,
                   leaked >>
  BY DEF serverVars, settled
<1>3. TypeOK'
  BY <1>2 DEF IInv, TypeOK, Wired
<1>4. OneServer'
  BY <1>2 DEF IInv, OneServer, Stopped
<1>5. Owners' /\ Blocks'
  BY <1>1, <1>2 DEF IInv, Owners, Blocks, Stopped
<1>6. Conversations'
  <2> SUFFICES ASSUME NEW q \in Peer PROVE Conversation(q)'
    BY DEF Conversations
  <2>1. CASE link'[q] \notin Writable
    BY <2>1 DEF Conversation
  <2>2. CASE link'[q] \in Writable
    <3>1. sock'[q] = sock[q] /\ link[q] \in Writable
      BY <2>2
    <3> QED
      BY <1>1, <1>2, <3>1, Unconcerned
  <2> QED
    BY <2>1, <2>2
<1> QED
  BY <1>3, <1>4, <1>5, <1>6 DEF IInv

(* A peer comes: on the new connection nothing has been said yet. *)
LEMMA JoinsInv ==
  ASSUME IInv, NEW p \in Peer, Outside(Joins(p))
  PROVE  IInv'
<1>1. /\ Connect(p) /\ since' = [since EXCEPT ![p] = given[p]]
      /\ got' = [got EXCEPT ![p] = << >>]
      /\ UNCHANGED << threads, untried, servinfo, main, incoming, worker,
                      heap, leaked >>
  BY DEF Outside, Joins, serverVars, settled
<1>2. Busy' = Busy /\ Owned' = Owned /\ Starters' = Starters
  BY <1>1, SameWorkers
<1>3. Wired' /\ Open' = Open /\ sock[p] = 0
  BY <1>1, ConnectWired DEF IInv
<1>4. TypeOK'
  <2>1. since' \in [Peer -> Nat]
    BY <1>1 DEF IInv, TypeOK, Wired, SocketsTypeOK
  <2>2. << >> \in Seq([from : Peer, unit : Nat])
    BY EmptySeq
  <2>3. got' \in [Peer -> Seq([from : Peer, unit : Nat])]
    BY <1>1, <2>2 DEF IInv, TypeOK
  <2> QED
    BY <1>1, <1>3, <2>1, <2>3 DEF IInv, TypeOK, Wired
<1>5. OneServer'
  BY <1>1 DEF IInv, OneServer, Stopped
<1>6. Owners' /\ Blocks'
  BY <1>1, <1>2, <1>3 DEF IInv, Owners, Blocks, Stopped
<1>7. Conversations'
  <2> SUFFICES ASSUME NEW q \in Peer PROVE Conversation(q)'
    BY DEF Conversations
  <2>1. UNCHANGED sock
    BY <1>1 DEF Connect
  <2>2. CASE q = p
    <3>1. /\ since'[p] = given[p] /\ got'[p] = << >> /\ taken'[p] = given[p]
          /\ given[p] \in Nat
      BY <1>1 DEF Connect, IInv, TypeOK, Wired, SocketsTypeOK
    <3>2. Due(p)' = taken'[p] /\ Due(p)' <= taken'[p]
      BY <3>1, EmptySeq DEF Due
    <3>3. \A t \in Busy' : worker'[t].fd # sock'[p]
      BY <1>1, <1>2, <1>3, <2>1 DEF IInv, Owners, Owned, Open
    <3> QED
      BY <2>2, <3>2, <3>3 DEF Conversation
  <2>3. CASE q # p
    <3>1. /\ link'[q] = link[q] /\ taken'[q] = taken[q]
          /\ since'[q] = since[q] /\ got'[q] = got[q]
      BY <1>1, <2>3 DEF Connect, IInv, TypeOK, Wired, SocketsTypeOK
    <3> QED
      BY <1>1, <1>2, <2>1, <3>1, Unconcerned
  <2> QED
    BY <2>2, <2>3
<1> QED
  BY <1>3, <1>4, <1>5, <1>6, <1>7 DEF IInv

LEMMA EnvironmentInv ==
  ASSUME IInv, Environment
  PROVE  IInv'
<1> PICK p \in Peer :
      \/ Outside(Joins(p))
      \/ Outside(Send(p) /\ UNCHANGED << since, got >>)
      \/ Outside(PeerReads(p) /\ UNCHANGED << since, got >>)
      \/ Outside(PeerCloses(p) /\ UNCHANGED << since, got >>)
      \/ Outside(ResetArrives(p) /\ UNCHANGED << since, got >>)
      \/ Outside(GivesUp(p) /\ UNCHANGED << since, got >>)
  BY DEF Environment
<1>1. CASE Outside(Joins(p))
  BY <1>1, JoinsInv
<1>2. CASE Outside(Send(p) /\ UNCHANGED << since, got >>)
  <2>1. /\ Send(p) /\ UNCHANGED << serverVars, since, got >>
        /\ UNCHANGED << taken, link, sock >> /\ link[p] \in Writable
    BY <1>2 DEF Outside, Send, Writable
  <2> QED
    BY <2>1, SendWired, OutsideInv DEF IInv
<1>3. CASE Outside(PeerReads(p) /\ UNCHANGED << since, got >>)
  <2>1. /\ PeerReads(p) /\ UNCHANGED << serverVars, since, got >>
        /\ UNCHANGED << taken, link, sock >>
    BY <1>3 DEF Outside, PeerReads
  <2>2. link'[p] \notin Writable \/ link[p] \in Writable
    BY <2>1
  <2> QED
    BY <2>1, <2>2, PeerReadsWired, OutsideInv DEF IInv
<1>4. CASE Outside(PeerCloses(p) /\ UNCHANGED << since, got >>)
  <2>1. /\ PeerCloses(p) /\ UNCHANGED << serverVars, since, got >>
        /\ UNCHANGED << taken, sock >> /\ link[p] \in Writable
        /\ \A q \in Peer \ { p } : link'[q] = link[q]
    BY <1>4
    DEF Outside, PeerCloses, Writable, IInv, Wired, SocketsTypeOK
  <2> QED
    BY <2>1, PeerClosesWired, OutsideInv DEF IInv
<1>5. CASE Outside(ResetArrives(p) /\ UNCHANGED << since, got >>)
  <2>1. /\ ResetArrives(p) /\ UNCHANGED << serverVars, since, got >>
        /\ UNCHANGED << taken, sock >> /\ link[p] \in Writable
        /\ \A q \in Peer \ { p } : link'[q] = link[q]
    BY <1>5
    DEF Outside, ResetArrives, Writable, IInv, Wired, SocketsTypeOK
  <2> QED
    BY <2>1, ResetArrivesWired, OutsideInv DEF IInv
<1>6. CASE Outside(GivesUp(p) /\ UNCHANGED << since, got >>)
  <2>1. /\ Closes(p) /\ UNCHANGED << serverVars, since, got >>
        /\ sock[p] \in leaked /\ sock[p] # 0 /\ UNCHANGED taken
        /\ link'[p] \notin Writable
        /\ \A q \in Peer \ { p } : link'[q] = link[q] /\ sock'[q] = sock[q]
    BY <1>6
    DEF Outside, GivesUp, Closes, Closed, Writable, IInv, TypeOK, Wired,
        SocketsTypeOK, Descriptor, ServerFd
  <2>2. Wired' /\ Open' = Open \ { sock[p] }
    BY <2>1, ClosesWired DEF IInv
  <2> QED
    BY <2>1, <2>2, OutsideInv
<1> QED
  BY <1>1, <1>2, <1>3, <1>4, <1>5, <1>6

-----------------------------------------------------------------------------
LEMMA StutterInv ==
  ASSUME IInv, UNCHANGED vars
  PROVE  IInv'
<1>1. Busy' = Busy /\ Owned' = Owned /\ Starters' = Starters
  BY SameWorkers DEF vars, serverVars
<1>2. Wired' /\ Open' = Open
  BY StillWired DEF vars, IInv
<1>3. TypeOK' /\ OneServer'
  BY <1>2
  DEF vars, serverVars, settled, IInv, TypeOK, OneServer, Wired, Stopped
<1>4. Owners' /\ Blocks'
  BY <1>1, <1>2 DEF vars, serverVars, IInv, Owners, Blocks, Stopped
<1>5. Conversations'
  BY <1>1
  DEF vars, serverVars, kernelVars, IInv, Conversations, Conversation, Due,
      Units
<1> QED
  BY <1>2, <1>3, <1>4, <1>5 DEF IInv

LEMMA NextInv ==
  ASSUME IInv, [Next]_vars
  PROVE  IInv'
<1>1. ASSUME Main PROVE IInv'
  BY <1>1, StartInv, AcceptInv, MallocInv, MallocFailsInv, CreateThreadInv,
     CreateFailsInv, AcceptOneInv, AcceptFailsInv, HelloInv DEF Main
<1>2. ASSUME NEW t \in Thread, Worker(t) PROVE IInv'
  BY <1>2, TakeArgumentsInv, RecvInv, RecvEndsInv, RecvFailsInv,
     SendBackInv, SendFailsInv, KilledInv DEF Worker
<1> QED
  BY <1>1, <1>2, StartInv, EnvironmentInv, StutterInv DEF Next

(* The servers, the peers and TCP keep the inductive invariant: the        *)
(* descriptors, the blocks and what is on its way are accounted for.       *)
THEOREM Invariance == Spec => []IInv
<1>1. Init => IInv
  BY InitInv
<1>2. IInv /\ [Next]_vars => IInv'
  BY NextInv
<1> QED
  BY <1>1, <1>2, PTL DEF Spec

(* Every open descriptor that is not lost has exactly one owner, whatever  *)
(* the threads and the peers do in between; every argument block is freed  *)
(* by one thread; the list of addresses is freed once.                     *)
THEOREM EveryDescriptorHasOneOwner == Spec => []OneOwner
<1>1. IInv => OneOwner
  <2>1. ASSUME IInv, ~ Stopped
        PROVE  heap = Cardinality({ t \in Thread : worker[t].pc = "start" })
                        + (IF main = "create" THEN 1 ELSE 0)
    BY <2>1 DEF IInv, Blocks, Starters
  <2> QED
    BY <2>1 DEF IInv, OneServer, Owners, Owned, OneOwner
<1> QED
  BY <1>1, Invariance, PTL

-----------------------------------------------------------------------------
(* The servers implement EchoService. *)

Serves == [Service!Next]_<< given, since, got >>

(* What a thread sends back is what its peer is due next. *)
LEMMA SendBackServes ==
  ASSUME IInv, NEW t \in Thread, SendBack(t)
  PROVE  Serves
<1>1. PICK p \in Peer : p = Client(t) /\ worker[t].pc = "send"
  BY Serving DEF SendBack, At
<1>2. /\ Writes(p) /\ UNCHANGED since
      /\ got' = [got EXCEPT ![p] = @ \o worker[t].buf]
  BY <1>1 DEF SendBack
<1>3. link[p] \in Writable /\ UNCHANGED given
  BY <1>2 DEF Writes, Writable
<1>4. /\ Due(p) \in Nat /\ taken[p] \in Nat /\ Due(p) <= taken[p]
      /\ worker[t].buf = Units(p, Due(p) + 1, taken[p])
  BY <1>1, <1>3, Talking
<1>5. worker[t].buf # << >>
  BY <1>1 DEF IInv, TypeOK
<1>6. Due(p) # taken[p]
  BY <1>4, <1>5, NothingHeld
<1>7. taken[p] <= given[p] /\ given[p] \in Nat
  BY DEF IInv, Wired, SocketsTypeOK
<1>8. taken[p] \in (Due(p) + 1) .. given[p]
  BY <1>4, <1>6, <1>7
<1>9. worker[t].buf = Service!Units(p, Due(p) + 1, taken[p])
  BY <1>4 DEF Units, Service!Units
<1>10. Service!Echo(p)
  BY <1>2, <1>3, <1>8, <1>9 DEF Service!Echo, Due
<1> QED
  BY <1>10 DEF Serves, Service!Next

LEMMA EnvironmentServes ==
  ASSUME Environment
  PROVE  Serves
<1> PICK p \in Peer :
      \/ Outside(Joins(p))
      \/ Outside(Send(p) /\ UNCHANGED << since, got >>)
      \/ Outside(PeerReads(p) /\ UNCHANGED << since, got >>)
      \/ Outside(PeerCloses(p) /\ UNCHANGED << since, got >>)
      \/ Outside(ResetArrives(p) /\ UNCHANGED << since, got >>)
      \/ Outside(GivesUp(p) /\ UNCHANGED << since, got >>)
  BY DEF Environment
<1>1. CASE Outside(Joins(p))
  <2>1. Service!Join(p)
    BY <1>1 DEF Outside, Joins, Connect, Service!Join
  <2> QED
    BY <2>1 DEF Serves, Service!Next
<1>2. CASE Outside(Send(p) /\ UNCHANGED << since, got >>)
  <2>1. Service!Say(p)
    BY <1>2 DEF Outside, Send, Service!Say
  <2> QED
    BY <2>1 DEF Serves, Service!Next
<1>3. CASE \/ Outside(PeerReads(p) /\ UNCHANGED << since, got >>)
           \/ Outside(PeerCloses(p) /\ UNCHANGED << since, got >>)
           \/ Outside(ResetArrives(p) /\ UNCHANGED << since, got >>)
           \/ Outside(GivesUp(p) /\ UNCHANGED << since, got >>)
  BY <1>3
  DEF Outside, PeerReads, PeerCloses, ResetArrives, GivesUp, Closes, Serves
<1> QED
  BY <1>1, <1>2, <1>3

(* No other step is seen by the service. *)
LEMMA MainServes ==
  ASSUME Main \/ StartFails
  PROVE  Serves
<1>1. UNCHANGED << given, since, got >>
  BY DEF Main, Start, StartFails, StartVars, Accept, Malloc, MallocFails,
         CreateThread, CreateFails, AcceptOne, AcceptFails, Hello,
         kernelVars, Accepts, Closes, Writes, ReportsReset
<1> QED
  BY <1>1 DEF Serves

LEMMA WorkerServes ==
  ASSUME IInv, NEW t \in Thread, Worker(t)
  PROVE  Serves
<1>1. CASE SendBack(t)
  BY <1>1, SendBackServes
<1>2. CASE ~ SendBack(t)
  <2>1. UNCHANGED << given, since, got >>
    BY <1>2
    DEF Worker, TakeArguments, Recv, RecvEnds, RecvFails, SendFails, Killed,
        kernelVars, Reads, Closes, ReportsReset
  <2> QED
    BY <2>1 DEF Serves
<1> QED
  BY <1>1, <1>2

LEMMA NextServes ==
  ASSUME IInv, [Next]_vars
  PROVE  Serves
<1>1. CASE UNCHANGED vars
  BY <1>1 DEF vars, kernelVars, Serves
<1> QED
  BY <1>1, MainServes, WorkerServes, EnvironmentServes DEF Next

(* Whichever thread serves a connection, through whatever descriptor, and  *)
(* however recv() splits and merges what is said: it is sent back what was *)
(* said on it, in order, with nothing missing and nothing of another's.    *)
THEOREM ServersImplementTheService == Spec => EchoSpec
<1>1. Init => Service!Init
  BY DEF Init, SocketsInit, Service!Init
<1>2. IInv /\ [Next]_vars => [Service!Next]_<< given, since, got >>
  BY NextServes DEF Serves
<1> QED
  BY <1>1, <1>2, Invariance, PTL DEF Spec, EchoSpec, Service!Spec

=============================================================================
