------------------------------ MODULE Sockets -------------------------------
(***************************************************************************)
(* The kernel's side of a server under tcp/: a listening socket, the       *)
(* stream connections accepted from it, and the peers at their other ends. *)
(* Nothing of this is in the repository; it is what the three servers rely *)
(* on.  Peers and the network move between any two steps of a server.      *)
(*                                                                         *)
(* A peer's bytes come in units, numbered per peer over all of its         *)
(* connections; one read() or recv() returns some consecutive ones.        *)
(***************************************************************************)
EXTENDS Integers, Sequences

CONSTANTS
  Peer,
  MaxFd,        \* the highest descriptor the process may open
  SockBuf,      \* messages a socket takes from the server before its peer
                \* reads one: with so many unread, write() blocks
  MaxConnects,  \* bound: connections made
  MaxUnits      \* bound: units sent by all peers together

ASSUME SocketsAssumption ==
  /\ MaxFd \in Nat
  /\ SockBuf \in Nat \ {0}
  /\ MaxConnects \in Nat
  /\ MaxUnits \in Nat

VARIABLES
  sock,     \* the descriptor of each peer's connection, 0 for none
  link,     \* the state of each peer's connection
  backlog,  \* the peers whose connections wait for accept(), in order
  given,    \* the units each peer has sent, over all its connections
  taken,    \* those among them the server has read
  rx,       \* messages in each peer's socket it has not read yet
  connects, \* counts the connections, for the bound
  sends     \* counts the units sent by all peers, for the bound

kernelVars ==
  << sock, link, backlog, given, taken, rx, connects, sends >>

ServerFd == 3

(* The states of a connection:                                             *)
(*   up       both ends are open                                           *)
(*   fin      the peer has closed, having read everything                  *)
(*   rstsent  ... and has been written to since: a reset is on its way     *)
(*   broken   ... and the reset has arrived, or its error has been         *)
(*            reported: the next write raises SIGPIPE                      *)
(*   reset    the peer has closed with messages unread, which resets the   *)
(*            connection: the next write returns ECONNRESET, and so does   *)
(*            the next read once it has returned what had arrived          *)
LinkState == { "none", "up", "fin", "rstsent", "broken", "reset" }

Closed(p) == link[p] \in LinkState \ { "none", "up" }

Unread(p) == given[p] - taken[p]

PeerOf(fd) == CHOOSE p \in Peer : sock[p] = fd

Descriptor == ServerFd + 1 .. MaxFd

Open == { sock[p] : p \in Peer } \ {0}

SocketsInit ==
  /\ sock = [p \in Peer |-> 0]
  /\ link = [p \in Peer |-> "none"]
  /\ backlog = << >>
  /\ given = [p \in Peer |-> 0]
  /\ taken = [p \in Peer |-> 0]
  /\ rx = [p \in Peer |-> 0]
  /\ connects = 0
  /\ sends = 0

SocketsTypeOK ==
  /\ sock \in [Peer -> { 0 } \cup Descriptor]
  /\ link \in [Peer -> LinkState]
  /\ backlog \in Seq(Peer)
  /\ given \in [Peer -> Nat]
  /\ taken \in [Peer -> Nat]
  /\ rx \in [Peer -> 0 .. SockBuf]
  /\ connects \in 0 .. MaxConnects
  /\ sends \in 0 .. MaxUnits

-----------------------------------------------------------------------------
(* The peers and the network *)

Connect(p) ==
  /\ link[p] = "none"
  /\ connects < MaxConnects
  /\ link' = [link EXCEPT ![p] = "up"]
  /\ backlog' = Append(backlog, p)
  /\ connects' = connects + 1
  /\ taken' = [taken EXCEPT ![p] = given[p]]
  /\ UNCHANGED << sock, given, rx, sends >>

Send(p) ==
  /\ link[p] = "up"
  /\ sends < MaxUnits
  /\ given' = [given EXCEPT ![p] = @ + 1]
  /\ sends' = sends + 1
  /\ UNCHANGED << sock, link, backlog, taken, rx, connects >>

PeerReads(p) ==
  /\ rx[p] > 0
  /\ rx' = [rx EXCEPT ![p] = @ - 1]
  /\ UNCHANGED << sock, link, backlog, given, taken, connects, sends >>

PeerCloses(p) ==
  /\ link[p] = "up"
  /\ link' = [link EXCEPT ![p] = IF rx[p] = 0 THEN "fin" ELSE "reset"]
  /\ rx' = [rx EXCEPT ![p] = 0]
  /\ UNCHANGED << sock, backlog, given, taken, connects, sends >>

ResetArrives(p) ==
  /\ link[p] = "rstsent"
  /\ link' = [link EXCEPT ![p] = "broken"]
  /\ UNCHANGED << sock, backlog, given, taken, rx, connects, sends >>

-----------------------------------------------------------------------------
(* What the calls of the server do *)

(* accept() returns fd. *)
Accepts(fd) ==
  /\ backlog # << >>
  /\ sock' = [sock EXCEPT ![Head(backlog)] = fd]
  /\ backlog' = Tail(backlog)
  /\ UNCHANGED << link, given, taken, rx, connects, sends >>

(* read() or recv() returns n units. *)
Reads(p, n) ==
  /\ n <= Unread(p)
  /\ taken' = [taken EXCEPT ![p] = @ + n]
  /\ UNCHANGED << sock, link, backlog, given, rx, connects, sends >>

(* write() or send() takes a message: on a live connection once there is   *)
(* room, on a closed one to no avail.                                      *)
Writes(p) ==
  /\ \/ /\ link[p] = "up"
        /\ rx[p] < SockBuf
        /\ rx' = [rx EXCEPT ![p] = @ + 1]
        /\ UNCHANGED link
     \/ /\ link[p] \in { "fin", "rstsent" }
        /\ link' = [link EXCEPT ![p] = "rstsent"]
        /\ UNCHANGED rx
  /\ UNCHANGED << sock, backlog, given, taken, connects, sends >>

(* read() or write() returns -1 with ECONNRESET, once. *)
ReportsReset(p) ==
  /\ link[p] = "reset"
  /\ link' = [link EXCEPT ![p] = "broken"]
  /\ UNCHANGED << sock, backlog, given, taken, rx, connects, sends >>

(* close() *)
Closes(p) ==
  /\ sock' = [sock EXCEPT ![p] = 0]
  /\ link' = [link EXCEPT ![p] = "none"]
  /\ rx' = [rx EXCEPT ![p] = 0]
  /\ UNCHANGED << backlog, given, taken, connects, sends >>

=============================================================================
