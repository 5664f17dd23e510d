-------------------------------- MODULE Fds ---------------------------------
(***************************************************************************)
(* tcp/polling/fds_state.c: the array of struct pollfd given to ppoll().   *)
(* A removed entry is replaced by the last one.                            *)
(***************************************************************************)
EXTENDS Integers, Sequences, SequencesExt

CONSTANT FdsCapacity  \* DEFAULT_FDS_CAPACITY

ASSUME FdsAssumption == FdsCapacity \in Nat

VARIABLE fds  \* the entries in use, [fd, revents]

fds_state__init == fds' = << >>

fds_state__destroy == fds' = << >>

(* The events asked for: POLLIN | POLLRDHUP. *)
WatchedEvents == { "IN", "HUP" }

(* ~fd in two's complement *)
Complement(fd) == (0 - fd) - 1

Entry(fd) == SelectInSeq(fds, LAMBDA e : e.fd = fd)

(* The value fd_state__watch() returns. *)
WatchReturns == IF Len(fds) >= FdsCapacity THEN -1 ELSE 0

fd_state__watch(fd) ==
  fds' = IF \/ Len(fds) >= FdsCapacity
            \/ \E k \in DOMAIN fds : fds[k].fd \in { fd, Complement(fd) }
         THEN fds
         ELSE Append(fds, [fd |-> fd, revents |-> {}])

(* Faulty variant: the length is not decremented. *)
fd_state__unwatch_KeepsLength(fd) ==
  fds' = IF Entry(fd) = 0 THEN fds ELSE [fds EXCEPT ![Entry(fd)] = Last(fds)]

fd_state__unwatch(fd) ==
  fds' = IF Entry(fd) = 0
         THEN fds
         ELSE Front([fds EXCEPT ![Entry(fd)] = Last(fds)])

FdsTypeOK == fds \in Seq([fd : Int, revents : SUBSET WatchedEvents])

=============================================================================
