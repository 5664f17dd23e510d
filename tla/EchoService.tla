---------------------------- MODULE EchoService -----------------------------
(***************************************************************************)
(* What an echo server promises a member: on each of its connections it is *)
(* sent back what it says there, in order, nothing missing from the middle *)
(* and nothing of anybody else's.                                          *)
(***************************************************************************)
EXTENDS Integers, Sequences

CONSTANT Member

VARIABLES
  said,   \* units each member has said, over all its connections
  since,  \* those it had said when its connection was made
  echoed  \* what has been sent back on it

Units(p, first, last) ==
  [k \in 1 .. last - first + 1 |-> [from |-> p, unit |-> first + k - 1]]

Init ==
  /\ said = [p \in Member |-> 0]
  /\ since = [p \in Member |-> 0]
  /\ echoed = [p \in Member |-> << >>]

Join(p) ==
  /\ since' = [since EXCEPT ![p] = said[p]]
  /\ echoed' = [echoed EXCEPT ![p] = << >>]
  /\ UNCHANGED said

Say(p) ==
  /\ said' = [said EXCEPT ![p] = @ + 1]
  /\ UNCHANGED << since, echoed >>

Echo(p) ==
  LET next == since[p] + Len(echoed[p]) + 1 IN
  /\ \E last \in next .. said[p] :
       echoed' = [echoed EXCEPT ![p] = @ \o Units(p, next, last)]
  /\ UNCHANGED << said, since >>

Next == \E p \in Member : Join(p) \/ Say(p) \/ Echo(p)

Spec == Init /\ [][Next]_<< said, since, echoed >>

=============================================================================
