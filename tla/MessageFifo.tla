---------------------------- MODULE MessageFifo -----------------------------
(***************************************************************************)
(* What a queue of messages promises its caller: messages leave in the     *)
(* order they came, each of them once, and until the queue is discarded    *)
(* none disappears.                                                        *)
(***************************************************************************)
EXTENDS Sequences

CONSTANT Message

VARIABLES usable, content

Init == ~ usable /\ content = << >>

Create == ~ usable /\ usable' /\ content' = << >>

Discard == usable /\ ~ usable' /\ content' = << >>

Put(message) ==
  usable /\ content' = Append(content, message) /\ UNCHANGED usable

Take ==
  usable /\ content # << >> /\ content' = Tail(content) /\ UNCHANGED usable

Next == Create \/ Discard \/ Take \/ \E message \in Message : Put(message)

Spec == Init /\ [][Next]_<< usable, content >>

=============================================================================
