------------------------------ MODULE ChatRoom ------------------------------
(***************************************************************************)
(* What a chat server with a history promises: there is one order of the   *)
(* messages, and every member is shown them in this order from the first   *)
(* one on, without a gap and each once.                                    *)
(***************************************************************************)
EXTENDS Integers, Sequences

CONSTANTS Member, Message

VARIABLES
  log,  \* the messages posted so far
  got   \* what each member has been shown since it joined

Init == log = << >> /\ got = [m \in Member |-> << >>]

Post ==
  /\ \E message \in Message : log' = Append(log, message)
  /\ UNCHANGED got

Show(m) ==
  /\ Len(got[m]) < Len(log)
  /\ got' = [got EXCEPT ![m] = Append(@, log[Len(@) + 1])]
  /\ UNCHANGED log

Join(m) ==
  /\ got' = [got EXCEPT ![m] = << >>]
  /\ UNCHANGED log

Next == Post \/ \E m \in Member : Show(m) \/ Join(m)

Spec == Init /\ [][Next]_<< log, got >>

=============================================================================
