------------------------------- MODULE Search -------------------------------
(***************************************************************************)
(* What a fixed-string search promises: it reports, from left to right,    *)
(* the first occurrence of the pattern, then the first one behind it, and  *)
(* so on, and it is complete when there is none any more.  It may be       *)
(* abandoned at any time.                                                  *)
(***************************************************************************)
EXTENDS Matches

VARIABLES
  text, pattern,
  at,       \* the position the search has come to
  reports,  \* the positions reported
  state     \* "searching", "complete" or "abandoned"

vars == << text, pattern, at, reports, state >>

Init ==
  /\ at = 1
  /\ reports = << >>
  /\ state = "searching"

Report(k) ==
  /\ k >= at
  /\ Occurs(pattern, text, k)
  /\ Absent(pattern, text, at, k - 1)
  /\ at' = k + Len(pattern)
  /\ reports' = Append(reports, k)
  /\ UNCHANGED state

Pass ==
  /\ at' > at
  /\ Absent(pattern, text, at, at' - 1)
  /\ UNCHANGED << reports, state >>

Complete ==
  /\ Absent(pattern, text, at, Len(text))
  /\ state' = "complete"
  /\ UNCHANGED << at, reports >>

GiveUp ==
  /\ state' = "abandoned"
  /\ UNCHANGED reports

Next ==
  /\ state = "searching"
  /\ \/ \E k \in 1 .. Len(text) : Report(k)
     \/ Pass
     \/ Complete
     \/ GiveUp
  /\ UNCHANGED << text, pattern >>

Spec == Init /\ [][Next]_vars

=============================================================================
