------------------------------ MODULE Matches -------------------------------
(***************************************************************************)
(* Occurrences of a pattern in a text; positions count from one.           *)
(***************************************************************************)
EXTENDS Integers, Sequences

(* pattern is found in text at position k. *)
Occurs(pattern, text, k) ==
  /\ k + Len(pattern) - 1 <= Len(text)
  /\ \A j \in 1 .. Len(pattern) : text[k + j - 1] = pattern[j]

(* pattern is not found in text at any of the positions low .. high. *)
Absent(pattern, text, low, high) ==
  \A k \in low .. high : ~ Occurs(pattern, text, k)

=============================================================================
