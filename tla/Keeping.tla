------------------------------ MODULE Keeping -------------------------------
(***************************************************************************)
(* The elements of a sequence that are in a set, in their order: what is   *)
(* left of a list after a traversal that removes the others.               *)
(***************************************************************************)
EXTENDS Integers, Sequences

Keep(s, T) ==
  LET kept[n \in 0 .. Len(s)] ==  \* among the first n
        IF n = 0 THEN << >>
        ELSE IF s[n] \in T THEN Append(kept[n - 1], s[n]) ELSE kept[n - 1]
  IN  kept[Len(s)]

=============================================================================
