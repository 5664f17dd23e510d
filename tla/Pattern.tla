------------------------------- MODULE Pattern ------------------------------
(***************************************************************************)
(* fixed_grep/fgrep.c: what is searched for, an argument of each of the    *)
(* three searches.                                                         *)
(***************************************************************************)
EXTENDS Integers, Sequences

VARIABLE pattern

pattern_len == Len(pattern)

=============================================================================
