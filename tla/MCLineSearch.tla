---------------------------- MODULE MCLineSearch ----------------------------
(***************************************************************************)
(* Small instances of the search by line: every file up to a length, and   *)
(* every pattern up to one, through a buffer that starts with three bytes. *)
(***************************************************************************)
EXTENDS LineSearch

CONSTANT LongestPattern  \* bound: the length of the patterns

Strings(Letter, low, high) == UNION { [1 .. n -> Letter] : n \in low .. high }

MCFiles == Strings(Byte, 0, MaxFile)

MCPatterns == Strings(Byte \ {NL}, 1, LongestPattern)

=============================================================================
