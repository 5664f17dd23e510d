------------------------------- MODULE Lines --------------------------------
(***************************************************************************)
(* What a stream of lines promises: call by call it hands out the lines of *)
(* its input in order, without their newlines; at the end of the input     *)
(* what is left is the last line.  A call that fails takes nothing, so     *)
(* that nothing is missing from the lines handed out later.                *)
(***************************************************************************)
EXTENDS Integers, Sequences

CONSTANTS Byte, NL

VARIABLES
  rest,    \* the input not yet handed out
  status,  \* "busy" during a call, otherwise how the last one ended
  line     \* what it handed out

Failure == { "INIT_FAILED", "ALLOC_FAILED", "READ_FAILED", "NULL_ARG" }

Init == rest = << >> /\ status = "none" /\ line = << >>

(* The input grows by any number of bytes. *)
Grow ==
  /\ Len(rest') >= Len(rest)
  /\ SubSeq(rest', 1, Len(rest)) = rest
  /\ \A k \in Len(rest) + 1 .. Len(rest') : rest'[k] \in Byte
  /\ UNCHANGED << status, line >>

Call ==
  status # "busy" /\ status' = "busy" /\ line' = << >> /\ UNCHANGED rest

IsLine(bytes) == \A k \in DOMAIN bytes : bytes[k] # NL

NextLine ==
  /\ status = "busy"
  /\ status' = "OK"
  /\ IsLine(line')
  /\ rest = line' \o << NL >> \o rest'

LastLine ==
  /\ status = "busy"
  /\ status' = "OK"
  /\ rest # << >>
  /\ IsLine(rest)
  /\ line' = rest
  /\ rest' = << >>

AtEnd ==
  /\ status = "busy"
  /\ status' = "EOF"
  /\ rest = << >>
  /\ UNCHANGED << rest, line >>

Fail == status' \in Failure /\ line' = << >> /\ UNCHANGED rest

(* The stream is closed, with what it has read and not handed out; a new   *)
(* one goes on where the input is.                                         *)
Close ==
  /\ status # "busy"
  /\ status' = "none"
  /\ line' = << >>
  /\ Len(rest') <= Len(rest)
  /\ rest' = SubSeq(rest, Len(rest) - Len(rest') + 1, Len(rest))

Next == Grow \/ Call \/ NextLine \/ LastLine \/ AtEnd \/ Fail \/ Close

Spec == Init /\ [][Next]_<< rest, status, line >>

=============================================================================
