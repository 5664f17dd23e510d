------------------------------ MODULE ByteFifo ------------------------------
(***************************************************************************)
(* What a buffer of bytes promises: the unread bytes form a queue.  Bytes  *)
(* are added behind the last one and leave from the front; no byte is      *)
(* lost, duplicated, changed or reordered in between.                      *)
(***************************************************************************)
EXTENDS Integers, Sequences

CONSTANT Byte

VARIABLE unread

Init == unread = << >>

(* The old content is what the new content begins with. *)
Put ==
  /\ unread' \in Seq(Byte)
  /\ Len(unread) <= Len(unread')
  /\ \A i \in 1 .. Len(unread) : unread'[i] = unread[i]

(* The new content is what remains of the old one behind its first bytes. *)
Take ==
  /\ unread' \in Seq(Byte)
  /\ Len(unread') <= Len(unread)
  /\ \A i \in 1 .. Len(unread') :
        unread'[i] = unread[Len(unread) - Len(unread') + i]

Next == Put \/ Take

Spec == Init /\ [][Next]_unread

=============================================================================
