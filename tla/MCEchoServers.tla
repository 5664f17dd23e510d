--------------------------- MODULE MCEchoServers ----------------------------
(***************************************************************************)
(* A small instance of the echo servers.                                   *)
(***************************************************************************)
EXTENDS EchoServers

CONSTANT Reader  \* the peers that read what they are sent

FairSpec == Spec /\ Fairness(Reader)

(* Readers get their echo, and everybody's connection is closed in the end. *)
ReadersServed == Served(Reader)

=============================================================================
