---------------------------- MODULE MCPollServer ----------------------------
(***************************************************************************)
(* Small instances of the chat server.                                     *)
(***************************************************************************)
EXTENDS PollServer

CONSTANT Reader  \* the peers that read what they are sent

MCMessage ==
  { m \in [from : Peer, first : 1 .. MaxUnits, last : 1 .. MaxUnits] :
      m.first <= m.last /\ m.last < m.first + ReadMax }

MCTooLong == {}

FairSpec == Spec /\ Fairness(Reader)

Symmetry == Permutations(Peer)

=============================================================================
