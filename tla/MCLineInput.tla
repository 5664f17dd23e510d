---------------------------- MODULE MCLineInput -----------------------------
(***************************************************************************)
(* Small instances of the two modules of commons that read lines.  In each *)
(* behaviour one client is at work:                                        *)
(*   - anybody, who calls the functions of a read buffer in any order.     *)
(*     SIZE_MAX = 7 leaves 4 as the largest capacity a growth can reach,   *)
(*     so that growth, compaction and both overflow exits all happen;      *)
(*   - a line stream with a read buffer of its own, which goes through the *)
(*     sizes of lines of up to five bytes, read one to four at a time.     *)
(***************************************************************************)
EXTENDS LineStream

CONSTANT MaxWrite  \* bound: how many bytes anybody stores in one call

VARIABLE client

MCSizes == 0 .. SIZE_MAX

MCWrites == UNION { [1 .. n -> Byte \ {NL}] : n \in 0 .. MaxWrite }

(* Beside anybody's buffer there is a stream that has read a file of one   *)
(* long line, has been closed, and is not used any more.                   *)
LongLine == [k \in 1 .. MaxFile |-> CHOOSE byte \in Byte : byte # NL]

MCInit ==
  \/ client = "linestream" /\ StreamInit
  \/ /\ client = "anybody"
     /\ Init
     /\ file = LongLine
     /\ pos = MaxFile
     /\ pc = "idle"
     /\ scanned = 0
     /\ status = "none"
     /\ string = NoString

MCNext ==
  \/ client = "linestream" /\ StreamNext /\ UNCHANGED client
  \/ client = "anybody" /\ Next /\ UNCHANGED << client, file, streamVars >>

(* The fairness of FairStreamSpec: linestream__next(), once called, runs. *)
MCSpec ==
  /\ MCInit
  /\ [][MCNext]_<< client, allVars >>
  /\ WF_<< client, allVars >>(InCall /\ UNCHANGED client)

=============================================================================
