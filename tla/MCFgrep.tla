------------------------------- MODULE MCFgrep ------------------------------
(***************************************************************************)
(* Small instances of fgrep with each of the ways it has to search a file, *)
(* one of them in each behaviour: by line, which is the one main() calls,  *)
(* or by chunk and in a mapping.  Every file and every pattern up to a     *)
(* length is searched.                                                     *)
(***************************************************************************)
EXTENDS MCLineSearch, ChunkSearch

CONSTANTS
  LongestText,   \* bound: the length of the files searched by chunk
  LongestNeedle  \* bound: and of the patterns they are searched for

VARIABLE search  \* "line", or "chunk", which stands for the mapping, too

MCTexts == Strings(Letter, 0, LongestText)

MCNeedles == Strings(Letter, 1, LongestNeedle)

chunkOnly == << text, phase, buf, cursor, len, fed, found >>

lineOnly == << allVars, at, lineno, off, out >>

(* The variables of the search that is not at work are what they are       *)
(* before it begins.                                                       *)
MCInit ==
  \/ /\ search = "line"
     /\ SearchInit
     /\ text = << >>
     /\ phase = "start"
     /\ buf = << >>
     /\ cursor = 0
     /\ len = 0
     /\ fed = 0
     /\ found = << >>
  \/ /\ search = "chunk"
     /\ ChunkInit
     /\ StreamInit
     /\ at = "start"
     /\ lineno = 0
     /\ off = 0
     /\ out = << >>

MCNext ==
  \/ search = "line" /\ SearchNext /\ UNCHANGED << search, chunkOnly >>
  \/ search = "chunk" /\ ChunkNext /\ UNCHANGED << search, lineOnly >>

mcVars == << search, pattern, chunkOnly, lineOnly >>

(* The fairness of FairSearchSpec and of FairChunkSpec: the program runs. *)
MCSpec == MCInit /\ [][MCNext]_mcVars /\ WF_mcVars(MCNext)

-----------------------------------------------------------------------------
(* The search that is at work comes to an end: the one by line             *)
(* (stream_line_and_search),                                               *)
LineSearchEnds == search = "line" => SearchEnds

(* or one of the others (read_and_search, read_and_search_mmap). *)
ChunkSearchEnds == search = "chunk" => Terminates

=============================================================================
