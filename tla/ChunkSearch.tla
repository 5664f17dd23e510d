---------------------------- MODULE ChunkSearch -----------------------------
(***************************************************************************)
(* fixed_grep/fgrep.c: read_and_search(), which searches a file through a  *)
(* buffer of fixed size, and read_and_search_mmap(), which searches it in  *)
(* a mapping.                                                              *)
(*                                                                         *)
(* Both look at a window of `len` bytes at `cursor`, the one in a buffer   *)
(* that read(2) fills with as many bytes as it likes, the other in the     *)
(* whole file.  The file does not change while it is searched.             *)
(***************************************************************************)
EXTENDS Pattern, Matches

CONSTANTS
  Letter,         \* the values a byte of the file takes
  Zero,           \* what the buffer is cleared with
  bytes_to_read,  \* 4 MiB
  Reserve,        \* 1 KiB, "to avoid resizing"
  Texts,          \* the files that are searched
  Needles         \* the patterns they are searched for

ASSUME SearchAssumption ==
  /\ Zero \in Letter
  /\ bytes_to_read \in Nat \ {0}
  /\ Reserve \in Nat
  /\ Texts \subseteq Seq(Letter)
  /\ Needles \subseteq Seq(Letter) \ { << >> }

VARIABLES
  text,    \* the file
  phase,   \* "read" and "mmap": in the loop of the one or the other function
  buf,     \* the memory, a function over its indices
  cursor,  \* where the window begins, an index into buf
  len,     \* and how long it is
  fed,     \* how many bytes of the file have been put into the memory
  found    \* where in the file the reported matches are

chunkVars == << text, pattern, phase, buf, cursor, len, fed, found >>

buf_len == bytes_to_read + Reserve

(* memmem() finds the pattern k bytes behind the cursor. *)
Matching(k) ==
  /\ k + pattern_len <= len
  /\ \A j \in 1 .. pattern_len : buf[cursor + k + j - 1] = pattern[j]

FirstMatch(k) == Matching(k) /\ \A j \in 0 .. (k - 1) : ~ Matching(j)

NoneMatching == \A k \in 0 .. (len - pattern_len) : ~ Matching(k)

(* The position in the file of the byte k behind the cursor *)
PositionOf(k) == fed - len + k + 1

-----------------------------------------------------------------------------
(* read_and_search() and read_and_search_mmap() refuse a long pattern, *)
ChunkPatternTooLong ==
  /\ phase = "start"
  /\ pattern_len > Reserve - 1
  /\ phase' = "exited"
  /\ UNCHANGED << text, pattern, buf, cursor, len, fed, found >>

(* and stop when fstat() or mmap() fails, *)
MappingFails ==
  /\ phase = "start"
  /\ pattern_len <= Reserve - 1
  /\ phase' = "exited"
  /\ UNCHANGED << text, pattern, buf, cursor, len, fed, found >>

(* or, memset() being given a NULL, when malloc() does. *)
MallocFails ==
  /\ phase = "start"
  /\ pattern_len <= Reserve - 1
  /\ phase' = "crashed"
  /\ UNCHANGED << text, pattern, buf, cursor, len, fed, found >>

Allocate ==
  /\ phase = "start"
  /\ pattern_len <= Reserve - 1
  /\ buf' = [j \in 0 .. (buf_len - 1) |-> Zero]
  /\ phase' = "read"
  /\ UNCHANGED << text, pattern, cursor, len, fed, found >>

Map ==
  /\ phase = "start"
  /\ pattern_len <= Reserve - 1
  /\ buf' = [j \in 0 .. (Len(text) - 1) |-> text[j + 1]]
  /\ len' = Len(text)
  /\ fed' = Len(text)
  /\ phase' = IF text = << >> THEN "done" ELSE "mmap"
  /\ UNCHANGED << text, pattern, cursor, found >>

-----------------------------------------------------------------------------
(* The loops, as long as the window can hold a match *)

Match(k) ==
  /\ phase \in { "read", "mmap" }
  /\ FirstMatch(k)
  /\ cursor' = cursor + k + pattern_len
  /\ len' = len - (k + pattern_len)
  /\ found' = Append(found, PositionOf(k))
  /\ UNCHANGED << text, pattern, phase, buf, fed >>

(* Faulty variants: nothing of the window is kept, *)
NoMatchRead_KeepsNothing ==
  /\ phase = "read"
  /\ len >= pattern_len
  /\ NoneMatching
  /\ cursor' = cursor + len
  /\ len' = 0
  /\ UNCHANGED << text, pattern, phase, buf, fed, found >>

(* or one byte too many, *)
NoMatchRead_KeepsOneMore ==
  /\ phase = "read"
  /\ len >= pattern_len
  /\ NoneMatching
  /\ cursor' = cursor + len - pattern_len
  /\ len' = pattern_len
  /\ UNCHANGED << text, pattern, phase, buf, fed, found >>

(* read_and_search() keeps what may be the beginning of a match, *)
NoMatchRead ==
  /\ phase = "read"
  /\ len >= pattern_len
  /\ NoneMatching
  /\ cursor' = cursor + len - pattern_len + 1
  /\ len' = pattern_len - 1
  /\ UNCHANGED << text, pattern, phase, buf, fed, found >>

(* read_and_search_mmap() is at its end. *)
NoMatchMapped ==
  /\ phase = "mmap"
  /\ len < pattern_len \/ NoneMatching
  /\ phase' = "done"
  /\ UNCHANGED << text, pattern, buf, cursor, len, fed, found >>

-----------------------------------------------------------------------------
(* read_and_search(), when the window is too short *)

(* Faulty variant: what was kept is not moved, but read over. *)
Read_BehindTheWindow(n) ==
  /\ phase = "read"
  /\ len < pattern_len
  /\ n \in 1 .. bytes_to_read
  /\ n <= Len(text) - fed
  /\ buf' = [j \in DOMAIN buf |->
               IF j \in (cursor + len) .. (cursor + len + n - 1)
               THEN text[fed + 1 + (j - (cursor + len))]
               ELSE buf[j]]
  /\ len' = len + n
  /\ fed' = fed + n
  /\ UNCHANGED << text, pattern, phase, cursor, found >>

(* Faulty variant: read() is not told to begin behind what was kept. *)
Read_OverTheWindow(n) ==
  /\ phase = "read"
  /\ len < pattern_len
  /\ n \in 1 .. bytes_to_read
  /\ n <= Len(text) - fed
  /\ buf' = [j \in DOMAIN buf |->
               IF j < n THEN text[fed + 1 + j]
               ELSE IF j < len THEN buf[cursor + j]
               ELSE buf[j]]
  /\ cursor' = 0
  /\ len' = len + n
  /\ fed' = fed + n
  /\ UNCHANGED << text, pattern, phase, found >>

(* memmove() and read() of n bytes *)
Read(n) ==
  /\ phase = "read"
  /\ len < pattern_len
  /\ n \in 1 .. bytes_to_read
  /\ n <= Len(text) - fed
  /\ buf' = [j \in DOMAIN buf |->
               IF j < len THEN buf[cursor + j]
               ELSE IF j < len + n THEN text[fed + 1 + (j - len)]
               ELSE buf[j]]
  /\ cursor' = 0
  /\ len' = len + n
  /\ fed' = fed + n
  /\ UNCHANGED << text, pattern, phase, found >>

FileEnds ==
  /\ phase = "read"
  /\ len < pattern_len
  /\ fed = Len(text)
  /\ phase' = "done"
  /\ UNCHANGED << text, pattern, buf, cursor, len, fed, found >>

FileFails ==
  /\ phase = "read"
  /\ len < pattern_len
  /\ phase' = "exited"
  /\ UNCHANGED << text, pattern, buf, cursor, len, fed, found >>

-----------------------------------------------------------------------------
ChunkInit ==
  /\ text \in Texts
  /\ pattern \in Needles
  /\ phase = "start"
  /\ buf = [j \in {} |-> Zero]
  /\ cursor = 0
  /\ len = 0
  /\ fed = 0
  /\ found = << >>

ChunkNext ==
  \/ ChunkPatternTooLong
  \/ MappingFails
  \/ MallocFails
  \/ Allocate
  \/ Map
  \/ \E k \in 0 .. Len(text) : Match(k)
  \/ NoMatchRead
  \/ NoMatchMapped
  \/ \E n \in 1 .. Len(text) : Read(n)
  \/ FileEnds
  \/ FileFails

ChunkSpec == ChunkInit /\ [][ChunkNext]_chunkVars

FairChunkSpec == ChunkSpec /\ WF_chunkVars(ChunkNext)

-----------------------------------------------------------------------------
(* The types of the variables. *)
ChunkTypeOK ==
  /\ text \in Seq(Letter)
  /\ pattern \in Seq(Letter) \ { << >> }
  /\ phase \in { "start", "read", "mmap", "done", "exited", "crashed" }
  /\ cursor \in Nat
  /\ len \in Nat
  /\ fed \in 0 .. Len(text)
  /\ len <= fed
  /\ found \in Seq(Nat)

(* The window never leaves the memory, and when read() is called there is  *)
(* room behind what was kept for all it may return: the reserve of 1 KiB   *)
(* is enough for any pattern that is not refused.                          *)
BufferSuffices ==
  /\ \A j \in cursor .. (cursor + len - 1) : j \in DOMAIN buf
  /\ phase = "read" /\ len < pattern_len => len + bytes_to_read <= buf_len

(* The window shows the file, the next bytes of it without a gap, whatever *)
(* has been moved and read over: a position reported is one in the file.   *)
WindowIsTheFile ==
  phase \in { "read", "mmap" } =>
    \A j \in 0 .. (len - 1) : buf[cursor + j] = text[(fed - len) + j + 1]

(* The searches report the leftmost matches that do not overlap, none      *)
(* missing and none twice, wherever read() cuts the file: a match may lie  *)
(* across any number of reads, and a match may begin in what was kept of a *)
(* window.                                                                 *)
ChunkReference ==
  INSTANCE Search WITH
    text <- text,
    at <- PositionOf(0),
    reports <- found,
    state <- IF phase = "done" THEN "complete"
             ELSE IF phase \in { "exited", "crashed" } THEN "abandoned"
             ELSE "searching"

ImplementsSearch == ChunkReference!Spec

(* A search comes to an end. *)
Terminates == <>(phase \in { "done", "exited", "crashed" })

=============================================================================
