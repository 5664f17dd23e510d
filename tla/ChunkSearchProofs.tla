------------------------- MODULE ChunkSearchProofs --------------------------
(***************************************************************************)
(* What the two searches of ChunkSearch do for every file, every pattern   *)
(* that is not empty, and every size of the buffer.                        *)
(***************************************************************************)
EXTENDS ChunkSearch, TLAPS

(* The buffer that has been allocated, and the pattern that was let in *)
Allocated ==
  phase = "read" =>
    DOMAIN buf = 0 .. (buf_len - 1) /\ pattern_len <= Reserve - 1

(* A mapping holds the whole file from the start. *)
Mapped == phase = "mmap" => fed = Len(text)

(* Nothing has been read before the loop. *)
Fresh == phase = "start" => cursor = 0 /\ len = 0 /\ fed = 0

(* The inductive invariant.  WindowIsTheFile is what a step needs to know  *)
(* to take a match in the window for one in the file; it needs Allocated,  *)
(* for what read() stores to lie in the buffer, and the types, for the     *)
(* window to lie in what has been read.                                    *)
IInv ==
  /\ ChunkTypeOK
  /\ BufferSuffices
  /\ WindowIsTheFile
  /\ Allocated
  /\ Mapped
  /\ Fresh

-----------------------------------------------------------------------------
LEMMA InitInv == ChunkInit => IInv
<1> SUFFICES ASSUME ChunkInit PROVE IInv
  OBVIOUS
<1>1. ChunkTypeOK
  BY SearchAssumption DEF ChunkInit, ChunkTypeOK
<1>2. BufferSuffices
  BY DEF ChunkInit, BufferSuffices
<1>3. WindowIsTheFile /\ Allocated /\ Mapped /\ Fresh
  BY DEF ChunkInit, WindowIsTheFile, Allocated, Mapped, Fresh
<1> QED
  BY <1>1, <1>2, <1>3 DEF IInv

(* The numbers the steps compute with *)
LEMMA Numbers ==
  ASSUME IInv
  PROVE  /\ pattern_len \in Nat \ {0}
         /\ cursor \in Nat /\ len \in Nat /\ fed \in Nat /\ Len(text) \in Nat
         /\ len <= fed /\ fed <= Len(text)
         /\ bytes_to_read \in Nat \ {0} /\ Reserve \in Nat
<1>1. pattern \in Seq(Letter) /\ pattern # << >>
  BY DEF IInv, ChunkTypeOK
<1>2. Len(pattern) \in Nat \ {0}
  BY <1>1
<1> QED
  BY <1>2, SearchAssumption DEF IInv, ChunkTypeOK, pattern_len

LEMMA MatchInv ==
  ASSUME IInv, NEW k \in 0 .. Len(text), Match(k)
  PROVE  IInv'
<1> DEFINE d == k + pattern_len
<1>0. /\ k \in Nat /\ len \in Nat /\ cursor \in Nat /\ pattern_len \in Nat
      /\ fed \in Nat /\ len <= fed
  BY Numbers
<1>1. /\ d \in Nat /\ d <= len
      /\ cursor' = cursor + d
      /\ len' = len - d
  BY <1>0 DEF Match, FirstMatch, Matching
<1> HIDE DEF d
<1>2. len' \in Nat /\ cursor' \in Nat /\ len' <= len
  BY <1>0, <1>1
<1>3. ChunkTypeOK'
  <2>1. PositionOf(k) \in Nat
    BY <1>0 DEF PositionOf
  <2>2. found' \in Seq(Nat)
    BY <2>1 DEF Match, IInv, ChunkTypeOK
  <2> QED
    BY <1>2, <2>2 DEF Match, IInv, ChunkTypeOK
<1>4. BufferSuffices'
  <2>1. \A j \in cursor' .. (cursor' + len' - 1) : j \in DOMAIN buf
    <3>1. \A j \in cursor' .. (cursor' + len' - 1) :
             j \in cursor .. (cursor + len - 1)
      BY <1>0, <1>1
    <3> QED
      BY <3>1 DEF IInv, BufferSuffices
  <2>2. phase = "read" /\ len' < pattern_len => len' + bytes_to_read <= buf_len
    <3>1. phase = "read" => pattern_len <= Reserve - 1
      BY DEF IInv, Allocated
    <3>2. bytes_to_read \in Nat /\ Reserve \in Nat
      BY SearchAssumption
    <3>3. \A m \in Nat : m < pattern_len /\ pattern_len <= Reserve - 1
                          => m + bytes_to_read <= bytes_to_read + Reserve
      BY <1>0, <3>2
    <3> QED
      BY <1>2, <3>1, <3>3 DEF buf_len
  <2> QED
    BY <2>1, <2>2 DEF Match, BufferSuffices, pattern_len, buf_len
<1>5. WindowIsTheFile'
  <2> SUFFICES ASSUME NEW j \in 0 .. (len' - 1)
               PROVE  buf[cursor' + j] = text[(fed - len') + j + 1]
    BY DEF Match, WindowIsTheFile
  <2>1. j \in Nat /\ d + j \in 0 .. (len - 1)
    BY <1>0, <1>1
  <2>2. buf[cursor + (d + j)] = text[(fed - len) + (d + j) + 1]
    BY <2>1 DEF Match, IInv, WindowIsTheFile
  <2>3. /\ cursor' + j = cursor + (d + j)
        /\ (fed - len') + j + 1 = (fed - len) + (d + j) + 1
    BY <1>0, <1>1, <2>1
  <2> QED
    BY <2>2, <2>3
<1>6. Allocated' /\ Mapped' /\ Fresh'
  BY DEF Match, IInv, Allocated, Mapped, Fresh, pattern_len, buf_len
<1> QED
  BY <1>3, <1>4, <1>5, <1>6 DEF IInv

LEMMA NoMatchInv ==
  ASSUME IInv, NoMatchRead
  PROVE  IInv'
<1>1. /\ pattern_len <= len
      /\ cursor' = cursor + len - pattern_len + 1
      /\ len' = pattern_len - 1
      /\ len' \in Nat /\ cursor' \in Nat /\ len' < len
  BY Numbers DEF NoMatchRead
<1>2. /\ cursor' = cursor + (len - len')
      /\ len \in Nat /\ cursor \in Nat /\ fed \in Nat
  BY <1>1, Numbers
<1>3. ChunkTypeOK'
  BY <1>1, Numbers DEF NoMatchRead, IInv, ChunkTypeOK
<1>4. BufferSuffices'
  <2>1. \A j \in cursor' .. (cursor' + len' - 1) : j \in DOMAIN buf
    <3>1. \A j \in cursor' .. (cursor' + len' - 1) :
             j \in cursor .. (cursor + len - 1)
      BY <1>1, <1>2
    <3> QED
      BY <3>1 DEF IInv, BufferSuffices
  <2>2. phase = "read" /\ len' < pattern_len => len' + bytes_to_read <= buf_len
    BY <1>1, Numbers DEF IInv, Allocated, buf_len
  <2> QED
    BY <2>1, <2>2 DEF NoMatchRead, BufferSuffices, pattern_len, buf_len
<1>5. WindowIsTheFile'
  <2> SUFFICES ASSUME NEW j \in 0 .. (len' - 1)
               PROVE  buf[cursor' + j] = text[(fed - len') + j + 1]
    BY DEF NoMatchRead, WindowIsTheFile
  <2>1. (len - len') + j \in 0 .. (len - 1)
    BY <1>1, <1>2
  <2>2. buf[cursor + ((len - len') + j)]
          = text[(fed - len) + ((len - len') + j) + 1]
    BY <2>1 DEF NoMatchRead, IInv, WindowIsTheFile
  <2>3. /\ cursor' + j = cursor + ((len - len') + j)
        /\ (fed - len') + j + 1 = (fed - len) + ((len - len') + j) + 1
    BY <1>1, <1>2
  <2> QED
    BY <2>2, <2>3
<1>6. Allocated' /\ Mapped' /\ Fresh'
  BY DEF NoMatchRead, IInv, Allocated, Mapped, Fresh, pattern_len, buf_len
<1> QED
  BY <1>3, <1>4, <1>5, <1>6 DEF IInv

LEMMA ReadInv ==
  ASSUME IInv, NEW n \in 1 .. Len(text), Read(n)
  PROVE  IInv'
<1>0. /\ n \in Nat /\ len \in Nat /\ fed \in Nat /\ pattern_len \in Nat
      /\ Len(text) \in Nat /\ bytes_to_read \in Nat /\ len <= fed
  BY Numbers
<1>1. /\ 1 <= n /\ n <= bytes_to_read /\ fed + n <= Len(text)
      /\ cursor' = 0 /\ len' = len + n /\ fed' = fed + n
      /\ len < pattern_len
  BY <1>0 DEF Read
<1>2. ChunkTypeOK'
  BY <1>0, <1>1 DEF Read, IInv, ChunkTypeOK
<1>3. DOMAIN buf' = DOMAIN buf /\ DOMAIN buf = 0 .. (buf_len - 1)
  BY DEF Read, IInv, Allocated
<1>4. len + bytes_to_read <= buf_len /\ buf_len \in Nat
  BY <1>0, <1>1, SearchAssumption DEF Read, IInv, BufferSuffices, buf_len
<1>5. BufferSuffices'
  <2>1. \A j \in cursor' .. (cursor' + len' - 1) : j \in DOMAIN buf'
    BY <1>0, <1>1, <1>3, <1>4
  <2>2. len' < pattern_len => len' + bytes_to_read <= buf_len
    BY <1>0, <1>1, SearchAssumption DEF Read, IInv, Allocated, buf_len
  <2> QED
    BY <2>1, <2>2 DEF Read, BufferSuffices, pattern_len, buf_len
<1>6. WindowIsTheFile'
  <2> SUFFICES ASSUME NEW j \in 0 .. (len' - 1)
               PROVE  buf'[cursor' + j] = text[(fed' - len') + j + 1]
    BY DEF Read, WindowIsTheFile
  <2>1. j \in Nat /\ j \in DOMAIN buf /\ cursor' + j = j
        /\ fed' - len' = fed - len
    BY <1>0, <1>1, <1>3, <1>4
  <2>2. buf'[j] = IF j < len THEN buf[cursor + j]
                  ELSE IF j < len + n THEN text[fed + 1 + (j - len)]
                  ELSE buf[j]
    BY <2>1 DEF Read
  <2>3. CASE j < len
    <3>1. buf[cursor + j] = text[(fed - len) + j + 1]
      BY <1>0, <2>1, <2>3 DEF Read, IInv, WindowIsTheFile
    <3> QED
      BY <2>1, <2>2, <2>3, <3>1
  <2>4. CASE ~ (j < len)
    <3>1. j < len + n /\ fed + 1 + (j - len) = (fed - len) + j + 1
      BY <1>0, <1>1, <2>1
    <3> QED
      BY <2>1, <2>2, <2>4, <3>1
  <2> QED
    BY <2>3, <2>4
<1>7. Allocated' /\ Mapped' /\ Fresh'
  BY <1>3 DEF Read, IInv, Allocated, Mapped, Fresh, pattern_len, buf_len
<1> QED
  BY <1>2, <1>5, <1>6, <1>7 DEF IInv

(* The steps in front of a loop *)
LEMMA StartInv ==
  ASSUME IInv, Allocate \/ Map
  PROVE  IInv'
<1>1. CASE Allocate
  <2>1. len = 0 /\ cursor = 0
    BY <1>1 DEF Allocate, IInv, Fresh
  <2>2. ChunkTypeOK'
    BY <1>1 DEF Allocate, IInv, ChunkTypeOK
  <2>3. DOMAIN buf' = 0 .. (buf_len - 1) /\ pattern_len <= Reserve - 1
    BY <1>1 DEF Allocate
  <2>4. BufferSuffices'
    BY <1>1, <2>1, <2>3, Numbers
       DEF Allocate, BufferSuffices, pattern_len, buf_len
  <2>5. WindowIsTheFile'
    BY <1>1, <2>1 DEF Allocate, WindowIsTheFile
  <2>6. Allocated' /\ Mapped' /\ Fresh'
    BY <1>1, <2>3 DEF Allocate, Allocated, Mapped, Fresh, pattern_len, buf_len
  <2> QED
    BY <2>2, <2>4, <2>5, <2>6 DEF IInv
<1>2. CASE Map
  <2>1. cursor = 0 /\ cursor' = 0 /\ len' = Len(text) /\ fed' = Len(text)
        /\ buf' = [j \in 0 .. (Len(text) - 1) |-> text[j + 1]]
        /\ phase' \in { "done", "mmap" } /\ text' = text
    BY <1>2 DEF Map, IInv, Fresh
  <2>2. ChunkTypeOK'
    BY <1>2, <2>1, Numbers DEF Map, IInv, ChunkTypeOK
  <2>3. BufferSuffices'
    BY <2>1, Numbers DEF BufferSuffices
  <2>4. WindowIsTheFile'
    <3> SUFFICES ASSUME NEW j \in 0 .. (Len(text) - 1)
                 PROVE  buf'[0 + j] = text[(Len(text) - Len(text)) + j + 1]
      BY <2>1 DEF WindowIsTheFile
    <3>1. buf'[j] = text[j + 1]
      BY <2>1
    <3> QED
      BY <3>1, Numbers
  <2>5. Allocated' /\ Mapped' /\ Fresh'
    BY <2>1 DEF Allocated, Mapped, Fresh
  <2> QED
    BY <2>2, <2>3, <2>4, <2>5 DEF IInv
<1> QED
  BY <1>1, <1>2

(* The steps that leave a function *)
Leaves ==
  \/ ChunkPatternTooLong \/ MappingFails \/ MallocFails
  \/ NoMatchMapped \/ FileEnds \/ FileFails

LEMMA LeavesInv ==
  ASSUME IInv, Leaves
  PROVE  IInv'
<1>1. /\ phase' \in { "done", "exited", "crashed" }
      /\ UNCHANGED << text, pattern, buf, cursor, len, fed, found >>
  BY DEF Leaves, ChunkPatternTooLong, MappingFails, MallocFails, NoMatchMapped,
         FileEnds, FileFails
<1>2. ChunkTypeOK' /\ BufferSuffices'
  BY <1>1 DEF IInv, ChunkTypeOK, BufferSuffices
<1>3. WindowIsTheFile' /\ Allocated' /\ Mapped' /\ Fresh'
  BY <1>1 DEF WindowIsTheFile, Allocated, Mapped, Fresh
<1> QED
  BY <1>2, <1>3 DEF IInv

LEMMA NextInv == IInv /\ [ChunkNext]_chunkVars => IInv'
<1> SUFFICES ASSUME IInv, [ChunkNext]_chunkVars PROVE IInv'
  OBVIOUS
<1>1. CASE Leaves
  BY <1>1, LeavesInv
<1>2. CASE Allocate \/ Map
  BY <1>2, StartInv
<1>3. ASSUME NEW k \in 0 .. Len(text), Match(k) PROVE IInv'
  BY <1>3, MatchInv
<1>4. CASE NoMatchRead
  BY <1>4, NoMatchInv
<1>5. ASSUME NEW n \in 1 .. Len(text), Read(n) PROVE IInv'
  BY <1>5, ReadInv
<1>6. CASE UNCHANGED chunkVars
  BY <1>6 DEF chunkVars, IInv, ChunkTypeOK, BufferSuffices, WindowIsTheFile,
              Allocated,
              Mapped, Fresh, pattern_len, buf_len
<1> QED
  BY <1>1, <1>2, <1>3, <1>4, <1>5, <1>6 DEF ChunkNext, Leaves

LEMMA Invariance == ChunkSpec => []IInv
BY InitInv, NextInv, PTL DEF ChunkSpec

-----------------------------------------------------------------------------
(* The variables of the two searches keep their types, and the window lies *)
(* in what has been read of the file.                                      *)
THEOREM TypeCorrect == ChunkSpec => []ChunkTypeOK
<1>1. IInv => ChunkTypeOK
  BY DEF IInv
<1> QED
  BY Invariance, <1>1, PTL

(* fgrep.c:131, "1KiB reserve to avoid resizing if required for pattern    *)
(* backlog": with a reserve that is longer than the longest pattern let    *)
(* in, read() never stores behind the end of the buffer.                   *)
THEOREM ReserveIsEnough == ChunkSpec => []BufferSuffices
<1>1. IInv => BufferSuffices
  BY DEF IInv
<1> QED
  BY Invariance, <1>1, PTL

(* The window of read_and_search() is a part of the file, without a gap,   *)
(* whatever memmove() has moved and read() has stored behind it.           *)
THEOREM WindowShowsTheFile == ChunkSpec => []WindowIsTheFile
<1>1. IInv => WindowIsTheFile
  BY DEF IInv
<1> QED
  BY Invariance, <1>1, PTL

-----------------------------------------------------------------------------
(* memmem() in the window and an occurrence in the file are the same, *)
LEMMA InTheWindow ==
  ASSUME IInv, phase \in { "read", "mmap" },
         NEW k \in Nat, k + pattern_len <= len
  PROVE  Matching(k) <=> Occurs(pattern, text, PositionOf(k))
<1>1. PositionOf(k) + Len(pattern) - 1 <= Len(text)
  BY Numbers DEF PositionOf, pattern_len
<1>2. ASSUME NEW j \in 1 .. pattern_len
      PROVE  buf[cursor + k + j - 1] = text[PositionOf(k) + j - 1]
  <2>1. k + j - 1 \in 0 .. (len - 1)
    BY Numbers
  <2>2. buf[cursor + (k + j - 1)] = text[(fed - len) + (k + j - 1) + 1]
    BY <2>1 DEF IInv, WindowIsTheFile
  <2>3. /\ cursor + (k + j - 1) = cursor + k + j - 1
        /\ (fed - len) + (k + j - 1) + 1 = PositionOf(k) + j - 1
    BY Numbers DEF PositionOf
  <2> QED
    BY <2>2, <2>3
<1> QED
  BY <1>1, <1>2 DEF Matching, Occurs, pattern_len

(* so a part of the window without a match is a part of the file without.  *)
LEMMA NoneInTheWindow ==
  ASSUME IInv, phase \in { "read", "mmap" },
         NEW n \in Nat, n + pattern_len <= len + 1,
         \A k \in 0 .. (n - 1) : ~ Matching(k)
  PROVE  Absent(pattern, text, PositionOf(0), PositionOf(n) - 1)
<1> SUFFICES ASSUME NEW q \in PositionOf(0) .. (PositionOf(n) - 1)
             PROVE  ~ Occurs(pattern, text, q)
  BY DEF Absent
<1> DEFINE k == q - PositionOf(0)
<1>1. k \in 0 .. (n - 1) /\ q = PositionOf(k)
  BY Numbers DEF PositionOf
<1>2. k \in Nat /\ k + pattern_len <= len
  BY <1>1, Numbers
<1> HIDE DEF k
<1> QED
  BY <1>1, <1>2, InTheWindow

(* At the end of the file there is none behind the window either. *)
LEMMA NoneAtTheEnd ==
  ASSUME IInv, phase \in { "read", "mmap" }, fed = Len(text),
         len < pattern_len \/ NoneMatching
  PROVE  Absent(pattern, text, PositionOf(0), Len(text))
<1> SUFFICES ASSUME NEW q \in PositionOf(0) .. Len(text),
                    Occurs(pattern, text, q)
             PROVE  FALSE
  BY DEF Absent
<1> DEFINE k == q - PositionOf(0)
<1>0. /\ len \in Nat /\ fed \in Nat /\ pattern_len \in Nat
      /\ Len(text) \in Nat
  BY Numbers
<1>1. k \in Nat /\ q = PositionOf(k) /\ q + pattern_len - 1 <= Len(text)
  <2>1. fed - len + 1 \in Nat /\ PositionOf(0) = fed - len + 1
    BY Numbers DEF PositionOf
  <2>2. k \in Nat /\ q = PositionOf(k)
    <3>1. fed \in Int /\ len \in Int
      BY Numbers
    <3>2. q \in Int /\ q >= fed - len + 1 /\ k = q - (fed - len + 1)
      BY <2>1
    <3>3. k \in Nat
      BY <2>1, <3>1, <3>2
    <3>4. q = fed - len + k + 1
      BY <3>1, <3>2
    <3> QED
      BY <3>3, <3>4 DEF PositionOf
  <2>3. q + pattern_len - 1 <= Len(text)
    BY DEF Occurs, pattern_len
  <2> QED
    BY <2>2, <2>3
<1> HIDE DEF k
<1>2. k + pattern_len <= len
  BY <1>0, <1>1 DEF PositionOf
<1>3. Matching(k)
  BY <1>1, <1>2, InTheWindow
<1>4. k \in 0 .. (len - pattern_len) /\ ~ (len < pattern_len)
  BY <1>0, <1>1, <1>2
<1> QED
  BY <1>3, <1>4 DEF NoneMatching

-----------------------------------------------------------------------------
(* What the steps are to the abstract search *)

LEMMA MatchReports ==
  ASSUME IInv, NEW k \in 0 .. Len(text), Match(k)
  PROVE  ChunkReference!Next
<1>0. /\ k \in Nat /\ len \in Nat /\ fed \in Nat /\ Len(text) \in Nat
      /\ pattern_len \in Nat \ {0} /\ len <= fed /\ fed <= Len(text)
  BY Numbers
<1>1. k \in Nat /\ k + pattern_len <= len /\ phase \in { "read", "mmap" }
  BY <1>0 DEF Match, FirstMatch, Matching
<1>2. /\ PositionOf(k) \in 1 .. Len(text)
      /\ PositionOf(k) >= PositionOf(0)
  BY <1>0, <1>1 DEF PositionOf
<1>3. Occurs(pattern, text, PositionOf(k))
  BY <1>1, InTheWindow DEF Match, FirstMatch
<1>4. Absent(pattern, text, PositionOf(0), PositionOf(k) - 1)
  <2>1. k + pattern_len <= len + 1
    BY <1>0, <1>1
  <2>2. \A j \in 0 .. (k - 1) : ~ Matching(j)
    BY DEF Match, FirstMatch
  <2> QED
    BY <1>1, <2>1, <2>2, NoneInTheWindow
<1>5. PositionOf(0)' = PositionOf(k) + Len(pattern)
  BY <1>0 DEF Match, PositionOf, pattern_len
<1>6. ChunkReference!Report(PositionOf(k))
  BY <1>2, <1>3, <1>4, <1>5
     DEF Match, ChunkReference!Report, Occurs, Absent, ChunkReference!Occurs,
         ChunkReference!Absent
<1> QED
  BY <1>1, <1>2, <1>6 DEF Match, ChunkReference!Next

LEMMA NoMatchPasses ==
  ASSUME IInv, NoMatchRead
  PROVE  ChunkReference!Next
<1> DEFINE n == len - pattern_len + 1
<1>1. /\ n \in Nat /\ n > 0 /\ n + pattern_len <= len + 1
      /\ phase = "read"
  BY Numbers DEF NoMatchRead
<1>2. \A k \in 0 .. (n - 1) : ~ Matching(k)
  BY Numbers DEF NoMatchRead, NoneMatching
<1>3. PositionOf(0)' = PositionOf(n) /\ PositionOf(n) > PositionOf(0)
  <2>1. len' = len - n /\ fed' = fed
    BY Numbers DEF NoMatchRead
  <2>2. fed \in Nat /\ len \in Nat
    BY Numbers
  <2> HIDE DEF n
  <2> QED
    BY <1>1, <2>1, <2>2 DEF PositionOf
<1> HIDE DEF n
<1>4. Absent(pattern, text, PositionOf(0), PositionOf(n) - 1)
  BY <1>1, <1>2, NoneInTheWindow
<1>5. ChunkReference!Pass
  BY <1>3, <1>4
     DEF NoMatchRead, ChunkReference!Pass, Absent, Occurs,
         ChunkReference!Absent,
         ChunkReference!Occurs
<1> QED
  BY <1>1, <1>5 DEF NoMatchRead, ChunkReference!Next

LEMMA EndCompletes ==
  ASSUME IInv, NoMatchMapped \/ FileEnds
  PROVE  ChunkReference!Next
<1>1. /\ phase \in { "read", "mmap" } /\ fed = Len(text)
      /\ len < pattern_len \/ NoneMatching
  BY DEF NoMatchMapped, FileEnds, IInv, Mapped
<1>2. Absent(pattern, text, PositionOf(0), Len(text))
  BY <1>1, NoneAtTheEnd
<1>3. PositionOf(0)' = PositionOf(0)
  BY DEF NoMatchMapped, FileEnds, PositionOf
<1>4. ChunkReference!Complete
  BY <1>2, <1>3
     DEF NoMatchMapped, FileEnds, ChunkReference!Complete, Absent, Occurs,
         ChunkReference!Absent, ChunkReference!Occurs
<1> QED
  BY <1>1, <1>4 DEF NoMatchMapped, FileEnds, ChunkReference!Next

LEMMA MapStep ==
  ASSUME IInv, Map
  PROVE  [ChunkReference!Next]_(ChunkReference!vars)
<1>1. PositionOf(0) = 1 /\ PositionOf(0)' = 1
  BY Numbers DEF Map, IInv, Fresh, PositionOf
<1>2. CASE text = << >>
  <2>1. Absent(pattern, text, PositionOf(0), Len(text))
    BY <1>1, <1>2 DEF Absent
  <2>2. ChunkReference!Complete
    BY <1>1, <1>2, <2>1
       DEF Map, ChunkReference!Complete, Absent, Occurs, ChunkReference!Absent,
           ChunkReference!Occurs
  <2> QED
    BY <2>2 DEF Map, ChunkReference!Next
<1>3. CASE text # << >>
  BY <1>1, <1>3 DEF Map, ChunkReference!vars
<1> QED
  BY <1>2, <1>3

LEMMA StepSimulation ==
  IInv /\ [ChunkNext]_chunkVars => [ChunkReference!Next]_(ChunkReference!vars)
<1> SUFFICES ASSUME IInv, [ChunkNext]_chunkVars
             PROVE  [ChunkReference!Next]_(ChunkReference!vars)
  OBVIOUS
<1>1. CASE ChunkPatternTooLong \/ MappingFails \/ MallocFails \/ FileFails
  BY <1>1 DEF ChunkPatternTooLong, MappingFails, MallocFails, FileFails,
              ChunkReference!Next, ChunkReference!GiveUp
<1>2. CASE Allocate
  BY <1>2 DEF Allocate, ChunkReference!vars, PositionOf
<1>3. CASE Map
  BY <1>3, MapStep
<1>4. ASSUME NEW k \in 0 .. Len(text), Match(k) PROVE ChunkReference!Next
  BY <1>4, MatchReports
<1>5. CASE NoMatchRead
  BY <1>5, NoMatchPasses
<1>6. CASE NoMatchMapped \/ FileEnds
  BY <1>6, EndCompletes
<1>7. ASSUME NEW n \in 1 .. Len(text), Read(n)
      PROVE  UNCHANGED ChunkReference!vars
  <2>1. PositionOf(0)' = PositionOf(0)
    BY <1>7, Numbers DEF Read, PositionOf
  <2> QED
    BY <1>7, <2>1 DEF Read, ChunkReference!vars
<1>8. CASE UNCHANGED chunkVars
  BY <1>8 DEF chunkVars, ChunkReference!vars, PositionOf
<1> QED
  BY <1>1, <1>2, <1>3, <1>4, <1>5, <1>6, <1>7, <1>8 DEF ChunkNext

(* Both searches implement the abstract one, wherever read() cuts the file *)
(* and however long it is: what they report are leftmost matches that do   *)
(* not overlap, and a search that is complete has left none out.           *)
THEOREM SearchesCorrectly == ChunkSpec => ImplementsSearch
<1>1. ChunkInit => ChunkReference!Init
  BY DEF ChunkInit, ChunkReference!Init, PositionOf
<1> QED
  BY Invariance, <1>1, StepSimulation, PTL
     DEF ChunkSpec, ImplementsSearch, ChunkReference!Spec

=============================================================================
