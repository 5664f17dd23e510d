----------------------------- MODULE TailProofs -----------------------------
(***************************************************************************)
(* What tail and cat do with every page size and any number of appends and *)
(* truncations at any moment.                                              *)
(***************************************************************************)
EXTENDS Tail, SequenceTheorems, TLAPS

Bytes == 1 .. MaxBytes

(* The file is not longer than what has been written to it. *)
FileIsWritten == Len(file) <= written

(* The watch is there before the file is looked at. *)
WatchedFirst ==
  pc \in { "open", "wait", "stat", "read", "write" } => watched

(* A file that becomes shorter while it is read has an event waiting, or   *)
(* to come: the one tail is busy with was taken before it looked.          *)
ShrinkIsNoticed ==
  pc \in { "read", "write" } /\ offset > Len(file) => event \/ owed > 0

NotStarted ==
  pc \in { "watch", "open" } =>
    out = << >> /\ mark = 0 /\ first = 0 /\ offset = 0

(* While the file only grows tail is in it. *)
InTheFile == clean => first <= offset /\ offset <= Len(file)

(* The inductive invariant.  SleepsAtTheEnd rests on ShrinkIsNoticed,      *)
(* which rests on WatchedFirst: an event is only queued for a file that is *)
(* watched.                                                                *)
IInv ==
  /\ TypeOK
  /\ FileIsWritten
  /\ WatchedFirst
  /\ ShrinkIsNoticed
  /\ NotStarted
  /\ InTheFile
  /\ SleepsAtTheEnd
  /\ PrintsTheGrowth

-----------------------------------------------------------------------------
LEMMA InitInv == Init => IInv
<1> SUFFICES ASSUME Init PROVE IInv
  OBVIOUS
<1>1. written \in 0 .. MaxBytes /\ file = [k \in 1 .. written |-> k]
  BY DEF Init
<1>2. file \in Seq(Bytes) /\ Len(file) = written
  <2>1. written \in Nat /\ \A k \in 1 .. written : k \in Bytes
    BY <1>1, TailAssumption DEF Bytes
  <2>2. file \in Seq(Bytes)
    BY <1>1, <2>1, IsASeq
  <2> QED
    BY <1>1, <2>1, <2>2
<1>3. TypeOK
  <2>1. /\ 0 \in 0 .. MaxTruncates /\ 0 \in 0 .. MaxOwed
        /\ 0 \in 0 .. MaxBytes /\ Len(<< >>) = 0 /\ 0 <= PAGE_SIZE
        /\ << >> \in Seq(1 .. MaxBytes) /\ 0 \in 0 .. Len(<< >>)
    BY TailAssumption
  <2> QED
    BY <1>1, <1>2, <2>1 DEF Init, TypeOK, Bytes
<1>4. FileIsWritten /\ WatchedFirst /\ ShrinkIsNoticed /\ NotStarted
  BY <1>1, <1>2 DEF Init, FileIsWritten, WatchedFirst, ShrinkIsNoticed,
                    NotStarted
<1>5. InTheFile /\ SleepsAtTheEnd
  BY <1>1, <1>2 DEF Init, InTheFile, SleepsAtTheEnd
<1>6. PrintsTheGrowth
  <2>1. SubSeq(out, mark + 1, Len(out)) \o buf = << >>
    BY DEF Init
  <2>2. SubSeq(file, first + 1, offset) = << >>
    BY <1>2 DEF Init
  <2> QED
    BY <2>1, <2>2 DEF PrintsTheGrowth
<1> QED
  BY <1>3, <1>4, <1>5, <1>6 DEF IInv

(* Of a sequence that is longer only at its end, a part remains what it    *)
(* was.                                                                    *)
LEMMA SubSeqOfAppend ==
  ASSUME NEW S, NEW s \in Seq(S), NEW e \in S,
         NEW n \in 0 .. Len(s), NEW m \in 1 .. (n + 1)
  PROVE  SubSeq(Append(s, e), m, n) = SubSeq(s, m, n)
<1>1. CASE m <= n
  <2>1. << e >> \in Seq(S) /\ m \in 1 .. Len(s) /\ n \in 1 .. Len(s)
    BY <1>1
  <2>2. Append(s, e) = s \o << e >>
    BY AppendIsConcat
  <2> QED
    BY <2>1, <2>2, SubSeqOfConcat1
<1>2. CASE n < m
  <2>1. m \in Int /\ n \in Int
    OBVIOUS
  <2> QED
    BY <1>2, <2>1, SubSeqEmpty
<1> QED
  BY <1>1, <1>2

LEMMA AppendKeeps ==
  ASSUME IInv, AppendByte
  PROVE  /\ file' \in Seq(Bytes) /\ Len(file') = Len(file) + 1
         /\ clean => SubSeq(file', first + 1, offset)
                       = SubSeq(file, first + 1, offset)
<1>1. file \in Seq(Bytes) /\ written + 1 \in Bytes
      /\ file' = Append(file, written + 1)
  BY TailAssumption DEF IInv, TypeOK, AppendByte, Bytes
<1>2. file' \in Seq(Bytes) /\ Len(file') = Len(file) + 1
  BY <1>1, AppendProperties
<1>3. ASSUME clean
      PROVE  SubSeq(file', first + 1, offset) = SubSeq(file, first + 1, offset)
  <2>1. offset \in 0 .. Len(file) /\ first + 1 \in 1 .. (offset + 1)
    BY <1>1, <1>3, TailAssumption DEF IInv, TypeOK, InTheFile
  <2> QED
    BY <1>1, <2>1, SubSeqOfAppend
<1> QED
  BY <1>2, <1>3

LEMMA AppendInv ==
  ASSUME IInv, AppendByte
  PROVE  IInv'
<1>1. /\ file' \in Seq(Bytes) /\ Len(file') = Len(file) + 1
      /\ clean => SubSeq(file', first + 1, offset)
                    = SubSeq(file, first + 1, offset)
      /\ Len(file) \in Nat
  BY AppendKeeps DEF IInv, TypeOK
<1>2. /\ written' = written + 1 /\ written < MaxBytes
      /\ owed' = owed + 1 /\ owed < MaxOwed
      /\ UNCHANGED << tailVars, history, truncates, event >>
  BY DEF AppendByte
<1>3. TypeOK'
  BY <1>1, <1>2, TailAssumption
     DEF IInv, TypeOK, tailVars, history, Bytes
<1>4. FileIsWritten' /\ WatchedFirst' /\ ShrinkIsNoticed' /\ NotStarted'
  BY <1>1, <1>2, TailAssumption
     DEF IInv, TypeOK, FileIsWritten, WatchedFirst, ShrinkIsNoticed,
         NotStarted, tailVars, history
<1>5. InTheFile' /\ SleepsAtTheEnd'
  BY <1>1, <1>2, TailAssumption
     DEF IInv, TypeOK, InTheFile, SleepsAtTheEnd, tailVars, history
<1>6. PrintsTheGrowth'
  BY <1>1, <1>2 DEF IInv, PrintsTheGrowth, tailVars, history
<1> QED
  BY <1>3, <1>4, <1>5, <1>6 DEF IInv

LEMMA TruncateInv ==
  ASSUME IInv, NEW size \in 0 .. MaxBytes, Truncate(size)
  PROVE  IInv'
<1>1. /\ file \in Seq(Bytes) /\ size \in Nat /\ size < Len(file)
      /\ file' = SubSeq(file, 1, size) /\ Len(file) \in Nat
  BY TailAssumption DEF Truncate, IInv, TypeOK, Bytes
<1>2. file' \in Seq(Bytes) /\ Len(file') = size
  BY <1>1
<1>3. /\ owed' = owed + 1 /\ owed < MaxOwed
      /\ truncates' = truncates + 1 /\ truncates < MaxTruncates
      /\ clean' = FALSE
      /\ UNCHANGED << tailVars, first, mark, written, event >>
  BY DEF Truncate
<1>4. TypeOK'
  <2>1. /\ file' \in Seq(1 .. MaxBytes)
        /\ owed' \in 0 .. MaxOwed /\ truncates' \in 0 .. MaxTruncates
    BY <1>2, <1>3, TailAssumption DEF IInv, TypeOK, Bytes
  <2>2. clean' \in BOOLEAN
    BY <1>3
  <2> QED
    BY <1>3, <2>1, <2>2 DEF IInv, TypeOK, tailVars
<1>5. FileIsWritten' /\ WatchedFirst' /\ ShrinkIsNoticed' /\ NotStarted'
  BY <1>1, <1>2, <1>3, TailAssumption
     DEF IInv, TypeOK, FileIsWritten, WatchedFirst, ShrinkIsNoticed,
         NotStarted, tailVars
<1>6. InTheFile' /\ PrintsTheGrowth'
  BY <1>3 DEF InTheFile, PrintsTheGrowth
<1>7. SleepsAtTheEnd'
  <2>1. owed' # 0
    BY <1>3, TailAssumption DEF IInv, TypeOK
  <2> QED
    BY <2>1 DEF SleepsAtTheEnd
<1> QED
  BY <1>4, <1>5, <1>6, <1>7 DEF IInv

LEMMA NotifyInv ==
  ASSUME IInv, Notify
  PROVE  IInv'
<1>1. /\ owed > 0 /\ owed' = owed - 1 /\ event' = (event \/ watched)
      /\ UNCHANGED << tailVars, history, file, written, truncates >>
  BY DEF Notify
<1>2. TypeOK'
  BY <1>1, TailAssumption DEF IInv, TypeOK, tailVars, history
<1>3. FileIsWritten' /\ WatchedFirst' /\ NotStarted' /\ InTheFile'
  BY <1>1 DEF IInv, FileIsWritten, WatchedFirst, NotStarted, InTheFile,
              tailVars, history
<1>4. ShrinkIsNoticed' /\ SleepsAtTheEnd'
  BY <1>1 DEF IInv, TypeOK, WatchedFirst, ShrinkIsNoticed, SleepsAtTheEnd,
              tailVars
<1>5. PrintsTheGrowth'
  BY <1>1 DEF IInv, PrintsTheGrowth, tailVars, history
<1> QED
  BY <1>2, <1>3, <1>4, <1>5 DEF IInv

-----------------------------------------------------------------------------
(* The steps of tail leave the file alone. *)

LEMMA StartsInv ==
  ASSUME IInv, AddWatch \/ SeekEnd
  PROVE  IInv'
<1>1. UNCHANGED << buf, out, mark, file, written, truncates, owed, event >>
  BY DEF AddWatch, SeekEnd, history, fileVars
<1>2. file \in Seq(Bytes) /\ Len(file) \in 0 .. MaxBytes
  BY TailAssumption DEF IInv, TypeOK, FileIsWritten, Bytes
<1>3. CASE AddWatch
  <2>1. /\ pc = "watch" /\ pc' = "open" /\ watched' = TRUE
        /\ UNCHANGED << offset, first, clean >>
    BY <1>3 DEF AddWatch, history
  <2>2. TypeOK'
    BY <1>1, <2>1 DEF IInv, TypeOK
  <2>3. /\ FileIsWritten' /\ WatchedFirst' /\ ShrinkIsNoticed'
        /\ NotStarted' /\ InTheFile' /\ SleepsAtTheEnd'
        /\ PrintsTheGrowth'
    BY <1>1, <2>1
       DEF IInv, FileIsWritten, WatchedFirst, ShrinkIsNoticed, NotStarted,
           InTheFile, SleepsAtTheEnd, PrintsTheGrowth
  <2> QED
    BY <2>2, <2>3 DEF IInv
<1>4. CASE SeekEnd
  <2>1. /\ pc = "open" /\ pc' = "wait" /\ clean' = TRUE
        /\ offset' = Len(file) /\ first' = Len(file)
        /\ UNCHANGED watched
    BY <1>4 DEF SeekEnd
  <2>2. TypeOK'
    BY <1>1, <1>2, <2>1 DEF IInv, TypeOK
  <2>3. /\ FileIsWritten' /\ ShrinkIsNoticed' /\ NotStarted'
        /\ InTheFile' /\ SleepsAtTheEnd'
    BY <1>1, <1>2, <2>1
       DEF IInv, FileIsWritten, ShrinkIsNoticed, NotStarted, InTheFile,
           SleepsAtTheEnd
  <2>4. WatchedFirst'
    BY <2>1, <1>1 DEF IInv, WatchedFirst, TypeOK
  <2>5. PrintsTheGrowth'
    <3>1. out = << >> /\ mark = 0 /\ buf = << >>
      BY <2>1 DEF IInv, NotStarted, TypeOK
    <3>2. SubSeq(out, mark + 1, Len(out)) \o buf = << >>
      BY <3>1
    <3>3. SubSeq(file, Len(file) + 1, Len(file)) = << >>
      BY <1>2
    <3> QED
      BY <1>1, <2>1, <3>2, <3>3 DEF PrintsTheGrowth
  <2> QED
    BY <2>2, <2>3, <2>4, <2>5 DEF IInv
<1> QED
  BY <1>3, <1>4

LEMMA WakeInv ==
  ASSUME IInv, Wake
  PROVE  IInv'
<1>1. /\ pc = "wait" /\ pc' = "stat" /\ event' = FALSE
      /\ UNCHANGED << watched, offset, buf, out, first, mark, clean, file,
                      written, truncates, owed >>
  BY DEF Wake, history
<1>2. TypeOK'
  BY <1>1 DEF IInv, TypeOK
<1>3. /\ FileIsWritten' /\ WatchedFirst' /\ ShrinkIsNoticed'
      /\ NotStarted' /\ InTheFile' /\ SleepsAtTheEnd'
      /\ PrintsTheGrowth'
  BY <1>1
     DEF IInv, FileIsWritten, WatchedFirst, ShrinkIsNoticed, NotStarted,
         InTheFile, SleepsAtTheEnd, PrintsTheGrowth
<1> QED
  BY <1>2, <1>3 DEF IInv

LEMMA StatInv ==
  ASSUME IInv, Stat
  PROVE  IInv'
<1>1. /\ pc = "stat" /\ pc' = "read" /\ buf = << >>
      /\ UNCHANGED << watched, buf, out, file, written, truncates, owed,
                      event >>
  BY DEF Stat, IInv, TypeOK, fileVars
<1>2. /\ file \in Seq(Bytes) /\ out \in Seq(Bytes)
      /\ Len(file) \in Nat /\ Len(out) \in Nat /\ offset \in Nat
  BY TailAssumption DEF IInv, TypeOK, Bytes
<1>3. FileIsWritten' /\ WatchedFirst' /\ NotStarted' /\ SleepsAtTheEnd'
  BY <1>1 DEF IInv, FileIsWritten, WatchedFirst, NotStarted, SleepsAtTheEnd
<1>4. CASE Len(file) < offset
  <2>1. offset' = 0 /\ first' = 0 /\ mark' = Len(out) /\ clean' = TRUE
    BY <1>4 DEF Stat
  <2>2. TypeOK'
    BY <1>1, <1>2, <2>1, TailAssumption DEF IInv, TypeOK
  <2>3. ShrinkIsNoticed' /\ InTheFile'
    BY <1>1, <1>2, <2>1 DEF ShrinkIsNoticed, InTheFile
  <2>4. PrintsTheGrowth'
    <3>1. SubSeq(out, Len(out) + 1, Len(out)) \o buf = << >>
      BY <1>1, <1>2
    <3>2. SubSeq(file, 0 + 1, 0) = << >>
      BY <1>2
    <3> QED
      BY <1>1, <2>1, <3>1, <3>2 DEF PrintsTheGrowth
  <2> QED
    BY <1>3, <2>2, <2>3, <2>4 DEF IInv
<1>5. CASE ~ (Len(file) < offset)
  <2>1. UNCHANGED << offset, first, mark, clean >>
    BY <1>5 DEF Stat, history
  <2>2. TypeOK'
    BY <1>1, <2>1 DEF IInv, TypeOK
  <2>3. ShrinkIsNoticed' /\ InTheFile'
    BY <1>1, <1>2, <1>5, <2>1 DEF IInv, ShrinkIsNoticed, InTheFile
  <2>4. PrintsTheGrowth'
    BY <1>1, <2>1 DEF IInv, PrintsTheGrowth
  <2> QED
    BY <1>3, <2>2, <2>3, <2>4 DEF IInv
<1> QED
  BY <1>4, <1>5

(* read() moves bytes of the file to the end of what is printed or about   *)
(* to be.                                                                  *)
LEMMA ReadJoins ==
  ASSUME IInv, buf = << >>, clean,
         NEW n \in Nat, offset + n <= Len(file)
  PROVE  SubSeq(out, mark + 1, Len(out))
             \o SubSeq(file, offset + 1, offset + n)
           = SubSeq(file, first + 1, offset + n)
<1>1. /\ file \in Seq(Bytes) /\ out \in Seq(Bytes) /\ Len(file) \in Nat
      /\ Len(out) \in Nat /\ offset \in Nat /\ first \in Nat
      /\ mark \in 0 .. Len(out)
  BY TailAssumption DEF IInv, TypeOK, Bytes
<1>2. SubSeq(out, mark + 1, Len(out)) \in Seq(Bytes)
  BY <1>1
<1>3. SubSeq(out, mark + 1, Len(out)) = SubSeq(file, first + 1, offset)
  BY <1>2, ConcatEmptySeq DEF IInv, PrintsTheGrowth
<1>4. /\ first + 1 \in 1 .. Len(file) + 1
      /\ offset \in (first + 1) - 1 .. Len(file)
      /\ offset + n \in offset .. Len(file)
  BY <1>1 DEF IInv, InTheFile
<1> QED
  BY <1>1, <1>3, <1>4, ConcatAdjacentSubSeq

LEMMA ReadInv ==
  ASSUME IInv,
         \/ \E n \in 1 .. PAGE_SIZE : ReadData(n)
         \/ \E n \in 1 .. PAGE_SIZE - 1 : CopyRead(n)
  PROVE  IInv'
<1>1. PICK n \in 1 .. PAGE_SIZE :
        /\ \/ pc = "read" /\ pc' = "write"
           \/ pc = "copy" /\ pc' = "put"
        /\ buf = << >> /\ offset + n <= Len(file)
        /\ buf' = SubSeq(file, offset + 1, offset + n) /\ offset' = offset + n
        /\ UNCHANGED << watched, out, first, mark, clean, file, written,
                        truncates, owed, event >>
  BY TailAssumption DEF ReadData, CopyRead, IInv, TypeOK, history, fileVars
<1>2. /\ file \in Seq(Bytes) /\ Len(file) \in Nat /\ offset \in Nat
      /\ first \in Nat /\ n \in Nat /\ 1 <= n /\ n <= PAGE_SIZE
      /\ Len(file) <= MaxBytes
  BY <1>1, TailAssumption DEF IInv, TypeOK, FileIsWritten, Bytes
<1>3. buf' \in Seq(Bytes) /\ Len(buf') = n
  BY <1>1, <1>2
<1>4. TypeOK'
  BY <1>1, <1>2, <1>3, TailAssumption DEF IInv, TypeOK, Bytes
<1>5. /\ FileIsWritten' /\ WatchedFirst' /\ NotStarted'
      /\ SleepsAtTheEnd'
  BY <1>1 DEF IInv, FileIsWritten, WatchedFirst, NotStarted, SleepsAtTheEnd
<1>6. ShrinkIsNoticed' /\ InTheFile'
  BY <1>1, <1>2 DEF IInv, ShrinkIsNoticed, InTheFile
<1>7. PrintsTheGrowth'
  BY <1>1, <1>2, ReadJoins DEF PrintsTheGrowth
<1> QED
  BY <1>4, <1>5, <1>6, <1>7 DEF IInv

LEMMA ReadEndsInv ==
  ASSUME IInv, ReadEnds \/ CopyEnds
  PROVE  IInv'
<1>1. /\ \/ pc = "read" /\ pc' = "wait"
         \/ pc = "copy" /\ pc' = "done"
      /\ offset >= Len(file)
      /\ UNCHANGED << watched, offset, buf, out, first, mark, clean, file,
                      written, truncates, owed, event >>
  BY DEF ReadEnds, CopyEnds, history, fileVars
<1>2. TypeOK'
  BY <1>1 DEF IInv, TypeOK
<1>3. /\ FileIsWritten' /\ WatchedFirst' /\ ShrinkIsNoticed'
      /\ NotStarted' /\ InTheFile' /\ PrintsTheGrowth'
  BY <1>1
     DEF IInv, FileIsWritten, WatchedFirst, ShrinkIsNoticed, NotStarted,
         InTheFile, PrintsTheGrowth
<1>4. SleepsAtTheEnd'
  <2>1. Len(file) \in Nat /\ offset \in Nat /\ owed \in Nat
    BY TailAssumption DEF IInv, TypeOK
  <2> QED
    BY <1>1, <2>1 DEF IInv, ShrinkIsNoticed, SleepsAtTheEnd
<1> QED
  BY <1>2, <1>3, <1>4 DEF IInv

(* write() moves bytes from those about to be printed to those that are.   *)
LEMMA WriteJoins ==
  ASSUME IInv, NEW n \in 0 .. Len(buf)
  PROVE  LET now == out \o SubSeq(buf, 1, n) IN
         SubSeq(now, mark + 1, Len(now)) \o SubSeq(buf, n + 1, Len(buf))
           = SubSeq(out, mark + 1, Len(out)) \o buf
<1> DEFINE s == SubSeq(buf, 1, n)
           r == SubSeq(buf, n + 1, Len(buf))
           t == SubSeq(out, mark + 1, Len(out))
           u == out \o s
<1>1. /\ out \in Seq(Bytes) /\ buf \in Seq(Bytes) /\ Len(out) \in Nat
      /\ Len(buf) \in Nat /\ mark \in 0 .. Len(out)
  BY DEF IInv, TypeOK, Bytes
<1>2. s \in Seq(Bytes) /\ Len(s) = n /\ r \in Seq(Bytes) /\ t \in Seq(Bytes)
  BY <1>1
<1>3. s \o r = buf
  <2>1. /\ 1 \in 1 .. Len(buf) + 1 /\ n \in 1 - 1 .. Len(buf)
        /\ Len(buf) \in n .. Len(buf)
    BY <1>1
  <2>2. s \o r = SubSeq(buf, 1, Len(buf))
    BY <1>1, <2>1, ConcatAdjacentSubSeq
  <2> QED
    BY <1>1, <2>2, SubSeqFull
<1>4. u \in Seq(Bytes) /\ Len(u) = Len(out) + n
  BY <1>1, <1>2, ConcatProperties
<1>5. SubSeq(u, mark + 1, Len(u)) = t \o s
  <2>1. /\ mark + 1 \in 1 .. Len(u) + 1
        /\ Len(out) \in (mark + 1) - 1 .. Len(u)
        /\ Len(u) \in Len(out) .. Len(u)
    BY <1>1, <1>4
  <2>2. SubSeq(u, mark + 1, Len(out)) \o SubSeq(u, Len(out) + 1, Len(u))
          = SubSeq(u, mark + 1, Len(u))
    BY <1>4, <2>1, ConcatAdjacentSubSeq
  <2>3. SubSeq(u, mark + 1, Len(out)) = t
    <3>1. CASE mark < Len(out)
      <4>1. mark + 1 \in 1 .. Len(out) /\ Len(out) \in 1 .. Len(out)
        BY <1>1, <3>1
      <4> QED
        BY <1>1, <1>2, <4>1, SubSeqOfConcat1
    <3>2. CASE mark = Len(out)
      <4>1. mark + 1 \in Int /\ Len(out) \in Int /\ Len(out) < mark + 1
        BY <1>1, <3>2
      <4> QED
        BY <4>1, SubSeqEmpty
    <3> QED
      BY <1>1, <3>1, <3>2
  <2>4. SubSeq(u, Len(out) + 1, Len(u)) = s
    <3>1. CASE n = 0
      <4>1. s = << >> /\ Len(out) + 1 \in Int /\ Len(u) \in Int
            /\ Len(u) < Len(out) + 1
        BY <1>1, <1>2, <1>4, <3>1, EmptySeq
      <4> QED
        BY <4>1, SubSeqEmpty
    <3>2. CASE n # 0
      <4>1. /\ Len(out) + 1 \in Len(out) + 1 .. Len(out) + Len(s)
            /\ Len(u) \in Len(out) + 1 .. Len(out) + Len(s)
            /\ (Len(out) + 1) - Len(out) = 1 /\ Len(u) - Len(out) = Len(s)
        BY <1>1, <1>2, <1>4, <3>2
      <4>2. SubSeq(u, Len(out) + 1, Len(u)) = SubSeq(s, 1, Len(s))
        BY <1>1, <1>2, <4>1, SubSeqOfConcat2
      <4> QED
        BY <1>2, <4>2, SubSeqFull
    <3> QED
      BY <3>1, <3>2
  <2> QED
    BY <2>2, <2>3, <2>4
<1> HIDE DEF s, r, t
<1>6. (t \o s) \o r = t \o (s \o r)
  BY <1>2, ConcatAssociative
<1>7. SubSeq(u, mark + 1, Len(u)) \o r = t \o buf
  BY <1>3, <1>5, <1>6
<1> QED
  BY <1>7 DEF s, r, t

LEMMA WriteInv ==
  ASSUME IInv, NEW n \in 1 .. PAGE_SIZE, WriteData(n)
  PROVE  IInv'
<1>1. /\ pc = "write" /\ pc' \in { "read", "write" }
      /\ pc' = "read" => n = Len(buf)
      /\ out' = out \o SubSeq(buf, 1, n)
      /\ buf' = SubSeq(buf, n + 1, Len(buf))
      /\ UNCHANGED << watched, offset, first, mark, clean, file, written,
                      truncates, owed, event >>
  BY DEF WriteData, history, fileVars
<1>2. /\ out \in Seq(Bytes) /\ buf \in Seq(Bytes) /\ Len(out) \in Nat
      /\ Len(buf) \in Nat /\ Len(buf) <= PAGE_SIZE /\ mark \in 0 .. Len(out)
      /\ n \in 1 .. Len(buf)
  BY TailAssumption DEF WriteData, IInv, TypeOK, Bytes
<1>3. SubSeq(buf, 1, n) \in Seq(Bytes) /\ Len(SubSeq(buf, 1, n)) = n
  BY <1>2
<1>4. buf' \in Seq(Bytes) /\ Len(buf') = Len(buf) - n
  BY <1>1, <1>2
<1>5. out' \in Seq(Bytes) /\ Len(out') = Len(out) + n
  BY <1>1, <1>2, <1>3, ConcatProperties
<1>6. TypeOK'
  <2>1. Len(buf') <= PAGE_SIZE /\ mark' \in 0 .. Len(out')
    BY <1>1, <1>2, <1>4, <1>5, TailAssumption
  <2>2. pc' = "read" => buf' = << >>
    BY <1>1, <1>2, <1>4
  <2> QED
    BY <1>1, <1>4, <1>5, <2>1, <2>2 DEF IInv, TypeOK, Bytes
<1>7. /\ FileIsWritten' /\ WatchedFirst' /\ ShrinkIsNoticed'
      /\ NotStarted' /\ InTheFile' /\ SleepsAtTheEnd'
  BY <1>1
     DEF IInv, FileIsWritten, WatchedFirst, ShrinkIsNoticed, NotStarted,
         InTheFile, SleepsAtTheEnd
<1>8. SubSeq(out', mark + 1, Len(out')) \o buf'
        = SubSeq(out, mark + 1, Len(out)) \o buf
  <2>1. n \in 0 .. Len(buf)
    BY <1>2
  <2> QED
    BY <1>1, <2>1, WriteJoins
<1>9. PrintsTheGrowth'
  BY <1>1, <1>8 DEF IInv, PrintsTheGrowth
<1> QED
  BY <1>6, <1>7, <1>9 DEF IInv

LEMMA CopyWriteInv ==
  ASSUME IInv, NEW n \in 0 .. PAGE_SIZE - 1, CopyWrite(n)
  PROVE  IInv'
<1>1. /\ pc = "put" /\ pc' = "copy" /\ n <= Len(buf)
      /\ out' = out \o SubSeq(buf, 1, n) /\ buf' = << >>
      /\ clean' = (clean /\ n = Len(buf))
      /\ UNCHANGED << watched, offset, first, mark, file, written, truncates,
                      owed, event >>
  BY DEF CopyWrite, fileVars
<1>2. /\ out \in Seq(Bytes) /\ buf \in Seq(Bytes) /\ Len(out) \in Nat
      /\ Len(buf) \in Nat /\ mark \in 0 .. Len(out) /\ n \in 0 .. Len(buf)
  BY <1>1, TailAssumption DEF IInv, TypeOK, Bytes
<1>3. out' \in Seq(Bytes) /\ Len(out') = Len(out) + n
  <2>1. SubSeq(buf, 1, n) \in Seq(Bytes) /\ Len(SubSeq(buf, 1, n)) = n
    BY <1>2
  <2> QED
    BY <1>1, <1>2, <2>1, ConcatProperties
<1>4. TypeOK'
  <2>1. /\ mark' \in 0 .. Len(out') /\ Len(buf') <= PAGE_SIZE
        /\ buf' \in Seq(1 .. MaxBytes)
    BY <1>1, <1>2, <1>3, TailAssumption
  <2>2. clean' \in BOOLEAN
    BY <1>1
  <2> QED
    BY <1>1, <1>3, <2>1, <2>2 DEF IInv, TypeOK, Bytes
<1>5. /\ FileIsWritten' /\ WatchedFirst' /\ ShrinkIsNoticed'
      /\ NotStarted' /\ InTheFile' /\ SleepsAtTheEnd'
  BY <1>1
     DEF IInv, FileIsWritten, WatchedFirst, ShrinkIsNoticed, NotStarted,
         InTheFile, SleepsAtTheEnd
<1>6. PrintsTheGrowth'
  <2> SUFFICES ASSUME clean, n = Len(buf)
               PROVE  SubSeq(out', mark + 1, Len(out')) \o buf'
                        = SubSeq(file, first + 1, offset)
    BY <1>1 DEF PrintsTheGrowth
  <2>1. SubSeq(buf, n + 1, Len(buf)) = << >>
    BY <1>2
  <2>2. SubSeq(out', mark + 1, Len(out')) \o buf'
          = SubSeq(out, mark + 1, Len(out)) \o buf
    BY <1>1, <1>2, <2>1, WriteJoins
  <2> QED
    BY <2>2 DEF IInv, PrintsTheGrowth
<1> QED
  BY <1>4, <1>5, <1>6 DEF IInv

LEMMA FailsInv ==
  ASSUME IInv, Fails
  PROVE  IInv'
<1>1. /\ pc' = "exited"
      /\ UNCHANGED << watched, offset, buf, out, first, mark, clean, file,
                      written, truncates, owed, event >>
  BY DEF Fails, history, fileVars
<1>2. TypeOK'
  BY <1>1 DEF IInv, TypeOK
<1>3. /\ FileIsWritten' /\ WatchedFirst' /\ ShrinkIsNoticed'
      /\ NotStarted' /\ InTheFile' /\ SleepsAtTheEnd'
      /\ PrintsTheGrowth'
  BY <1>1
     DEF IInv, FileIsWritten, WatchedFirst, ShrinkIsNoticed, NotStarted,
         InTheFile, SleepsAtTheEnd, PrintsTheGrowth
<1> QED
  BY <1>2, <1>3 DEF IInv

LEMMA NextInv == IInv /\ [Next]_vars => IInv'
<1> SUFFICES ASSUME IInv, [Next]_vars PROVE IInv'
  OBVIOUS
<1>1. CASE AddWatch \/ SeekEnd
  BY <1>1, StartsInv
<1>2. CASE Wake
  BY <1>2, WakeInv
<1>3. CASE Stat
  BY <1>3, StatInv
<1>4. CASE \/ \E n \in 1 .. PAGE_SIZE : ReadData(n)
           \/ \E n \in 1 .. PAGE_SIZE - 1 : CopyRead(n)
  BY <1>4, ReadInv
<1>5. CASE ReadEnds \/ CopyEnds
  BY <1>5, ReadEndsInv
<1>6. ASSUME NEW n \in 1 .. PAGE_SIZE, WriteData(n) PROVE IInv'
  BY <1>6, WriteInv
<1>7. CASE Fails
  BY <1>7, FailsInv
<1>8. CASE AppendByte
  BY <1>8, AppendInv
<1>9. ASSUME NEW size \in 0 .. MaxBytes, Truncate(size) PROVE IInv'
  BY <1>9, TruncateInv
<1>10. CASE Notify
  BY <1>10, NotifyInv
<1>11. ASSUME NEW n \in 0 .. PAGE_SIZE - 1, CopyWrite(n) PROVE IInv'
  BY <1>11, CopyWriteInv
<1>12. CASE UNCHANGED vars
  BY <1>12
     DEF vars, tailVars, fileVars, history, IInv, TypeOK, FileIsWritten,
         WatchedFirst, ShrinkIsNoticed, NotStarted, InTheFile, SleepsAtTheEnd,
         PrintsTheGrowth
<1> QED
  BY <1>1, <1>2, <1>3, <1>4, <1>5, <1>6, <1>7, <1>8, <1>9, <1>10,
     <1>11, <1>12
     DEF Next, Follow, Copy, Others

LEMMA Invariance == Spec => []IInv
BY InitInv, NextInv, PTL DEF Spec

-----------------------------------------------------------------------------
(* What cat has written and is about to write, in the order of the file,   *)
(* and what is still to be read of it                                      *)

Rising(t) == \A k, l \in 1 .. Len(t) : k < l => t[k] < t[l]

Below(t, from) == \A k \in 1 .. Len(t) : \A j \in from .. Len(file) :
                    t[k] < file[j]

UpToWritten(t) == \A k \in 1 .. Len(t) : t[k] <= written

Copied ==
  ~ watched =>
    /\ Rising(out) /\ Rising(buf)
    /\ \A k \in 1 .. Len(out), l \in 1 .. Len(buf) : out[k] < buf[l]
    /\ Below(out, offset + 1) /\ Below(buf, offset + 1)
    /\ UpToWritten(out) /\ UpToWritten(buf)

(* The bytes of the file are numbered in the order in which they are       *)
(* written to it, so that they rise, whatever has been cut off.            *)
CopyInv == Rising(file) /\ UpToWritten(file) /\ Copied

LEMMA InitCopy == Init => CopyInv
<1> SUFFICES ASSUME Init PROVE CopyInv
  OBVIOUS
<1>1. /\ written \in Nat /\ file = [k \in 1 .. written |-> k]
      /\ out = << >> /\ buf = << >>
  BY TailAssumption DEF Init
<1>2. Len(file) = written /\ Len(out) = 0 /\ Len(buf) = 0
  BY <1>1
<1> QED
  BY <1>1, <1>2 DEF CopyInv, Copied, Rising, Below, UpToWritten

LEMMA AppendCopy ==
  ASSUME IInv, CopyInv, AppendByte
  PROVE  CopyInv'
<1>1. /\ file' = Append(file, written + 1) /\ written' = written + 1
      /\ UNCHANGED << watched, offset, buf, out >>
  BY DEF AppendByte, tailVars
<1>2. /\ file \in Seq(Bytes) /\ out \in Seq(Bytes) /\ buf \in Seq(Bytes)
      /\ written \in Nat /\ offset \in Nat
      /\ \A k \in 1 .. Len(out) : out[k] \in Nat
      /\ \A k \in 1 .. Len(buf) : buf[k] \in Nat
      /\ \A k \in 1 .. Len(file) : file[k] \in Nat
  BY TailAssumption DEF IInv, TypeOK, Bytes
<1>3. /\ Len(file') = Len(file) + 1 /\ Len(file) \in Nat
      /\ \A j \in 1 .. Len(file) : file'[j] = file[j]
      /\ file'[Len(file) + 1] = written + 1
  BY <1>1, <1>2
<1>4. Rising(file)' /\ UpToWritten(file)'
  BY <1>1, <1>2, <1>3 DEF CopyInv, Rising, UpToWritten
<1>5. ASSUME ~ watched PROVE Below(out, offset + 1)' /\ UpToWritten(out)'
  BY <1>1, <1>2, <1>3, <1>5 DEF CopyInv, Copied, Below, UpToWritten
<1>6. ASSUME ~ watched PROVE Below(buf, offset + 1)' /\ UpToWritten(buf)'
  BY <1>1, <1>2, <1>3, <1>6 DEF CopyInv, Copied, Below, UpToWritten
<1> QED
  BY <1>1, <1>4, <1>5, <1>6 DEF CopyInv, Copied, Rising

LEMMA TruncateCopy ==
  ASSUME IInv, CopyInv, NEW size \in 0 .. MaxBytes, Truncate(size)
  PROVE  CopyInv'
<1>1. /\ size < Len(file) /\ file' = SubSeq(file, 1, size)
      /\ UNCHANGED << watched, offset, buf, out, written >>
  BY DEF Truncate, tailVars
<1>2. file \in Seq(Bytes) /\ Len(file) \in Nat /\ offset \in Nat
  BY TailAssumption DEF IInv, TypeOK, Bytes
<1>3. size \in Nat
  BY TailAssumption
<1>4. Len(file') = size /\ \A j \in 1 .. size : file'[j] = file[j]
  BY <1>1, <1>2, <1>3
<1>5. Rising(file)' /\ UpToWritten(file)'
  BY <1>1, <1>2, <1>3, <1>4 DEF CopyInv, Rising, UpToWritten
<1>6. ASSUME ~ watched PROVE Below(out, offset + 1)' /\ Below(buf, offset + 1)'
  BY <1>1, <1>2, <1>3, <1>4, <1>6 DEF CopyInv, Copied, Below
<1> QED
  BY <1>1, <1>5, <1>6 DEF CopyInv, Copied, Rising, UpToWritten

LEMMA CopyReadCopy ==
  ASSUME IInv, CopyInv, NEW n \in 1 .. PAGE_SIZE - 1, CopyRead(n)
  PROVE  CopyInv'
<1>1. /\ pc = "copy" /\ offset + n <= Len(file)
      /\ buf' = SubSeq(file, offset + 1, offset + n)
      /\ offset' = offset + n
      /\ UNCHANGED << watched, out, file, written >>
  BY DEF CopyRead, fileVars
<1>2. /\ file \in Seq(Bytes) /\ Len(file) \in Nat /\ offset \in Nat
      /\ n \in Nat
  BY TailAssumption DEF IInv, TypeOK, Bytes
<1>3. Len(buf') = n /\ \A l \in 1 .. n : buf'[l] = file[offset + l]
  BY <1>1, <1>2
<1>4. ASSUME ~ watched
      PROVE  /\ Rising(buf)' /\ Below(buf, offset + 1)' /\ UpToWritten(buf)'
             /\ Below(out, offset + 1)'
             /\ \A k \in 1 .. Len(out), l \in 1 .. Len(buf') :
                  out[k] < buf'[l]
  <2>1. \A l \in 1 .. n : offset + l \in offset + 1 .. Len(file)
    BY <1>1, <1>2
  <2>2. Rising(buf)' /\ UpToWritten(buf)'
    <3>1. \A l \in 1 .. n : offset + l \in 1 .. Len(file)
      BY <1>1, <1>2
    <3>2. \A l, m \in 1 .. n : l < m => offset + l < offset + m
      BY <1>2
    <3>3. \A l, m \in 1 .. n : l < m => file[offset + l] < file[offset + m]
      BY <3>1, <3>2 DEF CopyInv, Rising
    <3>4. \A l \in 1 .. n : file[offset + l] <= written
      BY <3>1 DEF CopyInv, UpToWritten
    <3>5. Rising(buf)'
      BY <1>3, <3>3 DEF Rising
    <3>6. written' = written
      BY <1>1
    <3>7. \A l \in 1 .. n : buf'[l] <= written'
      BY <1>3, <3>4, <3>6
    <3>8. UpToWritten(buf)'
      BY <1>3, <3>7 DEF UpToWritten
    <3> QED
      BY <3>5, <3>8
  <2>3. Below(buf, offset + 1)'
    BY <1>1, <1>2, <1>3, <2>1 DEF CopyInv, Rising, Below
  <2>4. Below(out, offset + 1)'
    BY <1>1, <1>2, <1>4 DEF CopyInv, Copied, Below
  <2>5. \A k \in 1 .. Len(out), l \in 1 .. Len(buf') : out[k] < buf'[l]
    BY <1>2, <1>3, <1>4, <2>1 DEF CopyInv, Copied, Below
  <2> QED
    BY <2>2, <2>3, <2>4, <2>5
<1> QED
  BY <1>1, <1>4 DEF CopyInv, Copied, Rising, UpToWritten

(* Of what is not taken by write() nothing remains. *)
LEMMA CopyWriteCopy ==
  ASSUME IInv, CopyInv, NEW n \in 0 .. PAGE_SIZE - 1, CopyWrite(n)
  PROVE  CopyInv'
<1>1. /\ n <= Len(buf) /\ out' = out \o SubSeq(buf, 1, n) /\ buf' = << >>
      /\ UNCHANGED << watched, offset, file, written >>
  BY DEF CopyWrite, fileVars
<1>2. /\ out \in Seq(Bytes) /\ buf \in Seq(Bytes) /\ Len(out) \in Nat
      /\ Len(buf) \in Nat /\ n \in Nat
  BY TailAssumption DEF IInv, TypeOK, Bytes
<1>3. /\ Len(out') = Len(out) + n
      /\ \A k \in 1 .. Len(out) : out'[k] = out[k]
      /\ \A k \in Len(out) + 1 .. Len(out) + n :
           /\ k - Len(out) \in 1 .. Len(buf)
           /\ out'[k] = buf[k - Len(out)]
  <2>1. /\ SubSeq(buf, 1, n) \in Seq(Bytes) /\ Len(SubSeq(buf, 1, n)) = n
        /\ \A l \in 1 .. n : SubSeq(buf, 1, n)[l] = buf[l]
    BY <1>1, <1>2
  <2> QED
    BY <1>1, <1>2, <2>1, ConcatProperties
<1>4. Len(buf') = 0
  BY <1>1
<1>5. \A k \in 1 .. Len(out') :
        \/ k \in 1 .. Len(out) /\ out'[k] = out[k]
        \/ k - Len(out) \in 1 .. Len(buf) /\ out'[k] = buf[k - Len(out)]
  BY <1>2, <1>3
<1>6. ASSUME ~ watched
      PROVE  Rising(out)' /\ Below(out, offset + 1)' /\ UpToWritten(out)'
  <2>1. Rising(out)'
    <3> SUFFICES ASSUME NEW k \in 1 .. Len(out'), NEW l \in 1 .. Len(out'),
                        k < l
                 PROVE  out'[k] < out'[l]
      BY DEF Rising
    <3>1. CASE l \in 1 .. Len(out)
      <4>1. k \in 1 .. Len(out)
        BY <1>2, <3>1
      <4> QED
        BY <1>3, <1>6, <3>1, <4>1 DEF CopyInv, Copied, Rising
    <3>2. CASE l \notin 1 .. Len(out)
      <4>1. l - Len(out) \in 1 .. Len(buf) /\ out'[l] = buf[l - Len(out)]
        BY <1>5, <3>2
      <4>2. CASE k \in 1 .. Len(out) /\ out'[k] = out[k]
        BY <1>6, <4>1, <4>2 DEF CopyInv, Copied
      <4>3. CASE /\ k - Len(out) \in 1 .. Len(buf)
                 /\ out'[k] = buf[k - Len(out)]
        <5>1. k - Len(out) < l - Len(out)
          BY <1>2, <1>3
        <5> QED
          BY <1>6, <4>1, <4>3, <5>1 DEF CopyInv, Copied, Rising
      <4> QED
        BY <1>5, <4>2, <4>3
    <3> QED
      BY <3>1, <3>2
  <2>2. Below(out, offset + 1)' /\ UpToWritten(out)'
    BY <1>1, <1>5, <1>6 DEF CopyInv, Copied, Below, UpToWritten
  <2> QED
    BY <2>1, <2>2
<1> QED
  BY <1>1, <1>4, <1>6 DEF CopyInv, Copied, Rising, Below, UpToWritten

(* The steps of tail are those of a program that watches the file. *)
LEMMA NextCopy == IInv /\ CopyInv /\ [Next]_vars => CopyInv'
<1> SUFFICES ASSUME IInv, CopyInv, [Next]_vars PROVE CopyInv'
  OBVIOUS
<1>1. CASE AppendByte
  BY <1>1, AppendCopy
<1>2. ASSUME NEW size \in 0 .. MaxBytes, Truncate(size) PROVE CopyInv'
  BY <1>2, TruncateCopy
<1>3. ASSUME NEW n \in 1 .. PAGE_SIZE - 1, CopyRead(n) PROVE CopyInv'
  BY <1>3, CopyReadCopy
<1>4. ASSUME NEW n \in 0 .. PAGE_SIZE - 1, CopyWrite(n) PROVE CopyInv'
  BY <1>4, CopyWriteCopy
<1>5. CASE Follow
  <2>1. watched' /\ UNCHANGED << file, written >>
    BY <1>5
       DEF Follow, AddWatch, SeekEnd, Wake, Stat, ReadData, ReadEnds,
           WriteData, fileVars, IInv, WatchedFirst
  <2> QED
    BY <2>1 DEF CopyInv, Copied, Rising, UpToWritten
<1>6. CASE Notify \/ Fails \/ CopyEnds \/ UNCHANGED vars
  <2>1. UNCHANGED << watched, file, written, out, buf, offset >>
    BY <1>6 DEF Notify, Fails, CopyEnds, vars, tailVars, fileVars
  <2> QED
    BY <2>1 DEF CopyInv, Copied, Rising, Below, UpToWritten
<1> QED
  BY <1>1, <1>2, <1>3, <1>4, <1>5, <1>6 DEF Next, Copy, Others

LEMMA CopyIsOrdered == IInv /\ CopyInv => CopiesInOrder
<1> SUFFICES ASSUME IInv, CopyInv, ~ watched,
                    NEW k \in 1 .. Len(out \o buf),
                    NEW l \in 1 .. Len(out \o buf), k < l
             PROVE  (out \o buf)[k] < (out \o buf)[l]
  BY DEF CopiesInOrder
<1>1. /\ out \in Seq(Bytes) /\ buf \in Seq(Bytes) /\ Len(out) \in Nat
      /\ Len(buf) \in Nat
  BY DEF IInv, TypeOK, Bytes
<1>2. /\ Len(out \o buf) = Len(out) + Len(buf)
      /\ \A m \in 1 .. Len(out \o buf) :
           (out \o buf)[m] = IF m <= Len(out) THEN out[m]
                             ELSE buf[m - Len(out)]
  BY <1>1, ConcatProperties
<1>3. CASE l <= Len(out)
  BY <1>1, <1>2, <1>3 DEF CopyInv, Copied, Rising
<1>4. CASE l > Len(out)
  <2>1. /\ l - Len(out) \in 1 .. Len(buf)
        /\ (out \o buf)[l] = buf[l - Len(out)]
    BY <1>1, <1>2, <1>4
  <2>2. CASE k <= Len(out)
    <3>1. k \in 1 .. Len(out) /\ (out \o buf)[k] = out[k]
      BY <1>1, <1>2, <2>2
    <3> QED
      BY <2>1, <3>1 DEF CopyInv, Copied
  <2>3. CASE k > Len(out)
    <3>1. /\ k - Len(out) \in 1 .. Len(buf) /\ k - Len(out) < l - Len(out)
          /\ (out \o buf)[k] = buf[k - Len(out)]
      BY <1>1, <1>2, <2>3
    <3> QED
      BY <2>1, <3>1 DEF CopyInv, Copied, Rising
  <2> QED
    BY <1>1, <1>2, <2>2, <2>3
<1> QED
  BY <1>1, <1>2, <1>3, <1>4

LEMMA CopyInvariance == Spec => []CopyInv
<1>1. Init /\ []IInv /\ [][Next]_vars => []CopyInv
  BY InitCopy, NextCopy, PTL
<1> QED
  BY Invariance, <1>1, PTL DEF Spec

-----------------------------------------------------------------------------
(* The variables of tail and of the file it follows keep their types. *)
THEOREM TypeCorrect == Spec => []TypeOK
<1>1. IInv => TypeOK
  BY DEF IInv
<1> QED
  BY Invariance, <1>1, PTL

(* tail.c:89-103: whatever happens to the file between read() of an event, *)
(* fstat() and read() of the data, tail does not wait for the next event   *)
(* with something left to print and no event to come.                      *)
THEOREM NeverSleepsOverAChange == Spec => []SleepsAtTheEnd
<1>1. IInv => SleepsAtTheEnd
  BY DEF IInv
<1> QED
  BY Invariance, <1>1, PTL

(* tail.c:27-47, cat.c:35-49: with any short reads and short writes, what  *)
(* tail prints of a file that only grows is what has been appended to it,  *)
(* as long as its writes are whole cat prints its beginning, and whatever  *)
(* cat loses otherwise, it turns round and repeats nothing.                *)
THEOREM PrintsFaithfully == Spec => []PrintsWhatIsAppended
<1>1. IInv /\ CopyInv => PrintsWhatIsAppended
  BY CopyIsOrdered DEF IInv, PrintsWhatIsAppended
<1> QED
  BY Invariance, CopyInvariance, <1>1, PTL

=============================================================================
