-------------------------------- MODULE Tail --------------------------------
(***************************************************************************)
(* The two programs that copy a file to standard output: tail/tail.c,      *)
(* which prints what is appended to it, woken by inotify, and cat/cat.c,   *)
(* which prints it once and looks at nothing but the end of the file.      *)
(*                                                                         *)
(* Other processes append to the file and truncate it at any time.  The    *)
(* kernel queues an event after the change it is about has been made, and  *)
(* not when the last one queued, unread, is the same: as there is only one *)
(* kind of event, the queue is empty or holds one.  The bytes of the file  *)
(* are numbered in the order in which they are written.                    *)
(***************************************************************************)
EXTENDS Integers, Sequences

CONSTANTS
  PAGE_SIZE,    \* the size of the buffer; tail fills it, cat all but a byte
  MaxBytes,     \* bound: bytes written to the file
  MaxTruncates, \* bound: truncations
  MaxOwed       \* bound: changes whose event is still to be queued

ASSUME TailAssumption ==
  /\ PAGE_SIZE \in Nat \ {0, 1}
  /\ MaxBytes \in Nat
  /\ MaxTruncates \in Nat
  /\ MaxOwed \in Nat \ {0}

VARIABLES
  file,       \* its bytes
  written,    \* how many have been written to it, ever
  truncates,  \* how often it has been truncated since it is followed
  owed,       \* changes that have been made and whose event is to come
  event,      \* an event is waiting to be read
  watched,    \* inotify_add_watch() has been called
  pc,         \* where main() is: cat is in "copy", "put" and "done"
  offset,     \* the file offset of following_file_fd, or read_file_fd
  buf,        \* bytes read and not yet written
  out,        \* bytes written to standard output
  first,      \* history: where in the file the reading began, or began anew
  mark,       \* history: how much had been printed then
  clean       \* history: since then the file has only grown, and cat has
              \* lost nothing to a write()

history == << first, mark, clean >>
tailVars == << watched, pc, offset, buf, out >>
fileVars == << file, written, truncates, owed, event >>
vars == << tailVars, fileVars, history >>

-----------------------------------------------------------------------------
(* The other processes and the kernel *)

AppendByte ==
  /\ written < MaxBytes
  /\ owed < MaxOwed
  /\ written' = written + 1
  /\ file' = Append(file, written + 1)
  /\ owed' = owed + 1
  /\ UNCHANGED << tailVars, history, truncates, event >>

Truncate(size) ==
  /\ truncates < MaxTruncates
  /\ owed < MaxOwed
  /\ size < Len(file)
  /\ file' = SubSeq(file, 1, size)
  /\ truncates' = truncates + 1
  /\ owed' = owed + 1
  /\ clean' = FALSE
  /\ UNCHANGED << tailVars, first, mark, written, event >>

Notify ==
  /\ owed > 0
  /\ owed' = owed - 1
  /\ event' = (event \/ watched)
  /\ UNCHANGED << tailVars, history, file, written, truncates >>

-----------------------------------------------------------------------------
(* main(): inotify_add_watch(), open() and lseek() to the end *)

AddWatch ==
  /\ pc = "watch"
  /\ watched' = TRUE
  /\ pc' = "open"
  /\ UNCHANGED << offset, buf, out, history, fileVars >>

SeekEnd ==
  /\ pc = "open"
  /\ offset' = Len(file)
  /\ first' = Len(file)
  /\ clean' = TRUE
  /\ pc' = "wait"
  /\ UNCHANGED << watched, buf, out, mark, fileVars >>

(* read() of the event *)
Wake ==
  /\ pc = "wait"
  /\ event
  /\ event' = FALSE
  /\ pc' = "stat"
  /\ UNCHANGED << watched, offset, buf, out, history, file, written, truncates,
                  owed >>

(* Faulty variant: a file that has become shorter is not told apart. *)
Stat_IgnoresTruncation ==
  /\ pc = "stat"
  /\ pc' = "read"
  /\ UNCHANGED << watched, offset, buf, out, history, fileVars >>

(* fstat(); back to the start when the file is shorter than the offset. *)
Stat ==
  /\ pc = "stat"
  /\ IF Len(file) < offset
     THEN /\ offset' = 0
          /\ first' = 0
          /\ mark' = Len(out)
          /\ clean' = TRUE
     ELSE UNCHANGED << offset, history >>
  /\ pc' = "read"
  /\ UNCHANGED << watched, buf, out, fileVars >>

(* write_till_eof() *)
ReadData(n) ==
  /\ pc = "read"
  /\ n <= PAGE_SIZE
  /\ offset + n <= Len(file)
  /\ buf' = SubSeq(file, offset + 1, offset + n)
  /\ offset' = offset + n
  /\ pc' = "write"
  /\ UNCHANGED << watched, out, history, fileVars >>

ReadEnds ==
  /\ pc = "read"
  /\ offset >= Len(file)
  /\ pc' = "wait"
  /\ UNCHANGED << watched, offset, buf, out, history, fileVars >>

(* Faulty variants: the rest of a short write is forgotten, *)
WriteData_Once(n) ==
  /\ pc = "write"
  /\ n <= Len(buf)
  /\ out' = out \o SubSeq(buf, 1, n)
  /\ buf' = << >>
  /\ pc' = "read"
  /\ UNCHANGED << watched, offset, history, fileVars >>

(* or one read() is made for each event. *)
WriteData_ThenWaits(n) ==
  /\ pc = "write"
  /\ n <= Len(buf)
  /\ out' = out \o SubSeq(buf, 1, n)
  /\ buf' = SubSeq(buf, n + 1, Len(buf))
  /\ pc' = IF n = Len(buf) THEN "wait" ELSE "write"
  /\ UNCHANGED << watched, offset, history, fileVars >>

(* defensive_write(): write() takes n bytes. *)
WriteData(n) ==
  /\ pc = "write"
  /\ n <= Len(buf)
  /\ out' = out \o SubSeq(buf, 1, n)
  /\ buf' = SubSeq(buf, n + 1, Len(buf))
  /\ pc' = IF n = Len(buf) THEN "read" ELSE "write"
  /\ UNCHANGED << watched, offset, history, fileVars >>

(* A system call returns -1; read() of the event may be interrupted.  That *)
(* of write() does not stop cat.                                           *)
Fails ==
  /\ pc \notin { "put", "done", "exited" }
  /\ pc' = "exited"
  /\ UNCHANGED << watched, offset, buf, out, history, fileVars >>

-----------------------------------------------------------------------------
(* cat: main() *)

CopyRead(n) ==
  /\ pc = "copy"
  /\ n <= PAGE_SIZE - 1
  /\ offset + n <= Len(file)
  /\ buf' = SubSeq(file, offset + 1, offset + n)
  /\ offset' = offset + n
  /\ pc' = "put"
  /\ UNCHANGED << watched, out, history, fileVars >>

CopyEnds ==
  /\ pc = "copy"
  /\ offset >= Len(file)
  /\ pc' = "done"
  /\ UNCHANGED << watched, offset, buf, out, history, fileVars >>

(* write() takes n bytes, or none when it fails: the result is not looked  *)
(* at, and the rest is lost.                                               *)
CopyWrite(n) ==
  /\ pc = "put"
  /\ n <= Len(buf)
  /\ out' = out \o SubSeq(buf, 1, n)
  /\ buf' = << >>
  /\ clean' = (clean /\ n = Len(buf))
  /\ pc' = "copy"
  /\ UNCHANGED << watched, offset, first, mark, fileVars >>

-----------------------------------------------------------------------------
(* The file has any length when tail or cat is started. *)
Init ==
  /\ written \in 0 .. MaxBytes
  /\ file = [k \in 1 .. written |-> k]
  /\ truncates = 0
  /\ owed = 0
  /\ event = FALSE
  /\ watched = FALSE
  /\ pc \in { "watch", "copy" }
  /\ offset = 0
  /\ buf = << >>
  /\ out = << >>
  /\ first = 0
  /\ mark = 0
  /\ clean = TRUE

Follow ==
  \/ AddWatch
  \/ SeekEnd
  \/ Wake
  \/ Stat
  \/ \E n \in 1 .. PAGE_SIZE : ReadData(n)
  \/ ReadEnds
  \/ \E n \in 1 .. PAGE_SIZE : WriteData(n)

Copy ==
  \/ \E n \in 1 .. PAGE_SIZE - 1 : CopyRead(n)
  \/ CopyEnds
  \/ \E n \in 0 .. PAGE_SIZE - 1 : CopyWrite(n)

Others ==
  \/ AppendByte
  \/ \E size \in 0 .. MaxBytes : Truncate(size)
  \/ Notify

Next == Follow \/ Copy \/ Fails \/ Others

Spec == Init /\ [][Next]_vars

(* The process runs, and the kernel queues the events it owes. *)
FairSpec == Spec /\ WF_vars(Follow) /\ WF_vars(Copy) /\ WF_vars(Notify)

-----------------------------------------------------------------------------
(* The types of the variables. *)
TypeOK ==
  /\ file \in Seq(1 .. MaxBytes)
  /\ written \in 0 .. MaxBytes
  /\ truncates \in 0 .. MaxTruncates
  /\ owed \in 0 .. MaxOwed
  /\ event \in BOOLEAN
  /\ watched \in BOOLEAN
  /\ pc \in { "watch", "open", "wait", "stat", "read", "write",
             "copy", "put", "done", "exited" }
  /\ offset \in 0 .. MaxBytes
  /\ buf \in Seq(1 .. MaxBytes)
  /\ Len(buf) <= PAGE_SIZE
  /\ pc \in { "watch", "open", "wait", "stat", "read", "copy", "done" } =>
       buf = << >>
  /\ out \in Seq(1 .. MaxBytes)
  /\ first \in 0 .. MaxBytes
  /\ mark \in 0 .. Len(out)
  /\ clean \in BOOLEAN

(* tail never sleeps over a change: when it waits, no event is there and   *)
(* none is to come, it has come to the end of the file as it is, appended  *)
(* to or truncated, although it looks at the file and waits for events in  *)
(* separate steps and many changes share an event.                         *)
SleepsAtTheEnd ==
  pc = "wait" /\ ~ event /\ owed = 0 => offset = Len(file)

(* While the file only grows, what tail has printed since it follows it,   *)
(* or since it was last found to be shorter and read from its start, is    *)
(* what it contains from there on, byte by byte: short reads and short     *)
(* writes neither repeat nor lose any.  What cat has printed is what the   *)
(* file begins with, as long as every write() takes what it is given.      *)
PrintsTheGrowth ==
  clean => SubSeq(out, mark + 1, Len(out)) \o buf
             = SubSeq(file, first + 1, offset)

(* Whatever cat loses to a short or failed write, and whatever is appended *)
(* and truncated meanwhile: what it does write comes out in the order in   *)
(* which it was written to the file, and no byte twice.  (cat watches      *)
(* nothing; tail has written nothing before it does.)                      *)
CopiesInOrder ==
  ~ watched =>
    \A k, l \in 1 .. Len(out \o buf) :
      k < l => (out \o buf)[k] < (out \o buf)[l]

(* Both: what comes out of tail.c:27-47 and of cat.c:35-49.                *)
PrintsWhatIsAppended == PrintsTheGrowth /\ CopiesInOrder

(* After any change tail comes to the end of the file and has printed what *)
(* it has read, if the file is left alone for long enough; cat ends.       *)
CatchesUp ==
  []<>(\/ pc \in { "done", "exited" }
       \/ pc = "wait" /\ offset = Len(file) /\ buf = << >>)

=============================================================================
