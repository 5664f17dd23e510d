----------------------------- MODULE LineStream -----------------------------
(***************************************************************************)
(* commons/src/linestream/src/linestream.c: the lines of a descriptor, one *)
(* per call, as views into a ReadBuffer that is filled by read(2).         *)
(*                                                                         *)
(* The buffer is the one of ReadBuffer, whose actions are parts of the     *)
(* steps here.  The file may grow at any time; read(2) returns any number  *)
(* of the bytes that are there, or fails.                                  *)
(***************************************************************************)
EXTENDS ReadBuffer

CONSTANTS
  NL,                   \* the newline character
  READ_BUFFERING_SIZE,  \* the space asked for before each read(2)
  PageSize,             \* the initial capacity of the buffer
  MaxFile               \* bound: the length of the file

ASSUME StreamAssumption ==
  /\ NL \in Byte
  /\ READ_BUFFERING_SIZE \in 1 .. SIZE_MAX
  /\ PageSize \in 1 .. SIZE_MAX
  /\ MaxFile \in Nat

VARIABLES
  file,     \* the bytes of the file
  pos,      \* the offset of the descriptor: so many have been read
  pc,       \* where linestream__next() is; "idle" between calls
  scanned,  \* its local variable
  status,   \* how the last call ended, "busy" during a call
  string    \* the LSString it returned: [cursor, size]

bufferVars == vars
streamVars == << pos, pc, scanned, status, string >>
allVars == << bufferVars, file, streamVars >>

view == readbuffer__get_read_view

NoString == [cursor |-> 0, size |-> 0]

Return(code, view_) ==
  /\ pc' = "idle"
  /\ scanned' = 0
  /\ status' = code
  /\ string' = view_

-----------------------------------------------------------------------------
(* linestream__create(): both allocations, and the first one released when *)
(* the second fails.                                                       *)
linestream__create ==
  /\ pc = "idle"
  /\ \/ InitFails /\ Return("INIT_FAILED", NoString)
     \/ readbuffer__init(PageSize) /\ Return("none", NoString)
  /\ UNCHANGED << file, pos >>

linestream__destroy ==
  /\ pc = "idle"
  /\ readbuffer__destroy
  /\ Return("none", NoString)
  /\ UNCHANGED << file, pos >>

NullStream ==
  /\ ~ exists
  /\ Return("NULL_ARG", NoString)
  /\ UNCHANGED << bufferVars, file, pos >>

-----------------------------------------------------------------------------
(* linestream__next() *)

Call ==
  /\ pc = "idle"
  /\ exists
  /\ pc' = "scan"
  /\ scanned' = 0
  /\ status' = "busy"
  /\ string' = NoString
  /\ UNCHANGED << bufferVars, file, pos >>

(* What memchr() finds: the first newline behind the first `scanned` bytes *)
(* of the view.                                                            *)
FirstNewline(k) ==
  /\ k \in scanned + 1 .. length
  /\ view[k] = NL
  /\ \A j \in scanned + 1 .. k - 1 : view[j] # NL

ScanHit ==
  /\ pc = "scan"
  /\ \E k \in 1 .. length :
       /\ FirstNewline(k)
       /\ readbuffer__consume(k)
       /\ Return("OK", [cursor |-> offset, size |-> k - 1])
  /\ UNCHANGED << file, pos >>

(* Faulty variant: what has been examined includes what is yet to come. *)
ScanMiss_CountsSpace ==
  /\ pc = "scan"
  /\ \A k \in 1 .. length : ~ FirstNewline(k)
  /\ scanned' = readbuffer__get_write_cursor_limit + length
  /\ pc' = "assure"
  /\ UNCHANGED << bufferVars, file, pos, status, string >>

ScanMiss ==
  /\ pc = "scan"
  /\ \A k \in 1 .. length : ~ FirstNewline(k)
  /\ scanned' = length
  /\ pc' = "assure"
  /\ UNCHANGED << bufferVars, file, pos, status, string >>

(* Faulty variant: space for the whole buffer once more is asked for. *)
Assure_AsksForMore ==
  /\ pc = "assure"
  /\ readbuffer__assure(IF capacity + READ_BUFFERING_SIZE > SIZE_MAX
                        THEN READ_BUFFERING_SIZE
                        ELSE capacity + READ_BUFFERING_SIZE)
  /\ IF result' = "NONE"
     THEN pc' = "read" /\ UNCHANGED << scanned, status, string >>
     ELSE Return("ALLOC_FAILED", NoString)
  /\ UNCHANGED << file, pos >>

Assure ==
  /\ pc = "assure"
  /\ readbuffer__assure(READ_BUFFERING_SIZE)
  /\ IF result' = "NONE"
     THEN pc' = "read" /\ UNCHANGED << scanned, status, string >>
     ELSE Return("ALLOC_FAILED", NoString)
  /\ UNCHANGED << file, pos >>

ReadFails ==
  /\ pc = "read"
  /\ Return("READ_FAILED", NoString)
  /\ UNCHANGED << bufferVars, file, pos >>

(* read(2) returns n bytes, which are committed. *)
ReadData(n) ==
  /\ pc = "read"
  /\ n <= Len(file) - pos
  /\ n <= readbuffer__get_write_cursor_limit
  /\ readbuffer__commit_write(SubSeq(file, pos + 1, pos + n))
  /\ pos' = pos + n
  /\ IF result' = "NONE"
     THEN pc' = "scan" /\ UNCHANGED << scanned, status, string >>
     ELSE Return("ALLOC_FAILED", NoString)
  /\ UNCHANGED file

(* Faulty variant: the residual line is returned and not consumed. *)
ReadEnds_KeepsResidual ==
  /\ pc = "read"
  /\ pos = Len(file)
  /\ Return(IF length = 0 THEN "EOF" ELSE "OK",
            [cursor |-> offset, size |-> length])
  /\ UNCHANGED << bufferVars, file, pos >>

(* Faulty variant: the loop goes on at the end of the file. *)
ReadEnds_TriesAgain ==
  /\ pc = "read"
  /\ pos = Len(file)
  /\ pc' = "scan"
  /\ UNCHANGED << bufferVars, file, pos, scanned, status, string >>

(* read(2) returns 0: the residual line, if there is one. *)
ReadEnds ==
  /\ pc = "read"
  /\ pos = Len(file)
  /\ IF length = 0
     THEN Return("EOF", NoString) /\ UNCHANGED bufferVars
     ELSE /\ readbuffer__consume(length)
          /\ Return("OK", [cursor |-> offset, size |-> length])
  /\ UNCHANGED << file, pos >>

-----------------------------------------------------------------------------
(* Somebody else appends to the file. *)
Grow(byte) ==
  /\ Len(file) < MaxFile
  /\ file' = Append(file, byte)
  /\ UNCHANGED << bufferVars, streamVars >>

StreamInit ==
  /\ Init
  /\ file = << >>
  /\ pos = 0
  /\ pc = "idle"
  /\ scanned = 0
  /\ status = "none"
  /\ string = NoString

InCall ==
  \/ ScanHit
  \/ ScanMiss
  \/ Assure
  \/ ReadFails
  \/ \E n \in 1 .. MaxFile : ReadData(n)
  \/ ReadEnds

StreamNext ==
  \/ linestream__create
  \/ linestream__destroy
  \/ NullStream
  \/ Call
  \/ InCall
  \/ \E byte \in Byte : Grow(byte)

StreamSpec == StreamInit /\ [][StreamNext]_allVars

FairStreamSpec == StreamSpec /\ WF_allVars(InCall)

-----------------------------------------------------------------------------
(* `scanned` "correctly resumes scanning": in every round of the loop the  *)
(* bytes it skips are in the view and none of them is a newline, although  *)
(* the view has moved and grown in between.                                *)
SkippedHasNoNewline ==
  pc # "idle" =>
    scanned <= length /\ \A k \in 1 .. scanned : view[k] # NL

(* The bytes of the file between two newlines, or before the first one, or *)
(* behind the last, among those that have been read.                       *)
Runs ==
  { r \in (1 .. pos + 1) \X (0 .. pos) :
      \A k \in r[1] .. r[2] : file[k] # NL }

(* The buffer is never larger than the longest line read so far calls for, *)
(* however many lines are read through it.                                 *)
BufferFollowsLongestLine ==
  \/ capacity <= PageSize
  \/ \E r \in Runs : capacity < 2 * ((r[2] + 1 - r[1]) + READ_BUFFERING_SIZE)

(* The bytes the caller sees through the string it was returned *)
Shown == [k \in 1 .. string.size |-> data[string.cursor + k - 1]]

Unread == SubSeq(file, pos + 1, Len(file))

(* The stream hands out the lines of the file: across short reads, growth  *)
(* and compaction of the buffer, a growing file, errors in the middle of a *)
(* line; and the string is intact until the next call.                     *)
Stream == INSTANCE Lines WITH rest <- view \o Unread, line <- Shown

LinesSpec == Stream!Spec

(* A call returns, unless the line goes on forever. *)
CallReturns == pc # "idle" ~> pc = "idle"

=============================================================================
