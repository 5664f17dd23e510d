----------------------------- MODULE LineSearch -----------------------------
(***************************************************************************)
(* fixed_grep/fgrep.c: stream_line_and_search(), the search main() calls.  *)
(* It takes line after line from a LineStream and looks for the pattern in *)
(* the memory the line is in, which is the memory of the ReadBuffer: what  *)
(* lies behind the line is there, too.                                     *)
(*                                                                         *)
(* The file does not change while it is searched.                          *)
(***************************************************************************)
EXTENDS LineStream, Pattern, Matches, Keeping, FiniteSets

CONSTANTS
  MaxPattern,  \* longer patterns are refused (1023)
  Files,       \* the files that are searched
  Patterns     \* the patterns they are searched for

ASSUME LineSearchAssumption ==
  /\ Junk \notin Byte
  /\ MaxPattern \in Nat
  /\ Files \subseteq Seq(Byte)
  /\ Patterns \subseteq Seq(Byte \ {NL}) \ { << >> }

VARIABLES
  at,      \* where stream_line_and_search() is
  lineno,
  off,
  out      \* what it has printed: [line, col]

searchVars == << pattern, at, lineno, off, out >>
grepVars == << allVars, searchVars >>

-----------------------------------------------------------------------------
(* What a byte of memory may turn out to be: outside the block, and where  *)
(* nobody has written yet, anything.                                       *)
Known(cell) == cell \in DOMAIN data /\ data[cell] # Junk

(* The j-th byte of the text memmem() is given, from its k-th byte on *)
Cell(k, j) == string.cursor + off + k + j - 1

MustMatch(k) ==
  \A j \in 1 .. pattern_len :
    Known(Cell(k, j)) /\ data[Cell(k, j)] = pattern[j]

MayMatch(k) ==
  \A j \in 1 .. pattern_len :
    Known(Cell(k, j)) => data[Cell(k, j)] = pattern[j]

(* The length of the text is that of the line, although it begins at off.  *)
text_len == string.size

(* memmem() finds the pattern k bytes behind line.cursor + off, ... *)
Found(k) ==
  /\ k + pattern_len <= text_len
  /\ MayMatch(k)
  /\ \A l \in 0 .. (k - 1) : ~ MustMatch(l)

(* ... or it does not find it. *)
NotFound == \A k \in 0 .. (text_len - pattern_len) : ~ MustMatch(k)

-----------------------------------------------------------------------------
PatternTooLong ==
  /\ at = "start"
  /\ pattern_len > MaxPattern
  /\ at' = "exited"
  /\ UNCHANGED << allVars, pattern, lineno, off, out >>

Create ==
  /\ at = "start"
  /\ pattern_len <= MaxPattern
  /\ linestream__create
  /\ at' = IF status' = "INIT_FAILED" THEN "exited" ELSE "call"
  /\ UNCHANGED << pattern, lineno, off, out >>

CallNext ==
  /\ at = "call"
  /\ Call
  /\ at' = "next"
  /\ UNCHANGED << pattern, lineno, off, out >>

NextLine ==
  /\ at = "next"
  /\ InCall
  /\ at' = IF status' = "busy" THEN "next"
           ELSE IF status' = "OK" THEN "line" ELSE "over"
  /\ UNCHANGED << pattern, lineno, off, out >>

MatchFound(k) ==
  /\ at = "line"
  /\ off < string.size
  /\ Found(k)
  /\ out' = Append(out, [line |-> lineno + 1, col |-> off + k + 1])
  /\ off' = off + k + pattern_len
  /\ UNCHANGED << allVars, pattern, at, lineno >>

(* Faulty variant: the offset is left where it is. *)
NoMatch_StaysThere ==
  /\ at = "line"
  /\ off < string.size
  /\ NotFound
  /\ UNCHANGED grepVars

NoMatch ==
  /\ at = "line"
  /\ off < string.size
  /\ NotFound
  /\ off' = string.size
  /\ UNCHANGED << allVars, pattern, at, lineno, out >>

(* Faulty variant: the next line is searched from where this one ended. *)
LineDone_KeepsOffset ==
  /\ at = "line"
  /\ off >= string.size
  /\ lineno' = lineno + 1
  /\ at' = "call"
  /\ UNCHANGED << allVars, pattern, off, out >>

LineDone ==
  /\ at = "line"
  /\ off >= string.size
  /\ lineno' = lineno + 1
  /\ off' = 0
  /\ at' = "call"
  /\ UNCHANGED << allVars, pattern, out >>

(* Clean end or error *)
Finish ==
  /\ at = "over"
  /\ readbuffer__destroy
  /\ at' = IF status = "EOF" THEN "done" ELSE "failed"
  /\ UNCHANGED << file, streamVars, pattern, lineno, off, out >>

-----------------------------------------------------------------------------
SearchInit ==
  /\ Init
  /\ file \in Files
  /\ pos = 0
  /\ pc = "idle"
  /\ scanned = 0
  /\ status = "none"
  /\ string = NoString
  /\ pattern \in Patterns
  /\ at = "start"
  /\ lineno = 0
  /\ off = 0
  /\ out = << >>

SearchNext ==
  \/ PatternTooLong
  \/ Create
  \/ CallNext
  \/ NextLine
  \/ \E k \in 0 .. SIZE_MAX : MatchFound(k)
  \/ NoMatch
  \/ LineDone
  \/ Finish

SearchSpec == SearchInit /\ [][SearchNext]_grepVars

FairSearchSpec == SearchSpec /\ WF_grepVars(SearchNext)

-----------------------------------------------------------------------------
(* The position in the file at which line n begins *)
LineStart(n) ==
  CHOOSE p \in 1 .. Len(file) + 1 :
    /\ p = 1 \/ file[p - 1] = NL
    /\ Cardinality({ k \in 1 .. p - 1 : file[k] = NL }) = n - 1

Position(report) == LineStart(report.line) + report.col - 1

(* What is reported lies within the line it is reported for. *)
InsideItsLine(report) ==
  \A p \in LineStart(report.line) .. (Position(report) + pattern_len - 1) :
    p <= Len(file) /\ file[p] # NL

Reports == [line : Nat \ {0}, col : Nat \ {0}]

Inside == Keep(out, { report \in Reports : InsideItsLine(report) })

(* Of the reports that lie within a line, every one is right, none is      *)
(* missing, and their line and column numbers are those of the leftmost    *)
(* matches that do not overlap: wherever read() cuts the lines, however    *)
(* the buffer moves them, and whatever memory lies behind them.            *)
Reference ==
  INSTANCE Search WITH
    text <- file,
    at <- IF at = "line"
          THEN LineStart(lineno + 1)
               + (IF off < string.size THEN off ELSE string.size)
          ELSE (pos - length) + 1,
    reports <- [k \in DOMAIN Inside |-> Position(Inside[k])],
    state <- CASE at \in { "failed", "exited" } -> "abandoned"
               [] at = "done" -> "complete"
               [] OTHER -> "searching"

ReferenceSpec == Reference!Spec

(* The search comes to an end. *)
SearchEnds == <>(at \in { "done", "failed", "exited" })

(* fgrep.c:18, "Verification of the output should be done using grep with  *)
(* fixed string search": what is reported for a line is found in it.       *)
ReportsAreInside == \A k \in DOMAIN out : InsideItsLine(out[k])

=============================================================================
