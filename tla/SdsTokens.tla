------------------------------ MODULE SdsTokens ------------------------------
(***************************************************************************)
(* The calls of commons/src/sds that cut a text into an array of strings:  *)
(* sdssplitlen() at a separator, sdssplitargs() at blanks, with quotes.    *)
(* The caller of SdsApi makes them while it holds no string; it frees the  *)
(* array with sdsfreesplitres().  One step is one round of a loop.         *)
(***************************************************************************)
EXTENDS SdsApi

CONSTANTS
  Slots,    \* how many tokens sdssplitlen() makes room for first, 5
  Split,    \* records [text, sep]: the texts passed to sdssplitlen()
  Line      \* records [line, args]: the lines passed to sdssplitargs(),
            \* with what they stand for, NULL where they are malformed

SplitCall ==
  { [op |-> "sdssplitlen", text |-> c.text, sep |-> c.sep] : c \in Split }

ArgsCall ==
  { [op |-> "sdssplitargs", line |-> c.line, args |-> c.args] : c \in Line }

ASSUME TokensAssumption ==
  /\ Slots \in Nat \ {0}
  /\ \A c \in Split : c.text \in Seq(Byte) /\ c.sep \in Seq(Byte)
  /\ \A c \in Split : Len(c.text) <= MaxBlock
  /\ \A c \in Line : c.line \in Seq(Byte \ {NUL})
  /\ NoCall \notin [op : { "sdsfreesplitres" }, of : SplitCall \cup ArgsCall]

VARIABLES
  tokens,    \* the tokens in the array, some NULL
  slots,     \* the size of the array, 0 while there is none
  start,     \* where the token begins, in sdssplitlen()
  p,         \* how far the text has been read
  mode,      \* in sdssplitargs(): "blank", or "plain", "inq", "insq" in a
             \* token
  current    \* the token, or NULL

tokenVars == << tokens, slots, start, p, mode, current >>

vars == << stringVars, tokenVars >>

Reading(op) == Calling(op) /\ UNCHANGED << s, f, base, buflen >>

-----------------------------------------------------------------------------
(* The end of a call *)

Holds(toks) == Cardinality({ k \in DOMAIN toks : toks[k] # NULL })

(* The caller gets an array of n slots, frees it next, and then goes on.   *)
Give(toks, n) ==
  /\ tokens' = toks
  /\ slots' = n
  /\ call' = [op |-> "sdsfreesplitres", of |-> call]
  /\ returned' = OK
  /\ start' = 0 /\ p' = 0 /\ mode' = "blank" /\ current' = NULL

GiveUp(r) ==
  /\ tokens' = << >>
  /\ slots' = 0
  /\ call' = NoCall
  /\ returned' = r
  /\ start' = 0 /\ p' = 0 /\ mode' = "blank" /\ current' = NULL

(* Faulty variant: only the array is freed. *)
CleanUp_ArrayOnly ==
  /\ heap' = heap - (IF slots = 0 THEN 0 ELSE 1)
  /\ GiveUp(NULL)
  /\ UNCHANGED lost

(* The tokens, the array, and the token that is being made are freed.      *)
CleanUp ==
  /\ heap' = heap - Holds(tokens) - (IF slots = 0 THEN 0 ELSE 1)
                  - Holds(<< current >>)
  /\ GiveUp(NULL)
  /\ UNCHANGED lost

(* What the process dies of is not cleaned up. *)
Die == GiveUp(SIGSEGV) /\ UNCHANGED << heap, lost >>

FreeSplitRes ==
  /\ Reading("sdsfreesplitres")
  /\ heap' = heap - Holds(tokens) - 1
  /\ GiveUp(OK)
  /\ UNCHANGED lost

-----------------------------------------------------------------------------
(* sdssplitlen() *)

CallSplit ==
  /\ s = NULL
  /\ \E c \in SplitCall : Begin(c)
  /\ UNCHANGED tokenVars

SplitBegins ==
  /\ Reading("sdssplitlen")
  /\ slots = 0
  /\ \/ GiveUp(NULL) /\ UNCHANGED heap
     \/ /\ Len(call.sep) >= 1
        /\ Len(call.text) > 0
        /\ slots' = Slots
        /\ heap' = heap + 1
        /\ UNCHANGED << call, returned, tokens, start, p, mode, current >>
  /\ UNCHANGED lost

(* Faulty variant: the last place for a separator is left out. *)
More_OneShort == p < Len(call.text) - Len(call.sep)

More == p < Len(call.text) - (Len(call.sep) - 1)

Separator == SubSeq(call.text, p + 1, p + Len(call.sep)) = call.sep

(* Room for the next element and the final one: the new size, or NULL *)
Room == IF slots < Len(tokens) + 2 THEN { 2 * slots, NULL } ELSE { slots }

SplitFinds ==
  /\ Reading("sdssplitlen")
  /\ slots > 0 /\ More /\ Separator
  /\ \E n \in Room, token \in sdsnewlen(SubSeq(call.text, start + 1, p)) :
       IF NULL \in { n, token }
       THEN CleanUp
       ELSE /\ tokens' = Append(tokens, token)
            /\ slots' = n
            /\ heap' = heap + 1
            /\ start' = p + Len(call.sep)
            /\ p' = p + Len(call.sep)
            /\ UNCHANGED << call, returned, mode, current, lost >>

SplitSkips ==
  /\ Reading("sdssplitlen")
  /\ slots > 0 /\ More /\ ~Separator
  /\ \E n \in Room :
       IF n = NULL
       THEN CleanUp
       ELSE /\ slots' = n
            /\ p' = p + 1
            /\ UNCHANGED << call, returned, tokens, start, mode, current,
                            heap, lost >>

(* "We are sure there is room in the tokens array." *)
SplitEnds ==
  /\ Reading("sdssplitlen")
  /\ slots > 0 /\ ~More
  /\ \E token \in sdsnewlen(SubSeq(call.text, start + 1, Len(call.text))) :
       IF token = NULL
       THEN CleanUp
       ELSE /\ Give(Append(tokens, token), slots)
            /\ heap' = heap + 1
            /\ UNCHANGED lost

-----------------------------------------------------------------------------
(* sdssplitargs() *)

CallSplitArgs ==
  /\ s = NULL
  /\ \E c \in ArgsCall : Begin(c)
  /\ UNCHANGED tokenVars

(* The k-th character from p on; a line ends with a NUL. *)
At(k) == IF p + k < Len(call.line) THEN call.line[p + k + 1] ELSE NUL

isspace(b) == b \in 9 .. 13 \cup { 32 }

HexDigits == 48 .. 57 \cup 97 .. 102 \cup 65 .. 70

hex_digit_to_int(b) ==
  CASE b \in 48 .. 57 -> b - 48
    [] b \in 97 .. 102 -> b - 87
    [] OTHER -> b - 55

(* What the letter of an escape stands for *)
Unescape(b) ==
  CASE b = 110 -> 10 [] b = 114 -> 13 [] b = 116 -> 9
    [] b = 98 -> 8 [] b = 97 -> 7 [] OTHER -> b

(* What there is at p: a byte of the token ("byte"), the start of a quoted *)
(* part ("inq", "insq"), the end of the token ("done"), or something       *)
(* malformed ("err"); with the number of characters it takes.              *)
Take(b, n) == [is |-> "byte", byte |-> b, width |-> n]
Mark(m) == [is |-> m, width |-> IF At(0) = NUL THEN 0 ELSE 1]

(* Faulty variant: what follows a closing quote is not looked at. *)
Closing_Anything == Mark("done")

(* A closing quote must be followed by a space or nothing at all. *)
Closing == Mark(IF At(1) # NUL /\ ~isspace(At(1)) THEN "err" ELSE "done")

InQuotes ==
  IF At(0) = 92 /\ At(1) = 120 /\ At(2) \in HexDigits /\ At(3) \in HexDigits
  THEN Take(16 * hex_digit_to_int(At(2)) + hex_digit_to_int(At(3)), 4)
  ELSE IF At(0) = 92 /\ At(1) # NUL THEN Take(Unescape(At(1)), 2)
  ELSE IF At(0) = 34 THEN Closing
  ELSE IF At(0) = NUL THEN Mark("err")
  ELSE Take(At(0), 1)

InSingleQuotes ==
  IF At(0) = 92 /\ At(1) = 39 THEN Take(39, 2)
  ELSE IF At(0) = 39 THEN Closing
  ELSE IF At(0) = NUL THEN Mark("err")
  ELSE Take(At(0), 1)

Unquoted ==
  CASE At(0) \in { 32, 10, 13, 9, NUL } -> Mark("done")
    [] At(0) = 34 -> Mark("inq")
    [] At(0) = 39 -> Mark("insq")
    [] OTHER -> Take(At(0), 1)

Lexeme ==
  CASE mode = "inq" -> InQuotes
    [] mode = "insq" -> InSingleQuotes
    [] OTHER -> Unquoted

Blank == Reading("sdssplitargs") /\ mode = "blank"
InToken == Reading("sdssplitargs") /\ mode # "blank"

ArgsSkip ==
  /\ Blank
  /\ isspace(At(0))
  /\ p' = p + 1
  /\ UNCHANGED << call, returned, tokens, slots, start, mode, current,
                  heap, lost >>

ArgsBegin ==
  /\ Blank
  /\ At(0) # NUL /\ ~isspace(At(0))
  /\ \E r \in sdsnewlen(<< >>) :
       /\ current' = r
       /\ heap' = heap + (IF r = NULL THEN 0 ELSE 1)
  /\ mode' = "plain"
  /\ UNCHANGED << call, returned, tokens, slots, start, p, lost >>

ArgsByte ==
  /\ InToken
  /\ Lexeme.is = "byte"
  /\ IF current = NULL
     THEN Die
     ELSE \E r \in sdscatlen(current, << Lexeme.byte >>) :
            /\ current' = r
            /\ lost' = lost + (IF r = NULL THEN 1 ELSE 0)
            /\ p' = p + Lexeme.width
            /\ UNCHANGED << call, returned, tokens, slots, start, mode,
                            heap >>

ArgsQuote ==
  /\ InToken
  /\ Lexeme.is \in { "inq", "insq" }
  /\ mode' = Lexeme.is
  /\ p' = p + Lexeme.width
  /\ UNCHANGED << call, returned, tokens, slots, start, current, heap,
                  lost >>

(* The result of s_realloc() is not looked at. *)
ArgsDone ==
  /\ InToken
  /\ Lexeme.is = "done"
  /\ \/ Die
     \/ /\ tokens' = Append(tokens, current)
        /\ slots' = Len(tokens) + 1
        /\ heap' = heap + (IF slots = 0 THEN 1 ELSE 0)
        /\ current' = NULL
        /\ mode' = "blank"
        /\ p' = p + Lexeme.width
        /\ UNCHANGED << call, returned, start, lost >>

ArgsErr ==
  /\ InToken
  /\ Lexeme.is = "err"
  /\ CleanUp

(* "Even on empty input string return something not NULL." *)
ArgsReturn ==
  /\ Blank
  /\ At(0) = NUL
  /\ \/ slots > 0 /\ Give(tokens, slots) /\ UNCHANGED heap
     \/ slots = 0 /\ Give(<< >>, 1) /\ heap' = heap + 1
     \/ slots = 0 /\ GiveUp(NULL) /\ UNCHANGED heap
  /\ UNCHANGED lost

-----------------------------------------------------------------------------
Init ==
  /\ StringInit
  /\ tokens = << >>
  /\ slots = 0
  /\ start = 0
  /\ p = 0
  /\ mode = "blank"
  /\ current = NULL

Splitting ==
  \/ CallSplit \/ SplitBegins \/ SplitFinds \/ SplitSkips \/ SplitEnds
  \/ CallSplitArgs \/ ArgsSkip \/ ArgsBegin \/ ArgsByte \/ ArgsQuote
  \/ ArgsDone \/ ArgsErr \/ ArgsReturn
  \/ FreeSplitRes

Next ==
  \/ StringNext /\ UNCHANGED tokenVars
  \/ Splitting

Spec == Init /\ [][Next]_vars

-----------------------------------------------------------------------------
(* Properties *)

(* A string fits into its block with its terminator, its header says how   *)
(* large the block is, and no token is stored behind its array: whatever   *)
(* headers the string went through, a caller that trusts sdsavail() stays  *)
(* inside the block (sds.c 204-291, 842-869).                              *)
StringsFit ==
  /\ s # NULL =>
       /\ HdrSize[s.type] + Len(s.buf) <= s.size
       /\ s.len <= sdsalloc(s)
       /\ s.type # SDS_TYPE_5 => s.size = HdrSize[s.type] + sdsalloc(s) + 1
       /\ call = NoCall /\ Alive =>
            Len(s.buf) = s.len + 1 /\ s.buf[s.len + 1] = NUL
  /\ Len(tokens) <= slots

InTheMaking == call # NoCall /\ call.op \in Builds

(* The string and the room behind it, whatever header they are in *)
Bytes ==
  CASE s = NULL \/ InTheMaking \/ ~ Alive -> NULL
    [] Calling("sdscatfmt") /\ f > 0 -> SubSeq(s.buf, 1, base)
    [] OTHER -> Content(s)

Space ==
  IF s = NULL \/ InTheMaking \/ ~ Alive THEN 0 ELSE sdsavail(s)

Recorded == s = NULL \/ s.type # SDS_TYPE_5

(* Each call does to the bytes of the string, and to the free space where  *)
(* it is a matter of the call, what its comment says, whatever header they *)
(* are behind, but for a NUL that sdstrim() cuts off and for the space     *)
(* that sdsclear() cannot record; a call that fails leaves them alone, and *)
(* only the calls that ignore a NULL of malloc() die of it (sds.c 89-794,  *)
(* 898-921, 1092-1129).                                                    *)
Strings == INSTANCE SdsValue WITH
  value <- Bytes, room <- Space, recorded <- Recorded,
  Departures <- { "sdstrim", "sdsclear" }


(* What the comments say, to the letter.  sds.c:190, of sdsclear(): "all   *)
(* the existing buffer is not discarded but set as free space so that next *)
(* append operations will not require allocations up to the number of      *)
(* bytes previously available."                                            *)
Comments == INSTANCE SdsValue WITH
  value <- Bytes, room <- Space, recorded <- Recorded, Departures <- {}

CommentsHold == Comments!Spec

(* Whatever way a call ends, the blocks left are the ones that somebody    *)
(* can still free: no error path of sdscatvprintf(), sdssplitlen() or      *)
(* sdssplitargs() forgets one or frees one twice.  Lost are only the       *)
(* strings on which sdscatlen() failed in a call that overwrites its       *)
(* pointer with the NULL (sds.c 539-571, 874-889, 1071-1080).              *)
NothingLeaks ==
  Alive => heap = lost + Holds(tokens) + Holds(<< current >>)
                   + (IF slots > 0 THEN 1 ELSE 0)
                   + (IF Calling("sdscatvprintf") THEN OnHeap ELSE 0)

Given(op) == Calling("sdsfreesplitres") /\ call.of.op = op

Contents(toks) == [k \in DOMAIN toks |-> Content(toks[k])]

(* The tokens of sdssplitlen(), joined at the separator, are the text, and *)
(* none of them holds the separator (sds.c 835-873, 1120-1129).            *)
SplitIsExact ==
  Given("sdssplitlen") =>
    LET sep == call.of.sep
        toks == Contents(tokens)
    IN  /\ FlattenSeq(JoinPieces(toks, sep)) = call.of.text
        /\ \A k \in DOMAIN toks : \A i \in 0 .. Len(toks[k]) - Len(sep) :
             SubSeq(toks[k], i + 1, i + Len(sep)) # sep

(* sdssplitargs() takes a line apart into the arguments it was made of by  *)
(* sdscatrepr() or by hand, and refuses one with unbalanced quotes or with *)
(* something behind a closing quote; a token is missing only where malloc()*)
(* failed (sds.c 965-972).                                                 *)
ArgsRoundTrip ==
  /\ Given("sdssplitargs") =>
       /\ call.of.args # NULL
       /\ Len(tokens) = Len(call.of.args)
       /\ \A k \in DOMAIN tokens :
            tokens[k] # NULL => Content(tokens[k]) = call.of.args[k]
  /\ (Calling("sdssplitargs") /\ mode # "blank" /\ Lexeme.is = "err") =>
       call.args = NULL

=============================================================================
