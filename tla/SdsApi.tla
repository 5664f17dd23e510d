------------------------------- MODULE SdsApi --------------------------------
(***************************************************************************)
(* A caller of commons/src/sds: it holds one string at a time and makes    *)
(* one call after the other, in any order.  A call takes one step, or one  *)
(* for each round of its loop when it allocates in it.  SdsTokens adds the *)
(* calls that return an array of strings.                                  *)
(***************************************************************************)
EXTENDS Sds

CONSTANTS
  StaticBuf,   \* sizeof(staticbuf) in sdscatvprintf()
  MaxLen,      \* bound: the longest string worked on; a longer one is
               \* freed
  Text,        \* the byte sequences passed
  Raw,         \* the ones passed to sdscatrepr()
  Size,        \* the lengths asked for
  Position,    \* the positions passed to sdsrange()
  Format,      \* the formats passed, sequences of items
  OK,          \* returned by a call that has not failed
  NoCall

ASSUME ApiAssumption ==
  /\ StaticBuf \in Nat
  /\ MaxLen \in Nat
  /\ Text \cup Raw \subseteq Seq(Byte)
  /\ \A t \in Text \cup Raw : Len(t) <= MaxBlock
  /\ Size \subseteq 0 .. SIZE_MAX
  /\ Position \subseteq Int

(* What sdscatfmt() finds in a format, with the argument that belongs to it *)
Item ==
  [kind : { "c", "%%" }, text : { << b >> : b \in Byte }]
    \cup [kind : { "end" }, text : { << >> }]
    \cup [kind : { "%s" }, text : Seq(Byte)]
    \cup [kind : { "%i" }, num : (-LLONG_MAX - 1) .. LLONG_MAX]
    \cup [kind : { "%u" }, num : 0 .. (2 * LLONG_MAX + 1)]

(* The characters of a format *)
StrLen(format) ==
  LET Pairs == { k \in DOMAIN format : format[k].kind \notin { "c", "end" } }
  IN  Len(format) + Cardinality(Pairs)

(* What is passed lies in memory, and the sum sdscatfmt() begins with does *)
(* not wrap.                                                               *)
ASSUME FormatAssumption ==
  /\ Format \subseteq Seq(Item)
  /\ \A format \in Format :
       /\ 2 * (MaxLen + StrLen(format)) <= SIZE_MAX
       /\ \A k \in 1 .. Len(format) : Len(FormatText(format[k])) <= MaxBlock

VARIABLES
  s,         \* the string, or NULL
  call,      \* the call in progress, or NoCall
  f,         \* the round of its loop, 0 before the first one
  base,      \* the length of the string when sdscatfmt() was called
  buflen,    \* the size of buf in sdscatvprintf()
  heap,      \* the blocks allocated besides the string
  lost,      \* those among them that nobody holds any more
  returned   \* how the last call ended

stringVars == << s, call, f, base, buflen, heap, lost, returned >>

Alive == returned \notin { ABORT, SIGSEGV }

-----------------------------------------------------------------------------
(* The caller *)

(* bound: the caller stops after one lost block. *)
Begin(c) ==
  /\ call = NoCall
  /\ Alive
  /\ lost = 0
  /\ call' = c
  /\ UNCHANGED << s, f, base, buflen, heap, lost, returned >>

Works == s # NULL /\ s.len <= MaxLen

(* The text is the content at init; with SDS_NOINIT it is what happens to  *)
(* be in the block.  sdsnew(), sdsempty() and sdsfromlonglong() pass on    *)
(* their own.                                                              *)
CallNew ==
  /\ s = NULL
  /\ \/ \E t \in Text : Begin([op |-> "sdsnewlen", text |-> t])
     \/ \E t \in Raw :
          Begin([op |-> "sdscatrepr", text |-> t, pieces |-> ReprPieces(t)])
     \/ \E argv \in { << >> } \cup [1 .. 2 -> Text],
           sep \in { t \in Text : Len(t) = 1 } :
          /\ Len(FlattenSeq(argv)) < MaxLen
          /\ Begin([op |-> "sdsjoinsds", argv |-> argv, sep |-> sep,
                    pieces |-> JoinPieces(argv, sep)])

CallWithoutArgument ==
  \/ s # NULL /\ Begin([op |-> "sdsfree"])
  \/ /\ Works
     /\ \E op \in { "sdsdup", "sdsclear", "sdsRemoveFreeSpace",
                    "sdstolower", "sdstoupper" } :
          Begin([op |-> op])

CallWithText ==
  /\ Works
  /\ \E t \in Text :
       \/ Begin([op |-> "sdscpylen", text |-> t])
       \/ Begin([op |-> "sdstrim", cset |-> Range(t) \ {NUL}])
       \/ /\ s.len + Len(t) <= MaxLen
          /\ \/ Begin([op |-> "sdscatlen", text |-> t])
             \/ \E fmtlen \in Size :
                  2 * fmtlen <= SIZE_MAX
                    /\ Begin([op |-> "sdscatvprintf", fmtlen |-> fmtlen,
                              text |-> t])

(* A size_t overflow that the assertion does not see takes a string whose  *)
(* length and growth do not fit into one together.                         *)
CallWithSize ==
  /\ Works
  /\ \E n \in Size :
       \/ s.len + n <= SIZE_MAX /\ Begin([op |-> "sdsMakeRoomFor", size |-> n])
       \/ (n <= MaxLen \/ n > MaxBlock)
            /\ Begin([op |-> "sdsgrowzero", size |-> n])

(* The caller has stored some bytes in the room behind the end, or takes   *)
(* some back.                                                              *)
CallIncrLen ==
  /\ Works
  /\ \/ \E t \in Text :
          /\ Len(t) <= sdsavail(s)
          /\ s.len + Len(t) <= MaxLen
          /\ Begin([op |-> "sdsIncrLen", incr |-> Len(t), stored |-> t])
     \/ \E n \in 1 .. s.len :
          Begin([op |-> "sdsIncrLen", incr |-> -n, stored |-> << >>])

CallWithPosition ==
  /\ Works
  /\ \/ \E k \in 1 .. s.len : Begin([op |-> "sdsupdatelen", at |-> k])
     \/ \E first, last \in Position :
          Begin([op |-> "sdsrange", first |-> first, last |-> last])
     \/ \E from, to \in Text :
          /\ Len(from) = 2 /\ Len(to) = 2
          /\ Begin([op |-> "sdsmapchars", from |-> from, to |-> to])

CallFormat ==
  /\ Works
  /\ \E format \in Format : Begin([op |-> "sdscatfmt", format |-> format])

Caller ==
  \/ CallNew
  \/ CallWithoutArgument
  \/ CallWithText
  \/ CallWithSize
  \/ CallIncrLen
  \/ CallWithPosition
  \/ CallFormat

-----------------------------------------------------------------------------
(* The calls that take one step *)

Calling(op) == call # NoCall /\ call.op = op

(* Where a call fails the caller still holds what it held. *)
Return(results) ==
  /\ \E r \in results :
       /\ s' = IF r \in Failed THEN s ELSE r
       /\ returned' = IF r \in Failed THEN r ELSE OK
  /\ call' = NoCall
  /\ f' = 0
  /\ base' = 0
  /\ buflen' = 0

Returns(op, results) ==
  Calling(op) /\ Return(results) /\ UNCHANGED << heap, lost >>

NewLen == Returns("sdsnewlen", sdsnewlen(call.text))

(* The caller goes on with the copy and frees the original. *)
Dup == Returns("sdsdup", sdsnewlen(Content(s)))

Free ==
  /\ Calling("sdsfree")
  /\ s' = NULL
  /\ returned' = OK
  /\ call' = NoCall
  /\ UNCHANGED << f, base, buflen, heap, lost >>

Clear == Returns("sdsclear", sdsclear(s))
UpdateLen == Returns("sdsupdatelen", sdsupdatelen(s, call.at))
MakeRoomFor == Returns("sdsMakeRoomFor", sdsMakeRoomFor(s, call.size))
RemoveFreeSpace == Returns("sdsRemoveFreeSpace", sdsRemoveFreeSpace(s))
IncrLen == Returns("sdsIncrLen", sdsIncrLen(s, call.incr, call.stored))
GrowZero == Returns("sdsgrowzero", sdsgrowzero(s, call.size))
CatLen == Returns("sdscatlen", sdscatlen(s, call.text))
CpyLen == Returns("sdscpylen", sdscpylen(s, call.text))
Trim == Returns("sdstrim", sdstrim(s, call.cset))
SubRange == Returns("sdsrange", sdsrange(s, call.first, call.last))
ToLower == Returns("sdstolower", sdstolower(s))
ToUpper == Returns("sdstoupper", sdstoupper(s))
MapChars == Returns("sdsmapchars", sdsmapchars(s, call.from, call.to))

OneStep ==
  \/ NewLen \/ Dup \/ Free \/ Clear \/ UpdateLen \/ MakeRoomFor
  \/ RemoveFreeSpace \/ IncrLen \/ GrowZero \/ CatLen \/ CpyLen \/ Trim
  \/ SubRange \/ ToLower \/ ToUpper \/ MapChars

-----------------------------------------------------------------------------
(* sdscatfmt() *)

(* The string is the caller's own; the call dies or goes on with it. *)
Round(results) ==
  \E r \in results :
    /\ s' = IF r \in Failed THEN s ELSE r
    /\ returned' = IF r \in Failed THEN r ELSE returned
    /\ call' = IF r \in Failed THEN NoCall ELSE call
    /\ f' = IF r \in Failed THEN 0 ELSE f + 1
    /\ base' = IF r \in Failed THEN 0 ELSE IF f = 0 THEN s.len ELSE base

FormatBegins ==
  /\ Calling("sdscatfmt")
  /\ f = 0
  /\ Round({ IF r = NULL THEN SIGSEGV ELSE r :
               r \in sdsMakeRoomFor(s, s.len + 2 * StrLen(call.format)) })
  /\ UNCHANGED << buflen, heap, lost >>

FormatNext ==
  /\ Calling("sdscatfmt")
  /\ f \in 1 .. Len(call.format)
  /\ Round(FormatItem(s, call.format[f]))
  /\ UNCHANGED << buflen, heap, lost >>

FormatEnds ==
  /\ Calling("sdscatfmt")
  /\ f > Len(call.format)
  /\ Return({ [s EXCEPT !.buf = Append(Content(s), NUL)] })
  /\ UNCHANGED << heap, lost >>

-----------------------------------------------------------------------------
(* sdscatvprintf(): in rounds 1 and 2 buf is on the stack and on the heap. *)

OnHeap == IF f = 2 THEN 1 ELSE 0

PrintfBegins ==
  /\ Calling("sdscatvprintf")
  /\ f = 0
  /\ IF 2 * call.fmtlen > StaticBuf
     THEN \/ Return({ NULL }) /\ UNCHANGED heap
          \/ /\ heap' = heap + 1
             /\ buflen' = 2 * call.fmtlen
             /\ f' = 2
             /\ UNCHANGED << s, call, base, returned >>
     ELSE /\ buflen' = StaticBuf
          /\ f' = 1
          /\ UNCHANGED << s, call, base, heap, returned >>
  /\ UNCHANGED lost

(* vsnprintf() would have needed more. *)
PrintfGrows ==
  /\ Calling("sdscatvprintf")
  /\ f > 0
  /\ Len(call.text) >= buflen
  /\ \/ Return({ NULL }) /\ heap' = heap - OnHeap
     \/ /\ heap' = heap - OnHeap + 1
        /\ buflen' = Len(call.text) + 1
        /\ f' = 2
        /\ UNCHANGED << s, call, base, returned >>
  /\ UNCHANGED lost

PrintfFails ==
  /\ Calling("sdscatvprintf")
  /\ f > 0
  /\ Return({ NULL })
  /\ heap' = heap - OnHeap
  /\ UNCHANGED lost

PrintfEnds ==
  /\ Calling("sdscatvprintf")
  /\ f > 0
  /\ Len(call.text) < buflen
  /\ Return(sdscatlen(s, call.text))
  /\ heap' = heap - OnHeap
  /\ UNCHANGED lost

-----------------------------------------------------------------------------
(* sdscatrepr() on an empty string, and sdsjoinsds() *)

Builds == { "sdscatrepr", "sdsjoinsds" }

BuildBegins ==
  /\ call # NoCall /\ call.op \in Builds
  /\ f = 0
  /\ \E r \in sdsnewlen(<< >>) :
       IF r # NULL
       THEN /\ s' = r
            /\ f' = 1
            /\ UNCHANGED << call, base, buflen, returned >>
       ELSE Return({ IF call.pieces = << >> THEN NULL ELSE SIGSEGV })
  /\ UNCHANGED << heap, lost >>

(* The result of sdscatlen() is not looked at: the next call is made on    *)
(* NULL, or NULL is returned in the end, and the string it was called on   *)
(* is lost.                                                                *)
BuildAppends ==
  /\ call # NoCall /\ call.op \in Builds
  /\ f \in 1 .. Len(call.pieces)
  /\ \E r \in sdscatlen(s, call.pieces[f]) :
       \/ /\ r \notin Failed
          /\ s' = r
          /\ f' = f + 1
          /\ UNCHANGED << call, base, buflen, heap, lost, returned >>
       \/ /\ r = NULL
          /\ s' = NULL
          /\ heap' = heap + 1
          /\ lost' = lost + 1
          /\ returned' = IF f = Len(call.pieces) THEN NULL ELSE SIGSEGV
          /\ call' = NoCall
          /\ f' = 0
          /\ UNCHANGED << base, buflen >>

BuildEnds ==
  /\ call # NoCall /\ call.op \in Builds
  /\ f > Len(call.pieces)
  /\ Return({ s })
  /\ UNCHANGED << heap, lost >>

SeveralSteps ==
  \/ FormatBegins \/ FormatNext \/ FormatEnds
  \/ PrintfBegins \/ PrintfGrows \/ PrintfFails \/ PrintfEnds
  \/ BuildBegins \/ BuildAppends \/ BuildEnds

-----------------------------------------------------------------------------
StringInit ==
  /\ s = NULL
  /\ call = NoCall
  /\ f = 0
  /\ base = 0
  /\ buflen = 0
  /\ heap = 0
  /\ lost = 0
  /\ returned = OK

StringNext == Caller \/ OneStep \/ SeveralSteps

=============================================================================
