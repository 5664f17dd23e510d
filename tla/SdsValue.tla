------------------------------ MODULE SdsValue ------------------------------
(***************************************************************************)
(* What the calls of commons/src/sds promise about a string: it is a       *)
(* sequence of bytes, and each call has the meaning its comment gives it,  *)
(* whatever header and block the bytes are in; a call that fails leaves    *)
(* the string as it was.  The calls in Departures are let off in the one   *)
(* point in which the code does something else than its comment says:      *)
(*   sdstrim   cuts NUL bytes off as well as those in cset (711);          *)
(*   sdsclear  does not keep the bytes as free space when the header has   *)
(*             no field to record it in (189-192).                         *)
(* With Departures = {} every comment has to be kept to the letter.        *)
(***************************************************************************)
EXTENDS Integers, Sequences, FiniteSets, SequencesExt

CONSTANTS MaxBlock, NULL, ABORT, SIGSEGV, OK, NoCall, Departures

VARIABLES
  value,      \* the bytes, or NULL
  room,       \* how many can be stored behind them
  recorded,   \* whether the header has a field for the room
  call,       \* the call in progress, or NoCall
  returned    \* how the last one ended

(* Position n of a string of len bytes, where -1 is the last one *)
Place(n, len) == IF n >= 0 THEN n ELSE IF len + n >= 0 THEN len + n ELSE 0

Between(t, first, last) ==
  LET inside == { k \in 0 .. Len(t) - 1 :
                    Place(first, Len(t)) <= k /\ k <= Place(last, Len(t)) }
  IN  SelectSeq([k \in 1 .. Len(t) |-> << k, t[k] >>],
                LAMBDA e : e[1] - 1 \in inside)

Numeral(n) ==
  LET m == IF n < 0 THEN -n ELSE n
      digits == CHOOSE d \in 1 .. m + 1 :
                  m < 10 ^ d /\ (d = 1 \/ 10 ^ (d - 1) <= m)
  IN  (IF n < 0 THEN << 45 >> ELSE << >>)
        \o [k \in 1 .. digits |-> 48 + ((m \div 10 ^ (digits - k)) % 10)]

ItemText(item) ==
  IF item.kind \in { "%i", "%u" } THEN Numeral(item.num) ELSE item.text

(* The strings c may leave behind when it succeeds *)
Meaning(c) ==
  CASE c.op = "sdsnewlen" -> { c.text }
    [] c.op \in { "sdsdup", "sdsMakeRoomFor", "sdsRemoveFreeSpace" } ->
         { value }
    [] c.op = "sdsfree" -> { NULL }
    [] c.op = "sdsclear" -> { << >> }
    [] c.op \in { "sdscatlen", "sdscatvprintf" } -> { value \o c.text }
    [] c.op = "sdscpylen" -> { c.text }
    [] c.op = "sdsgrowzero" ->
         { IF c.size <= Len(value) THEN value
           ELSE [k \in 1 .. c.size |-> IF k <= Len(value) THEN value[k]
                                       ELSE 0] }
    [] c.op = "sdsIncrLen" ->
         { IF c.incr >= 0 THEN value \o c.stored
           ELSE SubSeq(value, 1, Len(value) + c.incr) }
    [] c.op = "sdsupdatelen" ->
         { SubSeq(value, 1, n) : n \in
             { n \in 0 .. Len(value) :
                 /\ \/ n + 1 = c.at
                    \/ n < Len(value) /\ value[n + 1] = 0
                 /\ \A k \in 1 .. n : k # c.at /\ value[k] # 0 } }
    [] c.op = "sdstrim" ->
         { SubSeq(value, ij[1], ij[2]) : ij \in
             { ij \in (1 .. Len(value) + 1) \X (0 .. Len(value)) :
                 LET cut == c.cset \cup (IF c.op \in Departures THEN { 0 }
                                         ELSE {}) IN
                 /\ \A k \in 1 .. Len(value) :
                      k \notin ij[1] .. ij[2] => value[k] \in cut
                 /\ ij[1] <= ij[2] => /\ value[ij[1]] \notin cut
                                      /\ value[ij[2]] \notin cut } }
    [] c.op = "sdsrange" ->
         LET part == Between(value, c.first, c.last) IN
         { [k \in DOMAIN part |-> part[k][2]] }
    [] c.op \in { "sdstolower", "sdstoupper" } ->
         LET Letter == IF c.op = "sdstolower" THEN 65 .. 90 ELSE 97 .. 122
             shift == IF c.op = "sdstolower" THEN 32 ELSE -32 IN
         { [k \in DOMAIN value |->
              value[k] + IF value[k] \in Letter THEN shift ELSE 0] }
    [] c.op = "sdsmapchars" ->
         { [k \in DOMAIN value |->
              IF value[k] = c.from[1] THEN c.to[1]
              ELSE IF value[k] = c.from[2] THEN c.to[2] ELSE value[k]] }
    [] c.op = "sdscatfmt" ->
         { value \o FoldLeft(LAMBDA t, item : t \o ItemText(item), << >>,
                             c.format) }
    [] c.op = "sdscatrepr" -> { FlattenSeq(c.pieces) }
    [] c.op = "sdsjoinsds" ->
         { IF c.argv = << >> THEN << >>
           ELSE FoldLeft(LAMBDA t, a : t \o c.sep \o a, Head(c.argv),
                         Tail(c.argv)) }

(* The calls that allocate *)
MayFail ==
  { "sdsnewlen", "sdsdup", "sdsMakeRoomFor", "sdsRemoveFreeSpace",
    "sdsgrowzero", "sdscatlen", "sdscpylen", "sdscatvprintf",
    "sdscatrepr", "sdsjoinsds" }

(* The calls that use what malloc() returned without looking at it *)
MayCrash == { "sdscatfmt", "sdscatrepr", "sdsjoinsds" }

Splits == { "sdssplitlen", "sdssplitargs", "sdsfreesplitres" }

(* How long a string the call asks for *)
Wanted(c) ==
  CASE c.op = "sdsMakeRoomFor" -> Len(value) + c.size
    [] c.op = "sdsgrowzero" -> c.size
    [] OTHER -> 0

-----------------------------------------------------------------------------
Begin ==
  /\ call = NoCall
  /\ call' # NoCall
  /\ UNCHANGED << value, room, returned >>

Works ==
  /\ call # NoCall
  /\ UNCHANGED << value, call, returned >>

Ends == call # NoCall /\ call.op \notin Splits /\ call' = NoCall

Done ==
  /\ Ends
  /\ value' \in Meaning(call)
  /\ call.op = "sdsMakeRoomFor" => room' >= call.size
  /\ call.op = "sdsRemoveFreeSpace" => room' = 0
  /\ call.op = "sdsclear" =>
       \/ room' >= room + Len(value)
       \/ call.op \in Departures /\ ~ recorded
  /\ returned' = OK

Refused ==
  /\ Ends
  /\ call.op \in MayFail
  /\ UNCHANGED << value, room >>
  /\ returned' = NULL

(* An assertion fails, or a NULL is used like a string: there is nothing   *)
(* left of the process and its string.                                     *)
Dies ==
  /\ Ends
  /\ value' = NULL
  /\ \/ /\ returned' = ABORT
        /\ \/ Wanted(call) > MaxBlock
           \/ call.op = "sdsIncrLen" /\ call.incr = 0
     \/ /\ returned' = SIGSEGV
        /\ call.op \in MayCrash

(* The texts that are cut into tokens are no strings. *)
SplitsAside ==
  /\ call # NoCall
  /\ call.op \in Splits
  /\ UNCHANGED << value, room >>

Init == value = NULL /\ room = 0 /\ call = NoCall /\ returned = OK

Next == Begin \/ Works \/ Done \/ Refused \/ Dies \/ SplitsAside

Spec == Init /\ [][Next]_<< value, room, call, returned >>

=============================================================================
