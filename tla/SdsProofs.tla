----------------------------- MODULE SdsProofs ------------------------------
(***************************************************************************)
(* What commons/src/sds does for any texts, formats and sizes, any headers *)
(* and any allocation that fails, in every order of calls.                 *)
(***************************************************************************)
EXTENDS SdsTokens, TLAPS, NaturalsInduction, WellFoundedInduction,
        SequenceTheorems, FiniteSetTheorems

(* A string that fits into its block, and whose header tells the truth     *)
(* about it; while sdscatfmt() works on it there is no terminator.         *)
Block(str) ==
  /\ str \in String
  /\ str.len < TypeLimit[str.type]
  /\ str.alloc < TypeLimit[str.type]
  /\ str.len <= sdsalloc(str)
  /\ HdrSize[str.type] + str.len + 1 <= str.size
  /\ str.type # SDS_TYPE_5 => str.size = HdrSize[str.type] + str.alloc + 1
  /\ str.size <= MaxBlock
  /\ Len(str.buf) \in { str.len, str.len + 1 }

Terminated(str) == Len(str.buf) = str.len + 1 /\ str.buf[str.len + 1] = NUL

(* The calls that work on the string the caller holds *)
Working ==
  { "sdsdup", "sdsclear", "sdsRemoveFreeSpace", "sdstolower", "sdstoupper",
    "sdscpylen", "sdstrim", "sdscatlen", "sdscatvprintf", "sdsMakeRoomFor",
    "sdsgrowzero", "sdsIncrLen", "sdsupdatelen", "sdsrange", "sdsmapchars",
    "sdscatfmt" }

(* Bytes that are in a block *)
Piece == { b \in Seq(Byte) : Len(b) <= MaxBlock }

(* What the caller passes when it holds str *)
Passed(c, str) ==
  /\ c.op \in Working => str # NULL
  /\ c.op \in { "sdsnewlen", "sdscatlen", "sdscpylen", "sdscatvprintf" } =>
       c.text \in Text
  /\ c.op \in Builds => c.pieces \in Seq(Piece)
  /\ c.op = "sdsMakeRoomFor" => c.size \in Nat /\ str.len + c.size <= SIZE_MAX
  /\ c.op = "sdsgrowzero" => c.size \in 0 .. SIZE_MAX
  /\ c.op = "sdsIncrLen" =>
       \/ /\ c.stored \in Text
          /\ Len(c.stored) <= sdsavail(str)
          /\ c.incr = Len(c.stored)
       \/ c.stored = << >> /\ c.incr \in -str.len .. -1
  /\ c.op = "sdsupdatelen" => c.at \in 1 .. str.len
  /\ c.op = "sdsrange" => c.first \in Int /\ c.last \in Int
  /\ c.op = "sdsmapchars" =>
       c.from \in Text /\ c.to \in Text /\ Len(c.from) = 2 /\ Len(c.to) = 2
  /\ c.op = "sdscatfmt" => c.format \in Format

(* The calls that allocate in a loop, and the ones that work on tokens *)
InRounds == { "sdscatfmt", "sdscatvprintf" } \cup Builds

Cutting == { "sdssplitlen", "sdssplitargs", "sdsfreesplitres" }

Formatting == Calling("sdscatfmt") /\ f > 0

(* The caller or a call can go on. *)
Running == Alive \/ call # NoCall

(* The string the caller holds, and the call it makes on it.  StringsFit   *)
(* needs both: that the header of what a call is made on is right, and     *)
(* that what is passed to it keeps to what its assertions trust.           *)
HoldsString ==
  /\ f \in Nat
  /\ (call = NoCall \/ call.op \notin InRounds) => f = 0
  /\ s # NULL => Block(s) /\ (Running /\ ~ Formatting => Terminated(s))
  /\ call # NoCall => Passed(call, s)
  /\ Calling("sdscatfmt") /\ f = 0 => s.len <= MaxLen
  /\ call # NoCall /\ call.op \in Builds /\ f > 0 => s # NULL

(* The tokens are there in the calls that make them, and the array has     *)
(* room for them, in sdssplitlen() for one more.                           *)
HoldsTokens ==
  /\ slots \in Nat
  /\ start \in Nat /\ p \in Nat
  /\ tokens \in Seq(String \cup { NULL })
  /\ current # NULL => Block(current)
  /\ Len(tokens) <= slots
  /\ (call = NoCall \/ call.op \notin Cutting) =>
       slots = 0 /\ current = NULL /\ start = 0 /\ p = 0 /\ mode = "blank"
  /\ Calling("sdssplitlen") =>
       /\ call \in SplitCall
       /\ current = NULL
       /\ slots = 0 => start = 0 /\ p = 0
       /\ slots > 0 =>
            /\ Len(tokens) < slots
            /\ Len(call.sep) >= 1
            /\ start <= p /\ p <= Len(call.text)
  /\ Calling("sdssplitargs") =>
       /\ call \in ArgsCall
       /\ Len(tokens) = slots
       /\ mode = "blank" => current = NULL
  /\ Calling("sdsfreesplitres") =>
       /\ call \in [op : { "sdsfreesplitres" }, of : SplitCall \cup ArgsCall]
       /\ slots > 0 /\ current = NULL

(* The array, and the buffer of sdscatvprintf() *)
ArrayBlock == IF slots > 0 THEN 1 ELSE 0
BufferBlock == IF Calling("sdscatvprintf") THEN OnHeap ELSE 0

(* Every block is somebody's until the process dies. *)
Accounted ==
  /\ lost \in Nat
  /\ Running => heap = lost + Holds(tokens) + Holds(<< current >>)
                         + ArrayBlock + BufferBlock

IInv == HoldsString /\ HoldsTokens /\ Accounted

-----------------------------------------------------------------------------
(* Numbers *)

(* Any numbers there are have a least one among them, *)
LEMMA Least ==
  ASSUME NEW S \in SUBSET Nat, S # {}
  PROVE  \E x \in S : \A y \in S : x <= y
<1>1. IsWellFoundedOn(OpToRel(<, Nat), Nat)
  BY NatLessThanWellFounded
<1>2. PICK x \in S : \A y \in S : << y, x >> \notin OpToRel(<, Nat)
  BY <1>1, WFMin
<1>3. \A y \in S : ~ (y < x)
  BY <1>2 DEF OpToRel
<1> QED
  BY <1>3

(* and numbers with a bound have a greatest one. *)
LEMMA Greatest ==
  ASSUME NEW n \in Nat, NEW S \in SUBSET (0 .. n), S # {}
  PROVE  \E x \in S : \A y \in S : x >= y
<1> DEFINE T == { n - x : x \in S }
<1>1. T \in SUBSET Nat
  OBVIOUS
<1> PICK y \in S : TRUE
  OBVIOUS
<1>6. n - y \in T
  OBVIOUS
<1>2. PICK z \in T : \A w \in T : z <= w
  BY <1>1, <1>6, Least
<1>3. PICK x \in S : z = n - x
  BY <1>2
<1>4. \A w \in S : n - x <= n - w
  BY <1>2, <1>3
<1>5. \A w \in S : x >= w
  BY <1>4
<1> QED
  BY <1>5

(* What is smaller than the modulus is its own remainder. *)
LEMMA Remainder ==
  ASSUME NEW m \in Nat, NEW n \in Nat, n < m
  PROVE  n % m = n
OBVIOUS

LEMMA WrapSmall ==
  ASSUME NEW n \in 0 .. SIZE_MAX
  PROVE  Wrap(n) = n
<1>1. n \in Nat /\ SIZE_MAX + 1 \in Nat /\ n < SIZE_MAX + 1
  BY SdsAssumption
<1> QED
  BY <1>1, Remainder DEF Wrap

LEMMA WrapRange ==
  ASSUME NEW n \in Nat
  PROVE  Wrap(n) \in 0 .. SIZE_MAX
BY SdsAssumption DEF Wrap

-----------------------------------------------------------------------------
(* The header *)

(* There is a type for every size_t, and it holds it. *)
LEMMA ReqTypeHolds ==
  ASSUME NEW n \in 0 .. SIZE_MAX
  PROVE  sdsReqType(n) \in Type /\ n < TypeLimit[sdsReqType(n)]
<1> DEFINE T == { t \in Type : n < TypeLimit[t] }
<1>1. T \in SUBSET Nat
  BY DEF Type
<1>3. LastType \in T
  BY SdsAssumption DEF Type
<1>2. PICK t \in T : \A u \in T : t <= u
  BY <1>1, <1>3, Least
<1> QED
  BY <1>2 DEF sdsReqType

LEMMA Sizes ==
  /\ SIZE_MAX \in Nat /\ MaxBlock \in Nat /\ MaxBlock < SIZE_MAX
  /\ SDS_MAX_PREALLOC \in Nat /\ MaxBlock >= 4
  /\ \A t \in Type : /\ HdrSize[t] \in Nat /\ TypeLimit[t] \in Nat
                     /\ 0 < TypeLimit[t]
                     /\ 2 * MaxBlock + HdrSize[t] < SIZE_MAX
  /\ SDS_TYPE_5 \in Type /\ SDS_TYPE_8 \in Type
  /\ TypeLimit[SDS_TYPE_5] < TypeLimit[SDS_TYPE_8]
<1>1. 0 \in Type /\ 1 \in Type \ {0}
  BY SdsAssumption DEF Type
<1>2. MaxBlock < SIZE_MAX
  BY SdsAssumption, <1>1
<1>3. TypeLimit[0] < TypeLimit[1]
  BY SdsAssumption, <1>1
<1> QED
  BY SdsAssumption, <1>1, <1>2, <1>3 DEF SDS_TYPE_5, SDS_TYPE_8

LEMMA AvailIs ==
  ASSUME NEW str, Block(str)
  PROVE  /\ sdsalloc(str) \in Nat
         /\ sdsavail(str) = sdsalloc(str) - str.len
         /\ sdsavail(str) \in Nat
         /\ sdsalloc(str) < TypeLimit[str.type]
         /\ HdrSize[str.type] + sdsalloc(str) + 1 <= str.size
         /\ sdsalloc(str) <= MaxBlock
<1>1. CASE str.type = SDS_TYPE_5
  BY <1>1, SdsAssumption DEF Block, String, sdsalloc, sdsavail
<1>2. CASE str.type # SDS_TYPE_5
  <2>1. str.alloc \in Nat /\ str.len \in Nat /\ str.len <= str.alloc
    BY <1>2 DEF Block, String, sdsalloc
  <2>2. /\ HdrSize[str.type] \in Nat /\ MaxBlock < SIZE_MAX
        /\ MaxBlock \in Nat /\ SIZE_MAX \in Nat
    BY Sizes DEF Block, String
  <2>3. str.size = HdrSize[str.type] + str.alloc + 1 /\ str.size <= MaxBlock
    BY <1>2 DEF Block
  <2>4. str.alloc - str.len \in 0 .. SIZE_MAX /\ str.alloc <= MaxBlock
    BY <2>1, <2>2, <2>3
  <2>5. sdsavail(str) = str.alloc - str.len
    BY <1>2, <2>4, WrapSmall DEF sdsavail
  <2>6. sdsalloc(str) = str.alloc /\ str.alloc < TypeLimit[str.type]
    BY <1>2 DEF Block, sdsalloc
  <2>7. HdrSize[str.type] + str.alloc + 1 <= str.size
    BY <2>1, <2>2, <2>3
  <2> QED
    BY <2>1, <2>4, <2>5, <2>6, <2>7
<1> QED
  BY <1>1, <1>2

(* How the fields of a header are set *)
SetBuf(str, b) == [str EXCEPT !.buf = b]
SetSize(str, n) == [str EXCEPT !.size = n]

LEMMA SetLen ==
  ASSUME NEW str \in String, NEW n \in Nat
  PROVE  /\ sdssetlen(str, n) \in String
         /\ sdssetlen(str, n).type = str.type
         /\ sdssetlen(str, n).len = n % TypeLimit[str.type]
         /\ sdssetlen(str, n).alloc = str.alloc
         /\ sdssetlen(str, n).size = str.size
         /\ sdssetlen(str, n).buf = str.buf
<1>1. /\ str.type \in Type
      /\ TypeLimit[str.type] \in Nat /\ TypeLimit[str.type] > 0
  BY Sizes DEF String
<1> DEFINE m == n % TypeLimit[str.type]
<1>2. m \in Nat
  BY <1>1
<1> HIDE DEF m
<1>3. sdssetlen(str, n) = [str EXCEPT !.len = m]
  BY DEF sdssetlen, m
<1>4. m = n % TypeLimit[str.type]
  BY DEF m
<1> QED
  BY <1>2, <1>3, <1>4 DEF String

LEMMA SetAlloc ==
  ASSUME NEW str \in String, NEW n \in Nat
  PROVE  /\ sdssetalloc(str, n) \in String
         /\ sdssetalloc(str, n).type = str.type
         /\ sdssetalloc(str, n).len = str.len
         /\ str.type # SDS_TYPE_5 =>
              sdssetalloc(str, n).alloc = n % TypeLimit[str.type]
         /\ str.type = SDS_TYPE_5 => sdssetalloc(str, n).alloc = str.alloc
         /\ sdssetalloc(str, n).size = str.size
         /\ sdssetalloc(str, n).buf = str.buf
<1>1. /\ str.type \in Type
      /\ TypeLimit[str.type] \in Nat /\ TypeLimit[str.type] > 0
  BY Sizes DEF String
<1> DEFINE m == n % TypeLimit[str.type]
<1>2. m \in Nat
  BY <1>1
<1> HIDE DEF m
<1>3. CASE str.type # SDS_TYPE_5
  <2>1. sdssetalloc(str, n) = [str EXCEPT !.alloc = m]
    BY <1>3 DEF sdssetalloc, m
  <2>2. m = n % TypeLimit[str.type]
    BY DEF m
  <2> QED
    BY <1>2, <1>3, <2>1, <2>2 DEF String
<1>4. CASE str.type = SDS_TYPE_5
  BY <1>4 DEF sdssetalloc
<1> QED
  BY <1>3, <1>4

LEMMA SetTheRest ==
  /\ \A str \in String, b \in Seq(Byte) :
       /\ SetBuf(str, b) \in String
       /\ SetBuf(str, b).type = str.type
       /\ SetBuf(str, b).len = str.len
       /\ SetBuf(str, b).alloc = str.alloc
       /\ SetBuf(str, b).size = str.size
       /\ SetBuf(str, b).buf = b
  /\ \A str \in String, n \in Nat :
       /\ SetSize(str, n) \in String
       /\ SetSize(str, n).type = str.type
       /\ SetSize(str, n).len = str.len
       /\ SetSize(str, n).alloc = str.alloc
       /\ SetSize(str, n).size = n
       /\ SetSize(str, n).buf = str.buf
BY DEF SetBuf, SetSize, String

LEMMA StringFields ==
  ASSUME NEW str \in String
  PROVE  /\ str.type \in Type /\ str.len \in Nat /\ str.alloc \in Nat
         /\ str.size \in Nat /\ str.buf \in Seq(Byte)
         /\ HdrSize[str.type] \in Nat /\ TypeLimit[str.type] \in Nat
BY Sizes DEF String

(* Bytes with the terminator behind them *)
LEMMA TerminatorIsBehind ==
  ASSUME NEW b \in Seq(Byte)
  PROVE  /\ Append(b, NUL) \in Seq(Byte)
         /\ Len(Append(b, NUL)) = Len(b) + 1
         /\ Append(b, NUL)[Len(b) + 1] = NUL
         /\ SubSeq(Append(b, NUL), 1, Len(b)) = b
         /\ Len(b) \in Nat
BY DEF Byte, NUL

LEMMA StoreIs ==
  ASSUME NEW str \in String, NEW b \in Seq(Byte),
         Len(b) < TypeLimit[str.type]
  PROVE  /\ Store(str, b) \in String
         /\ Store(str, b).type = str.type
         /\ Store(str, b).len = Len(b)
         /\ Store(str, b).alloc = str.alloc
         /\ Store(str, b).size = str.size
         /\ Store(str, b).buf = Append(b, NUL)
         /\ Terminated(Store(str, b))
         /\ Content(Store(str, b)) = b
<1> DEFINE a == Append(b, NUL)
           mid == SetBuf(str, a)
           new == sdssetlen(mid, Len(b))
<1>1. a \in Seq(Byte) /\ Len(b) \in Nat
  BY TerminatorIsBehind
<1>2. Store(str, b) = new
  BY DEF Store, SetBuf
<1>9. Append(b, NUL) = a
  OBVIOUS
<1> HIDE DEF a
<1>3. /\ mid \in String /\ mid.type = str.type /\ mid.alloc = str.alloc
      /\ mid.size = str.size /\ mid.buf = a
  BY <1>1, SetTheRest
<1> HIDE DEF mid
<1>4. /\ new \in String /\ new.type = mid.type
      /\ new.len = Len(b) % TypeLimit[mid.type]
      /\ new.alloc = mid.alloc /\ new.size = mid.size /\ new.buf = mid.buf
  BY <1>1, <1>3, SetLen
<1> HIDE DEF new
<1>5. Len(b) % TypeLimit[str.type] = Len(b)
  BY <1>1, StringFields, Remainder
<1>6. new.len = Len(b) /\ new.type = str.type /\ new.buf = a
  BY <1>3, <1>4, <1>5
<1>7. Terminated(new)
  BY <1>6, <1>9, TerminatorIsBehind DEF Terminated
<1>8. Content(new) = b
  BY <1>6, <1>9, TerminatorIsBehind DEF Content
<1> QED
  BY <1>2, <1>3, <1>4, <1>6, <1>7, <1>8, <1>9

(* What is stored in the room a string has fits, and is its content. *)
LEMMA StoreFits ==
  ASSUME NEW str, Block(str), NEW b \in Seq(Byte), Len(b) <= sdsalloc(str)
  PROVE  /\ Block(Store(str, b)) /\ Terminated(Store(str, b))
         /\ Content(Store(str, b)) = b
<1> DEFINE new == Store(str, b)
<1>1. /\ sdsalloc(str) \in Nat /\ sdsalloc(str) < TypeLimit[str.type]
      /\ HdrSize[str.type] + sdsalloc(str) + 1 <= str.size
  BY AvailIs
<1>2. str \in String
  BY DEF Block
<1>3. /\ HdrSize[str.type] \in Nat /\ TypeLimit[str.type] \in Nat
      /\ Len(b) \in Nat /\ str.size \in Nat
  BY <1>2, StringFields
<1>4. Len(b) < TypeLimit[str.type]
  BY <1>1, <1>3
<1>5. HdrSize[str.type] + Len(b) + 1 <= str.size
  BY <1>1, <1>3
<1>6. /\ new \in String /\ new.type = str.type /\ new.len = Len(b)
      /\ new.alloc = str.alloc /\ new.size = str.size
      /\ Terminated(new) /\ Content(new) = b
  BY <1>2, <1>4, StoreIs
<1> HIDE DEF new
<1>7. new.len <= sdsalloc(new)
  BY <1>3, <1>6 DEF sdsalloc
<1>8. Len(new.buf) \in { new.len, new.len + 1 }
  BY <1>6 DEF Terminated
<1>9. Block(new)
  BY <1>4, <1>5, <1>6, <1>7, <1>8 DEF Block
<1> QED
  BY <1>6, <1>9 DEF new

(* So is what a new string is made of. *)
LEMMA NewFits ==
  ASSUME NEW init \in Seq(Byte), Len(init) <= MaxBlock,
         NEW r \in sdsnewlen(init), r # NULL
  PROVE  Block(r) /\ Terminated(r) /\ Content(r) = init
<1> DEFINE type == IF init = << >> THEN SDS_TYPE_8 ELSE sdsReqType(Len(init))
           size == HdrSize[type] + Len(init) + 1
           new == [type |-> type, len |-> 0, alloc |-> 0, size |-> size,
                   buf |-> << >>]
           old == sdssetalloc(new, Len(init))
<1>1. type \in Type /\ Len(init) < TypeLimit[type] /\ Len(init) \in Nat
  <2>1. Len(init) \in 0 .. SIZE_MAX
    BY Sizes
  <2>2. CASE init = << >>
    BY <2>2, Sizes
  <2>3. CASE init # << >>
    BY <2>1, <2>3, ReqTypeHolds
  <2> QED
    BY <2>2, <2>3
<1>2. size <= MaxBlock /\ r = Store(old, init)
  BY DEF sdsnewlen, Allocate
<1> HIDE DEF type
<1>3. /\ HdrSize[type] \in Nat /\ size \in Nat /\ TypeLimit[type] \in Nat
  BY <1>1, Sizes
<1>9. size = HdrSize[type] + Len(init) + 1
  OBVIOUS
<1> HIDE DEF size
<1>4. /\ new \in String /\ new.type = type /\ new.alloc = 0
      /\ new.size = size
  BY <1>1, <1>3 DEF String
<1> HIDE DEF new
<1>5. /\ old \in String /\ old.type = type /\ old.size = size
      /\ type # SDS_TYPE_5 => old.alloc = Len(init) % TypeLimit[type]
      /\ type = SDS_TYPE_5 => old.alloc = 0
  BY <1>1, <1>4, SetAlloc
<1> HIDE DEF old
<1>6. Len(init) % TypeLimit[type] = Len(init)
  BY <1>1, <1>3, Remainder
<1>7. /\ r \in String /\ r.type = type /\ r.len = Len(init) /\ r.size = size
      /\ r.alloc = old.alloc /\ Terminated(r) /\ Content(r) = init
  BY <1>1, <1>2, <1>5, StoreIs
<1>8. Len(r.buf) \in { r.len, r.len + 1 }
  BY <1>7 DEF Terminated
<1>10. /\ r.type # SDS_TYPE_5 => r.alloc = Len(init)
       /\ r.type = SDS_TYPE_5 => r.alloc = 0
  BY <1>5, <1>6, <1>7
<1>11. r.alloc < TypeLimit[r.type] /\ r.len < TypeLimit[r.type]
  BY <1>1, <1>3, <1>7, <1>10
<1>12. r.len <= sdsalloc(r)
  BY <1>1, <1>7, <1>10 DEF sdsalloc
<1>13. /\ HdrSize[r.type] + r.len + 1 <= r.size /\ r.size <= MaxBlock
       /\ r.type # SDS_TYPE_5 => r.size = HdrSize[r.type] + r.alloc + 1
  BY <1>1, <1>2, <1>3, <1>7, <1>9, <1>10
<1> QED
  BY <1>7, <1>8, <1>11, <1>12, <1>13 DEF Block

(* A string that moves behind another header takes its bytes along. *)
LEMMA MovedIs ==
  ASSUME NEW str \in String, NEW t \in Type, NEW size \in Nat,
         str.len < TypeLimit[t], Len(str.buf) \in { str.len, str.len + 1 }
  PROVE  /\ Moved(str, t, size) \in String
         /\ Moved(str, t, size).type = t
         /\ Moved(str, t, size).len = str.len
         /\ Moved(str, t, size).alloc = 0
         /\ Moved(str, t, size).size = size
         /\ Moved(str, t, size).buf = str.buf
<1> DEFINE n == IF str.len < Len(str.buf) THEN str.len + 1 ELSE Len(str.buf)
           new == [type |-> t, len |-> 0, alloc |-> 0, size |-> size,
                   buf |-> SubSeq(str.buf, 1, n)]
<1>1. str.len \in Nat /\ str.buf \in Seq(Byte) /\ TypeLimit[t] \in Nat
  BY StringFields, Sizes
<1>2. n = Len(str.buf)
  BY <1>1
<1>3. SubSeq(str.buf, 1, n) = str.buf
  BY <1>1, <1>2
<1>4. Moved(str, t, size) = sdssetlen(new, str.len)
  BY DEF Moved
<1> HIDE DEF n
<1>5. /\ new \in String /\ new.type = t /\ new.len = 0 /\ new.alloc = 0
      /\ new.size = size /\ new.buf = str.buf
  BY <1>1, <1>3 DEF String
<1> HIDE DEF new
<1>6. str.len % TypeLimit[t] = str.len
  BY <1>1, Remainder
<1> DEFINE r == sdssetlen(new, str.len)
<1>7. /\ r \in String /\ r.type = new.type
      /\ r.len = str.len % TypeLimit[new.type]
      /\ r.alloc = new.alloc /\ r.size = new.size /\ r.buf = new.buf
  BY <1>1, <1>5, SetLen
<1> HIDE DEF r
<1>8. /\ r \in String /\ r.type = t /\ r.len = str.len
      /\ r.alloc = 0 /\ r.size = size /\ r.buf = str.buf
  BY <1>5, <1>6, <1>7
<1>9. Moved(str, t, size) = r
  BY <1>4 DEF r
<1> QED
  BY <1>8, <1>9

(* A string is none of the ways a call fails. *)
LEMMA StringsAreNoFailures ==
  ASSUME NEW str \in String
  PROVE  str \notin Failed
BY SdsAssumption DEF Failed

(* Room is made without a change to the string; the sum of its length and  *)
(* what is to come must be a size_t, no more, and where it is no larger    *)
(* than a block the assertion holds.                                       *)
LEMMA MakeRoomFits ==
  ASSUME NEW str, Block(str), NEW addlen \in Nat,
         str.len + addlen <= SIZE_MAX,
         NEW r \in sdsMakeRoomFor(str, addlen), r # NULL,
         r # ABORT \/ str.len + addlen <= MaxBlock
  PROVE  /\ Block(r) /\ r.len = str.len /\ r.buf = str.buf
         /\ str.len + addlen <= sdsalloc(r)
<1> DEFINE reqlen == Wrap(str.len + addlen)
           wanted == IF reqlen < SDS_MAX_PREALLOC
                     THEN reqlen * 2 ELSE reqlen + SDS_MAX_PREALLOC
           newlen == Wrap(wanted)
           type == IF sdsReqType(newlen) = SDS_TYPE_5
                   THEN SDS_TYPE_8 ELSE sdsReqType(newlen)
           size == Wrap(HdrSize[type] + newlen + 1)
           new == IF str.type = type THEN [str EXCEPT !.size = size]
                  ELSE Moved(str, type, size)
<1>1. /\ str \in String /\ str.len \in Nat
      /\ Len(str.buf) \in { str.len, str.len + 1 }
  BY StringFields DEF Block
<1>2. reqlen = str.len + addlen /\ reqlen \in Nat
  <2>1. str.len + addlen \in 0 .. SIZE_MAX
    BY <1>1, Sizes
  <2> QED
    BY <2>1, WrapSmall
<1>3. CASE sdsavail(str) >= addlen
  <2>1. r = str
    BY <1>3 DEF sdsMakeRoomFor
  <2> QED
    BY <1>1, <1>3, <2>1, AvailIs
<1>4. CASE ~ (sdsavail(str) >= addlen)
  <2>1. r \in IF size <= reqlen THEN { ABORT }
              ELSE Allocate(size, sdssetalloc(new, newlen))
    BY <1>4 DEF sdsMakeRoomFor
  <2> HIDE DEF size, newlen, reqlen, new
  <2>4. size \in Nat /\ newlen \in 0 .. SIZE_MAX
    <3>1. wanted \in Nat
      BY <1>2, Sizes
    <3>2. newlen \in 0 .. SIZE_MAX
      BY <3>1, WrapRange DEF newlen
    <3>3. type \in Type
      BY <3>2, ReqTypeHolds, Sizes
    <3>4. HdrSize[type] + newlen + 1 \in Nat
      BY <3>2, <3>3, Sizes
    <3> QED
      BY <3>2, <3>4, WrapRange DEF size
  <2>5. reqlen <= MaxBlock
    <3>1. CASE r = ABORT
      BY <1>2, <3>1
    <3>2. CASE r # ABORT
      <4>1. ~ (size <= reqlen)
        BY <2>1, <3>2
      <4>2. size <= MaxBlock
        BY <2>1, <4>1 DEF Allocate
      <4> QED
        BY <1>2, <2>4, <4>1, <4>2, Sizes
    <3> QED
      BY <3>1, <3>2
  <2>6. /\ wanted \in Nat /\ reqlen <= wanted /\ wanted <= 2 * MaxBlock
        /\ wanted \in 0 .. SIZE_MAX
    <3>1. /\ MaxBlock \in Nat /\ SDS_MAX_PREALLOC \in Nat
          /\ SIZE_MAX \in Nat /\ 2 * MaxBlock < SIZE_MAX
      BY Sizes
    <3>2. CASE reqlen < SDS_MAX_PREALLOC
      BY <1>2, <2>5, <3>1, <3>2
    <3>3. CASE ~ (reqlen < SDS_MAX_PREALLOC)
      BY <1>2, <2>5, <3>1, <3>3
    <3> QED
      BY <3>2, <3>3
  <2>7. newlen = wanted
    BY <2>6, WrapSmall DEF newlen
  <2> HIDE DEF wanted
  <2>8. type \in Type /\ newlen < TypeLimit[type] /\ type # SDS_TYPE_5
    <3>1. sdsReqType(newlen) \in Type /\ newlen < TypeLimit[sdsReqType(newlen)]
      BY <2>4, ReqTypeHolds
    <3>2. CASE sdsReqType(newlen) = SDS_TYPE_5
      <4>1. newlen < TypeLimit[SDS_TYPE_8]
        BY <2>4, <3>1, <3>2, Sizes
      <4> QED
        BY <3>2, <4>1, Sizes DEF SDS_TYPE_5, SDS_TYPE_8
    <3>3. CASE sdsReqType(newlen) # SDS_TYPE_5
      BY <3>1, <3>3
    <3> QED
      BY <3>2, <3>3
  <2> HIDE DEF type
  <2>9. size = HdrSize[type] + newlen + 1
    <3>1. /\ HdrSize[type] \in Nat /\ MaxBlock \in Nat /\ SIZE_MAX \in Nat
          /\ 2 * MaxBlock + HdrSize[type] < SIZE_MAX
      BY <2>8, Sizes
    <3>2. HdrSize[type] + newlen + 1 \in 0 .. SIZE_MAX
      BY <2>6, <2>7, <3>1
    <3> QED
      BY <3>2, WrapSmall DEF size
  <2>2. ~ (size <= reqlen)
    <3>1. HdrSize[type] \in Nat
      BY <2>8, Sizes
    <3> QED
      BY <1>2, <2>4, <2>6, <2>7, <2>9, <3>1
  <2>3. size <= MaxBlock /\ r = sdssetalloc(new, newlen)
    BY <2>1, <2>2 DEF Allocate
  <2>10. str.len < TypeLimit[type]
    <3>1. TypeLimit[type] \in Nat
      BY <2>8, Sizes
    <3> QED
      BY <1>1, <1>2, <2>6, <2>7, <2>8, <3>1
  <2>11. /\ new \in String /\ new.type = type /\ new.len = str.len
         /\ new.size = size /\ new.buf = str.buf
    <3>1. CASE str.type = type
      <4>1. new = SetSize(str, size)
        BY <3>1 DEF new, SetSize
      <4> QED
        BY <1>1, <2>4, <3>1, <4>1, SetTheRest
    <3>2. CASE str.type # type
      <4>1. new = Moved(str, type, size)
        BY <3>2 DEF new
      <4> QED
        BY <1>1, <2>4, <2>8, <2>10, <4>1, MovedIs
    <3> QED
      BY <3>1, <3>2
  <2>12. /\ r \in String /\ r.type = type /\ r.len = str.len
         /\ r.alloc = newlen % TypeLimit[type] /\ r.size = size
         /\ r.buf = str.buf
    BY <2>3, <2>4, <2>8, <2>11, SetAlloc
  <2>13. r.alloc = newlen
    <3>1. TypeLimit[type] \in Nat /\ newlen \in Nat
      BY <2>4, <2>8, Sizes
    <3> QED
      BY <2>8, <2>12, <3>1, Remainder
  <2>14. sdsalloc(r) = newlen
    BY <2>8, <2>12, <2>13 DEF sdsalloc
  <2>15. str.len <= newlen /\ str.len + addlen <= newlen /\ newlen \in Nat
    BY <1>1, <1>2, <2>4, <2>6, <2>7
  <2>16. HdrSize[type] + str.len + 1 <= size
    BY <1>1, <2>8, <2>9, <2>15, Sizes
  <2>17. Block(r)
    BY <1>1, <2>3, <2>8, <2>9, <2>10, <2>12, <2>13, <2>14, <2>15, <2>16
    DEF Block
  <2> QED
    BY <2>12, <2>14, <2>15, <2>17
<1> QED
  BY <1>3, <1>4

(* Free space is given back without a change to the string. *)
LEMMA RemoveFreeSpaceFits ==
  ASSUME NEW str, Block(str), NEW r \in sdsRemoveFreeSpace(str), r # NULL
  PROVE  Block(r) /\ r.len = str.len /\ r.buf = str.buf
<1> DEFINE reqtype == sdsReqType(str.len)
           keeps == str.type = reqtype \/ reqtype > SDS_TYPE_8
           type == IF keeps THEN str.type ELSE reqtype
           size == HdrSize[type] + str.len + 1
           new == IF keeps THEN [str EXCEPT !.size = size]
                  ELSE Moved(str, reqtype, size)
<1>1. /\ str \in String /\ str.len \in Nat /\ str.type \in Type
      /\ Len(str.buf) \in { str.len, str.len + 1 }
      /\ str.len < TypeLimit[str.type]
  BY StringFields DEF Block
<1>2. CASE sdsavail(str) = 0
  BY <1>2 DEF sdsRemoveFreeSpace
<1>3. CASE sdsavail(str) # 0
  <2>1. r \in Allocate(size, sdssetalloc(new, str.len))
    BY <1>3 DEF sdsRemoveFreeSpace
  <2>2. size <= MaxBlock /\ r = sdssetalloc(new, str.len)
    BY <2>1 DEF Allocate
  <2>3. str.type # SDS_TYPE_5
    BY <1>3 DEF sdsavail
  <2>4. str.len \in 0 .. SIZE_MAX
    <3>1. sdsalloc(str) \in Nat /\ sdsalloc(str) <= MaxBlock
      BY AvailIs
    <3>2. str.len <= sdsalloc(str)
      BY DEF Block
    <3> QED
      BY <1>1, <3>1, <3>2, Sizes
  <2>5. reqtype \in Type /\ str.len < TypeLimit[reqtype]
    BY <2>4, ReqTypeHolds
  <2> HIDE DEF reqtype
  <2>6. type \in Type /\ str.len < TypeLimit[type]
    BY <1>1, <2>5
  <2>7. /\ HdrSize[type] \in Nat /\ TypeLimit[type] \in Nat /\ size \in Nat
        /\ 0 < TypeLimit[type]
    BY <1>1, <2>6, Sizes
  <2>8. size = HdrSize[type] + str.len + 1
    OBVIOUS
  <2> HIDE DEF size
  <2>9. /\ new \in String /\ new.type = type /\ new.len = str.len
        /\ new.size = size /\ new.buf = str.buf
        /\ type = SDS_TYPE_5 => new.alloc = 0
    <3>1. CASE keeps
      <4>1. new = SetSize(str, size) /\ type = str.type
        BY <3>1 DEF SetSize
      <4> HIDE DEF new, type
      <4> QED
        BY <1>1, <2>3, <2>7, <4>1, SetTheRest
    <3>2. CASE ~ keeps
      <4>1. new = Moved(str, reqtype, size) /\ type = reqtype
        BY <3>2
      <4> HIDE DEF new, type
      <4> QED
        BY <1>1, <2>5, <2>7, <4>1, MovedIs
    <3> QED
      BY <3>1, <3>2
  <2> HIDE DEF new, type
  <2>10. /\ r \in String /\ r.type = type /\ r.len = str.len
         /\ r.size = size /\ r.buf = str.buf
         /\ type # SDS_TYPE_5 => r.alloc = str.len % TypeLimit[type]
         /\ type = SDS_TYPE_5 => r.alloc = 0
    BY <1>1, <2>2, <2>9, SetAlloc
  <2>11. str.len % TypeLimit[type] = str.len
    BY <1>1, <2>6, <2>7, Remainder
  <2>12. r.alloc < TypeLimit[type] /\ r.len <= sdsalloc(r)
    BY <1>1, <2>6, <2>7, <2>10, <2>11 DEF sdsalloc
  <2>13. HdrSize[type] + str.len + 1 <= size
    BY <1>1, <2>7, <2>8
  <2> QED
    BY <1>1, <2>2, <2>6, <2>8, <2>10, <2>11, <2>12, <2>13 DEF Block
<1> QED
  BY <1>2, <1>3

(* A string that is in its block with the terminator behind it *)
Sound(str) == Block(str) /\ Terminated(str)

LEMMA ContentIs ==
  ASSUME NEW str, Block(str)
  PROVE  /\ Content(str) \in Seq(Byte) /\ Len(Content(str)) = str.len
         /\ \A k \in 1 .. str.len : Content(str)[k] = str.buf[k]
         /\ str.len \in Nat /\ str.len <= MaxBlock
         /\ str.len <= sdsalloc(str)
<1>1. /\ str.len \in Nat /\ str.buf \in Seq(Byte) /\ str.len <= Len(str.buf)
      /\ str.len <= sdsalloc(str)
  BY StringFields DEF Block
<1>2. /\ Content(str) \in Seq(Byte) /\ Len(Content(str)) = str.len
      /\ \A k \in 1 .. str.len : Content(str)[k] = str.buf[k]
  BY <1>1 DEF Content
<1>3. sdsalloc(str) \in Nat /\ sdsalloc(str) <= MaxBlock
  BY AvailIs
<1>4. str.len <= MaxBlock
  BY <1>1, <1>3, Sizes
<1> QED
  BY <1>1, <1>2, <1>4

(* Two byte sequences behind one another *)
LEMMA Behind ==
  ASSUME NEW t \in Seq(Byte), NEW u \in Seq(Byte)
  PROVE  t \o u \in Seq(Byte) /\ Len(t \o u) = Len(t) + Len(u)
OBVIOUS

(* What is appended fits. *)
LEMMA CatLenFits ==
  ASSUME NEW str, Block(str), NEW t \in Seq(Byte), Len(t) <= MaxBlock,
         NEW r \in sdscatlen(str, t), r # NULL,
         r \notin Failed \/ str.len + Len(t) <= MaxBlock
  PROVE  Sound(r) /\ Content(r) = Content(str) \o t
<1>1. PICK q \in sdsMakeRoomFor(str, Len(t)) :
        r = IF q \in Failed THEN q
            ELSE Store(q, SubSeq(q.buf, 1, str.len) \o t)
  BY DEF sdscatlen
<1>3. Len(t) \in Nat /\ str.len \in Nat /\ str.len + Len(t) <= SIZE_MAX
  <2>1. /\ Len(t) \in Nat /\ str.len \in Nat /\ str.len <= MaxBlock
        /\ str.type \in Type
    BY ContentIs DEF Block, String
  <2>2. /\ HdrSize[str.type] \in Nat /\ MaxBlock \in Nat /\ SIZE_MAX \in Nat
        /\ 2 * MaxBlock + HdrSize[str.type] < SIZE_MAX
    BY <2>1, Sizes
  <2> QED
    BY <2>1, <2>2
<1>9. q # NULL /\ (q # ABORT \/ str.len + Len(t) <= MaxBlock)
  BY <1>1 DEF Failed
<1>4. Block(q) /\ q.buf = str.buf /\ str.len + Len(t) <= sdsalloc(q)
  BY <1>3, <1>9, MakeRoomFits
<1>2. r = Store(q, SubSeq(q.buf, 1, str.len) \o t)
  BY <1>1, <1>4, StringsAreNoFailures DEF Block
<1>5. r = Store(q, Content(str) \o t)
  BY <1>2, <1>4 DEF Content
<1> DEFINE b == Content(str) \o t
<1>6. b \in Seq(Byte) /\ Len(b) = str.len + Len(t)
  BY ContentIs, Behind
<1>7. Len(b) <= sdsalloc(q)
  BY <1>4, <1>6
<1> HIDE DEF b
<1>8. Sound(Store(q, b)) /\ Content(Store(q, b)) = b
  BY <1>4, <1>6, <1>7, StoreFits DEF Sound
<1> QED
  BY <1>5, <1>8 DEF b

(* So does what a string is padded with, *)
LEMMA GrowZeroFits ==
  ASSUME NEW str, Sound(str), NEW n \in 0 .. SIZE_MAX,
         NEW r \in sdsgrowzero(str, n), r \notin Failed
  PROVE  Sound(r)
<1>1. CASE n <= str.len
  BY <1>1 DEF sdsgrowzero
<1>2. CASE ~ (n <= str.len)
  <2> DEFINE addlen == n - str.len
             zeros == [k \in 1 .. addlen |-> NUL]
  <2>1. PICK q \in sdsMakeRoomFor(str, addlen) :
          r = IF q \in Failed THEN q
              ELSE Store(q, SubSeq(q.buf, 1, str.len) \o zeros)
    BY <1>2 DEF sdsgrowzero
  <2>2. /\ q # NULL /\ q # ABORT
        /\ r = Store(q, SubSeq(q.buf, 1, str.len) \o zeros)
    BY <2>1 DEF Failed
  <2>3. str.len \in Nat /\ SIZE_MAX \in Nat
    BY ContentIs, Sizes DEF Sound
  <2>4. addlen \in Nat /\ str.len + addlen = n
    BY <1>2, <2>3
  <2>9. str.len + addlen <= SIZE_MAX
    BY <2>3, <2>4
  <2>5. zeros \in Seq(Byte) /\ Len(zeros) = addlen
    BY <2>4 DEF NUL, Byte
  <2> HIDE DEF addlen, zeros
  <2>6. Block(q) /\ q.buf = str.buf /\ str.len + addlen <= sdsalloc(q)
    BY <2>2, <2>4, <2>9, MakeRoomFits DEF Sound
  <2> DEFINE b == Content(str) \o zeros
  <2>7. r = Store(q, b)
    BY <2>2, <2>6 DEF Content
  <2>8. b \in Seq(Byte) /\ Len(b) = str.len + addlen
    BY <2>5, ContentIs, Behind DEF Sound
  <2> HIDE DEF b
  <2> QED
    BY <2>6, <2>7, <2>8, StoreFits DEF Sound
<1> QED
  BY <1>1, <1>2

(* and what a string is replaced by. *)
LEMMA CpyLenFits ==
  ASSUME NEW str, Sound(str), NEW t \in Seq(Byte), Len(t) <= MaxBlock,
         NEW r \in sdscpylen(str, t), r \notin Failed
  PROVE  Sound(r)
<1>1. PICK q \in IF sdsalloc(str) < Len(t)
                 THEN sdsMakeRoomFor(str, Len(t) - str.len) ELSE { str } :
        r = IF q \in Failed THEN q ELSE Store(q, t)
  BY DEF sdscpylen
<1>2. q # NULL /\ q # ABORT /\ r = Store(q, t)
  BY <1>1 DEF Failed
<1>3. /\ Len(t) \in Nat /\ str.len \in Nat /\ str.len <= sdsalloc(str)
      /\ sdsalloc(str) \in Nat
  BY ContentIs, AvailIs DEF Sound
<1>4. Block(q) /\ Len(t) <= sdsalloc(q)
  <2>1. CASE sdsalloc(str) < Len(t)
    <3> DEFINE addlen == Len(t) - str.len
    <3>1. addlen \in Nat /\ str.len + addlen = Len(t)
      BY <1>3, <2>1
    <3>2. str.len + addlen <= SIZE_MAX
      BY <1>3, <3>1, Sizes
    <3>3. q \in sdsMakeRoomFor(str, addlen)
      BY <1>1, <2>1
    <3> HIDE DEF addlen
    <3>4. Block(q) /\ str.len + addlen <= sdsalloc(q)
      BY <1>2, <3>1, <3>2, <3>3, MakeRoomFits DEF Sound
    <3> QED
      BY <3>1, <3>4
  <2>2. CASE ~ (sdsalloc(str) < Len(t))
    <3>1. q = str
      BY <1>1, <2>2
    <3> QED
      BY <1>3, <2>2, <3>1 DEF Sound
  <2> QED
    BY <2>1, <2>2
<1> QED
  BY <1>2, <1>4, StoreFits DEF Sound

LEMMA ClearFits ==
  ASSUME NEW str, Sound(str), NEW r \in sdsclear(str)
  PROVE  Sound(r)
<1>1. r = Store(str, << >>)
  BY DEF sdsclear
<1>2. << >> \in Seq(Byte) /\ Len(<< >>) <= sdsalloc(str)
  BY AvailIs DEF Sound
<1> QED
  BY <1>1, <1>2, StoreFits DEF Sound

(* A part of the bytes of a string fits where the string is. *)
LEMMA PartFits ==
  ASSUME NEW str, Block(str), NEW b \in Seq(Byte), Len(b) <= str.len
  PROVE  Sound(Store(str, b)) /\ Content(Store(str, b)) = b
<1>1. Len(b) \in Nat /\ str.len \in Nat /\ str.len <= sdsalloc(str)
  BY ContentIs
<1>2. Len(b) <= sdsalloc(str)
  BY <1>1, AvailIs
<1> QED
  BY <1>2, StoreFits DEF Sound

(* A part of a sequence that is not all of it, or is empty *)
LEMMA PartIs ==
  ASSUME NEW S, NEW b \in Seq(S), NEW i \in Nat, NEW j \in Nat, i > 0,
         j <= Len(b) \/ j < i
  PROVE  /\ SubSeq(b, i, j) \in Seq(S)
         /\ i <= j => Len(SubSeq(b, i, j)) = j - i + 1
         /\ j < i => SubSeq(b, i, j) = << >>
<1>1. CASE j < i
  BY <1>1
<1>2. CASE ~ (j < i)
  <2>1. i \in 1 .. Len(b) + 1 /\ j \in i - 1 .. Len(b)
    BY <1>2
  <2> QED
    BY <2>1, <1>2, SubSeqProperties
<1> QED
  BY <1>1, <1>2

LEMMA UpdateLenFits ==
  ASSUME NEW str, Sound(str), NEW k \in 1 .. str.len,
         NEW r \in sdsupdatelen(str, k)
  PROVE  Sound(r)
<1> DEFINE hacked == [str.buf EXCEPT ![k] = NUL]
           I == { i \in 1 .. Len(hacked) : hacked[i] = NUL }
           reallen == SelectInSeq(hacked, LAMBDA b : b = NUL) - 1
           b == SubSeq(hacked, 1, reallen)
<1>1. /\ str.buf \in Seq(Byte) /\ str.len \in Nat /\ NUL \in Byte
      /\ Len(str.buf) = str.len + 1
  BY StringFields DEF Sound, Block, Terminated, NUL, Byte
<1>2. hacked \in Seq(Byte) /\ Len(hacked) = str.len + 1 /\ hacked[k] = NUL
  BY <1>1
<1>3. r = Store(str, b)
  BY DEF sdsupdatelen
<1>4. k \in I /\ I \in SUBSET Nat
  BY <1>1, <1>2
<1>5. reallen \in 0 .. k - 1
  <2>1. PICK i \in I : \A j \in I : i <= j
    BY <1>4, Least
  <2>2. Min(I) \in I /\ \A j \in I : Min(I) <= j
    BY <2>1 DEF Min
  <2>3. SelectInSeq(hacked, LAMBDA c : c = NUL) = Min(I)
    BY <1>4 DEF SelectInSeq
  <2>4. Min(I) \in 1 .. Len(hacked) /\ Min(I) <= k
    BY <1>4, <2>2
  <2> QED
    BY <1>1, <1>2, <2>3, <2>4
<1> HIDE DEF hacked, reallen
<1>6. b \in Seq(Byte) /\ Len(b) <= str.len
  <2>1. reallen \in Nat /\ reallen <= Len(hacked) /\ reallen <= str.len
    BY <1>1, <1>2, <1>5
  <2>2. /\ b \in Seq(Byte) /\ (1 <= reallen => Len(b) = reallen - 1 + 1)
        /\ (reallen < 1 => b = << >>)
    BY <1>2, <2>1, PartIs
  <2> QED
    BY <1>1, <2>1, <2>2
<1> HIDE DEF b
<1> QED
  BY <1>3, <1>6, PartFits DEF Sound

LEMMA TrimFits ==
  ASSUME NEW str, Sound(str), NEW cset, NEW r \in sdstrim(str, cset)
  PROVE  Sound(r)
<1> DEFINE keep == { k \in 1 .. str.len : str.buf[k] \notin cset \cup {NUL} }
           sp == IF keep = {} THEN str.len + 1
                 ELSE CHOOSE k \in keep : \A l \in keep : k <= l
           ep == IF keep = {} THEN str.len
                 ELSE CHOOSE k \in keep : \A l \in keep : k >= l
           b == SubSeq(str.buf, sp, ep)
<1>1. str.buf \in Seq(Byte) /\ str.len \in Nat /\ Len(str.buf) = str.len + 1
  BY StringFields DEF Sound, Block, Terminated
<1>2. r = Store(str, b)
  BY DEF sdstrim
<1>3. /\ sp \in 1 .. str.len + 1 /\ ep \in 0 .. str.len
  <2>1. CASE keep = {}
    BY <1>1, <2>1
  <2>2. CASE keep # {}
    <3>1. keep \in SUBSET Nat /\ keep \in SUBSET (0 .. str.len)
      BY <1>1
    <3>2. PICK x \in keep : \A y \in keep : x <= y
      BY <2>2, <3>1, Least
    <3>3. PICK z \in keep : \A y \in keep : z >= y
      BY <1>1, <2>2, <3>1, Greatest
    <3>4. sp \in keep
      BY <2>2, <3>2
    <3>5. ep \in keep
      BY <2>2, <3>3
    <3>6. \A k \in keep : k \in 1 .. str.len + 1 /\ k \in 0 .. str.len
      BY <1>1
    <3> HIDE DEF keep, sp, ep
    <3> QED
      BY <3>4, <3>5, <3>6
  <2> QED
    BY <2>1, <2>2
<1> HIDE DEF sp, ep
<1>4. b \in Seq(Byte) /\ Len(b) <= str.len
  <2>1. sp \in Nat /\ ep \in Nat /\ sp > 0 /\ ep <= Len(str.buf)
    BY <1>1, <1>3
  <2>2. /\ b \in Seq(Byte) /\ (sp <= ep => Len(b) = ep - sp + 1)
        /\ (ep < sp => b = << >>)
    BY <1>1, <2>1, PartIs
  <2> QED
    BY <1>1, <1>3, <2>1, <2>2
<1> HIDE DEF b
<1> QED
  BY <1>2, <1>4, PartFits DEF Sound

LEMMA RangeFits ==
  ASSUME NEW str, Sound(str), NEW first \in Int, NEW last \in Int,
         NEW r \in sdsrange(str, first, last)
  PROVE  Sound(r)
<1> DEFINE len == str.len
           NotNegative(n) == IF n < 0 THEN 0 ELSE n
           begin == IF first < 0 THEN NotNegative(len + first) ELSE first
           end == IF last < 0 THEN NotNegative(len + last) ELSE last
           newlen == IF begin > end \/ begin >= len THEN 0
                     ELSE IF end >= len THEN len - begin
                     ELSE end - begin + 1
           b == SubSeq(str.buf, begin + 1, begin + newlen)
<1>1. str.buf \in Seq(Byte) /\ len \in Nat /\ Len(str.buf) = len + 1
  BY StringFields DEF Sound, Block, Terminated
<1>2. CASE len = 0
  BY <1>2 DEF sdsrange
<1>3. CASE len # 0
  <2>1. r = Store(str, b)
    BY <1>3 DEF sdsrange
  <2>2. begin \in Nat /\ end \in Nat
    BY <1>1
  <2> HIDE DEF begin, end
  <2>3. newlen \in 0 .. len /\ (newlen = 0 \/ begin + newlen <= len)
    BY <1>1, <2>2
  <2> HIDE DEF newlen, len
  <2> DEFINE i == begin + 1
             j == begin + newlen
  <2>4. /\ i \in Nat /\ j \in Nat /\ i > 0 /\ (j <= Len(str.buf) \/ j < i)
        /\ j - i + 1 = newlen
    BY <1>1, <2>2, <2>3
  <2>5. b = SubSeq(str.buf, i, j)
    OBVIOUS
  <2> HIDE DEF i, j
  <2>6. /\ b \in Seq(Byte) /\ (i <= j => Len(b) = j - i + 1)
        /\ (j < i => b = << >>)
    BY <1>1, <2>4, <2>5, PartIs
  <2> HIDE DEF b
  <2>7. Len(b) <= len
    BY <1>1, <2>3, <2>4, <2>6
  <2> QED
    BY <2>1, <2>6, <2>7, PartFits DEF Sound, len
<1> QED
  BY <1>2, <1>3

(* Other bytes in the same places *)
LEMMA InPlaceFits ==
  ASSUME NEW str, Sound(str), NEW g \in [1 .. str.len + 1 -> Byte],
         g[str.len + 1] = NUL
  PROVE  Sound(SetBuf(str, g))
<1> DEFINE new == SetBuf(str, g)
<1>1. str \in String /\ str.len \in Nat
  BY StringFields DEF Sound, Block
<1>2. g \in Seq(Byte) /\ Len(g) = str.len + 1
  BY <1>1
<1>3. /\ new \in String /\ new.type = str.type /\ new.len = str.len
      /\ new.alloc = str.alloc /\ new.size = str.size /\ new.buf = g
  BY <1>1, <1>2, SetTheRest
<1> HIDE DEF new
<1>4. sdsalloc(new) = sdsalloc(str)
  BY <1>3 DEF sdsalloc
<1>5. Block(new)
  BY <1>2, <1>3, <1>4 DEF Sound, Block
<1>6. Terminated(new)
  BY <1>2, <1>3 DEF Terminated
<1> QED
  BY <1>5, <1>6 DEF Sound, new

LEMMA Places ==
  ASSUME NEW str, Sound(str)
  PROVE  /\ DOMAIN str.buf = 1 .. str.len + 1 /\ str.len \in Nat
         /\ \A k \in 1 .. str.len + 1 : str.buf[k] \in Byte
         /\ str.buf[str.len + 1] = NUL /\ ~ (str.len + 1 <= str.len)
<1>1. str.buf \in Seq(Byte) /\ str.len \in Nat /\ Len(str.buf) = str.len + 1
  BY StringFields DEF Sound, Block, Terminated
<1>2. str.buf[str.len + 1] = NUL
  BY DEF Sound, Terminated
<1> QED
  BY <1>1, <1>2

LEMMA LowerFits ==
  ASSUME NEW str, Sound(str), NEW r \in sdstolower(str)
  PROVE  Sound(r)
<1> DEFINE g == [k \in DOMAIN str.buf |->
                   IF k <= str.len THEN tolower(str.buf[k]) ELSE str.buf[k]]
<1>1. r = SetBuf(str, g)
  BY DEF sdstolower, InPlace, SetBuf
<1>2. \A b \in Byte : tolower(b) \in Byte
  BY DEF tolower, Byte
<1>3. g \in [1 .. str.len + 1 -> Byte] /\ g[str.len + 1] = NUL
  BY <1>2, Places
<1> HIDE DEF g
<1> QED
  BY <1>1, <1>3, InPlaceFits

LEMMA UpperFits ==
  ASSUME NEW str, Sound(str), NEW r \in sdstoupper(str)
  PROVE  Sound(r)
<1> DEFINE g == [k \in DOMAIN str.buf |->
                   IF k <= str.len THEN toupper(str.buf[k]) ELSE str.buf[k]]
<1>1. r = SetBuf(str, g)
  BY DEF sdstoupper, InPlace, SetBuf
<1>2. \A b \in Byte : toupper(b) \in Byte
  BY DEF toupper, Byte
<1>3. g \in [1 .. str.len + 1 -> Byte] /\ g[str.len + 1] = NUL
  BY <1>2, Places
<1> HIDE DEF g
<1> QED
  BY <1>1, <1>3, InPlaceFits

LEMMA MapCharsFits ==
  ASSUME NEW str, Sound(str), NEW from \in Seq(Byte), NEW to \in Seq(Byte),
         Len(from) = Len(to), NEW r \in sdsmapchars(str, from, to)
  PROVE  Sound(r)
<1> DEFINE At1(b) == SelectInSeq(from, LAMBDA c : c = b)
           Mapped(b) == IF At1(b) = 0 THEN b ELSE to[At1(b)]
           g == [k \in DOMAIN str.buf |->
                   IF k <= str.len THEN Mapped(str.buf[k]) ELSE str.buf[k]]
<1>1. r = SetBuf(str, g)
  BY DEF sdsmapchars, InPlace, SetBuf
<1>2. ASSUME NEW b \in Byte PROVE Mapped(b) \in Byte
  <2> DEFINE I == { i \in 1 .. Len(from) : from[i] = b }
  <2>1. CASE I = {}
    <3>1. At1(b) = 0
      BY <2>1 DEF SelectInSeq
    <3> QED
      BY <3>1
  <2>2. CASE I # {}
    <3>1. At1(b) = Min(I)
      BY <2>2 DEF SelectInSeq
    <3>2. I \in SUBSET Nat
      OBVIOUS
    <3>3. PICK i \in I : \A j \in I : i <= j
      BY <2>2, <3>2, Least
    <3>4. Min(I) \in I
      BY <3>3 DEF Min
    <3>5. At1(b) \in 1 .. Len(to)
      BY <3>1, <3>4
    <3> HIDE DEF At1
    <3> QED
      BY <3>5
  <2> QED
    BY <2>1, <2>2
<1> HIDE DEF Mapped
<1>4. DOMAIN g = 1 .. str.len + 1 /\ g = [k \in 1 .. str.len + 1 |-> g[k]]
  BY Places
<1>5. ASSUME NEW k \in 1 .. str.len + 1 PROVE g[k] \in Byte
  <2>1. str.buf[k] \in Byte /\ k \in DOMAIN str.buf
    BY Places
  <2> DEFINE b == str.buf[k]
  <2>2. Mapped(b) \in Byte
    BY <2>1, <1>2
  <2>3. g[k] = IF k <= str.len THEN Mapped(b) ELSE b
    BY <2>1
  <2> HIDE DEF b, g
  <2> QED
    BY <2>1, <2>2, <2>3 DEF b
<1>6. g[str.len + 1] = NUL
  BY Places
<1> HIDE DEF g
<1>3. g \in [1 .. str.len + 1 -> Byte] /\ g[str.len + 1] = NUL
  BY <1>4, <1>5, <1>6
<1> HIDE DEF g
<1> QED
  BY <1>1, <1>3, InPlaceFits

(* What the caller has stored is taken over; the assertion lets through    *)
(* only what is in the room, and nothing in a header without room.         *)
LEMMA IncrLenFits ==
  ASSUME NEW str, Sound(str), NEW incr \in Int, NEW stored \in Seq(Byte),
         \/ Len(stored) <= sdsavail(str) /\ incr = Len(stored)
         \/ stored = << >> /\ incr \in -str.len .. -1,
         NEW r \in sdsIncrLen(str, incr, stored), r \notin Failed
  PROVE  Sound(r)
<1> DEFINE n == str.len + incr
           new == sdssetlen(str, n)
           bytes == Content(str) \o stored
           b == SubSeq(bytes, 1, new.len)
<1>1. r = [new EXCEPT !.buf = Append(b, NUL)]
  BY DEF sdsIncrLen, Failed, sdsinclen
<1>2. /\ str.len \in Nat /\ str.len <= sdsalloc(str) /\ sdsalloc(str) \in Nat
      /\ Len(stored) \in Nat /\ sdsavail(str) = sdsalloc(str) - str.len
  BY ContentIs, AvailIs DEF Sound
<1>3. /\ str \in String /\ sdsalloc(str) < TypeLimit[str.type]
      /\ TypeLimit[str.type] \in Nat
      /\ HdrSize[str.type] \in Nat
      /\ HdrSize[str.type] + sdsalloc(str) + 1 <= str.size
      /\ str.size \in Nat
  BY AvailIs, StringFields DEF Sound, Block
<1>4. n \in 0 .. sdsalloc(str) /\ n <= str.len + Len(stored)
  <2>1. CASE Len(stored) <= sdsavail(str) /\ incr = Len(stored)
    BY <1>2, <2>1
  <2>2. CASE stored = << >> /\ incr \in -str.len .. -1
    BY <1>2, <2>2
  <2> QED
    BY <2>1, <2>2
<1> HIDE DEF n
<1>16. n \in Nat /\ str \in String
  BY <1>2, <1>3, <1>4
<1>5. /\ new \in String /\ new.type = str.type
      /\ new.len = n % TypeLimit[str.type]
      /\ new.alloc = str.alloc /\ new.size = str.size
  BY <1>16, SetLen
<1>17. n < TypeLimit[str.type]
  BY <1>2, <1>3, <1>4
<1>6. n % TypeLimit[str.type] = n
  <2> DEFINE m == TypeLimit[str.type]
  <2>1. m \in Nat /\ n \in Nat /\ n < m
    BY <1>3, <1>16, <1>17
  <2> HIDE DEF m
  <2>2. n % m = n
    BY <2>1, Remainder
  <2> QED
    BY <2>2 DEF m
<1> HIDE DEF new
<1>7. bytes \in Seq(Byte) /\ Len(bytes) = str.len + Len(stored)
  <2> DEFINE t == Content(str)
  <2>1. t \in Seq(Byte) /\ Len(t) = str.len
    BY ContentIs DEF Sound
  <2> HIDE DEF t
  <2>2. t \o stored \in Seq(Byte) /\ Len(t \o stored) = Len(t) + Len(stored)
    BY <2>1, Behind
  <2> QED
    BY <2>1, <2>2 DEF t
<1> HIDE DEF bytes
<1>8. b \in Seq(Byte) /\ Len(b) = n
  <2>1. n \in Nat /\ n <= Len(bytes) /\ new.len = n
    BY <1>2, <1>4, <1>5, <1>6, <1>7
  <2>2. /\ b \in Seq(Byte) /\ (1 <= n => Len(b) = n - 1 + 1)
        /\ (n < 1 => b = << >>)
    BY <1>7, <2>1, PartIs
  <2> QED
    BY <2>1, <2>2
<1> HIDE DEF b
<1>9. r = SetBuf(new, Append(b, NUL))
  BY <1>1 DEF SetBuf
<1>10. /\ r \in String /\ r.type = str.type /\ r.len = n
       /\ r.alloc = str.alloc /\ r.size = str.size /\ r.buf = Append(b, NUL)
  BY <1>5, <1>6, <1>8, <1>9, SetTheRest, TerminatorIsBehind
<1>11. Terminated(r)
  BY <1>8, <1>10, TerminatorIsBehind DEF Terminated
<1>12. sdsalloc(r) = IF str.type = SDS_TYPE_5 THEN n ELSE sdsalloc(str)
  BY <1>10 DEF sdsalloc
<1>13. n <= sdsalloc(r) /\ n < TypeLimit[str.type]
  BY <1>2, <1>3, <1>4, <1>12
<1>14. HdrSize[str.type] + n + 1 <= str.size
  BY <1>2, <1>3, <1>4
<1>15. Block(r)
  BY <1>10, <1>11, <1>13, <1>14 DEF Sound, Block, Terminated
<1> QED
  BY <1>11, <1>15 DEF Sound

-----------------------------------------------------------------------------
(* sdscatfmt() *)

DigitStep(g, v) ==
  << 48 + (v % 10) >> \o (IF v \div 10 = 0 THEN << >> ELSE g[v \div 10])

(* The function g is right up to n. *)
DigitsUpTo(n, g) == \A v \in 0 .. n : g[v] = DigitStep(g, v)

LEMMA Tenth ==
  ASSUME NEW v \in Nat
  PROVE  /\ v \div 10 \in Nat
         /\ v \div 10 # 0 => v \div 10 < v
         /\ v % 10 \in 0 .. 9
OBVIOUS

LEMMA DigitsPrefix ==
  ASSUME NEW n \in Nat
  PROVE  \E g : DigitsUpTo(n, g)
<1> DEFINE Bad == { m \in Nat : ~ \E g : DigitsUpTo(m, g) }
<1> SUFFICES ASSUME Bad # {} PROVE FALSE
  OBVIOUS
<1>1. Bad \in SUBSET Nat
  OBVIOUS
<1>2. PICK m \in Bad : \A k \in Bad : m <= k
  BY <1>1, Least
<1>3. \E h : \A v \in 0 .. m - 1 : h[v] = DigitStep(h, v)
  <2>1. CASE m = 0
    BY <2>1
  <2>2. CASE m # 0
    <3>1. m - 1 \in Nat /\ ~ (m <= m - 1)
      BY <2>2
    <3>2. m - 1 \notin Bad
      BY <1>2, <3>1
    <3> QED
      BY <3>1, <3>2 DEF DigitsUpTo
  <2> QED
    BY <2>1, <2>2
<1>4. PICK h : \A v \in 0 .. m - 1 : h[v] = DigitStep(h, v)
  BY <1>3
<1> DEFINE g == [v \in 0 .. m |-> IF v = m THEN DigitStep(h, m) ELSE h[v]]
<1>5. m \in Nat
  OBVIOUS
<1>6. \A v \in 0 .. m - 1 : g[v] = h[v]
  BY <1>5
<1>7. g[m] = DigitStep(h, m)
  BY <1>5
<1> HIDE DEF g
<1>8. ASSUME NEW v \in 0 .. m PROVE g[v] = DigitStep(g, v)
  <2>1. DigitStep(g, v) = DigitStep(h, v)
    <3>1. CASE v \div 10 = 0
      BY <3>1 DEF DigitStep
    <3>2. CASE v \div 10 # 0
      <4>1. v \div 10 \in Nat /\ v \div 10 < v /\ v \in Nat
        BY <3>2, Tenth
      <4>2. v \div 10 \in 0 .. m - 1
        BY <1>5, <4>1
      <4>3. g[v \div 10] = h[v \div 10]
        BY <1>6, <4>2
      <4> QED
        BY <4>3 DEF DigitStep
    <3> QED
      BY <3>1, <3>2
  <2>2. v = m \/ v \in 0 .. m - 1
    BY <1>5
  <2> QED
    BY <1>4, <1>6, <1>7, <2>1, <2>2
<1>9. DigitsUpTo(m, g)
  BY <1>8 DEF DigitsUpTo
<1> QED
  BY <1>2, <1>9

LEMMA DigitsAgree ==
  ASSUME NEW m \in Nat, NEW n \in Nat, NEW g, NEW h,
         DigitsUpTo(m, g), DigitsUpTo(n, h),
         NEW v \in Nat, v <= m, v <= n
  PROVE  g[v] = h[v]
<1> DEFINE Bad == { k \in Nat : k <= m /\ k <= n /\ g[k] # h[k] }
<1> SUFFICES ASSUME Bad # {} PROVE FALSE
  OBVIOUS
<1>1. Bad \in SUBSET Nat
  OBVIOUS
<1>2. PICK k \in Bad : \A l \in Bad : k <= l
  BY <1>1, Least
<1>3. k \in Nat /\ k <= m /\ k <= n /\ g[k] # h[k]
  OBVIOUS
<1>4. g[k] = DigitStep(g, k) /\ h[k] = DigitStep(h, k)
  BY <1>3 DEF DigitsUpTo
<1>5. DigitStep(g, k) = DigitStep(h, k)
  <2>1. CASE k \div 10 = 0
    BY <2>1 DEF DigitStep
  <2>2. CASE k \div 10 # 0
    <3>1. k \div 10 \in Nat /\ k \div 10 < k
      BY <1>3, <2>2, Tenth
    <3>2. k \div 10 <= m /\ k \div 10 <= n /\ ~ (k <= k \div 10)
      BY <1>3, <3>1
    <3>3. k \div 10 \notin Bad
      BY <1>2, <3>2
    <3>4. g[k \div 10] = h[k \div 10]
      BY <3>1, <3>2, <3>3
    <3> QED
      BY <3>4 DEF DigitStep
  <2> QED
    BY <2>1, <2>2
<1> QED
  BY <1>3, <1>4, <1>5

(* The recursion of Digits defines a function. *)
LEMMA DigitsIs ==
  ASSUME NEW v \in Nat
  PROVE  Digits[v] = DigitStep(Digits, v)
<1> DEFINE Prefix(n) == CHOOSE g : DigitsUpTo(n, g)
           h == [n \in Nat |-> Prefix(n)[n]]
<1>1. \A n \in Nat : DigitsUpTo(n, Prefix(n))
  BY DigitsPrefix
<1>2. \A n \in Nat : h[n] = Prefix(n)[n]
  OBVIOUS
<1>7. h = [n \in Nat |-> h[n]]
  OBVIOUS
<1> HIDE DEF Prefix, h
<1>3. ASSUME NEW n \in Nat PROVE h[n] = DigitStep(h, n)
  <2>1. Prefix(n)[n] = DigitStep(Prefix(n), n)
    BY <1>1 DEF DigitsUpTo
  <2>2. DigitStep(Prefix(n), n) = DigitStep(h, n)
    <3>1. CASE n \div 10 = 0
      BY <3>1 DEF DigitStep
    <3>2. CASE n \div 10 # 0
      <4> DEFINE k == n \div 10
      <4>1. k \in Nat /\ k <= n /\ k <= k
        BY <3>2, Tenth
      <4>5. k = n \div 10
        OBVIOUS
      <4> HIDE DEF k
      <4>2. DigitsUpTo(n, Prefix(n)) /\ DigitsUpTo(k, Prefix(k))
        BY <1>1, <4>1
      <4>3. Prefix(n)[k] = Prefix(k)[k]
        BY <4>1, <4>2, DigitsAgree
      <4>4. Prefix(n)[k] = h[k]
        BY <1>2, <4>1, <4>3
      <4> QED
        BY <4>4, <4>5 DEF DigitStep
    <3> QED
      BY <3>1, <3>2
  <2> QED
    BY <1>2, <2>1, <2>2
<1>4. h = [n \in Nat |-> DigitStep(h, n)]
  BY <1>3, <1>7
<1>5. Digits = CHOOSE g : g = [n \in Nat |-> DigitStep(g, n)]
  BY DEF Digits, DigitStep
<1>6. Digits = [n \in Nat |-> DigitStep(Digits, n)]
  BY <1>4, <1>5
<1> QED
  BY <1>6

(* Digits are bytes. *)
LEMMA DigitsAreBytes ==
  ASSUME NEW v \in Nat
  PROVE  Digits[v] \in Seq(Byte)
<1> DEFINE Bad == { k \in Nat : Digits[k] \notin Seq(Byte) }
<1> SUFFICES ASSUME Bad # {} PROVE FALSE
  OBVIOUS
<1>1. Bad \in SUBSET Nat
  OBVIOUS
<1>2. PICK k \in Bad : \A l \in Bad : k <= l
  BY <1>1, Least
<1>3. k \in Nat /\ Digits[k] \notin Seq(Byte)
  OBVIOUS
<1> DEFINE rest == IF k \div 10 = 0 THEN << >> ELSE Digits[k \div 10]
           last == << 48 + (k % 10) >>
<1>4. rest \in Seq(Byte)
  <2>1. CASE k \div 10 = 0
    BY <2>1
  <2>2. CASE k \div 10 # 0
    <3>1. k \div 10 \in Nat /\ ~ (k <= k \div 10)
      BY <1>3, <2>2, Tenth
    <3> QED
      BY <1>2, <2>2, <3>1
  <2> QED
    BY <2>1, <2>2
<1>5. last \in Seq(Byte)
  <2>1. 48 + (k % 10) \in Byte
    BY <1>3, Tenth DEF Byte
  <2> QED
    BY <2>1
<1>6. Digits[k] = last \o rest
  BY <1>3, DigitsIs DEF DigitStep
<1> HIDE DEF last, rest
<1> QED
  BY <1>3, <1>4, <1>5, <1>6, Behind

LEMMA ReverseIs ==
  ASSUME NEW b \in Seq(Byte)
  PROVE  Reverse(b) \in Seq(Byte) /\ Len(Reverse(b)) = Len(b)
<1>1. Len(b) \in Nat /\ \A i \in 1 .. Len(b) : b[i] \in Byte
  OBVIOUS
<1>2. \A i \in 1 .. Len(b) : (Len(b) - i) + 1 \in 1 .. Len(b)
  BY <1>1
<1>3. \A i \in 1 .. Len(b) : b[(Len(b) - i) + 1] \in Byte
  BY <1>1, <1>2
<1> QED
  BY <1>1, <1>3 DEF Reverse

(* What an item of a format stands for are bytes, no more than one where   *)
(* the item is no conversion.                                              *)
LEMMA FormatTextIs ==
  ASSUME NEW item \in Item
  PROVE  /\ FormatText(item) \in Seq(Byte)
         /\ item.kind \in { "%s", "%i", "%u" } \/ Len(FormatText(item)) <= 1
<1>1. CASE item \in [kind : { "c", "%%" }, text : { << b >> : b \in Byte }]
  <2>1. item.kind # "%i" /\ item.kind # "%u"
    BY <1>1
  <2>2. FormatText(item) = item.text
    BY <2>1 DEF FormatText
  <2>3. PICK b \in Byte : item.text = << b >>
    BY <1>1
  <2> QED
    BY <2>2, <2>3
<1>2. CASE item \in [kind : { "end" }, text : { << >> }]
  <2>1. item.kind # "%i" /\ item.kind # "%u" /\ item.text = << >>
    BY <1>2
  <2> QED
    BY <2>1 DEF FormatText
<1>3. CASE item \in [kind : { "%s" }, text : Seq(Byte)]
  <2>1. item.kind = "%s" /\ item.text \in Seq(Byte)
    BY <1>3
  <2> QED
    BY <2>1 DEF FormatText
<1>4. CASE item \in [kind : { "%i" }, num : (-LLONG_MAX - 1) .. LLONG_MAX]
  <2> DEFINE value == item.num
             v == IF value >= 0 THEN value
                  ELSE IF value # -LLONG_MAX - 1 THEN -value
                  ELSE LLONG_MAX + 1
             sign == IF value < 0 THEN << 45 >> ELSE << >>
             b == Digits[v] \o sign
  <2>1. item.kind = "%i" /\ value \in (-LLONG_MAX - 1) .. LLONG_MAX
    BY <1>4
  <2>2. FormatText(item) = Reverse(b)
    BY <2>1 DEF FormatText, sdsll2str
  <2>3. v \in Nat
    BY <2>1, SdsAssumption
  <2>4. sign \in Seq(Byte)
    <3>1. 45 \in Byte
      BY DEF Byte
    <3>2. << 45 >> \in Seq(Byte) /\ << >> \in Seq(Byte)
      BY <3>1
    <3> QED
      BY <3>2
  <2> HIDE DEF v, sign
  <2>5. b \in Seq(Byte)
    BY <2>3, <2>4, DigitsAreBytes, Behind
  <2> QED
    BY <2>1, <2>2, <2>5, ReverseIs
<1>5. CASE item \in [kind : { "%u" }, num : 0 .. (2 * LLONG_MAX + 1)]
  <2>1. item.kind = "%u" /\ item.num \in Nat
    BY <1>5
  <2>2. FormatText(item) = Reverse(Digits[item.num])
    BY <2>1 DEF FormatText, sdsull2str
  <2> QED
    BY <2>1, <2>2, DigitsAreBytes, ReverseIs
<1> QED
  BY <1>1, <1>2, <1>3, <1>4, <1>5 DEF Item

(* There is room for what comes next in a format. *)
LEMMA FormatRoomFits ==
  ASSUME NEW str, Block(str), NEW item, NEW text \in Seq(Byte),
         Len(text) <= MaxBlock,
         item.kind \in { "%s", "%i", "%u" } \/ Len(text) <= 1,
         NEW r \in FormatRoom(str, item, text), r \notin Failed
  PROVE  /\ Block(r) /\ r.len = str.len /\ r.buf = str.buf
         /\ Len(text) <= sdsavail(r)
<1> DEFINE Conversion(q) == item.kind \in { "%s", "%i", "%u" }
                              /\ q \notin Failed /\ sdsavail(q) < Len(text)
<1>1. PICK q \in IF sdsavail(str) = 0 THEN sdsMakeRoomFor(str, 1)
                 ELSE { str } :
        r \in IF Conversion(q) THEN sdsMakeRoomFor(q, Len(text)) ELSE { q }
  BY DEF FormatRoom
<1>2. q \notin Failed /\ q # NULL /\ q # ABORT
  <2>1. q \notin Failed
    <3> SUFFICES ASSUME q \in Failed PROVE FALSE
      OBVIOUS
    <3>1. ~ Conversion(q)
      OBVIOUS
    <3> QED
      BY <1>1, <3>1
  <2> QED
    BY <2>1 DEF Failed
<1>7. r # NULL /\ r # ABORT
  BY DEF Failed
<1>3. /\ Len(text) \in Nat /\ str.len \in Nat /\ str.len <= MaxBlock
      /\ str.len + 1 <= SIZE_MAX /\ str.len + Len(text) <= SIZE_MAX
  <2>1. /\ Len(text) \in Nat /\ str.len \in Nat /\ str.len <= MaxBlock
        /\ str.type \in Type
    BY ContentIs DEF Block, String
  <2>2. /\ HdrSize[str.type] \in Nat /\ MaxBlock \in Nat /\ SIZE_MAX \in Nat
        /\ 2 * MaxBlock + HdrSize[str.type] < SIZE_MAX
    BY <2>1, Sizes
  <2> QED
    BY <2>1, <2>2, Sizes
<1>4. /\ Block(q) /\ q.len = str.len /\ q.buf = str.buf
      /\ sdsavail(q) \in Nat /\ 1 <= sdsavail(q)
  <2>1. CASE sdsavail(str) = 0
    <3>1. Block(q) /\ q.len = str.len /\ q.buf = str.buf
            /\ str.len + 1 <= sdsalloc(q)
      BY <1>1, <1>2, <1>3, <2>1, MakeRoomFits
    <3>2. sdsavail(q) = sdsalloc(q) - q.len /\ sdsavail(q) \in Nat
            /\ sdsalloc(q) \in Nat
      BY <3>1, AvailIs
    <3> QED
      BY <1>3, <3>1, <3>2
  <2>2. CASE sdsavail(str) # 0
    <3>1. q = str /\ sdsavail(str) \in Nat
      BY <1>1, <2>2, AvailIs
    <3> QED
      BY <2>2, <3>1
  <2> QED
    BY <2>1, <2>2
<1>5. CASE Conversion(q)
  <2>1. r \in sdsMakeRoomFor(q, Len(text))
    BY <1>1, <1>5
  <2>2. q.len + Len(text) <= SIZE_MAX
    BY <1>3, <1>4
  <2>3. /\ Block(r) /\ r.len = q.len /\ r.buf = q.buf
        /\ q.len + Len(text) <= sdsalloc(r)
    BY <1>3, <1>4, <1>7, <2>1, <2>2, MakeRoomFits
  <2>4. sdsavail(r) = sdsalloc(r) - r.len /\ sdsalloc(r) \in Nat
    BY <2>3, AvailIs
  <2> QED
    BY <1>3, <1>4, <2>3, <2>4
<1>6. CASE ~ Conversion(q)
  <2>1. r = q
    BY <1>1, <1>6
  <2>2. Len(text) <= sdsavail(q)
    <3>1. CASE item.kind \in { "%s", "%i", "%u" }
      BY <1>2, <1>3, <1>4, <1>6, <3>1
    <3>2. CASE Len(text) <= 1
      BY <1>3, <1>4, <3>2
    <3> QED
      BY <3>1, <3>2
  <2> QED
    BY <1>4, <2>1, <2>2
<1> QED
  BY <1>5, <1>6

(* So a round of sdscatfmt() stays inside the block. *)
LEMMA FormatItemFits ==
  ASSUME NEW str, Block(str), NEW item \in Item,
         Len(FormatText(item)) <= MaxBlock,
         NEW r \in FormatItem(str, item), r \notin { ABORT, SIGSEGV }
  PROVE  Block(r)
<1> DEFINE text == FormatText(item)
<1>1. PICK q \in FormatRoom(str, item, text) :
        r = IF q = NULL THEN SIGSEGV
            ELSE IF q \in Failed THEN q
            ELSE [sdsinclen(q, Len(text)) EXCEPT !.buf = Content(q) \o text]
  BY DEF FormatItem
<1>2. /\ q \notin Failed
      /\ r = [sdsinclen(q, Len(text)) EXCEPT !.buf = Content(q) \o text]
  BY <1>1 DEF Failed
<1>3. /\ text \in Seq(Byte)
      /\ item.kind \in { "%s", "%i", "%u" } \/ Len(text) <= 1
  BY FormatTextIs
<1>12. Len(text) <= MaxBlock
  OBVIOUS
<1> HIDE DEF text
<1>4. Block(q) /\ Len(text) <= sdsavail(q)
  BY <1>2, <1>3, <1>12, FormatRoomFits
<1> DEFINE n == q.len + Len(text)
           new == sdssetlen(q, n)
           b == Content(q) \o text
<1>5. /\ q \in String /\ q.len \in Nat /\ sdsalloc(q) \in Nat
      /\ sdsavail(q) = sdsalloc(q) - q.len
      /\ sdsalloc(q) < TypeLimit[q.type] /\ TypeLimit[q.type] \in Nat
      /\ HdrSize[q.type] \in Nat /\ q.size \in Nat
      /\ HdrSize[q.type] + sdsalloc(q) + 1 <= q.size /\ Len(text) \in Nat
  BY <1>3, <1>4, AvailIs, StringFields DEF Block
<1>6. /\ n \in Nat /\ n <= sdsalloc(q) /\ n < TypeLimit[q.type]
      /\ HdrSize[q.type] + n + 1 <= q.size
  <2>1. n \in Nat /\ n <= sdsalloc(q)
    BY <1>4, <1>5
  <2> HIDE DEF n
  <2> DEFINE h == HdrSize[q.type]
             l == TypeLimit[q.type]
             a == sdsalloc(q)
             z == q.size
  <2>2. /\ h \in Nat /\ l \in Nat /\ a \in Nat /\ z \in Nat
        /\ a < l /\ h + a + 1 <= z /\ n <= a
    BY <1>5, <2>1
  <2> HIDE DEF h, l, a, z
  <2>3. n < l /\ h + n + 1 <= z
    BY <2>1, <2>2
  <2> QED
    BY <2>1, <2>3 DEF h, l, a, z
<1>7. b \in Seq(Byte) /\ Len(b) = n
  <2>1. Content(q) \in Seq(Byte) /\ Len(Content(q)) = q.len
    BY <1>4, ContentIs
  <2>2. b \in Seq(Byte) /\ Len(b) = Len(Content(q)) + Len(text)
    BY <1>3, <2>1, Behind
  <2> QED
    BY <2>1, <2>2
<1>8. r = SetBuf(new, b)
  BY <1>2 DEF SetBuf, sdsinclen
<1> HIDE DEF n, b
<1>9. /\ new \in String /\ new.type = q.type
      /\ new.len = n % TypeLimit[q.type]
      /\ new.alloc = q.alloc /\ new.size = q.size
  BY <1>5, <1>6, SetLen
<1>10. n % TypeLimit[q.type] = n
  BY <1>5, <1>6, Remainder
<1> HIDE DEF new
<1>11. /\ r \in String /\ r.type = q.type /\ r.len = n
       /\ r.alloc = q.alloc /\ r.size = q.size /\ r.buf = b
  BY <1>7, <1>8, <1>9, <1>10, SetTheRest
<1>13. sdsalloc(r) = IF q.type = SDS_TYPE_5 THEN n ELSE sdsalloc(q)
  BY <1>11 DEF sdsalloc
<1>14. n <= sdsalloc(r)
  BY <1>6, <1>13
<1> QED
  BY <1>4, <1>6, <1>7, <1>11, <1>14 DEF Block

(* The terminator is put behind what the format has left. *)
LEMMA FormatEndFits ==
  ASSUME NEW str, Block(str)
  PROVE  Sound([str EXCEPT !.buf = Append(Content(str), NUL)])
<1> DEFINE b == Append(Content(str), NUL)
           new == SetBuf(str, b)
<1>1. str \in String /\ str.len \in Nat
  BY StringFields DEF Block
<1>2. b \in Seq(Byte) /\ Len(b) = str.len + 1 /\ b[str.len + 1] = NUL
  BY ContentIs, TerminatorIsBehind
<1> HIDE DEF b
<1>3. /\ new \in String /\ new.type = str.type /\ new.len = str.len
      /\ new.alloc = str.alloc /\ new.size = str.size /\ new.buf = b
  BY <1>1, <1>2, SetTheRest
<1>6. [str EXCEPT !.buf = b] = new
  BY DEF SetBuf
<1> HIDE DEF new
<1>4. sdsalloc(new) = sdsalloc(str)
  BY <1>3 DEF sdsalloc
<1>5. Block(new) /\ Terminated(new)
  BY <1>2, <1>3, <1>4 DEF Block, Terminated
<1> QED
  BY <1>5, <1>6 DEF Sound, b

-----------------------------------------------------------------------------
(* What is passed *)

LEMMA TextIsPiece ==
  /\ \A t \in Text \cup Raw : t \in Seq(Byte) /\ Len(t) <= MaxBlock
  /\ Text \cup Raw \subseteq Piece
BY ApiAssumption DEF Piece

(* An escaped byte takes at most four. *)
LEMMA EscapeIsPiece ==
  ASSUME NEW b \in Byte
  PROVE  Escape(b) \in Piece
<1>1. CASE b \in { 34, 92 }
  <2>1. Escape(b) = << 92, b >>
    BY <1>1 DEF Escape
  <2>2. << 92, b >> \in Seq(Byte) /\ Len(<< 92, b >>) = 2
    BY DEF Byte
  <2> QED
    BY <2>1, <2>2, Sizes DEF Piece
<1>2. CASE b \notin { 34, 92 } /\ b \in { 7, 8, 9, 10, 13 }
  <2> DEFINE c == EscapeLetter[b - 6]
  <2>1. Escape(b) = << 92, c >>
    BY <1>2 DEF Escape
  <2>2. c \in { 97, 98, 116, 110, 114 }
    BY <1>2 DEF EscapeLetter
  <2> HIDE DEF c
  <2>3. << 92, c >> \in Seq(Byte) /\ Len(<< 92, c >>) = 2
    BY <2>2 DEF Byte
  <2> QED
    BY <2>1, <2>3, Sizes DEF Piece
<1>3. CASE b \notin { 34, 92, 7, 8, 9, 10, 13 } /\ isprint(b)
  <2>1. Escape(b) = << b >>
    BY <1>3 DEF Escape
  <2> QED
    BY <2>1, Sizes DEF Piece
<1>4. CASE b \notin { 34, 92, 7, 8, 9, 10, 13 } /\ ~ isprint(b)
  <2> DEFINE c == HexDigit(b \div 16)
             d == HexDigit(b % 16)
  <2>1. Escape(b) = << 92, 120, c, d >>
    BY <1>4 DEF Escape
  <2>2. b \div 16 \in 0 .. 15 /\ b % 16 \in 0 .. 15
    BY DEF Byte
  <2>3. c \in Byte /\ d \in Byte
    BY <2>2 DEF HexDigit, Byte
  <2> HIDE DEF c, d
  <2>4. 92 \in Byte /\ 120 \in Byte
    BY DEF Byte
  <2>5. << 92, 120, c, d >> \in Seq(Byte) /\ Len(<< 92, 120, c, d >>) = 4
    BY <2>3, <2>4
  <2> QED
    BY <2>1, <2>5, Sizes DEF Piece
<1> QED
  BY <1>1, <1>2, <1>3, <1>4

(* What sdscatrepr() and sdsjoinsds() append, one after the other *)
LEMMA ReprPiecesArePieces ==
  ASSUME NEW t \in Seq(Byte)
  PROVE  ReprPieces(t) \in Seq(Piece)
<1> DEFINE inner == [k \in 1 .. Len(t) |-> Escape(t[k])]
           quote == << << 34 >> >>
<1>1. \A k \in 1 .. Len(t) : Escape(t[k]) \in Piece
  BY EscapeIsPiece
<1>2. inner \in Seq(Piece)
  BY <1>1
<1>3. << 34 >> \in Piece
  <2>1. << 34 >> \in Seq(Byte) /\ Len(<< 34 >>) = 1
    BY DEF Byte
  <2> QED
    BY <2>1, Sizes DEF Piece
<1>4. quote \in Seq(Piece)
  BY <1>3
<1>5. ReprPieces(t) = quote \o inner \o quote
  BY DEF ReprPieces
<1> HIDE DEF quote, inner
<1>6. quote \o inner \in Seq(Piece)
  BY <1>2, <1>4
<1> QED
  BY <1>4, <1>5, <1>6

LEMMA Halves ==
  ASSUME NEW n \in Nat, NEW k \in 1 .. 2 * n - 1, k % 2 = 1
  PROVE  k \div 2 + 1 \in 1 .. n
OBVIOUS

LEMMA JoinPiecesArePieces ==
  ASSUME NEW P, NEW argv \in Seq(P), NEW sep \in P
  PROVE  /\ JoinPieces(argv, sep) \in Seq(P)
         /\ argv = << >> => Len(JoinPieces(argv, sep)) = 0
         /\ argv # << >> => Len(JoinPieces(argv, sep)) = 2 * Len(argv) - 1
<1> DEFINE n == Len(argv)
           g == JoinPieces(argv, sep)
<1>1. n \in Nat /\ \A k \in 1 .. n : argv[k] \in P
  OBVIOUS
<1>2. g = [k \in 1 .. 2 * n - 1 |->
             IF k % 2 = 1 THEN argv[k \div 2 + 1] ELSE sep]
  BY DEF JoinPieces
<1> HIDE DEF g
<1>3. ASSUME NEW k \in 1 .. 2 * n - 1 PROVE g[k] \in P
  <2>1. g[k] = IF k % 2 = 1 THEN argv[k \div 2 + 1] ELSE sep
    BY <1>2
  <2>2. CASE k % 2 = 1
    BY <1>1, <2>1, <2>2, Halves
  <2>3. CASE ~ (k % 2 = 1)
    BY <2>1, <2>3
  <2> QED
    BY <2>2, <2>3
<1>4. CASE n = 0
  <2>1. 1 .. 2 * n - 1 = {} /\ 1 .. 0 = {}
    BY <1>4
  <2>2. g = [k \in 1 .. 0 |-> sep]
    BY <1>2, <2>1, Zenon
  <2>3. g \in Seq(P) /\ Len(g) = 0
    BY <2>2
  <2> QED
    BY <1>4, <2>3 DEF g
<1>5. CASE n # 0
  <2>1. 2 * n - 1 \in Nat
    BY <1>1, <1>5
  <2>2. g \in [1 .. 2 * n - 1 -> P]
    BY <1>2, <1>3
  <2>3. g \in Seq(P) /\ Len(g) = 2 * n - 1
    BY <2>1, <2>2
  <2> QED
    BY <1>5, <2>3 DEF g
<1> QED
  BY <1>4, <1>5

-----------------------------------------------------------------------------
(* The string, call by call *)

LEMMA BeginHolds ==
  ASSUME HoldsString, NEW c, Begin(c), Passed(c, s),
         c.op = "sdscatfmt" => s.len <= MaxLen
  PROVE  HoldsString'
<1>1. /\ call = NoCall /\ Alive /\ call' = c
      /\ UNCHANGED << s, f, returned >>
  BY DEF Begin
<1>2. f = 0 /\ ~ Formatting
  BY <1>1 DEF HoldsString, Formatting
<1>3. s # NULL => Block(s) /\ Terminated(s)
  BY <1>1, <1>2 DEF HoldsString, Running
<1> QED
  BY <1>1, <1>2, <1>3 DEF HoldsString, Calling

LEMMA PairIsSeq ==
  ASSUME NEW S, NEW pair \in [1 .. 2 -> S]
  PROVE  pair \in Seq(S)
<1>1. 2 \in Nat
  OBVIOUS
<1> QED
  BY <1>1, SeqDef, Zenon

LEMMA CallNewHolds ==
  ASSUME HoldsString, CallNew
  PROVE  HoldsString'
<1>1. CASE \E t \in Text : Begin([op |-> "sdsnewlen", text |-> t])
  <2>1. PICK t \in Text : Begin([op |-> "sdsnewlen", text |-> t])
    BY <1>1
  <2>2. Passed([op |-> "sdsnewlen", text |-> t], s)
    BY DEF Passed, Working, Builds
  <2> QED
    BY <2>1, <2>2, BeginHolds
<1>2. CASE \E t \in Raw : Begin([op |-> "sdscatrepr", text |-> t,
                                 pieces |-> ReprPieces(t)])
  <2>1. PICK t \in Raw : Begin([op |-> "sdscatrepr", text |-> t,
                                pieces |-> ReprPieces(t)])
    BY <1>2
  <2>2. ReprPieces(t) \in Seq(Piece)
    BY TextIsPiece, ReprPiecesArePieces
  <2>3. Passed([op |-> "sdscatrepr", text |-> t, pieces |-> ReprPieces(t)],
               s)
    BY <2>2 DEF Passed, Working, Builds
  <2> QED
    BY <2>1, <2>3, BeginHolds
<1>3. CASE \E argv \in { << >> } \cup [1 .. 2 -> Text],
              sep \in { t \in Text : Len(t) = 1 } :
             /\ Len(FlattenSeq(argv)) < MaxLen
             /\ Begin([op |-> "sdsjoinsds", argv |-> argv, sep |-> sep,
                       pieces |-> JoinPieces(argv, sep)])
  <2>1. PICK argv \in { << >> } \cup [1 .. 2 -> Text],
             sep \in { t \in Text : Len(t) = 1 } :
          Begin([op |-> "sdsjoinsds", argv |-> argv, sep |-> sep,
                 pieces |-> JoinPieces(argv, sep)])
    BY <1>3
  <2>2. argv \in Seq(Piece) /\ sep \in Piece
    <3>1. Text \subseteq Piece
      BY TextIsPiece
    <3>2. CASE argv = << >>
      BY <3>1, <3>2
    <3>3. CASE argv \in [1 .. 2 -> Text]
      <4>1. argv \in [1 .. 2 -> Piece] /\ sep \in Piece
        BY <3>1, <3>3
      <4>2. argv \in Seq(Piece)
        BY <4>1, PairIsSeq
      <4> QED
        BY <4>1, <4>2
    <3> QED
      BY <3>2, <3>3
  <2>3. JoinPieces(argv, sep) \in Seq(Piece)
    BY <2>2, JoinPiecesArePieces
  <2> DEFINE c == [op |-> "sdsjoinsds", argv |-> argv, sep |-> sep,
                   pieces |-> JoinPieces(argv, sep)]
  <2>4. Passed(c, s)
    BY <2>3 DEF Passed, Working, Builds
  <2>5. Begin(c) /\ c.op # "sdscatfmt"
    BY <2>1
  <2> HIDE DEF c
  <2> QED
    BY <2>4, <2>5, BeginHolds
<1> QED
  BY <1>1, <1>2, <1>3 DEF CallNew

LEMMA CallWithoutArgumentHolds ==
  ASSUME HoldsString, CallWithoutArgument
  PROVE  HoldsString'
<1>1. CASE s # NULL /\ Begin([op |-> "sdsfree"])
  <2>1. Passed([op |-> "sdsfree"], s)
    BY DEF Passed, Working, Builds
  <2> QED
    BY <1>1, <2>1, BeginHolds
<1>2. CASE /\ Works
           /\ \E op \in { "sdsdup", "sdsclear", "sdsRemoveFreeSpace",
                          "sdstolower", "sdstoupper" } : Begin([op |-> op])
  <2>1. PICK op \in { "sdsdup", "sdsclear", "sdsRemoveFreeSpace",
                      "sdstolower", "sdstoupper" } : Begin([op |-> op])
    BY <1>2
  <2>2. Passed([op |-> op], s) /\ op # "sdscatfmt"
    BY <1>2 DEF Passed, Working, Builds, Works
  <2> QED
    BY <2>1, <2>2, BeginHolds
<1> QED
  BY <1>1, <1>2 DEF CallWithoutArgument

LEMMA CallWithTextHolds ==
  ASSUME HoldsString, CallWithText
  PROVE  HoldsString'
<1>1. Works /\ s # NULL
  BY DEF CallWithText, Works
<1>2. PICK t \in Text :
        \/ Begin([op |-> "sdscpylen", text |-> t])
        \/ Begin([op |-> "sdstrim", cset |-> Range(t) \ {NUL}])
        \/ Begin([op |-> "sdscatlen", text |-> t])
        \/ \E fmtlen \in Size :
             Begin([op |-> "sdscatvprintf", fmtlen |-> fmtlen, text |-> t])
  BY DEF CallWithText
<1>3. CASE Begin([op |-> "sdscpylen", text |-> t])
  <2>1. Passed([op |-> "sdscpylen", text |-> t], s)
    BY <1>1 DEF Passed, Working, Builds
  <2> QED
    BY <1>3, <2>1, BeginHolds
<1>4. CASE Begin([op |-> "sdstrim", cset |-> Range(t) \ {NUL}])
  <2>1. Passed([op |-> "sdstrim", cset |-> Range(t) \ {NUL}], s)
    BY <1>1 DEF Passed, Working, Builds
  <2> QED
    BY <1>4, <2>1, BeginHolds
<1>5. CASE Begin([op |-> "sdscatlen", text |-> t])
  <2>1. Passed([op |-> "sdscatlen", text |-> t], s)
    BY <1>1 DEF Passed, Working, Builds
  <2> QED
    BY <1>5, <2>1, BeginHolds
<1>6. CASE \E fmtlen \in Size :
             Begin([op |-> "sdscatvprintf", fmtlen |-> fmtlen, text |-> t])
  <2>1. PICK fmtlen \in Size :
          Begin([op |-> "sdscatvprintf", fmtlen |-> fmtlen, text |-> t])
    BY <1>6
  <2>2. Passed([op |-> "sdscatvprintf", fmtlen |-> fmtlen, text |-> t], s)
    BY <1>1 DEF Passed, Working, Builds
  <2> QED
    BY <2>1, <2>2, BeginHolds
<1> QED
  BY <1>2, <1>3, <1>4, <1>5, <1>6

LEMMA CallWithSizeHolds ==
  ASSUME HoldsString, CallWithSize
  PROVE  HoldsString'
<1>1. Works /\ s # NULL
  BY DEF CallWithSize, Works
<1>2. PICK n \in Size :
        \/ /\ s.len + n <= SIZE_MAX
           /\ Begin([op |-> "sdsMakeRoomFor", size |-> n])
        \/ Begin([op |-> "sdsgrowzero", size |-> n])
  BY DEF CallWithSize
<1>3. n \in 0 .. SIZE_MAX /\ n \in Nat
  BY ApiAssumption, Sizes
<1>4. CASE /\ s.len + n <= SIZE_MAX
           /\ Begin([op |-> "sdsMakeRoomFor", size |-> n])
  <2>1. Passed([op |-> "sdsMakeRoomFor", size |-> n], s)
    BY <1>1, <1>3, <1>4 DEF Passed, Working, Builds
  <2> QED
    BY <1>4, <2>1, BeginHolds
<1>5. CASE Begin([op |-> "sdsgrowzero", size |-> n])
  <2>1. Passed([op |-> "sdsgrowzero", size |-> n], s)
    BY <1>1, <1>3 DEF Passed, Working, Builds
  <2> QED
    BY <1>5, <2>1, BeginHolds
<1> QED
  BY <1>2, <1>4, <1>5

LEMMA CallIncrLenHolds ==
  ASSUME HoldsString, CallIncrLen
  PROVE  HoldsString'
<1>1. Works /\ s # NULL
  BY DEF CallIncrLen, Works
<1>2. CASE \E t \in Text :
             /\ Len(t) <= sdsavail(s)
             /\ s.len + Len(t) <= MaxLen
             /\ Begin([op |-> "sdsIncrLen", incr |-> Len(t), stored |-> t])
  <2>1. PICK t \in Text :
          /\ Len(t) <= sdsavail(s)
          /\ Begin([op |-> "sdsIncrLen", incr |-> Len(t), stored |-> t])
    BY <1>2
  <2>2. Passed([op |-> "sdsIncrLen", incr |-> Len(t), stored |-> t], s)
    BY <1>1, <2>1 DEF Passed, Working, Builds
  <2> QED
    BY <2>1, <2>2, BeginHolds
<1>3. CASE \E n \in 1 .. s.len :
             Begin([op |-> "sdsIncrLen", incr |-> -n, stored |-> << >>])
  <2>1. PICK n \in 1 .. s.len :
          Begin([op |-> "sdsIncrLen", incr |-> -n, stored |-> << >>])
    BY <1>3
  <2>2. s.len \in Nat
    BY <1>1, StringFields DEF HoldsString, Block
  <2>3. -n \in -s.len .. -1
    BY <2>2
  <2>4. Passed([op |-> "sdsIncrLen", incr |-> -n, stored |-> << >>], s)
    BY <1>1, <2>3 DEF Passed, Working, Builds
  <2> QED
    BY <2>1, <2>4, BeginHolds
<1> QED
  BY <1>2, <1>3 DEF CallIncrLen

LEMMA CallWithPositionHolds ==
  ASSUME HoldsString, CallWithPosition
  PROVE  HoldsString'
<1>1. Works /\ s # NULL
  BY DEF CallWithPosition, Works
<1>2. CASE \E k \in 1 .. s.len : Begin([op |-> "sdsupdatelen", at |-> k])
  <2>1. PICK k \in 1 .. s.len : Begin([op |-> "sdsupdatelen", at |-> k])
    BY <1>2
  <2>2. Passed([op |-> "sdsupdatelen", at |-> k], s)
    BY <1>1 DEF Passed, Working, Builds
  <2> QED
    BY <2>1, <2>2, BeginHolds
<1>3. CASE \E first, last \in Position :
             Begin([op |-> "sdsrange", first |-> first, last |-> last])
  <2>1. PICK first \in Position, last \in Position :
          Begin([op |-> "sdsrange", first |-> first, last |-> last])
    BY <1>3
  <2>2. first \in Int /\ last \in Int
    BY ApiAssumption
  <2>3. Passed([op |-> "sdsrange", first |-> first, last |-> last], s)
    BY <1>1, <2>2 DEF Passed, Working, Builds
  <2> QED
    BY <2>1, <2>3, BeginHolds
<1>4. CASE \E from, to \in Text :
             /\ Len(from) = 2 /\ Len(to) = 2
             /\ Begin([op |-> "sdsmapchars", from |-> from, to |-> to])
  <2>1. PICK from \in Text, to \in Text :
          /\ Len(from) = 2 /\ Len(to) = 2
          /\ Begin([op |-> "sdsmapchars", from |-> from, to |-> to])
    BY <1>4
  <2>2. Passed([op |-> "sdsmapchars", from |-> from, to |-> to], s)
    BY <1>1, <2>1 DEF Passed, Working, Builds
  <2> QED
    BY <2>1, <2>2, BeginHolds
<1> QED
  BY <1>2, <1>3, <1>4 DEF CallWithPosition

LEMMA CallFormatHolds ==
  ASSUME HoldsString, CallFormat
  PROVE  HoldsString'
<1>1. s # NULL /\ s.len <= MaxLen
  BY DEF CallFormat, Works
<1>2. PICK format \in Format : Begin([op |-> "sdscatfmt", format |-> format])
  BY DEF CallFormat
<1>3. Passed([op |-> "sdscatfmt", format |-> format], s)
  BY <1>1 DEF Passed, Working, Builds
<1> QED
  BY <1>1, <1>2, <1>3, BeginHolds

LEMMA CallerHolds ==
  ASSUME HoldsString, Caller
  PROVE  HoldsString'
BY CallNewHolds, CallWithoutArgumentHolds, CallWithTextHolds,
   CallWithSizeHolds, CallIncrLenHolds, CallWithPositionHolds,
   CallFormatHolds DEF Caller

(* What a call works on is sound. *)
LEMMA WorksOn ==
  ASSUME HoldsString, call # NoCall, call.op \in Working, ~ Formatting
  PROVE  s # NULL /\ Sound(s) /\ Passed(call, s)
<1>1. Passed(call, s)
  BY DEF HoldsString
<1>2. s # NULL
  BY <1>1 DEF Passed
<1> QED
  BY <1>1, <1>2 DEF HoldsString, Running, Sound

LEMMA ReturnHolds ==
  ASSUME HoldsString, call # NoCall, NEW results, Return(results),
         \A r \in results : r \in Failed \/ Sound(r),
         ~ Formatting \/ \A r \in results : r \notin Failed
  PROVE  HoldsString'
<1>1. PICK r \in results :
        /\ s' = IF r \in Failed THEN s ELSE r
        /\ returned' = IF r \in Failed THEN r ELSE OK
  BY DEF Return
<1>2. call' = NoCall /\ f' = 0
  BY DEF Return
<1>3. s' # NULL => Block(s') /\ Terminated(s')
  <2>1. CASE r \in Failed
    <3>1. s' = s /\ ~ Formatting
      BY <1>1, <2>1
    <3> QED
      BY <3>1 DEF HoldsString, Running
  <2>2. CASE r \notin Failed
    BY <1>1, <2>2 DEF Sound
  <2> QED
    BY <2>1, <2>2
<1> QED
  BY <1>2, <1>3 DEF HoldsString, Calling

(* A call that takes one step *)
LEMMA ReturnsHolds ==
  ASSUME HoldsString, NEW op, op # "sdscatfmt", NEW results,
         Returns(op, results), \A r \in results : r \in Failed \/ Sound(r)
  PROVE  HoldsString'
<1>1. call # NoCall /\ call.op = op /\ Return(results)
  BY DEF Returns, Calling
<1>2. ~ Formatting
  BY <1>1 DEF Formatting, Calling
<1> QED
  BY <1>1, <1>2, ReturnHolds

LEMMA ReturnsOn ==
  ASSUME HoldsString, NEW op \in Working, op # "sdscatfmt", NEW results,
         Returns(op, results)
  PROVE  call.op = op /\ Sound(s) /\ Passed(call, s)
<1>1. call # NoCall /\ call.op = op
  BY DEF Returns, Calling
<1>2. ~ Formatting
  BY <1>1 DEF Formatting, Calling
<1> QED
  BY <1>1, <1>2, WorksOn

LEMMA OneStepHolds ==
  ASSUME HoldsString, OneStep
  PROVE  HoldsString'
<1>0. NULL \in Failed /\ \A t \in Text : t \in Seq(Byte) /\ Len(t) <= MaxBlock
  BY TextIsPiece DEF Failed
<1>1. CASE NewLen
  <2>1. call # NoCall /\ call.op = "sdsnewlen"
    BY <1>1 DEF NewLen, Returns, Calling
  <2>2. call.text \in Text
    BY <2>1 DEF HoldsString, Passed
  <2>3. \A r \in sdsnewlen(call.text) : r \in Failed \/ Sound(r)
    BY <1>0, <2>2, NewFits DEF Sound
  <2> QED
    BY <1>1, <2>3, ReturnsHolds DEF NewLen
<1>2. CASE Dup
  <2>1. Sound(s)
    BY <1>2, ReturnsOn DEF Dup, Working
  <2>2. Content(s) \in Seq(Byte) /\ Len(Content(s)) <= MaxBlock
    BY <2>1, ContentIs DEF Sound
  <2>3. \A r \in sdsnewlen(Content(s)) : r \in Failed \/ Sound(r)
    BY <1>0, <2>2, NewFits DEF Sound
  <2> QED
    BY <1>2, <2>3, ReturnsHolds DEF Dup
<1>3. CASE Free
  <2>1. /\ call # NoCall /\ call.op = "sdsfree" /\ s' = NULL
        /\ call' = NoCall /\ f' = f
    BY <1>3 DEF Free, Calling
  <2>2. f = 0
    BY <2>1 DEF HoldsString, InRounds, Builds
  <2> QED
    BY <2>1, <2>2 DEF HoldsString, Calling
<1>4. CASE Clear
  <2>1. Sound(s)
    BY <1>4, ReturnsOn DEF Clear, Working
  <2>2. \A r \in sdsclear(s) : r \in Failed \/ Sound(r)
    BY <2>1, ClearFits
  <2> QED
    BY <1>4, <2>2, ReturnsHolds DEF Clear
<1>5. CASE UpdateLen
  <2>1. Sound(s) /\ call.op = "sdsupdatelen" /\ Passed(call, s)
    BY <1>5, ReturnsOn DEF UpdateLen, Working
  <2>2. call.at \in 1 .. s.len
    BY <2>1 DEF Passed
  <2>3. \A r \in sdsupdatelen(s, call.at) : r \in Failed \/ Sound(r)
    BY <2>1, <2>2, UpdateLenFits
  <2> QED
    BY <1>5, <2>3, ReturnsHolds DEF UpdateLen
<1>6. CASE MakeRoomFor
  <2>1. Sound(s) /\ call.op = "sdsMakeRoomFor" /\ Passed(call, s)
    BY <1>6, ReturnsOn DEF MakeRoomFor, Working
  <2>2. call.size \in Nat /\ s.len + call.size <= SIZE_MAX
    BY <2>1 DEF Passed
  <2>3. ASSUME NEW r \in sdsMakeRoomFor(s, call.size), r \notin Failed
        PROVE  Sound(r)
    <3>1. r # NULL /\ r # ABORT
      BY <2>3 DEF Failed
    <3>2. Block(r) /\ r.len = s.len /\ r.buf = s.buf
      BY <2>1, <2>2, <3>1, MakeRoomFits DEF Sound
    <3> QED
      BY <2>1, <3>2 DEF Sound, Terminated
  <2> QED
    BY <1>6, <2>3, ReturnsHolds DEF MakeRoomFor
<1>7. CASE RemoveFreeSpace
  <2>1. Sound(s)
    BY <1>7, ReturnsOn DEF RemoveFreeSpace, Working
  <2>2. ASSUME NEW r \in sdsRemoveFreeSpace(s), r \notin Failed
        PROVE  Sound(r)
    <3>1. Block(r) /\ r.len = s.len /\ r.buf = s.buf
      BY <1>0, <2>1, <2>2, RemoveFreeSpaceFits DEF Sound
    <3> QED
      BY <2>1, <3>1 DEF Sound, Terminated
  <2> QED
    BY <1>7, <2>2, ReturnsHolds DEF RemoveFreeSpace
<1>8. CASE IncrLen
  <2>1. Sound(s) /\ call.op = "sdsIncrLen" /\ Passed(call, s)
    BY <1>8, ReturnsOn DEF IncrLen, Working
  <2>2. /\ call.stored \in Seq(Byte) /\ call.incr \in Int
        /\ \/ /\ Len(call.stored) <= sdsavail(s)
              /\ call.incr = Len(call.stored)
           \/ call.stored = << >> /\ call.incr \in -s.len .. -1
    <3>1. CASE /\ call.stored \in Text
               /\ Len(call.stored) <= sdsavail(s)
               /\ call.incr = Len(call.stored)
      BY <1>0, <3>1
    <3>2. CASE call.stored = << >> /\ call.incr \in -s.len .. -1
      BY <3>2
    <3> QED
      BY <2>1, <3>1, <3>2 DEF Passed
  <2>3. \A r \in sdsIncrLen(s, call.incr, call.stored) :
          r \in Failed \/ Sound(r)
    BY <2>1, <2>2, IncrLenFits
  <2> QED
    BY <1>8, <2>3, ReturnsHolds DEF IncrLen
<1>9. CASE GrowZero
  <2>1. Sound(s) /\ call.op = "sdsgrowzero" /\ Passed(call, s)
    BY <1>9, ReturnsOn DEF GrowZero, Working
  <2>2. call.size \in 0 .. SIZE_MAX
    BY <2>1 DEF Passed
  <2>3. \A r \in sdsgrowzero(s, call.size) : r \in Failed \/ Sound(r)
    BY <2>1, <2>2, GrowZeroFits
  <2> QED
    BY <1>9, <2>3, ReturnsHolds DEF GrowZero
<1>10. CASE CatLen
  <2>1. Sound(s) /\ call.op = "sdscatlen" /\ Passed(call, s)
    BY <1>10, ReturnsOn DEF CatLen, Working
  <2>2. call.text \in Text
    BY <2>1 DEF Passed
  <2>3. \A r \in sdscatlen(s, call.text) : r \in Failed \/ Sound(r)
    BY <1>0, <2>1, <2>2, CatLenFits DEF Sound
  <2> QED
    BY <1>10, <2>3, ReturnsHolds DEF CatLen
<1>11. CASE CpyLen
  <2>1. Sound(s) /\ call.op = "sdscpylen" /\ Passed(call, s)
    BY <1>11, ReturnsOn DEF CpyLen, Working
  <2>2. call.text \in Text
    BY <2>1 DEF Passed
  <2>3. \A r \in sdscpylen(s, call.text) : r \in Failed \/ Sound(r)
    BY <1>0, <2>1, <2>2, CpyLenFits
  <2> QED
    BY <1>11, <2>3, ReturnsHolds DEF CpyLen
<1>12. CASE Trim
  <2>1. Sound(s)
    BY <1>12, ReturnsOn DEF Trim, Working
  <2>2. \A r \in sdstrim(s, call.cset) : r \in Failed \/ Sound(r)
    BY <2>1, TrimFits
  <2> QED
    BY <1>12, <2>2, ReturnsHolds DEF Trim
<1>13. CASE SubRange
  <2>1. Sound(s) /\ call.op = "sdsrange" /\ Passed(call, s)
    BY <1>13, ReturnsOn DEF SubRange, Working
  <2>2. call.first \in Int /\ call.last \in Int
    BY <2>1 DEF Passed
  <2>3. \A r \in sdsrange(s, call.first, call.last) : r \in Failed \/ Sound(r)
    BY <2>1, <2>2, RangeFits
  <2> QED
    BY <1>13, <2>3, ReturnsHolds DEF SubRange
<1>14. CASE ToLower
  <2>1. Sound(s)
    BY <1>14, ReturnsOn DEF ToLower, Working
  <2>2. \A r \in sdstolower(s) : r \in Failed \/ Sound(r)
    BY <2>1, LowerFits
  <2> QED
    BY <1>14, <2>2, ReturnsHolds DEF ToLower
<1>15. CASE ToUpper
  <2>1. Sound(s)
    BY <1>15, ReturnsOn DEF ToUpper, Working
  <2>2. \A r \in sdstoupper(s) : r \in Failed \/ Sound(r)
    BY <2>1, UpperFits
  <2> QED
    BY <1>15, <2>2, ReturnsHolds DEF ToUpper
<1>16. CASE MapChars
  <2>1. Sound(s) /\ call.op = "sdsmapchars" /\ Passed(call, s)
    BY <1>16, ReturnsOn DEF MapChars, Working
  <2>2. /\ call.from \in Seq(Byte) /\ call.to \in Seq(Byte)
        /\ Len(call.from) = Len(call.to)
    BY <1>0, <2>1 DEF Passed
  <2>3. \A r \in sdsmapchars(s, call.from, call.to) : r \in Failed \/ Sound(r)
    BY <2>1, <2>2, MapCharsFits
  <2> QED
    BY <1>16, <2>3, ReturnsHolds DEF MapChars
<1> QED
  BY <1>1, <1>2, <1>3, <1>4, <1>5, <1>6, <1>7, <1>8, <1>9, <1>10, <1>11,
     <1>12, <1>13, <1>14, <1>15, <1>16 DEF OneStep

(* What is passed does not depend on the string, in a call that formats,   *)
(* prints or builds.                                                       *)
LEMMA StillPassed ==
  ASSUME NEW c, NEW str, NEW new, Passed(c, str), new # NULL,
         c.op \in InRounds
  PROVE  Passed(c, new)
BY DEF Passed, InRounds, Builds

LEMMA FormatHolds ==
  ASSUME HoldsString, FormatBegins \/ FormatNext \/ FormatEnds
  PROVE  HoldsString'
<1>1. /\ call # NoCall /\ call.op = "sdscatfmt" /\ Passed(call, s)
      /\ s # NULL /\ Block(s) /\ f \in Nat
  <2>1. call # NoCall /\ call.op = "sdscatfmt"
    BY DEF FormatBegins, FormatNext, FormatEnds, Calling
  <2>2. Passed(call, s)
    BY <2>1 DEF HoldsString
  <2>3. s # NULL
    BY <2>1, <2>2 DEF Passed, Working
  <2> QED
    BY <2>1, <2>2, <2>3 DEF HoldsString
<1>2. call.format \in Format /\ call.op \in InRounds /\ call.op \notin Builds
  BY <1>1 DEF Passed, InRounds, Builds
<1>3. CASE FormatBegins
  <2> DEFINE addlen == s.len + 2 * StrLen(call.format)
             results == { IF r = NULL THEN SIGSEGV ELSE r :
                            r \in sdsMakeRoomFor(s, addlen) }
  <2>1. f = 0 /\ Round(results)
    BY <1>3 DEF FormatBegins
  <2>2. Terminated(s) /\ s.len <= MaxLen
    BY <1>1, <2>1 DEF HoldsString, Running, Formatting, Calling
  <2>3. addlen \in Nat /\ s.len + addlen <= SIZE_MAX
    <3>1. s.len \in Nat
      BY <1>1, ContentIs
    <3>2. StrLen(call.format) \in Nat
      <4>1. call.format \in Seq(Item)
        BY <1>2, FormatAssumption
      <4> DEFINE n == Len(call.format)
                 chosen == { k \in DOMAIN call.format :
                               call.format[k].kind \notin { "c", "end" } }
      <4>2. n \in Nat /\ DOMAIN call.format = 1 .. n
        BY <4>1
      <4>3. chosen \in SUBSET (1 .. n)
        BY <4>2
      <4>5. StrLen(call.format) = n + Cardinality(chosen)
        BY DEF StrLen
      <4> HIDE DEF chosen, n
      <4>4. IsFiniteSet(1 .. n)
        BY <4>2, FS_Interval
      <4>6. Cardinality(chosen) \in Nat
        BY <4>3, <4>4, FS_Subset, FS_CardinalityType
      <4> QED
        BY <4>2, <4>5, <4>6
    <3>3. 2 * (MaxLen + StrLen(call.format)) <= SIZE_MAX
      BY <1>2, FormatAssumption
    <3>4. MaxLen \in Nat /\ SIZE_MAX \in Nat
      BY ApiAssumption, Sizes
    <3> HIDE DEF results
    <3> QED
      BY <2>2, <3>1, <3>2, <3>3, <3>4
  <2>4. PICK r \in results :
          /\ s' = IF r \in Failed THEN s ELSE r
          /\ call' = IF r \in Failed THEN NoCall ELSE call
          /\ f' = IF r \in Failed THEN 0 ELSE f + 1
    BY <2>1 DEF Round
  <2>5. CASE r \in Failed
    BY <1>1, <2>2, <2>4, <2>5 DEF HoldsString, Calling
  <2>6. CASE r \notin Failed
    <3>1. r \in sdsMakeRoomFor(s, addlen) /\ r # NULL /\ r # ABORT
      <4>1. PICK q \in sdsMakeRoomFor(s, addlen) :
              r = IF q = NULL THEN SIGSEGV ELSE q
        OBVIOUS
      <4> QED
        BY <2>6, <4>1 DEF Failed
    <3> HIDE DEF addlen
    <3>2. Block(r)
      BY <1>1, <2>3, <3>1, MakeRoomFits
    <3>3. s' = r /\ call' = call /\ f' = 1
      BY <2>1, <2>4, <2>6
    <3>4. Passed(call, r)
      BY <1>1, <1>2, <3>1, StillPassed
    <3> QED
      BY <1>1, <1>2, <3>2, <3>3, <3>4
      DEF HoldsString, Calling, Formatting, Running
  <2> QED
    BY <2>5, <2>6
<1>4. CASE FormatNext
  <2> DEFINE item == call.format[f]
  <2>1. f \in 1 .. Len(call.format) /\ Round(FormatItem(s, item))
    BY <1>4 DEF FormatNext
  <2>2. item \in Item /\ Len(FormatText(item)) <= MaxBlock
    BY <1>2, <2>1, FormatAssumption
  <2> HIDE DEF item
  <2>3. PICK r \in FormatItem(s, item) :
          /\ s' = IF r \in Failed THEN s ELSE r
          /\ returned' = IF r \in Failed THEN r ELSE returned
          /\ call' = IF r \in Failed THEN NoCall ELSE call
          /\ f' = IF r \in Failed THEN 0 ELSE f + 1
    BY <2>1 DEF Round
  <2>4. CASE r \in { ABORT, SIGSEGV }
    <3>1. s' = s /\ returned' = r /\ call' = NoCall /\ f' = 0
      BY <2>3, <2>4 DEF Failed
    <3>2. ~ Running'
      BY <2>4, <3>1 DEF Running, Alive
    <3> QED
      BY <1>1, <3>1, <3>2 DEF HoldsString, Calling
  <2>5. CASE r \notin { ABORT, SIGSEGV }
    <3>1. Block(r)
      BY <1>1, <2>2, <2>5, FormatItemFits
    <3>2. r \notin Failed /\ r # NULL
      BY <3>1, StringsAreNoFailures DEF Block, Failed
    <3>3. s' = r /\ call' = call /\ f' = f + 1
      BY <2>3, <3>2
    <3>4. Passed(call, r)
      BY <1>1, <1>2, <3>2, StillPassed
    <3>5. f + 1 \in Nat /\ f + 1 > 0 /\ f + 1 # 0
      BY <1>1
    <3> QED
      BY <1>1, <1>2, <3>1, <3>3, <3>4, <3>5
      DEF HoldsString, Calling, Formatting, Running
  <2> QED
    BY <2>4, <2>5
<1>5. CASE FormatEnds
  <2> DEFINE new == [s EXCEPT !.buf = Append(Content(s), NUL)]
  <2>1. Return({ new })
    BY <1>5 DEF FormatEnds
  <2>2. Sound(new)
    BY <1>1, FormatEndFits
  <2>3. new \notin Failed
    BY <2>2, StringsAreNoFailures DEF Sound, Block
  <2> HIDE DEF new
  <2>4. \A r \in { new } : Sound(r) /\ r \notin Failed
    BY <2>2, <2>3
  <2> QED
    BY <1>1, <2>1, <2>4, ReturnHolds
<1> QED
  BY <1>3, <1>4, <1>5

LEMMA PrintfHolds ==
  ASSUME HoldsString,
         PrintfBegins \/ PrintfGrows \/ PrintfFails \/ PrintfEnds
  PROVE  HoldsString'
<1>1. call # NoCall /\ call.op = "sdscatvprintf"
  BY DEF PrintfBegins, PrintfGrows, PrintfFails, PrintfEnds, Calling
<1>2. ~ Formatting
  BY <1>1 DEF Formatting, Calling
<1>3. Sound(s) /\ Passed(call, s)
  BY <1>1, <1>2, WorksOn DEF Working
<1>4. CASE Return({ NULL })
  <2>1. \A r \in { NULL } : r \in Failed
    BY DEF Failed
  <2> QED
    BY <1>1, <1>2, <1>4, <2>1, ReturnHolds
<1>5. CASE UNCHANGED << s, call, returned >> /\ f' \in { 1, 2 }
  <2>1. call.op \in InRounds /\ call.op \notin Builds
    BY <1>1 DEF InRounds, Builds
  <2>2. f' \in Nat
    BY <1>5
  <2> QED
    BY <1>1, <1>2, <1>5, <2>1, <2>2
    DEF HoldsString, Formatting, Calling, Running, Alive
<1>6. CASE Return(sdscatlen(s, call.text))
  <2>1. call.text \in Text
    BY <1>1, <1>3 DEF Passed
  <2>2. call.text \in Seq(Byte) /\ Len(call.text) <= MaxBlock
    BY <2>1, TextIsPiece
  <2>3. \A r \in sdscatlen(s, call.text) : r \in Failed \/ Sound(r)
    <3>1. NULL \in Failed
      BY DEF Failed
    <3> QED
      BY <1>3, <2>2, <3>1, CatLenFits DEF Sound
  <2> QED
    BY <1>1, <1>2, <1>6, <2>3, ReturnHolds
<1>7. CASE PrintfBegins
  BY <1>4, <1>5, <1>7 DEF PrintfBegins
<1>8. CASE PrintfGrows
  BY <1>4, <1>5, <1>8 DEF PrintfGrows
<1>9. CASE PrintfFails
  BY <1>4, <1>9 DEF PrintfFails
<1>10. CASE PrintfEnds
  BY <1>6, <1>10 DEF PrintfEnds
<1> QED
  BY <1>7, <1>8, <1>9, <1>10

LEMMA BuildHolds ==
  ASSUME HoldsString, BuildBegins \/ BuildAppends \/ BuildEnds
  PROVE  HoldsString'
<1>1. call # NoCall /\ call.op \in Builds /\ f \in Nat
  BY DEF BuildBegins, BuildAppends, BuildEnds, HoldsString
<1>2. Passed(call, s) /\ call.pieces \in Seq(Piece)
  BY <1>1 DEF HoldsString, Passed
<1>3. /\ ~ Formatting /\ call.op # "sdscatfmt" /\ call.op \in InRounds
  BY <1>1 DEF Formatting, Calling, Builds, InRounds
<1>4. s # NULL => Sound(s)
  BY <1>1, <1>3 DEF HoldsString, Running, Sound
<1>5. ASSUME NEW r, Sound(r), s' = r, call' = call, f' \in Nat
      PROVE  HoldsString'
  <2>1. r # NULL
    BY <1>5, SdsAssumption DEF Sound, Block
  <2>2. Passed(call, r)
    BY <1>2, <1>3, <2>1, StillPassed
  <2> QED
    BY <1>1, <1>3, <1>5, <2>1, <2>2
    DEF HoldsString, Formatting, Calling, Running, Sound
<1>6. CASE BuildBegins
  <2>1. PICK r \in sdsnewlen(<< >>) :
          IF r # NULL
          THEN s' = r /\ f' = 1 /\ UNCHANGED << call, base, buflen, returned >>
          ELSE Return({ IF call.pieces = << >> THEN NULL ELSE SIGSEGV })
    BY <1>6 DEF BuildBegins
  <2>2. CASE r # NULL
    <3>1. << >> \in Seq(Byte) /\ Len(<< >>) <= MaxBlock
      BY Sizes
    <3>2. Sound(r)
      BY <2>2, <3>1, NewFits DEF Sound
    <3> QED
      BY <1>5, <2>1, <2>2, <3>2
  <2>3. CASE r = NULL
    <3> DEFINE q == IF call.pieces = << >> THEN NULL ELSE SIGSEGV
    <3>1. Return({ q })
      BY <2>1, <2>3
    <3>2. q \in Failed
      BY DEF Failed
    <3> HIDE DEF q
    <3>3. \A x \in { q } : x \in Failed
      BY <3>2
    <3> QED
      BY <1>1, <1>3, <3>1, <3>3, ReturnHolds
  <2> QED
    BY <2>2, <2>3
<1>7. CASE BuildAppends
  <2>1. f \in 1 .. Len(call.pieces)
    BY <1>7 DEF BuildAppends
  <2>2. call.pieces[f] \in Seq(Byte) /\ Len(call.pieces[f]) <= MaxBlock
    BY <1>2, <2>1 DEF Piece
  <2>3. s # NULL
    BY <1>1, <2>1 DEF HoldsString
  <2>4. PICK r \in sdscatlen(s, call.pieces[f]) :
          \/ r \notin Failed /\ s' = r /\ f' = f + 1 /\ call' = call
          \/ s' = NULL /\ call' = NoCall /\ f' = 0
    BY <1>7 DEF BuildAppends
  <2>5. CASE r \notin Failed /\ s' = r /\ f' = f + 1 /\ call' = call
    <3>1. r # NULL
      BY <2>5 DEF Failed
    <3>2. Sound(r)
      BY <1>4, <2>2, <2>3, <2>5, <3>1, CatLenFits DEF Sound
    <3>3. f' \in Nat
      BY <1>1, <2>5
    <3> QED
      BY <1>5, <2>5, <3>2, <3>3
  <2>6. CASE s' = NULL /\ call' = NoCall /\ f' = 0
    BY <2>6 DEF HoldsString, Calling
  <2> QED
    BY <2>4, <2>5, <2>6
<1>8. CASE BuildEnds
  <2>1. f > Len(call.pieces) /\ Return({ s })
    BY <1>8 DEF BuildEnds
  <2>2. f > 0
    <3>1. Len(call.pieces) \in Nat
      BY <1>2
    <3> QED
      BY <1>1, <2>1, <3>1
  <2>3. s # NULL
    BY <1>1, <2>2 DEF HoldsString
  <2>4. \A x \in { s } : Sound(x)
    BY <1>4, <2>3
  <2> QED
    BY <1>1, <1>3, <2>1, <2>4, ReturnHolds
<1> QED
  BY <1>6, <1>7, <1>8

(* The calls that cut a text leave the string alone; they are made when    *)
(* there is none.                                                          *)
LEMMA SplittingHolds ==
  ASSUME HoldsString, Splitting
  PROVE  HoldsString'
<1>1. ASSUME NEW c, Begin(c), c.op \in Cutting
      PROVE  HoldsString'
  <2>1. Passed(c, s) /\ c.op # "sdscatfmt"
    BY <1>1 DEF Passed, Working, Builds, Cutting
  <2> QED
    BY <1>1, <2>1, BeginHolds
<1>2. ASSUME call # NoCall, call.op \in Cutting, UNCHANGED << s, f >>,
             call' = NoCall \/ call'.op \in Cutting
      PROVE  HoldsString'
  <2>1. f = 0
    BY <1>2 DEF HoldsString, Cutting, InRounds, Builds
  <2>2. s # NULL => Block(s) /\ Terminated(s)
    BY <1>2, <2>1 DEF HoldsString, Running, Formatting
  <2>3. call' # NoCall => Passed(call', s) /\ call'.op # "sdscatfmt"
    BY <1>2 DEF Passed, Working, Builds, Cutting
  <2> QED
    BY <1>2, <2>1, <2>2, <2>3 DEF HoldsString, Calling
<1>3. CASE CallSplit \/ CallSplitArgs
  <2>1. PICK c \in SplitCall \cup ArgsCall : Begin(c)
    BY <1>3 DEF CallSplit, CallSplitArgs
  <2>2. c.op \in Cutting
    BY DEF SplitCall, ArgsCall, Cutting
  <2> QED
    BY <1>1, <2>1, <2>2
<1>4. CASE SplitBegins \/ SplitFinds \/ SplitSkips \/ SplitEnds
  <2>1. Reading("sdssplitlen")
    BY <1>4 DEF SplitBegins, SplitFinds, SplitSkips, SplitEnds
  <2>2. call' = NoCall \/ call'.op \in Cutting
    BY <1>4, <2>1 DEF SplitBegins, SplitFinds, SplitSkips, SplitEnds, GiveUp,
       Give, CleanUp, Cutting, Reading, Calling
  <2> QED
    BY <1>2, <2>1, <2>2 DEF Reading, Calling, Cutting
<1>5. CASE \/ ArgsSkip \/ ArgsBegin \/ ArgsByte \/ ArgsQuote \/ ArgsDone
           \/ ArgsErr \/ ArgsReturn
  <2>1. Reading("sdssplitargs")
    BY <1>5 DEF ArgsSkip, ArgsBegin, ArgsByte, ArgsQuote, ArgsDone, ArgsErr,
       ArgsReturn, Blank, InToken
  <2>2. call' = NoCall \/ call'.op \in Cutting
    BY <1>5, <2>1 DEF ArgsSkip, ArgsBegin, ArgsByte, ArgsQuote, ArgsDone,
       ArgsErr, ArgsReturn, GiveUp, Give, CleanUp, Die, Cutting, Reading,
       Calling
  <2> QED
    BY <1>2, <2>1, <2>2 DEF Reading, Calling, Cutting
<1>6. CASE FreeSplitRes
  BY <1>2, <1>6 DEF FreeSplitRes, GiveUp, Reading, Calling, Cutting
<1> QED
  BY <1>3, <1>4, <1>5, <1>6 DEF Splitting

LEMMA StringHolds ==
  ASSUME HoldsString, [Next]_vars
  PROVE  HoldsString'
<1>1. CASE UNCHANGED vars
  BY <1>1 DEF vars, stringVars, HoldsString, Formatting, Calling, Running,
     Alive
<1>2. CASE StringNext
  BY <1>2, CallerHolds, OneStepHolds, FormatHolds, PrintfHolds, BuildHolds
  DEF StringNext, SeveralSteps
<1>3. CASE Splitting
  BY <1>3, SplittingHolds
<1> QED
  BY <1>1, <1>2, <1>3 DEF Next

-----------------------------------------------------------------------------
(* The tokens, step by step *)

NotCutting == call = NoCall \/ call.op \notin Cutting

(* The calls on a string have nothing to do with tokens. *)
LEMMA StringNextNotCutting ==
  ASSUME StringNext
  PROVE  NotCutting /\ NotCutting'
<1>1. CASE Caller
  <2>1. call = NoCall
    BY <1>1 DEF Caller, CallNew, CallWithoutArgument, CallWithText,
       CallWithSize, CallIncrLen, CallWithPosition, CallFormat, Begin
  <2> SUFFICES call'.op \notin Cutting
    BY <2>1 DEF NotCutting
  <2>2. CASE CallNew
    BY <2>2 DEF CallNew, Begin, Cutting
  <2>3. CASE CallWithoutArgument
    BY <2>3 DEF CallWithoutArgument, Begin, Cutting
  <2>4. CASE CallWithText
    BY <2>4 DEF CallWithText, Begin, Cutting
  <2>5. CASE CallWithSize
    BY <2>5 DEF CallWithSize, Begin, Cutting
  <2>6. CASE CallIncrLen
    BY <2>6 DEF CallIncrLen, Begin, Cutting
  <2>7. CASE CallWithPosition
    BY <2>7 DEF CallWithPosition, Begin, Cutting
  <2>8. CASE CallFormat
    BY <2>8 DEF CallFormat, Begin, Cutting
  <2> QED
    BY <1>1, <2>2, <2>3, <2>4, <2>5, <2>6, <2>7, <2>8 DEF Caller
<1>2. CASE OneStep
  <2>1. call.op \notin Cutting /\ call' = NoCall
    BY <1>2 DEF OneStep, NewLen, Dup, Free, Clear, UpdateLen, MakeRoomFor,
       RemoveFreeSpace, IncrLen, GrowZero, CatLen, CpyLen, Trim, SubRange,
       ToLower, ToUpper, MapChars, Returns, Return, Calling, Cutting
  <2> QED
    BY <2>1 DEF NotCutting
<1>3. CASE SeveralSteps
  <2>1. call.op \in InRounds
    BY <1>3 DEF SeveralSteps, FormatBegins, FormatNext, FormatEnds,
       PrintfBegins, PrintfGrows, PrintfFails, PrintfEnds, BuildBegins,
       BuildAppends, BuildEnds, Calling, InRounds
  <2>2. call' = NoCall \/ call' = call
    BY <1>3 DEF SeveralSteps, FormatBegins, FormatNext, FormatEnds,
       PrintfBegins, PrintfGrows, PrintfFails, PrintfEnds, BuildBegins,
       BuildAppends, BuildEnds, Round, Return
  <2>3. call.op \notin Cutting
    BY <2>1 DEF InRounds, Builds, Cutting
  <2> QED
    BY <2>2, <2>3 DEF NotCutting
<1> QED
  BY <1>1, <1>2, <1>3 DEF StringNext

LEMMA TokensKept ==
  ASSUME HoldsTokens, UNCHANGED tokenVars, NotCutting, NotCutting'
  PROVE  HoldsTokens'
<1>1. ~ Calling("sdssplitlen")' /\ ~ Calling("sdssplitargs")'
        /\ ~ Calling("sdsfreesplitres")'
  BY DEF NotCutting, Calling, Cutting
<1> QED
  BY <1>1 DEF HoldsTokens, NotCutting, tokenVars

LEMMA TokensGivenUp ==
  ASSUME NEW r, GiveUp(r)
  PROVE  HoldsTokens'
BY DEF GiveUp, HoldsTokens, Calling

LEMMA TokensGiven ==
  ASSUME NEW toks \in Seq(String \cup { NULL }), NEW n \in Nat, n > 0,
         Len(toks) <= n, call \in SplitCall \cup ArgsCall, Give(toks, n)
  PROVE  HoldsTokens'
<1>1. call' \in [op : { "sdsfreesplitres" }, of : SplitCall \cup ArgsCall]
  BY DEF Give
<1>2. call' # NoCall
  BY <1>1, TokensAssumption
<1>3. call'.op = "sdsfreesplitres"
  BY <1>1
<1> QED
  BY <1>1, <1>2, <1>3 DEF Give, HoldsTokens, Calling, Cutting

LEMMA SplitCallIs ==
  ASSUME NEW c \in SplitCall
  PROVE  /\ c.op = "sdssplitlen" /\ c.text \in Seq(Byte)
         /\ Len(c.text) <= MaxBlock /\ c.sep \in Seq(Byte)
BY TokensAssumption DEF SplitCall

LEMMA ArgsCallIs ==
  ASSUME NEW c \in ArgsCall
  PROVE  c.op = "sdssplitargs" /\ c.line \in Seq(Byte)
<1>1. PICK l \in Line : c = [op |-> "sdssplitargs", line |-> l.line,
                             args |-> l.args]
  BY DEF ArgsCall
<1>2. l.line \in Seq(Byte \ {NUL})
  BY TokensAssumption
<1>3. l.line \in Seq(Byte)
  BY <1>2
<1> QED
  BY <1>1, <1>3

(* A token of sdssplitlen() is a part of the text. *)
LEMMA TokenFits ==
  ASSUME NEW text \in Seq(Byte), Len(text) <= MaxBlock,
         NEW i \in Nat, NEW j \in Nat, j <= Len(text),
         NEW r \in sdsnewlen(SubSeq(text, i + 1, j)), r # NULL
  PROVE  Block(r) /\ r \in String /\ Content(r) = SubSeq(text, i + 1, j)
<1> DEFINE k == i + 1
           b == SubSeq(text, k, j)
<1>1. k \in Nat /\ k > 0 /\ Len(text) \in Nat
  OBVIOUS
<1>2. r \in sdsnewlen(b)
  OBVIOUS
<1>6. b = SubSeq(text, i + 1, j)
  OBVIOUS
<1> HIDE DEF k
<1>3. /\ b \in Seq(Byte) /\ (k <= j => Len(b) = j - k + 1)
      /\ (j < k => b = << >>)
  BY <1>1, PartIs
<1> HIDE DEF b
<1>4. Len(b) <= MaxBlock
  BY <1>1, <1>3, Sizes
<1>5. Block(r) /\ Content(r) = b
  BY <1>2, <1>3, <1>4, NewFits
<1> QED
  BY <1>5, <1>6 DEF Block

LEMMA SplitTokens ==
  ASSUME HoldsTokens, SplitBegins \/ SplitFinds \/ SplitSkips \/ SplitEnds
  PROVE  HoldsTokens'
<1>1. /\ call # NoCall /\ call.op = "sdssplitlen" /\ call \in SplitCall
      /\ current = NULL
  BY DEF SplitBegins, SplitFinds, SplitSkips, SplitEnds, Reading, Calling,
     HoldsTokens
<1> DEFINE text == call.text
           sep == call.sep
           T == String \cup { NULL }
<1>2. /\ text \in Seq(Byte) /\ Len(text) <= MaxBlock /\ Len(text) \in Nat
      /\ sep \in Seq(Byte) /\ Len(sep) \in Nat
  BY <1>1, SplitCallIs
<1>3. /\ slots \in Nat /\ start \in Nat /\ p \in Nat
      /\ tokens \in Seq(T) /\ Len(tokens) \in Nat
      /\ slots = 0 => start = 0 /\ p = 0 /\ Len(tokens) = 0
      /\ slots > 0 => /\ Len(tokens) < slots /\ Len(sep) >= 1
                      /\ start <= p /\ p <= Len(text)
  BY <1>1 DEF HoldsTokens, Calling
<1>4. CASE CleanUp
  BY <1>4, TokensGivenUp DEF CleanUp
<1>5. ASSUME NEW toks \in Seq(T), tokens' = toks,
             slots' \in Nat, Len(toks) < slots', Len(sep) >= 1,
             start' \in Nat, p' \in Nat, start' <= p', p' <= Len(text),
             call' = call, current' = current
      PROVE  HoldsTokens'
  BY <1>1, <1>5 DEF HoldsTokens, Calling, Cutting
<1>6. CASE SplitBegins
  <2>1. CASE GiveUp(NULL)
    BY <2>1, TokensGivenUp
  <2>2. CASE /\ Len(call.sep) >= 1 /\ slots' = Slots
             /\ UNCHANGED << call, tokens, start, p, current >>
    <3>1. Slots \in Nat /\ Slots > 0 /\ slots = 0
      BY <1>6, TokensAssumption DEF SplitBegins
    <3>2. Len(tokens) < slots' /\ slots' \in Nat
      BY <1>3, <2>2, <3>1
    <3>3. start' = 0 /\ p' = 0 /\ p' <= Len(text)
      BY <1>2, <1>3, <2>2, <3>1
    <3> QED
      BY <1>3, <1>5, <2>2, <3>2, <3>3
  <2> QED
    BY <1>6, <2>1, <2>2 DEF SplitBegins
<1>7. ASSUME slots > 0, More
      PROVE  p + Len(sep) <= Len(text) /\ p + 1 <= Len(text)
  <2> DEFINE l == Len(text)
             m == Len(sep)
  <2>1. l \in Nat /\ m \in Nat /\ m >= 1 /\ p \in Nat /\ p < l - (m - 1)
    BY <1>2, <1>3, <1>7 DEF More
  <2> HIDE DEF l, m
  <2>2. p + m <= l /\ p + 1 <= l
    BY <2>1
  <2> QED
    BY <2>2 DEF l, m
<1>8. ASSUME slots > 0, NEW n \in Room, n # NULL
      PROVE  n \in Nat /\ Len(tokens) + 1 < n
  BY <1>3, <1>8 DEF Room
<1>9. CASE SplitFinds
  <2>1. slots > 0 /\ More
    BY <1>9 DEF SplitFinds
  <2>2. PICK n \in Room, token \in sdsnewlen(SubSeq(text, start + 1, p)) :
          IF NULL \in { n, token }
          THEN CleanUp
          ELSE /\ tokens' = Append(tokens, token)
               /\ slots' = n
               /\ start' = p + Len(sep)
               /\ p' = p + Len(sep)
               /\ UNCHANGED << call, current >>
    BY <1>9 DEF SplitFinds
  <2>3. CASE n # NULL /\ token # NULL
    <3>1. token \in String
      BY <1>2, <1>3, <2>1, <2>3, TokenFits
    <3>2. n \in Nat /\ Len(tokens) + 1 < n
      BY <1>8, <2>1, <2>3
    <3>3. /\ Append(tokens, token) \in Seq(T)
          /\ Len(Append(tokens, token)) = Len(tokens) + 1
      BY <1>3, <3>1
    <3>4. p + Len(sep) \in Nat /\ p + Len(sep) <= Len(text)
      BY <1>2, <1>3, <1>7, <2>1
    <3> DEFINE toks == Append(tokens, token)
    <3>5. toks \in Seq(T) /\ Len(toks) < n /\ tokens' = toks
      BY <2>2, <2>3, <3>2, <3>3
    <3>6. /\ slots' = n /\ start' = p + Len(sep) /\ p' = p + Len(sep)
          /\ call' = call /\ current' = current
      BY <2>2, <2>3
    <3>7. start' <= p'
      BY <3>4, <3>6
    <3> HIDE DEF toks, text, sep, T
    <3> QED
      BY <1>3, <1>5, <2>1, <3>2, <3>4, <3>5, <3>6, <3>7
  <2>4. CASE ~ (n # NULL /\ token # NULL)
    BY <1>4, <2>2, <2>4
  <2> QED
    BY <2>3, <2>4
<1>10. CASE SplitSkips
  <2>1. slots > 0 /\ More
    BY <1>10 DEF SplitSkips
  <2>2. PICK n \in Room :
          IF n = NULL
          THEN CleanUp
          ELSE /\ slots' = n
               /\ p' = p + 1
               /\ UNCHANGED << call, tokens, start, current >>
    BY <1>10 DEF SplitSkips
  <2>3. CASE n # NULL
    <3>1. n \in Nat /\ Len(tokens) + 1 < n
      BY <1>8, <2>1, <2>3
    <3>2. slots' = n /\ Len(tokens) < n /\ tokens' = tokens
      BY <1>3, <2>2, <2>3, <3>1
    <3>3. /\ p' = p + 1 /\ p' \in Nat /\ p' <= Len(text)
          /\ start' = start /\ start' <= p' /\ call' = call
          /\ current' = current
      BY <1>2, <1>3, <1>7, <2>1, <2>2, <2>3
    <3> HIDE DEF text, sep, T
    <3> QED
      BY <1>3, <1>5, <2>1, <3>1, <3>2, <3>3
  <2>4. CASE n = NULL
    BY <1>4, <2>2, <2>4
  <2> QED
    BY <2>3, <2>4
<1>11. CASE SplitEnds
  <2>1. slots > 0
    BY <1>11 DEF SplitEnds
  <2>2. PICK token \in sdsnewlen(SubSeq(text, start + 1, Len(text))) :
          IF token = NULL THEN CleanUp
          ELSE Give(Append(tokens, token), slots)
    BY <1>11 DEF SplitEnds
  <2>3. CASE token # NULL
    <3>1. token \in String
      BY <1>2, <1>3, <2>3, TokenFits
    <3>2. /\ Append(tokens, token) \in Seq(T)
          /\ Len(Append(tokens, token)) = Len(tokens) + 1
      BY <1>3, <3>1
    <3>3. Len(Append(tokens, token)) <= slots
      BY <1>3, <2>1, <3>2
    <3> QED
      BY <1>1, <1>3, <2>1, <2>2, <2>3, <3>2, <3>3, TokensGiven
  <2>4. CASE token = NULL
    BY <1>4, <2>2, <2>4
  <2> QED
    BY <2>3, <2>4
<1> QED
  BY <1>6, <1>9, <1>10, <1>11

(* What sdssplitargs() reads are bytes. *)
LEMMA AtIsByte ==
  ASSUME call.line \in Seq(Byte), p \in Nat, NEW k \in Nat
  PROVE  At(k) \in Byte
<1>1. NUL \in Byte
  BY DEF NUL, Byte
<1>2. CASE p + k < Len(call.line)
  <2>1. p + k + 1 \in 1 .. Len(call.line)
    BY <1>2
  <2> QED
    BY <1>2, <2>1 DEF At
<1>3. CASE ~ (p + k < Len(call.line))
  BY <1>1, <1>3 DEF At
<1> QED
  BY <1>2, <1>3

LEMMA LexemeIs ==
  ASSUME call.line \in Seq(Byte), p \in Nat
  PROVE  /\ Lexeme.width \in Nat
         /\ Lexeme.is = "byte" => Lexeme.byte \in Byte
<1> DEFINE Good(l) == l.width \in Nat /\ (l.is = "byte" => l.byte \in Byte)
<1>1. At(0) \in Byte /\ At(1) \in Byte /\ At(2) \in Byte /\ At(3) \in Byte
  BY AtIsByte
<1>2. ASSUME NEW b \in Byte, NEW n \in Nat PROVE Good(Take(b, n))
  BY DEF Take
<1>3. Good(Mark("done")) /\ Good(Mark("err")) /\ Good(Mark("inq"))
        /\ Good(Mark("insq"))
  BY DEF Mark
<1>4. Good(Closing)
  BY <1>3 DEF Closing
<1>5. 39 \in Byte /\ Unescape(At(1)) \in Byte
  BY <1>1 DEF Unescape, Byte
<1>6. \A b \in HexDigits : hex_digit_to_int(b) \in 0 .. 15
  BY DEF HexDigits, hex_digit_to_int
<1>7. ASSUME At(2) \in HexDigits, At(3) \in HexDigits
      PROVE  16 * hex_digit_to_int(At(2)) + hex_digit_to_int(At(3)) \in Byte
  <2> DEFINE c == hex_digit_to_int(At(2))
             d == hex_digit_to_int(At(3))
  <2>1. c \in 0 .. 15 /\ d \in 0 .. 15
    BY <1>6, <1>7
  <2> HIDE DEF c, d
  <2>2. 16 * c + d \in Byte
    BY <2>1 DEF Byte
  <2> QED
    BY <2>2 DEF c, d
<1> HIDE DEF Good
<1>8. Good(InQuotes)
  BY <1>1, <1>2, <1>3, <1>4, <1>5, <1>7 DEF InQuotes
<1>9. Good(InSingleQuotes)
  BY <1>1, <1>2, <1>3, <1>4, <1>5 DEF InSingleQuotes
<1>10. Good(Unquoted)
  BY <1>1, <1>2, <1>3 DEF Unquoted
<1>11. Good(Lexeme)
  BY <1>8, <1>9, <1>10 DEF Lexeme
<1> QED
  BY <1>11 DEF Good

LEMMA ArgsTokens ==
  ASSUME HoldsTokens,
         \/ ArgsSkip \/ ArgsBegin \/ ArgsByte \/ ArgsQuote \/ ArgsDone
         \/ ArgsErr \/ ArgsReturn
  PROVE  HoldsTokens'
<1> DEFINE T == String \cup { NULL }
<1>1. /\ call # NoCall /\ call.op = "sdssplitargs" /\ call \in ArgsCall
  BY DEF ArgsSkip, ArgsBegin, ArgsByte, ArgsQuote, ArgsDone, ArgsErr,
     ArgsReturn, Blank, InToken, Reading, Calling, HoldsTokens
<1>2. /\ slots \in Nat /\ start \in Nat /\ p \in Nat
      /\ tokens \in Seq(T) /\ Len(tokens) \in Nat /\ Len(tokens) = slots
      /\ current # NULL => Block(current)
      /\ mode = "blank" => current = NULL
  BY <1>1 DEF HoldsTokens, Calling
<1>3. call.line \in Seq(Byte)
  BY <1>1, ArgsCallIs
<1>4. /\ Lexeme.width \in Nat /\ p + Lexeme.width \in Nat
      /\ Lexeme.is = "byte" => Lexeme.byte \in Byte
  BY <1>2, <1>3, LexemeIs
<1>5. ASSUME NEW toks \in Seq(T), tokens' = toks, slots' = Len(toks),
             start' = start, p' \in Nat, call' = call,
             current' # NULL => Block(current'),
             mode' = "blank" => current' = NULL
      PROVE  HoldsTokens'
  <2>1. Len(toks) \in Nat
    OBVIOUS
  <2> QED
    BY <1>1, <1>2, <1>5, <2>1 DEF HoldsTokens, Calling, Cutting
<1>6. CASE ArgsSkip
  BY <1>2, <1>5, <1>6 DEF ArgsSkip
<1>7. CASE ArgsBegin
  <2>1. PICK r \in sdsnewlen(<< >>) : current' = r
    BY <1>7 DEF ArgsBegin
  <2>2. r # NULL => Block(r)
    <3>1. << >> \in Seq(Byte) /\ Len(<< >>) <= MaxBlock
      BY Sizes
    <3> QED
      BY <3>1, NewFits
  <2>3. mode' # "blank" /\ UNCHANGED << call, tokens, slots, start, p >>
    BY <1>7 DEF ArgsBegin
  <2> QED
    BY <1>2, <1>5, <2>1, <2>2, <2>3
<1>8. CASE ArgsByte
  <2>1. CASE current = NULL
    BY <1>8, <2>1, TokensGivenUp DEF ArgsByte, Die
  <2>2. CASE current # NULL
    <3> DEFINE t == << Lexeme.byte >>
    <3>1. PICK r \in sdscatlen(current, t) :
            /\ current' = r
            /\ p' = p + Lexeme.width
            /\ UNCHANGED << call, tokens, slots, start, mode >>
      BY <1>8, <2>2 DEF ArgsByte
    <3>2. t \in Seq(Byte) /\ Len(t) = 1
      BY <1>4, <1>8 DEF ArgsByte
    <3>3. Block(current) /\ current.len + Len(t) <= MaxBlock
      <4>1. Block(current)
        BY <1>2, <2>2
      <4>2. /\ current.len \in Nat /\ HdrSize[current.type] \in Nat
            /\ HdrSize[current.type] + current.len + 1 <= current.size
            /\ current.size \in Nat /\ current.size <= MaxBlock
        BY <4>1, StringFields DEF Block
      <4>3. current.len + 1 <= MaxBlock
        BY <4>2, Sizes
      <4> QED
        BY <3>2, <4>1, <4>3
    <3>4. Len(t) <= MaxBlock
      BY <3>2, Sizes
    <3> HIDE DEF t
    <3>5. r # NULL => Block(r)
      BY <3>1, <3>2, <3>3, <3>4, CatLenFits DEF Sound
    <3>6. mode' # "blank"
      BY <1>8, <3>1 DEF ArgsByte, InToken
    <3> QED
      BY <1>2, <1>4, <1>5, <3>1, <3>5, <3>6
  <2> QED
    BY <2>1, <2>2
<1>9. CASE ArgsQuote
  <2>1. /\ mode' # "blank" /\ p' = p + Lexeme.width
        /\ UNCHANGED << call, tokens, slots, start, current >>
    BY <1>9 DEF ArgsQuote
  <2> QED
    BY <1>2, <1>4, <1>5, <2>1
<1>10. CASE ArgsDone
  <2>1. CASE Die
    BY <2>1, TokensGivenUp DEF Die
  <2>2. CASE ~ Die
    <3>1. /\ tokens' = Append(tokens, current)
          /\ slots' = Len(tokens) + 1
          /\ current' = NULL
          /\ p' = p + Lexeme.width
          /\ UNCHANGED << call, start >>
      BY <1>10, <2>2 DEF ArgsDone
    <3>2. current \in T
      BY <1>2 DEF Block
    <3>3. /\ Append(tokens, current) \in Seq(T)
          /\ Len(Append(tokens, current)) = Len(tokens) + 1
      BY <1>2, <3>2
    <3> QED
      BY <1>2, <1>4, <1>5, <3>1, <3>3
  <2> QED
    BY <2>1, <2>2
<1>11. CASE ArgsErr
  BY <1>11, TokensGivenUp DEF ArgsErr, CleanUp
<1>12. CASE ArgsReturn
  <2>1. CASE slots > 0 /\ Give(tokens, slots)
    BY <1>1, <1>2, <2>1, TokensGiven
  <2>2. CASE Give(<< >>, 1)
    <3>1. << >> \in Seq(T) /\ Len(<< >>) <= 1 /\ 1 \in Nat /\ 1 > 0
      OBVIOUS
    <3> QED
      BY <1>1, <2>2, <3>1, TokensGiven
  <2>3. CASE GiveUp(NULL)
    BY <2>3, TokensGivenUp
  <2> QED
    BY <1>12, <2>1, <2>2, <2>3 DEF ArgsReturn
<1> QED
  BY <1>6, <1>7, <1>8, <1>9, <1>10, <1>11, <1>12

LEMMA TokensHold ==
  ASSUME HoldsTokens, [Next]_vars
  PROVE  HoldsTokens'
<1>1. CASE UNCHANGED vars
  BY <1>1 DEF vars, stringVars, tokenVars, HoldsTokens, Calling
<1>2. CASE StringNext /\ UNCHANGED tokenVars
  BY <1>2, StringNextNotCutting, TokensKept
<1>3. CASE CallSplit \/ CallSplitArgs
  <2>1. PICK c \in SplitCall \cup ArgsCall :
          /\ call = NoCall /\ call' = c /\ UNCHANGED tokenVars
          /\ Begin(c)
    BY <1>3 DEF CallSplit, CallSplitArgs, Begin
  <2>2. /\ slots = 0 /\ current = NULL /\ start = 0 /\ p = 0
        /\ mode = "blank" /\ Len(tokens) <= 0 /\ Len(tokens) \in Nat
        /\ tokens \in Seq(String \cup { NULL })
    BY <2>1 DEF HoldsTokens
  <2>4. Len(tokens) = 0
    BY <2>2
  <2>3. CASE c \in SplitCall
    <3>1. c.op = "sdssplitlen"
      BY <2>3, SplitCallIs
    <3> QED
      BY <2>1, <2>2, <2>3, <3>1
      DEF HoldsTokens, tokenVars, Calling, Cutting
  <2>5. CASE c \in ArgsCall
    <3>1. c.op = "sdssplitargs"
      BY <2>5, ArgsCallIs
    <3> QED
      BY <2>1, <2>2, <2>4, <2>5, <3>1
      DEF HoldsTokens, tokenVars, Calling, Cutting
  <2> QED
    BY <2>3, <2>5
<1>4. CASE SplitBegins \/ SplitFinds \/ SplitSkips \/ SplitEnds
  BY <1>4, SplitTokens
<1>5. CASE \/ ArgsSkip \/ ArgsBegin \/ ArgsByte \/ ArgsQuote \/ ArgsDone
           \/ ArgsErr \/ ArgsReturn
  BY <1>5, ArgsTokens
<1>6. CASE FreeSplitRes
  BY <1>6, TokensGivenUp DEF FreeSplitRes
<1> QED
  BY <1>1, <1>2, <1>3, <1>4, <1>5, <1>6 DEF Next, Splitting

-----------------------------------------------------------------------------
(* The blocks *)

LEMMA HoldsIs ==
  /\ Holds(<< >>) = 0
  /\ \A x : Holds(<< x >>) = IF x = NULL THEN 0 ELSE 1
<1>1. Holds(<< >>) = 0
  <2>1. { k \in DOMAIN << >> : << >>[k] # NULL } = {}
    OBVIOUS
  <2> QED
    BY <2>1, FS_EmptySet DEF Holds
<1>2. ASSUME NEW x PROVE Holds(<< x >>) = IF x = NULL THEN 0 ELSE 1
  <2> DEFINE H == { k \in DOMAIN << x >> : << x >>[k] # NULL }
  <2>1. H = IF x = NULL THEN {} ELSE {1}
    OBVIOUS
  <2>2. Holds(<< x >>) = Cardinality(H)
    BY DEF Holds
  <2> HIDE DEF H
  <2> QED
    BY <2>1, <2>2, FS_EmptySet, FS_Singleton
<1> QED
  BY <1>1, <1>2

LEMMA HoldsMore ==
  ASSUME NEW T, NEW toks \in Seq(T), NEW x \in T
  PROVE  /\ Holds(toks) \in Nat
         /\ Holds(Append(toks, x)) = Holds(toks) + IF x = NULL THEN 0 ELSE 1
<1> DEFINE n == Len(toks)
           H == { k \in DOMAIN toks : toks[k] # NULL }
           more == Append(toks, x)
           G == { k \in DOMAIN more : more[k] # NULL }
<1>1. n \in Nat /\ DOMAIN toks = 1 .. n
  OBVIOUS
<1>2. /\ DOMAIN more = 1 .. n + 1 /\ more[n + 1] = x
      /\ \A k \in 1 .. n : more[k] = toks[k]
  BY <1>1
<1> HIDE DEF more
<1>3. H \in SUBSET (1 .. n) /\ n + 1 \notin H
  BY <1>1
<1>4. IsFiniteSet(H) /\ Cardinality(H) \in Nat
  <2>1. IsFiniteSet(1 .. n)
    BY <1>1, FS_Interval
  <2> QED
    BY <1>3, <2>1, FS_Subset, FS_CardinalityType
<1>5. G = IF x = NULL THEN H ELSE H \cup { n + 1 }
  <2>1. \A k : k \in 1 .. n + 1 <=> k \in 1 .. n \/ k = n + 1
    BY <1>1
  <2> QED
    BY <1>1, <1>2, <2>1
<1>6. Holds(toks) = Cardinality(H) /\ Holds(more) = Cardinality(G)
  BY DEF Holds
<1>7. Cardinality(H \cup { n + 1 }) = Cardinality(H) + 1
  BY <1>3, <1>4, FS_AddElement
<1> HIDE DEF H, G, n
<1>8. Holds(more) = Holds(toks) + IF x = NULL THEN 0 ELSE 1
  BY <1>4, <1>5, <1>6, <1>7
<1> QED
  BY <1>4, <1>6, <1>8 DEF more

(* What there is to account for *)
LEMMA Terms ==
  ASSUME HoldsTokens
  PROVE  /\ Holds(tokens) \in Nat
         /\ Holds(<< current >>) = IF current = NULL THEN 0 ELSE 1
         /\ ArrayBlock \in { 0, 1 } /\ BufferBlock \in { 0, 1 }
         /\ slots \in Nat
         /\ slots = 0 => Holds(tokens) = 0 /\ ArrayBlock = 0
         /\ slots > 0 => ArrayBlock = 1
         /\ ~ Calling("sdscatvprintf") => BufferBlock = 0
<1>1. tokens \in Seq(String \cup { NULL }) /\ slots \in Nat
        /\ Len(tokens) <= slots
  BY DEF HoldsTokens
<1>2. Holds(tokens) \in Nat
  BY <1>1, HoldsMore
<1>3. slots = 0 => tokens = << >>
  <2>1. Len(tokens) \in Nat
    BY <1>1
  <2>2. slots = 0 => Len(tokens) = 0
    BY <1>1, <2>1
  <2> QED
    BY <1>1, <2>2
<1> QED
  BY <1>1, <1>2, <1>3, HoldsIs DEF ArrayBlock, BufferBlock, OnHeap

(* A step that changes nothing but the call keeps the account, *)
LEMMA SameBlocks ==
  ASSUME Accounted, Running, UNCHANGED << heap, lost, tokenVars >>,
         BufferBlock = 0, BufferBlock' = 0
  PROVE  Accounted'
<1>1. tokens' = tokens /\ slots' = slots /\ current' = current
  BY DEF tokenVars
<1>2. Holds(tokens)' = Holds(tokens)
        /\ Holds(<< current >>)' = Holds(<< current >>)
        /\ ArrayBlock' = ArrayBlock
  BY <1>1 DEF ArrayBlock, Holds
<1> QED
  BY <1>2 DEF Accounted

LEMMA NoBuffer ==
  /\ ~ Calling("sdscatvprintf") => BufferBlock = 0
  /\ f = 0 => BufferBlock = 0
BY DEF BufferBlock, OnHeap

LEMMA NoBufferLater ==
  (call' = NoCall \/ call'.op # "sdscatvprintf") \/ f' = 0 => BufferBlock' = 0
BY DEF BufferBlock, OnHeap, Calling

LEMMA CallerAccounts ==
  ASSUME HoldsString, Accounted, Caller, UNCHANGED tokenVars
  PROVE  Accounted'
<1>1. /\ call = NoCall /\ Alive /\ UNCHANGED << f, heap, lost >>
  BY DEF Caller, CallNew, CallWithoutArgument, CallWithText,
     CallWithSize, CallIncrLen, CallWithPosition, CallFormat, Begin
<1>2. f = 0
  BY <1>1 DEF HoldsString
<1>3. f' = 0
  BY <1>1, <1>2
<1> QED
  BY <1>1, <1>2, <1>3, NoBuffer, NoBufferLater, SameBlocks DEF Running

LEMMA OneStepAccounts ==
  ASSUME Accounted, OneStep, UNCHANGED tokenVars
  PROVE  Accounted'
<1>1. /\ call # NoCall /\ call.op # "sdscatvprintf" /\ call' = NoCall
      /\ UNCHANGED << heap, lost >>
  BY DEF OneStep, NewLen, Dup, Free, Clear, UpdateLen, MakeRoomFor,
     RemoveFreeSpace, IncrLen, GrowZero, CatLen, CpyLen, Trim, SubRange,
     ToLower, ToUpper, MapChars, Returns, Return, Calling
<1> QED
  BY <1>1, NoBuffer, NoBufferLater, SameBlocks DEF Running, Calling

LEMMA FormatAccounts ==
  ASSUME Accounted, FormatBegins \/ FormatNext \/ FormatEnds,
         UNCHANGED tokenVars
  PROVE  Accounted'
<1>1. /\ call # NoCall /\ call.op = "sdscatfmt"
      /\ call' = NoCall \/ call' = call
      /\ UNCHANGED << heap, lost >>
  BY DEF FormatBegins, FormatNext, FormatEnds, Calling, Round, Return
<1> QED
  BY <1>1, NoBuffer, NoBufferLater, SameBlocks DEF Running, Calling

(* and one that takes or frees the buffer adds or subtracts it. *)
LEMMA PrintfAccounts ==
  ASSUME HoldsTokens, Accounted, UNCHANGED tokenVars,
         PrintfBegins \/ PrintfGrows \/ PrintfFails \/ PrintfEnds
  PROVE  Accounted'
<1> DEFINE kept == lost + Holds(tokens) + Holds(<< current >>) + ArrayBlock
<1>1. /\ call # NoCall /\ call.op = "sdscatvprintf" /\ lost' = lost
  BY DEF PrintfBegins, PrintfGrows, PrintfFails, PrintfEnds, Calling
<1>2. /\ kept \in Nat /\ OnHeap \in Nat
      /\ heap = kept + OnHeap /\ lost \in Nat
  <2>1. BufferBlock = OnHeap
    BY <1>1 DEF BufferBlock, Calling
  <2>2. OnHeap \in { 0, 1 }
    BY DEF OnHeap
  <2>3. /\ Holds(tokens) \in Nat /\ Holds(<< current >>) \in Nat
        /\ ArrayBlock \in Nat /\ lost \in Nat
    BY Terms DEF Accounted
  <2>4. heap = lost + Holds(tokens) + Holds(<< current >>)
                 + ArrayBlock + BufferBlock
    BY <1>1 DEF Accounted, Running
  <2> QED
    BY <2>1, <2>2, <2>3, <2>4
<1>3. kept = lost' + Holds(tokens)' + Holds(<< current >>)' + ArrayBlock'
  BY <1>1 DEF tokenVars, Holds, ArrayBlock
<1>9. Accounted' <=> lost' \in Nat /\ (Running' => heap' = kept + BufferBlock')
  BY <1>3 DEF Accounted
<1> HIDE DEF kept
<1>4. ASSUME call' = NoCall, heap' = heap - OnHeap
      PROVE  Accounted'
  <2>1. BufferBlock' = 0
    BY <1>4, NoBufferLater
  <2>2. heap' = kept + 0
    BY <1>2, <1>4
  <2> QED
    BY <1>1, <1>2, <1>9, <2>1, <2>2
<1>5. ASSUME call' = call, f' = 2, heap' = heap - OnHeap + 1
      PROVE  Accounted'
  <2>1. BufferBlock' = 1
    BY <1>1, <1>5 DEF BufferBlock, OnHeap, Calling
  <2>2. heap' = kept + 1
    BY <1>2, <1>5
  <2> QED
    BY <1>1, <1>2, <1>9, <2>1, <2>2
<1>6. CASE PrintfBegins
  <2>1. f = 0 /\ OnHeap = 0
    BY <1>6 DEF PrintfBegins, OnHeap
  <2>2. CASE Return({ NULL }) /\ UNCHANGED heap
    <3>1. call' = NoCall /\ heap' = heap - OnHeap
      BY <1>2, <2>1, <2>2 DEF Return
    <3> QED
      BY <1>4, <3>1
  <2>3. CASE heap' = heap + 1 /\ f' = 2 /\ call' = call
    <3>1. heap' = heap - OnHeap + 1
      BY <1>2, <2>1, <2>3
    <3> QED
      BY <1>5, <2>3, <3>1
  <2>4. CASE f' = 1 /\ UNCHANGED << call, heap >>
    <3>1. BufferBlock' = 0
      BY <2>4 DEF BufferBlock, OnHeap
    <3>2. heap' = kept + 0
      BY <1>2, <2>1, <2>4
    <3> QED
      BY <1>1, <1>2, <1>9, <3>1, <3>2
  <2> QED
    BY <1>6, <2>2, <2>3, <2>4 DEF PrintfBegins
<1>7. CASE PrintfGrows
  BY <1>4, <1>5, <1>7 DEF PrintfGrows, Return
<1>8. CASE PrintfFails \/ PrintfEnds
  BY <1>4, <1>8 DEF PrintfFails, PrintfEnds, Return
<1> QED
  BY <1>6, <1>7, <1>8

LEMMA BuildAccounts ==
  ASSUME HoldsTokens, Accounted, UNCHANGED tokenVars,
         BuildBegins \/ BuildAppends \/ BuildEnds
  PROVE  Accounted'
<1>1. /\ call # NoCall /\ call.op # "sdscatvprintf"
      /\ call' = NoCall \/ call' = call
  BY DEF BuildBegins, BuildAppends, BuildEnds, Builds, Return
<1>2. BufferBlock = 0 /\ BufferBlock' = 0
  BY <1>1, NoBuffer, NoBufferLater DEF Calling
<1>3. CASE UNCHANGED << heap, lost >>
  BY <1>1, <1>2, <1>3, SameBlocks DEF Running
<1>4. CASE heap' = heap + 1 /\ lost' = lost + 1
  <2> DEFINE kept == Holds(tokens) + Holds(<< current >>) + ArrayBlock
  <2>1. kept \in Nat /\ lost \in Nat
    BY Terms DEF Accounted
  <2>2. heap = lost + kept
    <3>1. /\ Holds(tokens) \in Nat /\ Holds(<< current >>) \in Nat
          /\ ArrayBlock \in Nat /\ lost \in Nat
      BY Terms DEF Accounted
    <3>2. heap = lost + Holds(tokens) + Holds(<< current >>)
                   + ArrayBlock + BufferBlock
      BY <1>1 DEF Accounted, Running
    <3> QED
      BY <1>2, <3>1, <3>2
  <2>3. /\ Holds(tokens)' = Holds(tokens)
        /\ Holds(<< current >>)' = Holds(<< current >>)
        /\ ArrayBlock' = ArrayBlock
    BY DEF tokenVars, Holds, ArrayBlock
  <2>4. lost' \in Nat /\ heap' = lost' + kept
    BY <1>4, <2>1, <2>2
  <2>5. heap' = lost' + Holds(tokens)' + Holds(<< current >>)' + ArrayBlock'
                  + BufferBlock'
    <3>1. /\ Holds(tokens) \in Nat /\ Holds(<< current >>) \in Nat
          /\ ArrayBlock \in Nat
      BY Terms
    <3> QED
      BY <1>2, <2>3, <2>4, <3>1
  <2> QED
    BY <2>4, <2>5 DEF Accounted
<1>5. UNCHANGED << heap, lost >> \/ (heap' = heap + 1 /\ lost' = lost + 1)
  BY DEF BuildBegins, BuildAppends, BuildEnds
<1> QED
  BY <1>3, <1>4, <1>5

(* While a text is cut there is no buffer, *)
LEMMA WhileCutting ==
  ASSUME HoldsTokens, Accounted, call # NoCall, call.op \in Cutting
  PROVE  /\ lost \in Nat /\ Holds(tokens) \in Nat
         /\ Holds(<< current >>) \in Nat /\ ArrayBlock \in Nat
         /\ heap = lost + Holds(tokens) + Holds(<< current >>) + ArrayBlock
<1>1. BufferBlock = 0
  BY NoBuffer DEF Calling, Cutting
<1>2. /\ lost \in Nat /\ Holds(tokens) \in Nat
      /\ Holds(<< current >>) \in Nat /\ ArrayBlock \in Nat
  BY Terms DEF Accounted
<1>3. heap = lost + Holds(tokens) + Holds(<< current >>) + ArrayBlock
               + BufferBlock
  BY DEF Accounted, Running
<1> QED
  BY <1>1, <1>2, <1>3

(* nor after it, *)
LEMMA StillCutting ==
  ASSUME lost' \in Nat, call' = NoCall \/ call'.op \in Cutting,
         NEW h \in Nat, NEW c \in Nat, NEW a \in Nat,
         Holds(tokens') = h, Holds(<< current' >>) = c,
         (IF slots' > 0 THEN 1 ELSE 0) = a, heap' = lost' + h + c + a
  PROVE  Accounted'
<1>1. BufferBlock' = 0
  BY NoBufferLater DEF Cutting
<1>2. /\ Holds(tokens)' = h /\ Holds(<< current >>)' = c
      /\ ArrayBlock' = a
  BY DEF Holds, ArrayBlock
<1>3. heap' = lost' + h + c + a + BufferBlock'
  BY <1>1
<1> QED
  BY <1>2, <1>3 DEF Accounted

(* and where the call gives up nothing is left. *)
LEMMA GiveUpAccounts ==
  ASSUME NEW r, GiveUp(r), lost \in Nat, lost' = lost, heap' = lost
  PROVE  Accounted'
<1>1. /\ Holds(tokens') = 0 /\ Holds(<< current' >>) = 0
      /\ (IF slots' > 0 THEN 1 ELSE 0) = 0 /\ call' = NoCall
  BY HoldsIs DEF GiveUp
<1>2. heap' = lost' + 0 + 0 + 0 /\ lost' \in Nat
  OBVIOUS
<1> QED
  BY <1>1, <1>2, StillCutting

LEMMA CleanUpAccounts ==
  ASSUME HoldsTokens, Accounted, call # NoCall, call.op \in Cutting, CleanUp
  PROVE  Accounted'
<1>1. heap' = heap - Holds(tokens) - ArrayBlock - Holds(<< current >>)
  <2>1. (IF slots = 0 THEN 0 ELSE 1) = ArrayBlock
    BY DEF ArrayBlock, HoldsTokens
  <2> QED
    BY <2>1 DEF CleanUp
<1>2. heap' = lost
  BY <1>1, WhileCutting
<1> QED
  BY <1>2, WhileCutting, GiveUpAccounts DEF CleanUp

(* The process takes the account with it. *)
LEMMA DieAccounts ==
  ASSUME Accounted, Die
  PROVE  Accounted'
BY DEF Accounted, Die, GiveUp, Running, Alive

(* What is added to the array is counted there. *)
LEMMA GiveAccounts ==
  ASSUME NEW toks, NEW n \in Nat, n > 0, Give(toks, n),
         Holds(toks) \in Nat, lost \in Nat, lost' = lost,
         heap' = lost + Holds(toks) + 1
  PROVE  Accounted'
<1>1. /\ Holds(tokens') = Holds(toks) /\ Holds(<< current' >>) = 0
      /\ (IF slots' > 0 THEN 1 ELSE 0) = 1 /\ call'.op \in Cutting
  BY HoldsIs DEF Give, Cutting
<1>2. heap' = lost' + Holds(toks) + 0 + 1 /\ lost' \in Nat
  OBVIOUS
<1> QED
  BY <1>1, <1>2, StillCutting

LEMMA SplitAccounts ==
  ASSUME HoldsTokens, Accounted,
         SplitBegins \/ SplitFinds \/ SplitSkips \/ SplitEnds
  PROVE  Accounted'
<1>1. /\ call # NoCall /\ call.op = "sdssplitlen" /\ call.op \in Cutting
      /\ current = NULL /\ call \in SplitCall
  BY DEF SplitBegins, SplitFinds, SplitSkips, SplitEnds, Reading, Calling,
     HoldsTokens, Cutting
<1> DEFINE T == String \cup { NULL }
           H == Holds(tokens)
<1>2. /\ tokens \in Seq(T) /\ Holds(<< current >>) = 0 /\ slots \in Nat
      /\ start \in Nat /\ p \in Nat
      /\ slots = 0 => H = 0 /\ ArrayBlock = 0
      /\ slots > 0 => ArrayBlock = 1 /\ p <= Len(call.text)
                        /\ Len(tokens) < slots
  BY <1>1, Terms DEF HoldsTokens, Calling
<1>3. lost \in Nat /\ H \in Nat /\ heap = lost + H + 0 + ArrayBlock
  BY <1>1, <1>2, WhileCutting
<1>4. /\ call.text \in Seq(Byte) /\ Len(call.text) <= MaxBlock
      /\ Len(call.text) \in Nat
  BY <1>1, SplitCallIs
<1>5. CASE CleanUp
  BY <1>1, <1>5, CleanUpAccounts
<1>6. ASSUME NEW token \in T, token # NULL
      PROVE  Holds(Append(tokens, token)) = H + 1
  BY <1>2, <1>6, HoldsMore
<1> HIDE DEF H
<1>7. ASSUME NEW h \in Nat, Holds(tokens') = h, call' = call, slots' \in Nat,
             slots' > 0, current' = NULL, lost' = lost, heap' = lost + h + 1
      PROVE  Accounted'
  <2>1. lost' \in Nat /\ call'.op \in Cutting /\ Holds(<< current' >>) = 0
    BY <1>1, <1>3, <1>7, HoldsIs
  <2>2. (IF slots' > 0 THEN 1 ELSE 0) = 1
    BY <1>7
  <2>3. heap' = lost' + h + 0 + 1
    BY <1>3, <1>7
  <2> QED
    BY <1>7, <2>1, <2>2, <2>3, StillCutting
<1>8. CASE SplitBegins
  <2>1. slots = 0 /\ heap = lost /\ lost' = lost
    BY <1>2, <1>3, <1>8 DEF SplitBegins
  <2>2. CASE GiveUp(NULL) /\ heap' = heap
    BY <1>3, <2>1, <2>2, GiveUpAccounts
  <2>3. CASE ~ (GiveUp(NULL) /\ heap' = heap)
    <3>1. /\ slots' = Slots /\ heap' = heap + 1
          /\ UNCHANGED << call, tokens, current >>
      BY <1>8, <2>3 DEF SplitBegins
    <3>2. Slots \in Nat /\ Slots > 0
      BY TokensAssumption
    <3>3. Holds(tokens') = 0
      BY <1>2, <2>1, <3>1 DEF H
    <3>4. heap' = lost + 0 + 1
      BY <1>3, <2>1, <3>1
    <3> QED
      BY <1>1, <1>7, <2>1, <3>1, <3>2, <3>3, <3>4
  <2> QED
    BY <2>2, <2>3
<1>9. CASE SplitFinds
  <2>1. slots > 0
    BY <1>9 DEF SplitFinds
  <2>2. PICK n \in Room, token \in sdsnewlen(SubSeq(call.text, start + 1, p)) :
          IF NULL \in { n, token }
          THEN CleanUp
          ELSE /\ tokens' = Append(tokens, token)
               /\ slots' = n
               /\ heap' = heap + 1
               /\ UNCHANGED << call, current, lost >>
    BY <1>9 DEF SplitFinds
  <2>3. CASE n # NULL /\ token # NULL
    <3>1. token \in T
      BY <1>2, <1>4, <2>1, <2>3, TokenFits
    <3>2. n \in Nat /\ n > 0
      BY <1>2, <2>1, <2>3 DEF Room
    <3>3. tokens' = Append(tokens, token) /\ slots' = n
      BY <2>2, <2>3
    <3>4. Holds(Append(tokens, token)) = H + 1 /\ H + 1 \in Nat
      BY <1>3, <1>6, <2>3, <3>1
    <3>5. heap' = lost + (H + 1) + 1
      BY <1>2, <1>3, <2>1, <2>2, <2>3
    <3>6. Holds(tokens') = H + 1
      BY <3>3, <3>4
    <3> QED
      BY <1>1, <1>7, <2>2, <2>3, <3>2, <3>3, <3>4, <3>5, <3>6
  <2>4. CASE ~ (n # NULL /\ token # NULL)
    BY <1>5, <2>2, <2>4
  <2> QED
    BY <2>3, <2>4
<1>10. CASE SplitSkips
  <2>1. slots > 0
    BY <1>10 DEF SplitSkips
  <2>2. PICK n \in Room :
          IF n = NULL
          THEN CleanUp
          ELSE slots' = n /\ UNCHANGED << call, tokens, current, heap, lost >>
    BY <1>10 DEF SplitSkips
  <2>3. CASE n # NULL
    <3>1. n \in Nat /\ n > 0
      BY <1>2, <2>1, <2>3 DEF Room
    <3>2. Holds(tokens') = H
      BY <2>2, <2>3 DEF H
    <3>3. heap' = lost + H + 1
      BY <1>2, <1>3, <2>1, <2>2, <2>3
    <3> QED
      BY <1>1, <1>3, <1>7, <2>2, <2>3, <3>1, <3>2, <3>3
  <2>4. CASE n = NULL
    BY <1>5, <2>2, <2>4
  <2> QED
    BY <2>3, <2>4
<1>11. CASE SplitEnds
  <2>1. slots > 0
    BY <1>11 DEF SplitEnds
  <2>2. PICK token \in
               sdsnewlen(SubSeq(call.text, start + 1, Len(call.text))) :
          IF token = NULL
          THEN CleanUp
          ELSE /\ Give(Append(tokens, token), slots)
               /\ heap' = heap + 1
               /\ UNCHANGED lost
    BY <1>11 DEF SplitEnds
  <2>3. CASE token # NULL
    <3>1. token \in T
      BY <1>2, <1>4, <2>3, TokenFits
    <3>2. Holds(Append(tokens, token)) = H + 1
      BY <1>6, <2>3, <3>1
    <3>3. heap' = lost + (H + 1) + 1
      BY <1>2, <1>3, <2>1, <2>2, <2>3
    <3>4. H + 1 \in Nat
      BY <1>3
    <3> QED
      BY <1>2, <1>3, <2>1, <2>2, <2>3, <3>2, <3>3, <3>4, GiveAccounts
  <2>4. CASE token = NULL
    BY <1>5, <2>2, <2>4
  <2> QED
    BY <2>3, <2>4
<1> QED
  BY <1>8, <1>9, <1>10, <1>11

LEMMA ArgsAccounts ==
  ASSUME HoldsTokens, Accounted,
         \/ ArgsSkip \/ ArgsBegin \/ ArgsByte \/ ArgsQuote \/ ArgsDone
         \/ ArgsErr \/ ArgsReturn
  PROVE  Accounted'
<1>1. /\ call # NoCall /\ call.op = "sdssplitargs" /\ call.op \in Cutting
      /\ Reading("sdssplitargs")
  BY DEF ArgsSkip, ArgsBegin, ArgsByte, ArgsQuote, ArgsDone, ArgsErr,
     ArgsReturn, Blank, InToken, Reading, Calling, Cutting
<1> DEFINE T == String \cup { NULL }
           H == Holds(tokens)
           C == Holds(<< current >>)
<1>2. /\ tokens \in Seq(T) /\ slots \in Nat /\ Len(tokens) = slots
      /\ C = IF current = NULL THEN 0 ELSE 1
      /\ slots = 0 => H = 0 /\ ArrayBlock = 0
      /\ slots > 0 => ArrayBlock = 1
      /\ mode = "blank" => current = NULL
      /\ current # NULL => Block(current)
      /\ p \in Nat
  BY <1>1, Terms DEF HoldsTokens, Calling
<1>3. /\ lost \in Nat /\ H \in Nat /\ C \in Nat /\ ArrayBlock \in Nat
      /\ heap = lost + H + C + ArrayBlock
  BY <1>1, WhileCutting
<1>4. ASSUME call' = call, lost' \in Nat, NEW h \in Nat, NEW c \in Nat,
             NEW a \in Nat, Holds(tokens') = h,
             c = IF current' = NULL THEN 0 ELSE 1,
             a = IF slots' > 0 THEN 1 ELSE 0,
             heap' = lost' + h + c + a
      PROVE  Accounted'
  <2>1. call'.op \in Cutting /\ Holds(<< current' >>) = c
    BY <1>1, <1>4, HoldsIs
  <2> QED
    BY <1>4, <2>1, StillCutting
<1>5. Die => Accounted'
  BY DieAccounts
<1>6. H = Holds(tokens) /\ (ArrayBlock = IF slots > 0 THEN 1 ELSE 0)
  BY DEF ArrayBlock
<1>14. ASSUME NEW x \in T
       PROVE  Holds(Append(tokens, x)) = H + IF x = NULL THEN 0 ELSE 1
  BY <1>2, HoldsMore
<1> HIDE DEF H, C
<1>7. CASE ArgsSkip \/ ArgsQuote
  <2>1. UNCHANGED << call, tokens, slots, current, heap, lost >>
    BY <1>7 DEF ArgsSkip, ArgsQuote
  <2> QED
    BY <1>2, <1>3, <1>4, <1>6, <2>1
<1>8. CASE ArgsBegin
  <2>1. current = NULL /\ C = 0
    BY <1>2, <1>8 DEF ArgsBegin, Blank
  <2> DEFINE c == IF current' = NULL THEN 0 ELSE 1
  <2>2. heap' = heap + c /\ UNCHANGED << call, tokens, slots, lost >>
    BY <1>8 DEF ArgsBegin
  <2>3. heap' = lost' + H + c + ArrayBlock /\ c \in Nat /\ lost' \in Nat
    BY <1>3, <2>1, <2>2
  <2>4. Holds(tokens') = H /\ (ArrayBlock = IF slots' > 0 THEN 1 ELSE 0)
    BY <1>6, <2>2
  <2> QED
    BY <1>3, <1>4, <2>2, <2>3, <2>4
<1>9. CASE ArgsByte
  <2>1. CASE current = NULL
    BY <1>5, <1>9, <2>1 DEF ArgsByte
  <2>2. CASE current # NULL
    <3> DEFINE c == IF current' = NULL THEN 0 ELSE 1
    <3>1. lost' = lost + (1 - c) /\ UNCHANGED << call, tokens, slots, heap >>
      <4>1. lost' = lost + (IF current' = NULL THEN 1 ELSE 0)
              /\ UNCHANGED << call, tokens, slots, heap >>
        BY <1>9, <2>2 DEF ArgsByte
      <4> QED
        BY <4>1
    <3>2. c \in { 0, 1 } /\ C = 1
      BY <1>2, <2>2
    <3> HIDE DEF c
    <3>3. heap' = lost' + H + c + ArrayBlock /\ c \in Nat /\ lost' \in Nat
      <4>1. lost + (1 - c) \in Nat
              /\ heap = (lost + (1 - c)) + H + c + ArrayBlock
        BY <1>3, <3>2
      <4> QED
        BY <3>1, <3>2, <4>1
    <3>4. Holds(tokens') = H /\ (ArrayBlock = IF slots' > 0 THEN 1 ELSE 0)
      BY <1>6, <3>1
    <3>5. c = IF current' = NULL THEN 0 ELSE 1
      BY DEF c
    <3> QED
      BY <1>3, <1>4, <3>1, <3>3, <3>4, <3>5
  <2> QED
    BY <2>1, <2>2
<1>10. CASE ArgsDone
  <2>1. CASE Die
    BY <1>5, <2>1
  <2>2. CASE ~ Die
    <3>1. /\ tokens' = Append(tokens, current)
          /\ slots' = Len(tokens) + 1
          /\ heap' = heap + (IF slots = 0 THEN 1 ELSE 0)
          /\ current' = NULL
          /\ UNCHANGED << call, lost >>
      BY <1>10, <2>2 DEF ArgsDone
    <3>2. current \in T
      BY <1>2 DEF Block
    <3>3. Holds(tokens') = H + C /\ H + C \in Nat
      BY <1>2, <1>3, <1>14, <3>1, <3>2
    <3>4. slots' = slots + 1 /\ (1 = IF slots' > 0 THEN 1 ELSE 0)
      BY <1>2, <3>1
    <3>5. heap' = lost' + (H + C) + 0 + 1
      <4>1. (IF slots = 0 THEN 1 ELSE 0) + ArrayBlock = 1
        BY <1>2
      <4> DEFINE d == IF slots = 0 THEN 1 ELSE 0
      <4>2. heap' = heap + d /\ d + ArrayBlock = 1 /\ d \in Nat
        BY <3>1, <4>1
      <4> HIDE DEF d
      <4> QED
        BY <1>3, <3>1, <4>2
    <3> QED
      BY <1>3, <1>4, <3>1, <3>3, <3>4, <3>5
  <2> QED
    BY <2>1, <2>2
<1>11. CASE ArgsErr
  BY <1>1, <1>11, CleanUpAccounts DEF ArgsErr
<1>12. CASE ArgsReturn
  <2>1. current = NULL /\ C = 0 /\ lost' = lost
    BY <1>2, <1>12 DEF ArgsReturn, Blank
  <2>2. CASE slots > 0 /\ Give(tokens, slots) /\ heap' = heap
    <3>1. heap' = lost + Holds(tokens) + 1
      BY <1>2, <1>3, <1>6, <2>1, <2>2
    <3> QED
      BY <1>2, <1>3, <1>6, <2>1, <2>2, <3>1, GiveAccounts
  <2>3. CASE slots = 0 /\ Give(<< >>, 1) /\ heap' = heap + 1
    <3>1. heap' = lost + Holds(<< >>) + 1 /\ Holds(<< >>) \in Nat
      BY <1>2, <1>3, <2>1, <2>3, HoldsIs
    <3> QED
      BY <1>3, <2>1, <2>3, <3>1, GiveAccounts
  <2>4. CASE slots = 0 /\ GiveUp(NULL) /\ heap' = heap
    <3>1. heap' = lost
      BY <1>2, <1>3, <2>1, <2>4
    <3> QED
      BY <1>3, <2>1, <2>4, <3>1, GiveUpAccounts
  <2> QED
    BY <1>12, <2>2, <2>3, <2>4 DEF ArgsReturn
<1> QED
  BY <1>7, <1>8, <1>9, <1>10, <1>11, <1>12

LEMMA FreeSplitResAccounts ==
  ASSUME HoldsTokens, Accounted, FreeSplitRes
  PROVE  Accounted'
<1>1. /\ call # NoCall /\ call.op = "sdsfreesplitres" /\ call.op \in Cutting
  BY DEF FreeSplitRes, Reading, Calling, Cutting
<1>2. slots > 0 /\ current = NULL
  BY <1>1 DEF HoldsTokens, Calling
<1>3. ArrayBlock = 1 /\ Holds(<< current >>) = 0
  BY <1>2, Terms
<1>4. heap' = heap - Holds(tokens) - 1 /\ GiveUp(OK) /\ lost' = lost
  BY DEF FreeSplitRes
<1>5. heap' = lost /\ lost \in Nat
  BY <1>1, <1>3, <1>4, WhileCutting
<1> QED
  BY <1>4, <1>5, GiveUpAccounts

LEMMA AccountsHold ==
  ASSUME IInv, [Next]_vars
  PROVE  Accounted'
<1>1. HoldsString /\ HoldsTokens /\ Accounted
  BY DEF IInv
<1>2. CASE UNCHANGED vars
  <2>1. UNCHANGED << call, f, heap, lost, returned, tokens, slots, current >>
    BY <1>2 DEF vars, stringVars, tokenVars
  <2> QED
    BY <1>1, <2>1 DEF Accounted, Running, Alive, Holds, ArrayBlock,
       BufferBlock, OnHeap, Calling
<1>3. CASE StringNext /\ UNCHANGED tokenVars
  BY <1>1, <1>3, CallerAccounts, OneStepAccounts, FormatAccounts,
     PrintfAccounts, BuildAccounts
  DEF StringNext, SeveralSteps
<1>4. CASE CallSplit \/ CallSplitArgs
  <2>1. /\ call = NoCall /\ Alive /\ f' = f
        /\ UNCHANGED << heap, lost, tokenVars >>
    BY <1>4 DEF CallSplit, CallSplitArgs, Begin
  <2>2. f = 0
    BY <1>1, <2>1 DEF HoldsString
  <2>3. f' = 0
    BY <2>1, <2>2
  <2> QED
    BY <1>1, <2>1, <2>2, <2>3, NoBuffer, NoBufferLater, SameBlocks
    DEF Running
<1>5. CASE SplitBegins \/ SplitFinds \/ SplitSkips \/ SplitEnds
  BY <1>1, <1>5, SplitAccounts
<1>6. CASE \/ ArgsSkip \/ ArgsBegin \/ ArgsByte \/ ArgsQuote \/ ArgsDone
           \/ ArgsErr \/ ArgsReturn
  BY <1>1, <1>6, ArgsAccounts
<1>7. CASE FreeSplitRes
  BY <1>1, <1>7, FreeSplitResAccounts
<1> QED
  BY <1>2, <1>3, <1>4, <1>5, <1>6, <1>7 DEF Next, Splitting

-----------------------------------------------------------------------------
(* The theorems *)

LEMMA InitHolds ==
  ASSUME Init
  PROVE  IInv
<1>1. HoldsString
  BY DEF Init, StringInit, HoldsString, Calling
<1>2. HoldsTokens
  BY DEF Init, StringInit, HoldsTokens, Calling
<1>3. Accounted
  BY HoldsIs
  DEF Init, StringInit, Accounted, ArrayBlock, BufferBlock, Calling
<1> QED
  BY <1>1, <1>2, <1>3 DEF IInv

(* What the three parts say of the string the caller holds, of the tokens  *)
(* and of the blocks is so after every step of every call (sds.c 89-1129). *)
THEOREM Invariance == Spec => []IInv
<1>1. Init => IInv
  BY InitHolds
<1>2. IInv /\ [Next]_vars => IInv'
  <2> SUFFICES ASSUME IInv, [Next]_vars
               PROVE  IInv'
    OBVIOUS
  <2>1. HoldsString' /\ HoldsTokens'
    BY StringHolds, TokensHold DEF IInv
  <2>2. Accounted'
    BY AccountsHold
  <2> QED
    BY <2>1, <2>2 DEF IInv
<1> QED
  BY <1>1, <1>2, PTL DEF Spec

(* The string fits into its block with its terminator, its header tells    *)
(* the size of the block, and the array has room for its tokens, for every *)
(* text, format, size and position that is passed and however the widths   *)
(* of the headers are chosen (sds.c 204-291, 842-869).                     *)
THEOREM StringsAlwaysFit == Spec => []StringsFit
<1>1. IInv => StringsFit
  <2> SUFFICES ASSUME IInv
               PROVE  StringsFit
    OBVIOUS
  <2>1. Len(tokens) <= slots
    BY DEF IInv, HoldsTokens
  <2>2. ASSUME s # NULL
        PROVE  /\ HdrSize[s.type] + Len(s.buf) <= s.size
               /\ s.len <= sdsalloc(s)
               /\ s.type # SDS_TYPE_5 =>
                    s.size = HdrSize[s.type] + sdsalloc(s) + 1
               /\ call = NoCall /\ Alive =>
                    Len(s.buf) = s.len + 1 /\ s.buf[s.len + 1] = NUL
    <3>1. Block(s) /\ (Running /\ ~ Formatting => Terminated(s))
      BY <2>2 DEF IInv, HoldsString
    <3>2. /\ HdrSize[s.type] \in Nat /\ s.len \in Nat /\ s.size \in Nat
          /\ HdrSize[s.type] + s.len + 1 <= s.size
          /\ Len(s.buf) \in { s.len, s.len + 1 }
      BY <3>1, StringFields DEF Block
    <3>3. HdrSize[s.type] + Len(s.buf) <= s.size
      BY <3>2
    <3>4. s.len <= sdsalloc(s)
      BY <3>1 DEF Block
    <3>5. s.type # SDS_TYPE_5 => s.size = HdrSize[s.type] + sdsalloc(s) + 1
      BY <3>1 DEF Block, sdsalloc
    <3>6. call = NoCall /\ Alive => Terminated(s)
      BY <3>1 DEF Running, Formatting, Calling
    <3> QED
      BY <3>3, <3>4, <3>5, <3>6 DEF Terminated
  <2> QED
    BY <2>1, <2>2 DEF StringsFit
<1> QED
  BY <1>1, Invariance, PTL

(* While the process lives every block is in the array, a token or the     *)
(* buffer, or is one of those that are known to be lost: no error path     *)
(* forgets one or frees one twice, wherever an allocation fails (sds.c     *)
(* 539-571, 874-889, 1071-1080).                                           *)
THEOREM NothingLeaksEver == Spec => []NothingLeaks
<1>1. IInv => NothingLeaks
  BY DEF IInv, Accounted, Running, NothingLeaks, ArrayBlock, BufferBlock
<1> QED
  BY <1>1, Invariance, PTL

-----------------------------------------------------------------------------
(* FlattenSeq *)

FlattenStep(ss, g, i) == IF i = 1 THEN ss[i] ELSE g[i - 1] \o ss[i]

(* The function g is right up to n. *)
FlattenUpTo(ss, n, g) == \A i \in 1 .. n : g[i] = FlattenStep(ss, g, i)

LEMMA FlattenPrefix ==
  ASSUME NEW ss, NEW n \in Nat
  PROVE  \E g : FlattenUpTo(ss, n, g)
<1> DEFINE Bad == { m \in Nat : ~ \E g : FlattenUpTo(ss, m, g) }
<1> SUFFICES ASSUME Bad # {} PROVE FALSE
  OBVIOUS
<1>1. Bad \in SUBSET Nat
  OBVIOUS
<1>2. PICK m \in Bad : \A k \in Bad : m <= k
  BY <1>1, Least
<1>3. m \in Nat /\ m # 0
  <2>1. FlattenUpTo(ss, 0, << >>)
    BY DEF FlattenUpTo
  <2> QED
    BY <2>1
<1>4. m - 1 \in Nat /\ ~ (m <= m - 1)
  BY <1>3
<1>5. m - 1 \notin Bad
  BY <1>2, <1>4
<1>6. PICK h : FlattenUpTo(ss, m - 1, h)
  BY <1>4, <1>5
<1> DEFINE g == [i \in 1 .. m |-> IF i = m THEN FlattenStep(ss, h, m)
                                  ELSE h[i]]
<1>7. \A i \in 1 .. m - 1 : g[i] = h[i]
  BY <1>3
<1>8. g[m] = FlattenStep(ss, h, m)
  BY <1>3
<1> HIDE DEF g
<1>9. ASSUME NEW i \in 1 .. m PROVE g[i] = FlattenStep(ss, g, i)
  <2>1. FlattenStep(ss, g, i) = FlattenStep(ss, h, i)
    <3>1. CASE i = 1
      BY <3>1 DEF FlattenStep
    <3>2. CASE i # 1
      <4>1. i - 1 \in 1 .. m - 1
        BY <1>3, <3>2
      <4>2. g[i - 1] = h[i - 1]
        BY <1>7, <4>1
      <4> QED
        BY <4>2 DEF FlattenStep
    <3> QED
      BY <3>1, <3>2
  <2>2. i = m \/ i \in 1 .. m - 1
    BY <1>3
  <2> QED
    BY <1>6, <1>7, <1>8, <2>1, <2>2 DEF FlattenUpTo
<1>10. FlattenUpTo(ss, m, g)
  BY <1>9 DEF FlattenUpTo
<1> QED
  BY <1>2, <1>10

(* The recursion of FlattenSeq defines a function. *)
LEMMA FlattenIs ==
  ASSUME NEW T, NEW ss \in Seq(T), Len(ss) > 0
  PROVE  \E g : FlattenUpTo(ss, Len(ss), g) /\ FlattenSeq(ss) = g[Len(ss)]
<1> DEFINE n == Len(ss)
           IsIt(g) == g = [i \in 1 .. n |-> FlattenStep(ss, g, i)]
<1>1. n \in Nat /\ n > 0
  OBVIOUS
<1>2. FlattenSeq(ss) = (CHOOSE g : g = [i \in 1 .. n |->
          IF i = 1 THEN ss[i] ELSE g[i - 1] \o ss[i]])[n]
  BY <1>1 DEF FlattenSeq
<1>3. FlattenSeq(ss) = (CHOOSE g : IsIt(g))[n]
  BY <1>2 DEF FlattenStep
<1>4. PICK h : FlattenUpTo(ss, n, h)
  BY <1>1, FlattenPrefix
<1> DEFINE g == [i \in 1 .. n |-> h[i]]
<1>5. \A i \in 1 .. n : g[i] = h[i]
  OBVIOUS
<1>6. g = [i \in 1 .. n |-> g[i]]
  OBVIOUS
<1> HIDE DEF g
<1>7. \A i \in 1 .. n : FlattenStep(ss, g, i) = FlattenStep(ss, h, i)
  <2> SUFFICES ASSUME NEW i \in 1 .. n
               PROVE  FlattenStep(ss, g, i) = FlattenStep(ss, h, i)
    OBVIOUS
  <2>1. CASE i = 1
    BY <2>1 DEF FlattenStep
  <2>2. CASE i # 1
    <3>1. i - 1 \in 1 .. n
      BY <1>1, <2>2
    <3> QED
      BY <1>5, <3>1 DEF FlattenStep
  <2> QED
    BY <2>1, <2>2
<1>8. \A i \in 1 .. n : g[i] = FlattenStep(ss, g, i)
  BY <1>4, <1>5, <1>7 DEF FlattenUpTo
<1>9. IsIt(g)
  BY <1>6, <1>8
<1> DEFINE f0 == CHOOSE x : IsIt(x)
<1>10. IsIt(f0)
  BY <1>9
<1>11. FlattenSeq(ss) = f0[n]
  BY <1>3
<1> HIDE DEF f0
<1>12. FlattenUpTo(ss, n, f0)
  BY <1>10 DEF FlattenUpTo
<1> QED
  BY <1>11, <1>12

(* What is appended comes last. *)
LEMMA FlattenMore ==
  ASSUME NEW S, NEW ss \in Seq(Seq(S)), NEW t \in Seq(S)
  PROVE  /\ FlattenSeq(ss) \in Seq(S)
         /\ FlattenSeq(Append(ss, t)) = FlattenSeq(ss) \o t
<1> DEFINE n == Len(ss)
           more == Append(ss, t)
<1>1. n \in Nat /\ \A i \in 1 .. n : ss[i] \in Seq(S)
  OBVIOUS
<1>2. /\ more \in Seq(Seq(S)) /\ Len(more) = n + 1 /\ more[n + 1] = t
      /\ \A i \in 1 .. n : more[i] = ss[i]
  BY <1>1
<1> HIDE DEF more
<1>3. Len(more) > 0
  BY <1>1, <1>2
<1>4. PICK h : FlattenUpTo(more, n + 1, h) /\ FlattenSeq(more) = h[n + 1]
  BY <1>2, <1>3, FlattenIs
<1>5. h[n + 1] = FlattenStep(more, h, n + 1)
  BY <1>1, <1>4 DEF FlattenUpTo
<1>6. CASE n = 0
  <2>1. ss = << >> /\ FlattenSeq(ss) = ss
    BY <1>6 DEF FlattenSeq
  <2>2. h[n + 1] = t
    BY <1>2, <1>5, <1>6 DEF FlattenStep
  <2>3. << >> \o t = t
    BY ConcatEmptySeq
  <2>4. FlattenSeq(more) = t
    BY <1>4, <2>2
  <2>5. FlattenSeq(ss) = << >> /\ << >> \in Seq(S)
    BY <2>1
  <2> QED
    BY <2>3, <2>4, <2>5 DEF more
<1>7. CASE n # 0
  <2>1. n > 0
    BY <1>1, <1>7
  <2>2. PICK g : FlattenUpTo(ss, n, g) /\ FlattenSeq(ss) = g[n]
    BY <2>1, FlattenIs
  <2> DEFINE Bad == { i \in Nat : i \in 1 .. n
                                    /\ ~ (g[i] \in Seq(S) /\ g[i] = h[i]) }
  <2>3. Bad = {}
    <3> SUFFICES ASSUME Bad # {} PROVE FALSE
      OBVIOUS
    <3>1. Bad \in SUBSET Nat
      OBVIOUS
    <3>2. PICK i \in Bad : \A j \in Bad : i <= j
      BY <3>1, Least
    <3>3. i \in 1 .. n /\ ~ (g[i] \in Seq(S) /\ g[i] = h[i])
      OBVIOUS
    <3>9. i \in 1 .. n + 1
      BY <1>1, <3>3
    <3>4. g[i] = FlattenStep(ss, g, i) /\ h[i] = FlattenStep(more, h, i)
      BY <1>4, <2>2, <3>3, <3>9 DEF FlattenUpTo
    <3>5. CASE i = 1
      BY <1>1, <1>2, <3>3, <3>4, <3>5 DEF FlattenStep
    <3>6. CASE i # 1
      <4>1. i - 1 \in 1 .. n /\ i - 1 \in Nat /\ ~ (i <= i - 1)
        BY <1>1, <3>3, <3>6
      <4>2. g[i - 1] \in Seq(S) /\ g[i - 1] = h[i - 1]
        BY <3>2, <4>1
      <4>3. g[i] = g[i - 1] \o ss[i] /\ h[i] = h[i - 1] \o more[i]
        BY <3>4, <3>6 DEF FlattenStep
      <4>4. ss[i] \in Seq(S) /\ more[i] = ss[i]
        BY <1>1, <1>2, <3>3
      <4>5. g[i - 1] \o ss[i] \in Seq(S)
        BY <4>2, <4>4, ConcatProperties
      <4> QED
        BY <3>3, <4>2, <4>3, <4>4, <4>5
    <3> QED
      BY <3>5, <3>6
  <2>4. n \in Nat /\ n \in 1 .. n
    BY <1>1, <2>1
  <2>5. g[n] \in Seq(S) /\ g[n] = h[n]
    BY <2>3, <2>4
  <2>6. h[n + 1] = h[n] \o t
    <3>1. n + 1 # 1 /\ (n + 1) - 1 = n
      BY <1>1, <2>1
    <3> QED
      BY <1>2, <1>5, <3>1 DEF FlattenStep
  <2> QED
    BY <1>4, <2>2, <2>5, <2>6 DEF more
<1> QED
  BY <1>6, <1>7

-----------------------------------------------------------------------------
(* The tokens of sdssplitlen() are the text *)

Lacks(t, sep) ==
  \A i \in 0 .. Len(t) - Len(sep) : SubSeq(t, i + 1, i + Len(sep)) # sep

(* The text in front of the token that begins *)
Ahead(toks, sep) ==
  IF toks = << >> THEN << >> ELSE FlattenSeq(JoinPieces(toks, sep)) \o sep

LEMMA JoinPiecesMore ==
  ASSUME NEW P, NEW toks \in Seq(P), NEW t \in P, NEW sep \in P
  PROVE  /\ toks = << >> => JoinPieces(Append(toks, t), sep) = << t >>
         /\ toks # << >> =>
              JoinPieces(Append(toks, t), sep)
                = Append(Append(JoinPieces(toks, sep), sep), t)
<1> DEFINE n == Len(toks)
           more == Append(toks, t)
           g == JoinPieces(more, sep)
<1>1. n \in Nat
  OBVIOUS
<1>2. /\ more \in Seq(P) /\ Len(more) = n + 1 /\ more[n + 1] = t
      /\ \A i \in 1 .. n : more[i] = toks[i]
  BY <1>1
<1> HIDE DEF more
<1>11. g \in Seq(P) /\ Len(g) = 2 * n + 1
  <2>1. more # << >>
    BY <1>1, <1>2
  <2>2. g \in Seq(P) /\ Len(g) = 2 * Len(more) - 1
    BY <1>2, <2>1, JoinPiecesArePieces
  <2> QED
    BY <1>1, <1>2, <2>2
<1>3. g = [k \in 1 .. 2 * (n + 1) - 1 |->
             IF k % 2 = 1 THEN more[k \div 2 + 1] ELSE sep]
  BY <1>2 DEF JoinPieces
<1> HIDE DEF g
<1>4. 2 * (n + 1) - 1 = 2 * n + 1
  BY <1>1
<1>5. \A k \in 1 .. 2 * n + 1 :
        g[k] = IF k % 2 = 1 THEN more[k \div 2 + 1] ELSE sep
  BY <1>3, <1>4
<1>7. (2 * n + 1) % 2 = 1 /\ (2 * n + 1) \div 2 + 1 = n + 1
  BY <1>1
<1>8. g[2 * n + 1] = t
  <2>1. 2 * n + 1 \in 1 .. 2 * n + 1
    BY <1>1
  <2> QED
    BY <1>2, <1>5, <1>7, <2>1
<1>9. CASE n = 0
  <2>1. 2 * n + 1 = 1
    BY <1>9
  <2>2. Len(g) = 1 /\ g[1] = t
    BY <1>8, <1>11, <2>1
  <2>3. g = << t >>
    BY <1>11, <2>2
  <2> QED
    BY <1>9, <2>3 DEF g, more
<1>10. CASE n # 0
  <2> DEFINE b == JoinPieces(toks, sep)
             m == 2 * n - 1
  <2>1. m \in Nat /\ m > 0 /\ 2 * n + 1 = m + 2 /\ 2 * n = m + 1
    BY <1>1, <1>10
  <2>2. b \in Seq(P) /\ Len(b) = m
    BY <1>10, JoinPiecesArePieces
  <2>3. \A k \in 1 .. m : b[k] = IF k % 2 = 1 THEN toks[k \div 2 + 1] ELSE sep
    BY DEF JoinPieces
  <2>4. (m + 1) % 2 # 1
    <3>1. (2 * n) % 2 = 0
      BY <1>1
    <3> QED
      BY <2>1, <3>1
  <2> DEFINE c == Append(Append(b, sep), t)
  <2>11. \A k \in 1 .. m : k % 2 = 1 => k \div 2 + 1 \in 1 .. n
    BY <1>1, Halves
  <2> HIDE DEF b, m
  <2>5. /\ c \in Seq(P) /\ Len(c) = m + 2 /\ c[m + 1] = sep /\ c[m + 2] = t
        /\ \A k \in 1 .. m : c[k] = b[k]
    BY <2>1, <2>2
  <2> HIDE DEF c
  <2>6. \A k \in 1 .. m : g[k] = c[k]
    <3> SUFFICES ASSUME NEW k \in 1 .. m PROVE g[k] = c[k]
      OBVIOUS
    <3>1. k \in 1 .. 2 * n + 1
      BY <2>1
    <3>2. CASE k % 2 = 1
      <4>1. more[k \div 2 + 1] = toks[k \div 2 + 1]
        BY <1>2, <2>11, <3>2
      <4> QED
        BY <1>5, <2>3, <2>5, <3>1, <3>2, <4>1
    <3>3. CASE ~ (k % 2 = 1)
      BY <1>5, <2>3, <2>5, <3>1, <3>3
    <3> QED
      BY <3>2, <3>3
  <2>7. g[m + 1] = sep
    <3>1. m + 1 \in 1 .. 2 * n + 1
      BY <2>1
    <3> QED
      BY <1>5, <2>4, <3>1
  <2>8. g[m + 2] = t
    BY <1>8, <2>1
  <2>9. \A k \in 1 .. m + 2 : g[k] = c[k]
    <3>1. \A k \in 1 .. m + 2 : k \in 1 .. m \/ k = m + 1 \/ k = m + 2
      BY <2>1
    <3> QED
      BY <2>5, <2>6, <2>7, <2>8, <3>1
  <2>10. g = c
    BY <1>11, <2>1, <2>5, <2>9, SeqEqual
  <2>12. JoinPieces(more, sep) = c
    BY <2>10 DEF g
  <2>13. JoinPieces(Append(toks, t), sep)
           = Append(Append(JoinPieces(toks, sep), sep), t)
    BY <2>12 DEF more, c, b
  <2>14. toks # << >>
    BY <1>10
  <2> QED
    BY <2>13, <2>14
<1> QED
  BY <1>9, <1>10

LEMMA AheadMore ==
  ASSUME NEW S, NEW toks \in Seq(Seq(S)), NEW t \in Seq(S), NEW sep \in Seq(S)
  PROVE  /\ Ahead(toks, sep) \in Seq(S)
         /\ FlattenSeq(JoinPieces(Append(toks, t), sep))
              = Ahead(toks, sep) \o t
         /\ Ahead(Append(toks, t), sep) = (Ahead(toks, sep) \o t) \o sep
<1> DEFINE P == Seq(S)
           b == JoinPieces(toks, sep)
           F(x) == FlattenSeq(x)
<1>1. b \in Seq(P)
  BY JoinPiecesArePieces
<1>2. ASSUME NEW ss \in Seq(P), NEW u \in P
      PROVE  F(ss) \in P /\ F(Append(ss, u)) = F(ss) \o u
  BY FlattenMore
<1>3. Append(toks, t) # << >>
  <2>1. Len(Append(toks, t)) = Len(toks) + 1 /\ Len(toks) \in Nat
    OBVIOUS
  <2> QED
    BY <2>1
<1>4. Ahead(Append(toks, t), sep)
        = FlattenSeq(JoinPieces(Append(toks, t), sep)) \o sep
  BY <1>3 DEF Ahead
<1>5. CASE toks = << >>
  <2>1. Ahead(toks, sep) = << >> /\ << >> \in Seq(S)
    BY <1>5 DEF Ahead
  <2>2. JoinPieces(Append(toks, t), sep) = << t >>
    BY <1>5, JoinPiecesMore
  <2>3. FlattenSeq(<< t >>) = << >> \o t
    <3>1. << t >> = Append(<< >>, t) /\ << >> \in Seq(P)
      OBVIOUS
    <3>2. F(<< >>) = << >>
      BY DEF FlattenSeq
    <3>3. F(Append(<< >>, t)) = F(<< >>) \o t
      BY <1>2, <3>1
    <3> QED
      BY <3>1, <3>2, <3>3
  <2> QED
    BY <1>4, <2>1, <2>2, <2>3
<1>6. CASE toks # << >>
  <2>1. Ahead(toks, sep) = F(b) \o sep
    BY <1>6 DEF Ahead
  <2>2. JoinPieces(Append(toks, t), sep) = Append(Append(b, sep), t)
    BY <1>6, JoinPiecesMore
  <2> HIDE DEF b
  <2>3. Append(b, sep) \in Seq(P)
    BY <1>1
  <2>4. F(b) \in Seq(S) /\ F(Append(b, sep)) = F(b) \o sep
    BY <1>1, <1>2
  <2>5. F(Append(Append(b, sep), t)) = F(Append(b, sep)) \o t
    BY <1>2, <2>3
  <2>6. F(b) \o sep \in Seq(S)
    BY <2>4, ConcatProperties
  <2> HIDE DEF F
  <2>7. F(JoinPieces(Append(toks, t), sep)) = Ahead(toks, sep) \o t
    BY <2>1, <2>2, <2>4, <2>5
  <2>8. Ahead(toks, sep) \in Seq(S)
    BY <2>1, <2>6
  <2> USE DEF F
  <2> QED
    BY <1>4, <2>7, <2>8
<1> QED
  BY <1>5, <1>6

LEMMA AheadBytes ==
  \A toks \in Seq(Seq(Byte)), t \in Seq(Byte), sep \in Seq(Byte) :
    /\ FlattenSeq(JoinPieces(Append(toks, t), sep)) = Ahead(toks, sep) \o t
    /\ Ahead(Append(toks, t), sep) = (Ahead(toks, sep) \o t) \o sep
BY AheadMore

LEMMA ContentsMore ==
  ASSUME NEW T, NEW toks \in Seq(T), NEW x \in T,
         Contents(toks) \in Seq(Seq(Byte)), Content(x) \in Seq(Byte)
  PROVE  /\ Contents(Append(toks, x)) = Append(Contents(toks), Content(x))
         /\ Contents(Append(toks, x)) \in Seq(Seq(Byte))
<1> DEFINE n == Len(toks)
           more == Append(toks, x)
           b == Contents(toks)
           g == Contents(more)
           c == Append(b, Content(x))
<1>1. n \in Nat /\ DOMAIN toks = 1 .. n
  OBVIOUS
<1>2. /\ DOMAIN more = 1 .. n + 1 /\ more[n + 1] = x
      /\ \A k \in 1 .. n : more[k] = toks[k]
  BY <1>1
<1>3. /\ DOMAIN b = 1 .. n /\ \A k \in 1 .. n : b[k] = Content(toks[k])
  BY <1>1 DEF Contents
<1>4. b \in Seq(Seq(Byte)) /\ Len(b) = n
  BY <1>1, <1>3
<1> HIDE DEF more
<1>5. g = [k \in 1 .. n + 1 |-> Content(more[k])]
  BY <1>2 DEF Contents
<1> HIDE DEF b, n
<1>6. /\ c \in Seq(Seq(Byte)) /\ Len(c) = n + 1 /\ c[n + 1] = Content(x)
      /\ \A k \in 1 .. n : c[k] = b[k]
  BY <1>1, <1>4
<1> HIDE DEF c, g
<1>7. \A k \in 1 .. n + 1 : g[k] = c[k]
  <2>1. \A k \in 1 .. n + 1 : k \in 1 .. n \/ k = n + 1
    BY <1>1
  <2>2. \A k \in 1 .. n + 1 : g[k] = Content(more[k])
    BY <1>5
  <2> QED
    BY <1>2, <1>3, <1>6, <2>1, <2>2
<1>8. g \in Seq(Seq(Byte)) /\ Len(g) = n + 1
  <2>1. \A k \in 1 .. n + 1 : c[k] \in Seq(Byte)
    BY <1>6
  <2>2. \A k \in 1 .. n + 1 : Content(more[k]) \in Seq(Byte)
    BY <1>5, <1>7, <2>1
  <2> DEFINE l == n + 1
  <2>3. g \in [1 .. l -> Seq(Byte)]
    BY <1>5, <2>2
  <2>4. l \in Nat
    BY <1>1
  <2> HIDE DEF l
  <2>5. g \in Seq(Seq(Byte)) /\ Len(g) = l
    BY <2>3, <2>4
  <2> QED
    BY <2>5 DEF l
<1>9. g = c
  BY <1>6, <1>7, <1>8, SeqEqual
<1> QED
  BY <1>8, <1>9 DEF g, c, b, more

(* Two parts of a sequence that meet *)
LEMMA PartsMeet ==
  ASSUME NEW S, NEW b \in Seq(S), NEW i \in Nat, NEW j \in Nat,
         i <= j, j <= Len(b)
  PROVE  SubSeq(b, 1, i) \o SubSeq(b, i + 1, j) = SubSeq(b, 1, j)
<1> DEFINE t == SubSeq(b, 1, i)
           k == i + 1
           u == SubSeq(b, k, j)
           v == SubSeq(b, 1, j)
<1>1. /\ \A l \in 1 .. Len(b) : b[l] \in S
      /\ Len(b) \in Nat /\ k \in Nat /\ i \in Int /\ j \in Int /\ k \in Int
      /\ 1 \in Int
  OBVIOUS
<1>9. k = i + 1
  OBVIOUS
<1> HIDE DEF k
<1>2. /\ \A l \in 1 .. i : b[l] \in S
      /\ \A l \in k .. j : b[l] \in S
      /\ \A l \in 1 .. j : b[l] \in S
  BY <1>1, <1>9
<1>3. /\ t \in Seq(S) /\ Len(t) = i
      /\ \A l \in 1 .. i : t[l] = b[l]
  BY <1>1, <1>2
<1>4. /\ u \in Seq(S) /\ Len(u) = j - i
      /\ \A l \in 1 .. j - i : u[l] = b[i + l]
  BY <1>1, <1>2, <1>9
<1>5. /\ v \in Seq(S) /\ Len(v) = j
      /\ \A l \in 1 .. j : v[l] = b[l]
  BY <1>1, <1>2
<1> HIDE DEF t, u, v
<1>10. Len(t) + Len(u) = j
  BY <1>3, <1>4
<1>6. /\ t \o u \in Seq(S) /\ Len(t \o u) = j
      /\ \A l \in 1 .. j : (t \o u)[l] = IF l <= i THEN t[l] ELSE u[l - i]
  BY <1>3, <1>4, <1>10, ConcatProperties
<1>7. \A l \in 1 .. j : (t \o u)[l] = v[l]
  <2> SUFFICES ASSUME NEW l \in 1 .. j PROVE (t \o u)[l] = v[l]
    OBVIOUS
  <2>1. CASE l <= i
    BY <1>3, <1>5, <1>6, <2>1
  <2>2. CASE ~ (l <= i)
    <3>1. l - i \in 1 .. j - i /\ i + (l - i) = l
      BY <2>2
    <3>2. u[l - i] = b[l]
      BY <1>4, <3>1
    <3> QED
      BY <1>5, <1>6, <2>2, <3>2
  <2> QED
    BY <2>1, <2>2
<1>8. t \o u = v
  BY <1>5, <1>6, <1>7, SeqEqual
<1> QED
  BY <1>8 DEF t, u, v, k

(* and a part of a part *)
LEMMA PartOfPart ==
  ASSUME NEW S, NEW b \in Seq(S), NEW i \in Nat, NEW j \in Nat, j <= Len(b),
         NEW h \in Nat, NEW m \in Nat, m >= 1, i + h + m <= j
  PROVE  SubSeq(SubSeq(b, i + 1, j), h + 1, h + m)
           = SubSeq(b, (i + h) + 1, (i + h) + m)
<1> DEFINE k == i + 1
           t == SubSeq(b, k, j)
           k1 == h + 1
           k2 == h + m
           k3 == (i + h) + 1
           k4 == (i + h) + m
           u == SubSeq(t, k1, k2)
           v == SubSeq(b, k3, k4)
<1>1. /\ k = i + 1 /\ k1 = h + 1 /\ k2 = h + m /\ k3 = (i + h) + 1
      /\ k4 = (i + h) + m
      /\ k \in Int /\ k1 \in Int /\ k2 \in Int /\ k3 \in Int /\ k4 \in Int
      /\ Len(b) \in Nat /\ \A l \in 1 .. Len(b) : b[l] \in S
  OBVIOUS
<1> HIDE DEF k, k1, k2, k3, k4
<1>2. /\ t \in Seq(S) /\ Len(t) = j - i
      /\ \A l \in 1 .. j - i : t[l] = b[i + l]
  <2>1. \A l \in k .. j : b[l] \in S
    BY <1>1
  <2>2. j - k + 1 = j - i /\ k <= j
    BY <1>1
  <2> QED
    BY <1>1, <2>1, <2>2, SubSeqProperties
<1> HIDE DEF t
<1>3. /\ u \in Seq(S) /\ Len(u) = m
      /\ \A l \in 1 .. m : u[l] = t[h + l]
  <2>1. \A l \in k1 .. k2 : l \in 1 .. Len(t)
    BY <1>1, <1>2
  <2>2. \A l \in k1 .. k2 : t[l] \in S
    BY <1>2, <2>1
  <2>3. k2 - k1 + 1 = m /\ k1 <= k2
    BY <1>1
  <2>4. \A l \in 1 .. m : k1 + l - 1 = h + l
    BY <1>1
  <2> QED
    BY <1>1, <2>2, <2>3, <2>4, SubSeqProperties
<1>4. /\ v \in Seq(S) /\ Len(v) = m
      /\ \A l \in 1 .. m : v[l] = b[(i + h) + l]
  <2>1. \A l \in k3 .. k4 : l \in 1 .. Len(b)
    BY <1>1
  <2>2. \A l \in k3 .. k4 : b[l] \in S
    BY <1>1, <2>1
  <2>3. k4 - k3 + 1 = m /\ k3 <= k4
    BY <1>1
  <2>4. \A l \in 1 .. m : k3 + l - 1 = (i + h) + l
    BY <1>1
  <2> QED
    BY <1>1, <2>2, <2>3, <2>4, SubSeqProperties
<1> HIDE DEF u, v
<1>5. \A l \in 1 .. m : u[l] = v[l]
  <2> SUFFICES ASSUME NEW l \in 1 .. m PROVE u[l] = v[l]
    OBVIOUS
  <2>1. h + l \in 1 .. j - i /\ i + (h + l) = (i + h) + l
    OBVIOUS
  <2>2. t[h + l] = b[i + (h + l)]
    BY <1>2, <2>1
  <2> QED
    BY <1>3, <1>4, <2>1, <2>2
<1>6. u = v
  BY <1>3, <1>4, <1>5, SeqEqual
<1> QED
  BY <1>6 DEF u, v, t, k, k1, k2, k3, k4

(* A token has no separator where the text between its ends has none. *)
LEMMA TokenLacks ==
  ASSUME NEW S, NEW b \in Seq(S), NEW sep \in Seq(S), Len(sep) >= 1,
         NEW i \in Nat, NEW j \in Nat, i <= j, j <= Len(b),
         \A q \in i .. j - Len(sep) : SubSeq(b, q + 1, q + Len(sep)) # sep
  PROVE  Lacks(SubSeq(b, i + 1, j), sep)
<1> DEFINE m == Len(sep)
           t == SubSeq(b, i + 1, j)
<1>1. m \in Nat /\ m >= 1 /\ Len(b) \in Nat
  OBVIOUS
<1>5. Len(t) = j - i
  <2> DEFINE k == i + 1
  <2>1. k \in Nat /\ k > 0 /\ k = i + 1
    OBVIOUS
  <2> HIDE DEF k
  <2>2. /\ k <= j => Len(SubSeq(b, k, j)) = j - k + 1
        /\ j < k => SubSeq(b, k, j) = << >>
    BY <2>1, PartIs
  <2>3. Len(SubSeq(b, k, j)) = j - i
    <3>1. CASE k <= j
      BY <2>1, <2>2, <3>1
    <3>2. CASE ~ (k <= j)
      BY <2>1, <2>2, <3>2
    <3> QED
      BY <3>1, <3>2
  <2> QED
    BY <2>3 DEF k
<1>6. m = Len(sep) /\ t = SubSeq(b, i + 1, j)
  OBVIOUS
<1> HIDE DEF m, t
<1>2. ASSUME NEW h \in 0 .. Len(t) - m
      PROVE  SubSeq(t, h + 1, h + m) # sep
  <2>1. h \in Nat /\ i + h + m <= j
    BY <1>1, <1>5
  <2>2. SubSeq(t, h + 1, h + m) = SubSeq(b, (i + h) + 1, (i + h) + m)
    BY <1>1, <1>6, <2>1, PartOfPart
  <2> DEFINE q == i + h
  <2>3. q \in i .. j - m /\ q = i + h
    BY <1>1, <2>1
  <2> HIDE DEF q
  <2>4. SubSeq(b, q + 1, q + m) # sep
    BY <1>6, <2>3
  <2> QED
    BY <2>2, <2>3, <2>4
<1> QED
  BY <1>2, <1>6 DEF Lacks

(* What has been cut off so far is the text up to start, and there is no   *)
(* separator between start and p.                                          *)
Cut(toks, text, sep, i, j) ==
  /\ Contents(toks) \in Seq(Seq(Byte))
  /\ Ahead(Contents(toks), sep) = SubSeq(text, 1, i)
  /\ \A k \in DOMAIN toks : Lacks(Content(toks[k]), sep)
  /\ \A q \in i .. j - 1 :
       q + Len(sep) <= Len(text) => SubSeq(text, q + 1, q + Len(sep)) # sep

Exact(toks, text, sep) ==
  /\ FlattenSeq(JoinPieces(Contents(toks), sep)) = text
  /\ \A k \in DOMAIN toks : Lacks(Content(toks[k]), sep)

CutsExactly ==
  /\ Calling("sdssplitlen") /\ slots > 0 =>
       Cut(tokens, call.text, call.sep, start, p)
  /\ Given("sdssplitlen") => Exact(tokens, call.of.text, call.of.sep)

(* The tokens are the text up to l. *)
CutUpTo(toks, text, sep, l) ==
  /\ Contents(toks) \in Seq(Seq(Byte))
  /\ FlattenSeq(JoinPieces(Contents(toks), sep)) = SubSeq(text, 1, l)
  /\ Ahead(Contents(toks), sep) = SubSeq(text, 1, l) \o sep
  /\ \A k \in DOMAIN toks : Lacks(Content(toks[k]), sep)

(* One more token, up to l *)
LEMMA TokenCut ==
  ASSUME NEW toks \in Seq(String \cup { NULL }),
         NEW x \in String \cup { NULL },
         NEW text \in Seq(Byte), NEW sep \in Seq(Byte), Len(sep) >= 1,
         NEW i \in Nat, NEW j \in Nat, NEW l \in Nat, i <= l, l <= Len(text),
         l - Len(sep) < j \/ l = j, Cut(toks, text, sep, i, j),
         Content(x) = SubSeq(text, i + 1, l)
  PROVE  CutUpTo(Append(toks, x), text, sep, l)
<1> DEFINE more == Append(toks, x)
           b == Contents(toks)
           t == SubSeq(text, i + 1, l)
<1>1. b \in Seq(Seq(Byte)) /\ Ahead(b, sep) = SubSeq(text, 1, i)
  BY DEF Cut
<1>2. t \in Seq(Byte) /\ Content(x) = t
  <2> DEFINE k == i + 1
  <2>1. k \in Nat /\ k > 0
    OBVIOUS
  <2> HIDE DEF k
  <2>2. SubSeq(text, k, l) \in Seq(Byte)
    BY <2>1, PartIs
  <2> QED
    BY <2>2 DEF k
<1>3. Contents(more) = Append(b, t) /\ Contents(more) \in Seq(Seq(Byte))
  BY <1>1, <1>2, ContentsMore
<1>4. SubSeq(text, 1, i) \o t = SubSeq(text, 1, l)
  BY PartsMeet
<1>5. Lacks(t, sep)
  <2>1. \A q \in i .. l - Len(sep) : SubSeq(text, q + 1, q + Len(sep)) # sep
    <3> SUFFICES ASSUME NEW q \in i .. l - Len(sep)
                 PROVE  SubSeq(text, q + 1, q + Len(sep)) # sep
      OBVIOUS
    <3>1. q \in i .. j - 1 /\ q + Len(sep) <= Len(text)
      <4>1. Len(sep) \in Nat /\ Len(text) \in Nat
        OBVIOUS
      <4> QED
        BY <4>1
    <3> QED
      BY <3>1 DEF Cut
  <2> QED
    BY <2>1, TokenLacks
<1> HIDE DEF b, t
<1>6. /\ FlattenSeq(JoinPieces(Append(b, t), sep)) = Ahead(b, sep) \o t
      /\ Ahead(Append(b, t), sep) = (Ahead(b, sep) \o t) \o sep
  <2>1. b \in Seq(Seq(Byte)) /\ t \in Seq(Byte) /\ sep \in Seq(Byte)
    BY <1>1, <1>2
  <2> QED
    BY <2>1, AheadBytes
<1>7. \A k \in DOMAIN more : Lacks(Content(more[k]), sep)
  <2>1. \A k \in DOMAIN toks : Lacks(Content(toks[k]), sep)
    BY DEF Cut
  <2>2. /\ Len(toks) \in Nat /\ DOMAIN toks = 1 .. Len(toks)
        /\ DOMAIN more = 1 .. Len(toks) + 1 /\ more[Len(toks) + 1] = x
        /\ \A k \in 1 .. Len(toks) : more[k] = toks[k]
    OBVIOUS
  <2> HIDE DEF more
  <2>3. \A k \in DOMAIN more : k \in DOMAIN toks \/ k = Len(toks) + 1
    BY <2>2
  <2> QED
    BY <1>2, <1>5, <2>1, <2>2, <2>3
<1> QED
  BY <1>1, <1>3, <1>4, <1>6, <1>7 DEF CutUpTo

LEMMA SplitCuts ==
  ASSUME HoldsTokens, CutsExactly,
         SplitBegins \/ SplitFinds \/ SplitSkips \/ SplitEnds
  PROVE  CutsExactly'
<1>1. call # NoCall /\ call.op = "sdssplitlen" /\ call \in SplitCall
  BY DEF SplitBegins, SplitFinds, SplitSkips, SplitEnds, Reading, Calling,
     HoldsTokens
<1> DEFINE text == call.text
           sep == call.sep
           m == Len(sep)
           T == String \cup { NULL }
<1>2. /\ text \in Seq(Byte) /\ Len(text) <= MaxBlock /\ Len(text) \in Nat
      /\ sep \in Seq(Byte) /\ m \in Nat
  BY <1>1, SplitCallIs
<1>3. /\ start \in Nat /\ p \in Nat /\ tokens \in Seq(T)
      /\ slots = 0 => start = 0 /\ p = 0 /\ tokens = << >>
      /\ slots > 0 => /\ m >= 1 /\ start <= p /\ p <= Len(text)
                      /\ Cut(tokens, text, sep, start, p)
  <2>1. slots = 0 => Len(tokens) = 0
    BY DEF HoldsTokens
  <2> QED
    BY <1>1, <2>1 DEF HoldsTokens, CutsExactly, Calling
<1>4. ASSUME NEW r, GiveUp(r)
      PROVE  CutsExactly'
  BY <1>4 DEF GiveUp, CutsExactly, Calling, Given
<1>5. CleanUp => CutsExactly'
  BY <1>4 DEF CleanUp
<1>6. ASSUME call' = call, Cut(tokens', text, sep, start', p')
      PROVE  CutsExactly'
  BY <1>1, <1>6 DEF CutsExactly, Calling, Given
<1>7. CASE SplitBegins
  <2>1. CASE \E r : GiveUp(r)
    BY <1>4, <2>1
  <2>2. CASE ~ \E r : GiveUp(r)
    <3>1. call' = call /\ tokens' = << >> /\ start' = 0 /\ p' = 0
      BY <1>3, <1>7, <2>2 DEF SplitBegins
    <3>2. Contents(<< >>) = << >> /\ DOMAIN << >> = {}
      BY DEF Contents
    <3>3. Ahead(<< >>, sep) = << >> /\ SubSeq(text, 1, 0) = << >>
      BY <1>2 DEF Ahead
    <3>5. << >> \in Seq(Seq(Byte)) /\ 0 .. 0 - 1 = {}
      OBVIOUS
    <3>4. Cut(<< >>, text, sep, 0, 0)
      BY <3>2, <3>3, <3>5 DEF Cut
    <3> QED
      BY <1>6, <3>1, <3>4
  <2> QED
    BY <2>1, <2>2
<1>8. CASE SplitFinds
  <2>1. slots > 0 /\ More /\ Separator
    BY <1>8 DEF SplitFinds
  <2>9. p + m <= Len(text) /\ SubSeq(text, p + 1, p + m) = sep
    <3> DEFINE l == Len(text)
    <3>1. p < l - (m - 1) /\ l \in Nat
      BY <1>2, <2>1 DEF More
    <3> HIDE DEF l, m
    <3>2. p + m <= l
      BY <1>2, <1>3, <3>1
    <3> QED
      BY <2>1, <3>2 DEF l, m, Separator
  <2>2. PICK n \in Room, token \in sdsnewlen(SubSeq(text, start + 1, p)) :
          IF NULL \in { n, token }
          THEN CleanUp
          ELSE /\ tokens' = Append(tokens, token)
               /\ start' = p + Len(sep)
               /\ p' = p + Len(sep)
               /\ UNCHANGED call
    BY <1>8 DEF SplitFinds
  <2>3. CASE n # NULL /\ token # NULL
    <3> DEFINE more == Append(tokens, token)
               i == p + m
    <3>1. token \in T /\ Content(token) = SubSeq(text, start + 1, p)
      BY <1>2, <1>3, <2>1, <2>3, TokenFits
    <3>2. /\ Contents(more) \in Seq(Seq(Byte))
          /\ Ahead(Contents(more), sep) = SubSeq(text, 1, p) \o sep
          /\ \A k \in DOMAIN more : Lacks(Content(more[k]), sep)
      <4>1. /\ p - Len(sep) < p \/ p = p
            /\ Len(sep) >= 1 /\ p \in Nat /\ start \in Nat
            /\ text \in Seq(Byte) /\ sep \in Seq(Byte)
            /\ start <= p /\ p <= Len(text)
            /\ tokens \in Seq(T) /\ token \in T
            /\ Cut(tokens, text, sep, start, p)
            /\ Content(token) = SubSeq(text, start + 1, p)
        BY <1>2, <1>3, <2>1, <3>1
      <4> HIDE DEF text, sep, m
      <4>2. CutUpTo(Append(tokens, token), text, sep, p)
        BY <4>1, TokenCut
      <4> QED
        BY <4>2 DEF CutUpTo
    <3>3. SubSeq(text, 1, p) \o SubSeq(text, p + 1, i) = SubSeq(text, 1, i)
      <4>1. i \in Nat /\ p <= i /\ i <= Len(text)
        BY <1>2, <1>3, <2>9
      <4> HIDE DEF i
      <4> QED
        BY <1>2, <1>3, <4>1, PartsMeet
    <3>4. tokens' = more /\ start' = i /\ p' = i /\ call' = call
      BY <2>2, <2>3
    <3>5. i \in Nat
      BY <1>2, <1>3
    <3>6. Ahead(Contents(more), sep) = SubSeq(text, 1, i)
      BY <2>9, <3>2, <3>3
    <3> HIDE DEF more, i
    <3>7. i .. i - 1 = {}
      BY <3>5
    <3>8. Cut(more, text, sep, i, i)
      BY <3>2, <3>6, <3>7 DEF Cut
    <3> QED
      BY <1>6, <3>4, <3>8
  <2>4. CASE ~ (n # NULL /\ token # NULL)
    BY <1>5, <2>2, <2>4
  <2> QED
    BY <2>3, <2>4
<1>9. CASE SplitSkips
  <2>1. slots > 0 /\ ~ Separator
    BY <1>9 DEF SplitSkips
  <2>2. PICK n \in Room :
          IF n = NULL
          THEN CleanUp
          ELSE p' = p + 1 /\ UNCHANGED << call, tokens, start >>
    BY <1>9 DEF SplitSkips
  <2>3. CASE n # NULL
    <3>1. Cut(tokens, text, sep, start, p)
      BY <1>3, <2>1
    <3>2. SubSeq(text, p + 1, p + Len(sep)) # sep
      BY <2>1 DEF Separator
    <3>3. \A q \in start .. (p + 1) - 1 : q \in start .. p - 1 \/ q = p
      BY <1>3
    <3>4. Cut(tokens, text, sep, start, p + 1)
      BY <3>1, <3>2, <3>3 DEF Cut
    <3> QED
      BY <1>6, <2>2, <2>3, <3>4
  <2>4. CASE n = NULL
    BY <1>5, <2>2, <2>4
  <2> QED
    BY <2>3, <2>4
<1>10. CASE SplitEnds
  <2>1. slots > 0 /\ ~ More
    BY <1>10 DEF SplitEnds
  <2> DEFINE l == Len(text)
  <2>9. l - m < p
    <3>1. ~ (p < l - (m - 1)) /\ l \in Nat
      BY <1>2, <2>1 DEF More
    <3> HIDE DEF l, m
    <3> QED
      BY <1>2, <1>3, <3>1
  <2>2. PICK token \in sdsnewlen(SubSeq(text, start + 1, l)) :
          IF token = NULL
          THEN CleanUp
          ELSE Give(Append(tokens, token), slots)
    BY <1>10 DEF SplitEnds
  <2>3. CASE token # NULL
    <3> DEFINE more == Append(tokens, token)
    <3>2. /\ start <= l /\ l <= Len(text) /\ l \in Nat
          /\ text \in Seq(Byte) /\ Len(text) <= MaxBlock /\ start \in Nat
          /\ token \in sdsnewlen(SubSeq(text, start + 1, l))
      BY <1>2, <1>3, <2>1
    <3>1. token \in T /\ Content(token) = SubSeq(text, start + 1, l)
      <4> HIDE DEF text, l
      <4> QED
        BY <2>3, <3>2, TokenFits
    <3>3. /\ FlattenSeq(JoinPieces(Contents(more), sep)) = SubSeq(text, 1, l)
          /\ \A k \in DOMAIN more : Lacks(Content(more[k]), sep)
      <4>1. /\ l - Len(sep) < p \/ l = p
            /\ Len(sep) >= 1 /\ p \in Nat /\ start \in Nat
            /\ text \in Seq(Byte) /\ sep \in Seq(Byte)
            /\ tokens \in Seq(T) /\ token \in T
            /\ Cut(tokens, text, sep, start, p)
        BY <1>2, <1>3, <2>1, <2>9, <3>1
      <4> HIDE DEF text, sep, l
      <4>2. CutUpTo(Append(tokens, token), text, sep, l)
        BY <3>1, <3>2, <4>1, TokenCut
      <4> QED
        BY <4>2 DEF CutUpTo
    <3>4. SubSeq(text, 1, l) = text
      BY <1>2
    <3>5. Exact(more, text, sep)
      BY <3>3, <3>4 DEF Exact
    <3>6. /\ call' = [op |-> "sdsfreesplitres", of |-> call]
          /\ tokens' = more
      BY <2>2, <2>3 DEF Give
    <3>7. call'.op = "sdsfreesplitres" /\ call'.of = call
      BY <3>6
    <3> QED
      BY <3>5, <3>6, <3>7 DEF CutsExactly, Calling, Given
  <2>4. CASE token = NULL
    BY <1>5, <2>2, <2>4
  <2> QED
    BY <2>3, <2>4
<1> QED
  BY <1>7, <1>8, <1>9, <1>10

LEMMA CutsHold ==
  ASSUME HoldsTokens, CutsExactly, [Next]_vars
  PROVE  CutsExactly'
<1>1. ASSUME call' = NoCall \/ call'.op \notin Cutting
      PROVE  CutsExactly'
  BY <1>1 DEF CutsExactly, Calling, Given, Cutting
<1>2. CASE UNCHANGED vars
  BY <1>2 DEF vars, stringVars, tokenVars, CutsExactly, Calling, Given,
     Contents, Cut, Exact
<1>3. CASE StringNext
  BY <1>1, <1>3, StringNextNotCutting DEF NotCutting
<1>4. CASE CallSplit
  <2>1. call = NoCall /\ slots' = slots /\ call' \in SplitCall
    BY <1>4 DEF CallSplit, Begin, tokenVars
  <2>2. slots' = 0
    BY <2>1 DEF HoldsTokens
  <2>3. call'.op = "sdssplitlen"
    BY <2>1, SplitCallIs
  <2> QED
    BY <2>2, <2>3 DEF CutsExactly, Calling, Given
<1>5. CASE CallSplitArgs
  <2>1. call' \in ArgsCall
    BY <1>5 DEF CallSplitArgs, Begin
  <2>2. call'.op = "sdssplitargs"
    BY <2>1, ArgsCallIs
  <2> QED
    BY <2>2 DEF CutsExactly, Calling, Given
<1>6. CASE SplitBegins \/ SplitFinds \/ SplitSkips \/ SplitEnds
  BY <1>6, SplitCuts
<1>7. CASE \/ ArgsSkip \/ ArgsBegin \/ ArgsByte \/ ArgsQuote \/ ArgsDone
           \/ ArgsErr \/ ArgsReturn
  <2>1. call # NoCall /\ call.op = "sdssplitargs"
    BY <1>7 DEF ArgsSkip, ArgsBegin, ArgsByte, ArgsQuote, ArgsDone, ArgsErr,
       ArgsReturn, Blank, InToken, Reading, Calling
  <2>2. \/ call' = NoCall \/ call' = call
        \/ call' = [op |-> "sdsfreesplitres", of |-> call]
    BY <1>7 DEF ArgsSkip, ArgsBegin, ArgsByte, ArgsQuote, ArgsDone, ArgsErr,
       ArgsReturn, GiveUp, Give, CleanUp, Die
  <2>3. CASE call' = NoCall
    BY <1>1, <2>3
  <2>4. CASE call' = call
    BY <2>1, <2>4 DEF CutsExactly, Calling, Given
  <2>5. CASE call' = [op |-> "sdsfreesplitres", of |-> call]
    <3>1. call'.op = "sdsfreesplitres" /\ call'.of = call
      BY <2>5
    <3> QED
      BY <2>1, <3>1 DEF CutsExactly, Calling, Given
  <2> QED
    BY <2>2, <2>3, <2>4, <2>5
<1>8. CASE FreeSplitRes
  BY <1>1, <1>8 DEF FreeSplitRes, GiveUp
<1> QED
  BY <1>2, <1>3, <1>4, <1>5, <1>6, <1>7, <1>8 DEF Next, Splitting

(* The tokens of sdssplitlen(), joined at the separator, are the text, and *)
(* none of them holds the separator, for every text and every separator    *)
(* (sds.c 835-873, 1120-1129).                                             *)
THEOREM SplitIsAlwaysExact == Spec => []SplitIsExact
<1>1. Init => CutsExactly
  BY DEF Init, StringInit, CutsExactly, Calling, Given
<1>2. IInv /\ CutsExactly /\ [Next]_vars => CutsExactly'
  BY CutsHold DEF IInv
<1>3. CutsExactly => SplitIsExact
  <2> SUFFICES ASSUME CutsExactly, Given("sdssplitlen")
               PROVE  LET sep == call.of.sep
                          toks == Contents(tokens)
                      IN  /\ FlattenSeq(JoinPieces(toks, sep)) = call.of.text
                          /\ \A k \in DOMAIN toks :
                               \A i \in 0 .. Len(toks[k]) - Len(sep) :
                                 SubSeq(toks[k], i + 1, i + Len(sep)) # sep
    BY DEF SplitIsExact
  <2>1. Exact(tokens, call.of.text, call.of.sep)
    BY DEF CutsExactly
  <2>2. /\ DOMAIN Contents(tokens) = DOMAIN tokens
        /\ \A k \in DOMAIN tokens : Contents(tokens)[k] = Content(tokens[k])
    BY DEF Contents
  <2> QED
    BY <2>1, <2>2 DEF Exact, Lacks
<1> QED
  BY <1>1, <1>2, <1>3, Invariance, PTL DEF Spec

=============================================================================
