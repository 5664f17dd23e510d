--------------------------------- MODULE Sds ---------------------------------
(***************************************************************************)
(* commons/src/sds: dynamic strings.  An sds is a pointer behind a header  *)
(* whose width depends on the length of the string; calls that grow or     *)
(* shrink a string may have to change the header, and with it the place    *)
(* and the meaning of everything before the bytes.                         *)
(*                                                                         *)
(* This module defines the header and the calls; SdsApi makes them.  A     *)
(* string is a record of the fields of its header, the size of its block,  *)
(* and the bytes from s[0] on that have been stored and still count.       *)
(***************************************************************************)
EXTENDS Integers, Sequences, SequencesExt

CONSTANTS
  LastType,          \* the widest header: SDS_TYPE_64 is 4
  TypeLimit,         \* for each type the first length it cannot hold: 2^5,
                     \* 2^8, 2^16, 2^32, 2^64 in the code
  HdrSize,           \* for each type the size of its header
  SIZE_MAX,          \* the largest size_t
  SDS_MAX_PREALLOC,
  LLONG_MAX,
  MaxBlock,          \* bound: the largest block malloc() ever returns; an
                     \* address space is much smaller than SIZE_MAX
  NULL,              \* what a call returns when there is no memory
  ABORT, SIGSEGV     \* what the process may die of in a call

SDS_TYPE_5 == 0
SDS_TYPE_8 == 1

Type == 0 .. LastType

Byte == 0 .. 255

String == [type : Type, len : Nat, alloc : Nat, size : Nat, buf : Seq(Byte)]

ASSUME SdsAssumption ==
  /\ LastType \in Nat \ {0}
  /\ TypeLimit \in [Type -> Nat \ {0}]
  /\ \A t \in Type \ {0} : TypeLimit[t - 1] < TypeLimit[t]
  /\ SIZE_MAX \in Nat
  /\ HdrSize \in [Type -> Nat]
  /\ TypeLimit[LastType] = SIZE_MAX + 1
  /\ SDS_MAX_PREALLOC \in Nat
  /\ LLONG_MAX \in Nat
  /\ MaxBlock \in Nat /\ MaxBlock >= 4
  /\ \A t \in Type : 2 * MaxBlock + HdrSize[t] < SIZE_MAX
  /\ { NULL, ABORT, SIGSEGV } \cap String = {}

NUL == 0

Wrap(n) == n % (SIZE_MAX + 1)

-----------------------------------------------------------------------------
(* The header *)

sdsReqType(string_size) ==
  CHOOSE t \in Type :
    /\ string_size < TypeLimit[t]
    /\ \A u \in Type : string_size < TypeLimit[u] => t <= u

sdslen(str) == str.len

sdsalloc(str) == IF str.type = SDS_TYPE_5 THEN str.len ELSE str.alloc

sdsavail(str) ==
  IF str.type = SDS_TYPE_5 THEN 0 ELSE Wrap(str.alloc - str.len)

(* What does not fit into the field is cut off. *)
sdssetlen(str, newlen) ==
  [str EXCEPT !.len = newlen % TypeLimit[str.type]]

sdsinclen(str, inc) == sdssetlen(str, str.len + inc)

sdssetalloc(str, newlen) ==
  IF str.type = SDS_TYPE_5
  THEN str
  ELSE [str EXCEPT !.alloc = newlen % TypeLimit[str.type]]

(* The bytes of the string, without the terminator. *)
Content(str) == SubSeq(str.buf, 1, str.len)

(* Stores bytes from s[0] on, the terminator behind them, and the length.  *)
Store(str, bytes) ==
  sdssetlen([str EXCEPT !.buf = Append(bytes, NUL)], Len(bytes))

-----------------------------------------------------------------------------
(* The calls.  Each is the set of what it may return: a string, NULL, or   *)
(* the signal it dies of.                                                  *)

Failed == { NULL, ABORT, SIGSEGV }

(* malloc() or realloc() of size bytes for what is then str *)
Allocate(size, str) == { NULL } \cup (IF size <= MaxBlock THEN { str } ELSE {})

(* A new header of another type, with the string behind it. *)
Moved(str, type, size) ==
  sdssetlen([type |-> type, len |-> 0, alloc |-> 0, size |-> size,
             buf |-> SubSeq(str.buf, 1, IF str.len < Len(str.buf)
                                        THEN str.len + 1 ELSE Len(str.buf))],
            str.len)

sdsnewlen(init) ==
  LET type == IF init = << >> THEN SDS_TYPE_8 ELSE sdsReqType(Len(init))
      size == HdrSize[type] + Len(init) + 1
      new == [type |-> type, len |-> 0, alloc |-> 0, size |-> size,
              buf |-> << >>]
  IN  Allocate(size, Store(sdssetalloc(new, Len(init)), init))

(* The room is doubled, or SDS_MAX_PREALLOC is added, so that the next     *)
(* calls find some.                                                        *)
sdsMakeRoomFor(str, addlen) ==
  LET reqlen == Wrap(str.len + addlen)
      newlen == Wrap(IF reqlen < SDS_MAX_PREALLOC
                     THEN reqlen * 2 ELSE reqlen + SDS_MAX_PREALLOC)
      type == IF sdsReqType(newlen) = SDS_TYPE_5
              THEN SDS_TYPE_8 ELSE sdsReqType(newlen)
      size == Wrap(HdrSize[type] + newlen + 1)
      new == IF str.type = type THEN [str EXCEPT !.size = size]
             ELSE Moved(str, type, size)
  IN  IF sdsavail(str) >= addlen THEN { str }
      ELSE IF size <= reqlen THEN { ABORT }  \* "Catch size_t overflow"
      ELSE Allocate(size, sdssetalloc(new, newlen))

(* Faulty variant: the header still claims the free space. *)
sdsRemoveFreeSpace_KeepsAlloc(str) ==
  LET size == HdrSize[str.type] + str.len + 1
  IN  IF sdsavail(str) = 0 THEN { str }
      ELSE Allocate(size, [str EXCEPT !.size = size])

sdsRemoveFreeSpace(str) ==
  LET type == sdsReqType(str.len)
      keeps == str.type = type \/ type > SDS_TYPE_8
      size == HdrSize[IF keeps THEN str.type ELSE type] + str.len + 1
      new == IF keeps THEN [str EXCEPT !.size = size]
             ELSE Moved(str, type, size)
  IN  IF sdsavail(str) = 0 THEN { str }
      ELSE Allocate(size, sdssetalloc(new, str.len))

(* The assertions of sdsIncrLen() *)
MayIncr(str, incr) ==
  IF str.type = SDS_TYPE_5
  THEN \/ incr > 0 /\ str.len + incr < TypeLimit[SDS_TYPE_5]
       \/ incr < 0 /\ str.len >= -incr
  ELSE \/ incr >= 0 /\ sdsavail(str) >= incr
       \/ incr < 0 /\ str.len >= -incr

(* stored: the bytes the caller has stored behind the end. *)
sdsIncrLen(str, incr, stored) ==
  LET new == sdsinclen(str, incr)
      bytes == Content(str) \o stored
  IN  IF MayIncr(str, incr)
      THEN { [new EXCEPT !.buf = Append(SubSeq(bytes, 1, new.len), NUL)] }
      ELSE { ABORT }

sdscatlen(str, t) ==
  { IF r \in Failed THEN r ELSE Store(r, SubSeq(r.buf, 1, str.len) \o t) :
      r \in sdsMakeRoomFor(str, Len(t)) }

sdsgrowzero(str, len) ==
  IF len <= str.len THEN { str }
  ELSE { IF r \in Failed THEN r
         ELSE Store(r, SubSeq(r.buf, 1, str.len)
                         \o [k \in 1 .. len - str.len |-> NUL]) :
           r \in sdsMakeRoomFor(str, len - str.len) }

sdscpylen(str, t) ==
  { IF r \in Failed THEN r ELSE Store(r, t) :
      r \in IF sdsalloc(str) < Len(t)
            THEN sdsMakeRoomFor(str, Len(t) - str.len) ELSE { str } }

sdsclear(str) == { Store(str, << >>) }

(* The caller has stored a NUL at position k. *)
sdsupdatelen(str, k) ==
  LET hacked == [str.buf EXCEPT ![k] = NUL]
      reallen == SelectInSeq(hacked, LAMBDA b : b = NUL) - 1
  IN  { Store(str, SubSeq(hacked, 1, reallen)) }

(* strchr() finds the terminator of cset, too: a NUL is always removed.    *)
sdstrim(str, cset) ==
  LET keep == { k \in 1 .. str.len : str.buf[k] \notin cset \cup {NUL} }
      sp == IF keep = {} THEN str.len + 1
            ELSE CHOOSE k \in keep : \A l \in keep : k <= l
      ep == IF keep = {} THEN str.len
            ELSE CHOOSE k \in keep : \A l \in keep : k >= l
  IN  { Store(str, SubSeq(str.buf, sp, ep)) }

sdsrange(str, first, last) ==
  LET len == str.len
      NotNegative(n) == IF n < 0 THEN 0 ELSE n
      start == IF first < 0 THEN NotNegative(len + first) ELSE first
      end == IF last < 0 THEN NotNegative(len + last) ELSE last
      newlen == IF start > end \/ start >= len THEN 0
                ELSE IF end >= len THEN len - start
                ELSE end - start + 1
  IN  IF len = 0 THEN { str }
      ELSE { Store(str, SubSeq(str.buf, start + 1, start + newlen)) }

InPlace(str, F(_)) ==
  { [str EXCEPT !.buf = [k \in DOMAIN @ |->
                           IF k <= str.len THEN F(@[k]) ELSE @[k]]] }

tolower(b) == IF b \in 65 .. 90 THEN b + 32 ELSE b
toupper(b) == IF b \in 97 .. 122 THEN b - 32 ELSE b

sdstolower(str) == InPlace(str, tolower)
sdstoupper(str) == InPlace(str, toupper)

(* The first entry of from that is the byte counts. *)
sdsmapchars(str, from, to) ==
  LET Mapped(b) == LET i == SelectInSeq(from, LAMBDA c : c = b)
                   IN  IF i = 0 THEN b ELSE to[i]
  IN  InPlace(str, Mapped)

(* Room for what comes next in a format: for one byte in any case, and for *)
(* the text of a conversion.                                               *)
FormatRoom(str, item, text) ==
  LET Conversion(r) == item.kind \in { "%s", "%i", "%u" } /\ r \notin Failed
                         /\ sdsavail(r) < Len(text)
  IN  UNION { IF Conversion(r) THEN sdsMakeRoomFor(r, Len(text)) ELSE { r } :
                r \in IF sdsavail(str) = 0 THEN sdsMakeRoomFor(str, 1)
                      ELSE { str } }

(* The decimal digits of v, the last one first. *)
Digits[v \in Nat] ==
  << 48 + (v % 10) >> \o (IF v \div 10 = 0 THEN << >> ELSE Digits[v \div 10])

sdsull2str(v) == Reverse(Digits[v])


(* The smallest number has no counterpart. *)
sdsll2str(value) ==
  LET v == IF value >= 0 THEN value
           ELSE IF value # -LLONG_MAX - 1 THEN -value
           ELSE LLONG_MAX + 1
  IN  Reverse(Digits[v] \o (IF value < 0 THEN << 45 >> ELSE << >>))

(* What an item of a format of sdscatfmt() stands for: a byte ("c"), an    *)
(* escaped one ("%%"), a string, a number, or nothing ("end", a % behind   *)
(* which the format ends). *)
FormatText(item) ==
  CASE item.kind = "%i" -> sdsll2str(item.num)
    [] item.kind = "%u" -> sdsull2str(item.num)
    [] OTHER -> item.text

(* The characters after which sdscatrepr() names a byte *)
EscapeLetter ==
  << 97, 98, 116, 110, 0, 0, 114 >>  \* \a \b \t \n . . \r, from 7 on

HexDigit(d) == IF d < 10 THEN 48 + d ELSE 87 + d

isprint(b) == b \in 32 .. 126

(* What sdscatrepr() appends for a byte *)
Escape(b) ==
  IF b \in { 34, 92 } THEN << 92, b >>
  ELSE IF b \in { 7, 8, 9, 10, 13 } THEN << 92, EscapeLetter[b - 6] >>
  ELSE IF isprint(b) THEN << b >>
  ELSE << 92, 120, HexDigit(b \div 16), HexDigit(b % 16) >>

(* What sdscatrepr(sdsempty(), t) and sdsjoinsds(argv, sep) append, one    *)
(* after the other *)
ReprPieces(t) ==
  << << 34 >> >> \o [k \in 1 .. Len(t) |-> Escape(t[k])] \o << << 34 >> >>

JoinPieces(argv, sep) ==
  [k \in 1 .. 2 * Len(argv) - 1 |->
     IF k % 2 = 1 THEN argv[k \div 2 + 1] ELSE sep]

(* One round of the loop of sdscatfmt(); the terminator comes last, and a  *)
(* NULL is used like a string.                                             *)
FormatItem(str, item) ==
  LET text == FormatText(item) IN
  { IF r = NULL THEN SIGSEGV
    ELSE IF r \in Failed THEN r
    ELSE [sdsinclen(r, Len(text)) EXCEPT !.buf = Content(r) \o text] :
      r \in FormatRoom(str, item, text) }

=============================================================================
