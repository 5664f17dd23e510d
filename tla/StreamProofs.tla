---------------------------- MODULE StreamProofs ----------------------------
(***************************************************************************)
(* What ReadBuffer guarantees for every size_t, every byte alphabet and    *)
(* every sequence of calls; LineStream, which is built on it, for every    *)
(* file and every way it is read; and LineSearch, which takes its lines    *)
(* from that: it finds what a search of the whole file would.              *)
(***************************************************************************)
EXTENDS LineSearch, TLAPS, NaturalsInduction, WellFoundedInduction,
        SequenceTheorems, FiniteSetTheorems

(* A NULL buffer holds nothing; a block is NULL exactly at capacity zero.  *)
NoBlock ==
  ~ exists => capacity = 0 /\ length = 0 /\ offset = 0

(* The inductive invariant.  InBounds needs the types; ViewIsWritten needs *)
(* InBounds, for the view to lie inside the memory; NoLeak needs NoBlock,   *)
(* for readbuffer__init() to start from an empty heap.                     *)
IInv == TypeOK /\ InBounds /\ ViewIsWritten /\ NoLeak /\ NoBlock

-----------------------------------------------------------------------------
(* Any numbers there are have a least one among them. *)
LEMMA Least ==
  ASSUME NEW S \in SUBSET Nat, S # {}
  PROVE  \E x \in S : \A y \in S : x <= y
<1>1. IsWellFoundedOn(OpToRel(<, Nat), Nat)
  BY NatLessThanWellFounded
<1>2. PICK x \in S : \A y \in S : << y, x >> \notin OpToRel(<, Nat)
  BY <1>1, WFMin
<1>3. \A y \in S : ~ (y < x)
  BY <1>2 DEF OpToRel
<1> QED
  BY <1>3

(* No subtraction of the code wraps as long as it is not negative. *)
LEMMA MinusIsDifference ==
  ASSUME NEW a \in Int, NEW b \in Int, b <= a
  PROVE  Minus(a, b) = a - b
BY DEF Minus

(* A memory is NULL exactly when it has no cell. *)
LEMMA NullMemory ==
  ASSUME NEW n \in Nat, NEW m \in [0 .. (n - 1) -> Byte \cup {Junk}]
  PROVE  m = NULL <=> n = 0
<1>1. CASE n = 0
  <2>1. 0 .. (n - 1) = {}
    BY <1>1
  <2> QED
    BY <1>1, <2>1 DEF NULL
<1>2. CASE n # 0
  <2>1. 0 \in 0 .. (n - 1)
    BY <1>2
  <2>2. DOMAIN m # {}
    BY <2>1
  <2>3. DOMAIN NULL = {}
    BY DEF NULL
  <2> QED
    BY <1>2, <2>2, <2>3
<1> QED
  BY <1>1, <1>2

(* The function of doublings is there, and has numbers for its values. *)
LEMMA DoubledIs ==
  /\ Doubled = [k \in 0 .. SIZE_MAX |->
                  IF k = 0 THEN 1 ELSE 2 * Doubled[k - 1]]
  /\ \A k \in 0 .. SIZE_MAX : Doubled[k] \in Nat \ {0}
<1> DEFINE Good(n) ==
      \E g : g = [k \in 0 .. n |-> IF k = 0 THEN 1 ELSE 2 * g[k - 1]]
           Bad == { n \in 0 .. SIZE_MAX : ~ Good(n) }
<1>0. SIZE_MAX \in Nat
  BY ConstantsAssumption
<1>1. Good(0)
  <2> DEFINE g == [k \in 0 .. 0 |-> 1]
  <2>1. g = [k \in 0 .. 0 |-> IF k = 0 THEN 1 ELSE 2 * g[k - 1]]
    OBVIOUS
  <2> QED
    BY <2>1
<1>2. ASSUME NEW n \in 1 .. SIZE_MAX, Good(n - 1) PROVE Good(n)
  <2>1. PICK g : g = [k \in 0 .. n - 1 |->
                        IF k = 0 THEN 1 ELSE 2 * g[k - 1]]
    BY <1>2
  <2> DEFINE h == [k \in 0 .. n |-> IF k = 0 THEN 1 ELSE 2 * g[k - 1]]
  <2>2. ASSUME NEW k \in 0 .. n
        PROVE  (IF k = 0 THEN 1 ELSE 2 * g[k - 1])
                 = (IF k = 0 THEN 1 ELSE 2 * h[k - 1])
    <3>1. CASE k = 0
      BY <3>1
    <3>2. CASE k # 0
      <4>1. k - 1 \in 0 .. n - 1 /\ k - 1 \in 0 .. n
        BY <1>0, <3>2
      <4>2. h[k - 1] = g[k - 1]
        BY <2>1, <4>1
      <4> QED
        BY <3>2, <4>2
    <3> QED
      BY <3>1, <3>2
  <2>3. h = [k \in 0 .. n |-> IF k = 0 THEN 1 ELSE 2 * h[k - 1]]
    <3>1. h = [k \in 0 .. n |-> IF k = 0 THEN 1 ELSE 2 * g[k - 1]]
      OBVIOUS
    <3> HIDE DEF h
    <3> QED
      BY <2>2, <3>1
  <2> HIDE DEF h
  <2> QED
    BY <2>3
<1> HIDE DEF Good
<1>3. Bad = {}
  <2> SUFFICES ASSUME Bad # {} PROVE FALSE
    OBVIOUS
  <2>1. PICK n \in Bad : \A m \in Bad : n <= m
    <3>1. Bad \in SUBSET Nat
      BY <1>0
    <3> QED
      BY <3>1, Least
  <2>2. n # 0 /\ n \in 1 .. SIZE_MAX /\ ~ Good(n)
    BY <1>0, <1>1, <2>1
  <2>3. n - 1 \in 0 .. SIZE_MAX /\ n - 1 \notin Bad
    BY <1>0, <2>1, <2>2
  <2> QED
    BY <1>2, <2>2, <2>3
<1>4. Good(SIZE_MAX)
  BY <1>0, <1>3
<1>5. Doubled = [k \in 0 .. SIZE_MAX |->
                  IF k = 0 THEN 1 ELSE 2 * Doubled[k - 1]]
  BY <1>4 DEF Good, Doubled
<1>6. \A k \in 0 .. SIZE_MAX :
        Doubled[k] = IF k = 0 THEN 1 ELSE 2 * Doubled[k - 1]
  BY <1>5
<1> DEFINE None == { k \in 0 .. SIZE_MAX : Doubled[k] \notin Nat \ {0} }
<1>7. None = {}
  <2> SUFFICES ASSUME None # {} PROVE FALSE
    OBVIOUS
  <2>1. PICK n \in None : \A m \in None : n <= m
    <3>1. None \in SUBSET Nat
      BY <1>0
    <3> QED
      BY <3>1, Least
  <2>2. n # 0 /\ Doubled[n] = 2 * Doubled[n - 1]
    BY <1>0, <1>6, <2>1
  <2>3. n - 1 \in 0 .. SIZE_MAX /\ n - 1 \notin None
    BY <1>0, <2>1, <2>2
  <2>4. Doubled[n - 1] \in Nat \ {0}
    BY <2>3
  <2> QED
    BY <2>1, <2>2, <2>4
<1> QED
  BY <1>5, <1>7

LEMMA HalfIsPower ==
  ASSUME NEW c \in PowersOfTwo, c # 1
  PROVE  \E d \in PowersOfTwo : c = 2 * d
<1>0. SIZE_MAX \in Nat
  BY ConstantsAssumption
<1>1. PICK k \in 0 .. SIZE_MAX : c = Doubled[k] /\ c \in 1 .. SIZE_MAX
  BY DEF PowersOfTwo
<1>2. \A j \in 0 .. SIZE_MAX :
        /\ Doubled[j] = IF j = 0 THEN 1 ELSE 2 * Doubled[j - 1]
        /\ Doubled[j] \in Nat \ {0}
  BY DoubledIs
<1>3. k # 0 /\ k - 1 \in 0 .. SIZE_MAX
  BY <1>0, <1>1, <1>2
<1>4. c = 2 * Doubled[k - 1] /\ Doubled[k - 1] \in Nat \ {0}
  BY <1>1, <1>2, <1>3
<1>5. Doubled[k - 1] \in 1 .. SIZE_MAX
  BY <1>0, <1>1, <1>4
<1> QED
  BY <1>3, <1>4, <1>5 DEF PowersOfTwo

(* The power found is less than twice the value asked for. *)
LEMMA NextPowerIsClose ==
  ASSUME NEW value \in Nat \ {0}, NEW c \in PowersOfTwo,
         next_power_of_two(value, c)
  PROVE  c < 2 * value
<1>1. CASE c = 1
  BY <1>1
<1>2. CASE c # 1
  <2>1. PICK d \in PowersOfTwo : c = 2 * d
    BY <1>2, HalfIsPower
  <2>2. d \in Nat /\ 1 <= d
    BY ConstantsAssumption DEF PowersOfTwo
  <2>3. d < c
    BY <2>1, <2>2
  <2>4. d < value
    BY <2>3 DEF next_power_of_two
  <2> QED
    BY <2>1, <2>2, <2>4
<1> QED
  BY <1>1, <1>2

(* A power of two is a size_t, and at least one. *)
LEMMA PowerIsSize ==
  ASSUME NEW c \in PowersOfTwo
  PROVE  c \in Nat /\ 1 <= c /\ c <= SIZE_MAX
BY ConstantsAssumption DEF PowersOfTwo

-----------------------------------------------------------------------------
LEMMA InitInv == Init => IInv
<1> SUFFICES ASSUME Init PROVE IInv
  OBVIOUS
<1>1. data \in [0 .. (capacity - 1) -> Byte \cup {Junk}]
  <2>1. 0 .. (capacity - 1) = {}
    BY DEF Init
  <2> QED
    BY <2>1 DEF Init, NULL
<1>2. TypeOK
  <2>1. exists \in BOOLEAN /\ result \in ErrorCode
    BY DEF Init, ErrorCode
  <2>2. capacity = 0 /\ length = 0 /\ offset = 0 /\ heap = 0
    BY DEF Init
  <2>3. /\ capacity \in 0 .. SIZE_MAX /\ length \in 0 .. SIZE_MAX
        /\ offset \in 0 .. SIZE_MAX /\ heap \in 0 .. 2
    BY <2>2, ConstantsAssumption
  <2> QED
    BY <1>1, <2>1, <2>3 DEF TypeOK
<1>3. InBounds /\ NoLeak /\ NoBlock
  BY DEF Init, InBounds, NoLeak, NoBlock
<1>4. ViewIsWritten
  BY DEF Init, ViewIsWritten
<1> QED
  BY <1>2, <1>3, <1>4 DEF IInv

(* A call that leaves the memory alone preserves the invariant. *)
LEMMA SameMemory ==
  ASSUME IInv, UNCHANGED Memory, result' \in ErrorCode
  PROVE  IInv'
BY DEF IInv, Memory, TypeOK, InBounds, ViewIsWritten, NoLeak, NoBlock,
       readbuffer__get_read_view

LEMMA CreateInv ==
  ASSUME IInv, NEW init_capacity \in 0 .. SIZE_MAX,
         readbuffer__init(init_capacity)
  PROVE  IInv'
<1> init_capacity \in Nat /\ init_capacity <= SIZE_MAX
  BY ConstantsAssumption
<1>1. data' \in [0 .. (capacity' - 1) -> Byte \cup {Junk}]
  BY DEF readbuffer__init
<1>2. data' = NULL <=> init_capacity = 0
  BY <1>1, NullMemory DEF readbuffer__init
<1>3. TypeOK'
  BY <1>1, ConstantsAssumption DEF TypeOK, ErrorCode, readbuffer__init
<1>4. InBounds' /\ NoBlock'
  BY DEF InBounds, NoBlock, readbuffer__init
<1>5. ViewIsWritten'
  BY DEF ViewIsWritten, readbuffer__init
<1>6. NoLeak'
  BY <1>2 DEF NoLeak, readbuffer__init
<1> QED
  BY <1>3, <1>4, <1>5, <1>6 DEF IInv

LEMMA DestroyInv ==
  ASSUME IInv, readbuffer__destroy
  PROVE  IInv'
<1>1. data' \in [0 .. (capacity' - 1) -> Byte \cup {Junk}]
  <2>1. 0 .. (capacity' - 1) = {}
    BY DEF readbuffer__destroy
  <2> QED
    BY <2>1 DEF readbuffer__destroy, NULL
<1>2. heap' = 0 /\ data' = NULL /\ ~ exists'
  BY DEF IInv, NoLeak, readbuffer__destroy
<1>3. capacity' = 0 /\ length' = 0 /\ offset' = 0
  BY DEF readbuffer__destroy
<1>4. exists' \in BOOLEAN /\ result' \in ErrorCode
  BY DEF readbuffer__destroy, ErrorCode
<1>5. /\ capacity' \in 0 .. SIZE_MAX /\ length' \in 0 .. SIZE_MAX
      /\ offset' \in 0 .. SIZE_MAX /\ heap' \in 0 .. 2
  BY <1>2, <1>3, ConstantsAssumption
<1>6. TypeOK'
  BY <1>1, <1>4, <1>5 DEF TypeOK
<1>7. InBounds' /\ NoBlock' /\ NoLeak'
  BY <1>2, <1>3 DEF InBounds, NoBlock, NoLeak
<1>8. ViewIsWritten'
  BY <1>3 DEF ViewIsWritten
<1> QED
  BY <1>6, <1>7, <1>8 DEF IInv

(* memmove() reads inside the block and shifts the view to its start. *)
LEMMA CompactInv ==
  ASSUME IInv, NEW n \in 0 .. SIZE_MAX, exists, AssureCompacts(n)
  PROVE  /\ IInv'
         /\ readbuffer__get_read_view' = readbuffer__get_read_view
<1> DEFINE T == Byte \cup {Junk}
<1>1. data \in [0 .. (capacity - 1) -> T] /\ capacity \in Nat
      /\ length \in Nat /\ offset \in Nat /\ offset + length <= capacity
  BY ConstantsAssumption DEF IInv, TypeOK, InBounds
<1>2. data' = [i \in 0 .. (capacity - 1) |->
                 IF i < length THEN data[offset + i] ELSE data[i]]
  BY <1>1 DEF AssureCompacts
<1>3. \A i \in 0 .. (capacity - 1) : i < length =>
         offset + i \in 0 .. (capacity - 1)
  BY <1>1
<1>4. data' \in [0 .. (capacity - 1) -> T]
  BY <1>1, <1>2, <1>3
<1>5. length' = length /\ offset' = 0 /\ capacity' = capacity
      /\ exists' = exists /\ heap' = heap /\ result' = "NONE"
  BY DEF AssureCompacts
<1>6. \A i \in 1 .. length :
         data'[offset' + i - 1] = data[offset + i - 1]
  BY <1>1, <1>2, <1>5
<1>7. readbuffer__get_read_view' = readbuffer__get_read_view
  BY <1>5, <1>6 DEF readbuffer__get_read_view
<1>8. data' = NULL <=> data = NULL
  BY <1>1, <1>4, NullMemory
<1> QED
  BY <1>1, <1>4, <1>5, <1>7, <1>8, ConstantsAssumption
     DEF IInv, TypeOK, InBounds, ViewIsWritten, NoLeak, NoBlock, ErrorCode

(* The new block is large enough for the view and the request. *)
LEMMA GrowInv ==
  ASSUME IInv, NEW n \in 0 .. SIZE_MAX, exists, AssureGrows(n)
  PROVE  /\ IInv'
         /\ readbuffer__get_read_view' = readbuffer__get_read_view
         /\ n <= (capacity' - (offset' + length'))
<1> DEFINE T == Byte \cup {Junk}
<1>0. n \in Nat
  BY ConstantsAssumption
<1>1. data \in [0 .. (capacity - 1) -> T] /\ capacity \in Nat
      /\ length \in Nat /\ offset \in Nat /\ offset + length <= capacity
      /\ length <= SIZE_MAX
  BY ConstantsAssumption DEF IInv, TypeOK, InBounds
<1>2. PICK c \in PowersOfTwo :
         /\ next_power_of_two(length + n, c)
         /\ data' = [i \in 0 .. (c - 1) |->
                       IF i < length THEN data[offset + i] ELSE Junk]
         /\ capacity' = c
  BY DEF AssureGrows
<1>3. c \in Nat /\ 1 <= c /\ c <= SIZE_MAX
  BY PowerIsSize
<1>4. Minus(capacity, length) = capacity - length
      /\ n > capacity - length
  BY <1>1, MinusIsDifference DEF AssureGrows, NeedsBlock
<1>5. length + n <= c
  BY <1>0, <1>1, <1>2, <1>4 DEF next_power_of_two
<1>6. \A i \in 0 .. (c - 1) : i < length =>
         offset + i \in 0 .. (capacity - 1)
  BY <1>1, <1>3
<1>7. data' \in [0 .. (c - 1) -> T]
  BY <1>1, <1>2, <1>6
<1>8. length' = length /\ offset' = 0 /\ exists' = exists
      /\ heap' = heap + 1 - (IF data = NULL THEN 0 ELSE 1)
      /\ result' = "NONE"
  BY DEF AssureGrows
<1>9. \A i \in 1 .. length :
         data'[offset' + i - 1] = data[offset + i - 1]
  BY <1>0, <1>1, <1>2, <1>3, <1>5, <1>8
<1>10. readbuffer__get_read_view' = readbuffer__get_read_view
  BY <1>8, <1>9 DEF readbuffer__get_read_view
<1>11. data' # NULL
  BY <1>3, <1>7, NullMemory
<1>12. NoLeak'
  BY <1>8, <1>11 DEF IInv, NoLeak
<1> QED
  BY <1>0, <1>1, <1>2, <1>3, <1>5, <1>7, <1>8, <1>10, <1>12,
     ConstantsAssumption
     DEF IInv, TypeOK, InBounds, ViewIsWritten, NoLeak, NoBlock, ErrorCode

(* Whatever way readbuffer__assure() returns, the view is untouched. *)
LEMMA AssureInv ==
  ASSUME IInv, NEW n \in 0 .. SIZE_MAX, readbuffer__assure(n)
  PROVE  /\ IInv'
         /\ readbuffer__get_read_view' = readbuffer__get_read_view
<1>1. CASE AssureHasRoom(n)
  BY <1>1, SameMemory
     DEF AssureHasRoom, Memory, ErrorCode, readbuffer__get_read_view
<1>2. CASE AssureOverflows(n)
  BY <1>2, SameMemory
     DEF AssureOverflows, Memory, ErrorCode, readbuffer__get_read_view
<1>3. CASE AssureAllocationFails(n)
  BY <1>3, SameMemory
     DEF AssureAllocationFails, Memory, ErrorCode, readbuffer__get_read_view
<1>4. CASE AssureCompacts(n)
  BY <1>4, CompactInv DEF readbuffer__assure
<1>5. CASE AssureGrows(n)
  BY <1>5, GrowInv DEF readbuffer__assure
<1> QED
  BY <1>1, <1>2, <1>3, <1>4, <1>5 DEF readbuffer__assure

(* commit_write() writes behind the view and extends it by those bytes. *)
LEMMA CommitInv ==
  ASSUME IInv, NEW bytes \in Seq(Byte), readbuffer__commit_write(bytes)
  PROVE  /\ IInv'
         /\ \/ UNCHANGED readbuffer__get_read_view
            \/ /\ length' = length + Len(bytes)
               /\ \A i \in 1 .. length :
                    readbuffer__get_read_view'[i] =
                      readbuffer__get_read_view[i]
<1> DEFINE T == Byte \cup {Junk}
           n == Len(bytes)
           end == offset + length
<1>1. bytes \in Seq(Byte) /\ n \in Nat
      /\ \A i \in 1 .. n : bytes[i] \in Byte
  BY ConstantsAssumption
<1>2. data \in [0 .. (capacity - 1) -> T] /\ capacity \in Nat
      /\ length \in Nat /\ offset \in Nat /\ end <= capacity
      /\ capacity <= SIZE_MAX
  BY ConstantsAssumption DEF IInv, TypeOK, InBounds
<1>3. readbuffer__get_write_cursor_limit = capacity - end
  BY <1>2, MinusIsDifference DEF readbuffer__get_write_cursor_limit
<1>4. CASE n > readbuffer__get_write_cursor_limit
  BY <1>4, SameMemory
     DEF readbuffer__commit_write, Memory, ErrorCode,
         readbuffer__get_read_view
<1>5. CASE ~ (n > readbuffer__get_write_cursor_limit)
  <2>1. n <= capacity - end
    BY <1>1, <1>2, <1>3, <1>5
  <2>2. data' = [i \in 0 .. (capacity - 1) |->
                   IF i - end \in 0 .. (n - 1)
                   THEN bytes[i - end + 1] ELSE data[i]]
        /\ length' = length + n /\ offset' = offset
        /\ capacity' = capacity /\ exists' = exists /\ exists
        /\ heap' = heap /\ result' = "NONE"
    BY <1>2, <1>5 DEF readbuffer__commit_write
  <2>3. \A i \in 0 .. (capacity - 1) : i - end \in 0 .. (n - 1) =>
           bytes[i - end + 1] \in Byte
    BY <1>1, <1>2
  <2>4. data' \in [0 .. (capacity - 1) -> T]
    BY <1>2, <2>2, <2>3
  <2>5. data' = NULL <=> data = NULL
    BY <1>2, <2>4, NullMemory
  <2>6. \A i \in 1 .. length :
           data'[offset' + i - 1] = data[offset + i - 1]
    BY <1>1, <1>2, <2>1, <2>2
  <2>7. \A i \in 1 .. length :
           readbuffer__get_read_view'[i] = readbuffer__get_read_view[i]
    BY <1>1, <1>2, <2>2, <2>6 DEF readbuffer__get_read_view
  <2>8. \A i \in 1 .. length' : readbuffer__get_read_view'[i] \in Byte
    <3> SUFFICES ASSUME NEW i \in 1 .. length'
                 PROVE  readbuffer__get_read_view'[i] \in Byte
      OBVIOUS
    <3>1. CASE i <= length
      <4>1. i \in 1 .. length
        BY <1>1, <1>2, <2>2, <3>1
      <4>2. readbuffer__get_read_view[i] \in Byte
        BY <4>1 DEF IInv, ViewIsWritten
      <4> QED
        BY <2>7, <4>1, <4>2
    <3>2. CASE length < i
      <4>1. offset + i - 1 \in 0 .. (capacity - 1)
            /\ (offset + i - 1) - end \in 0 .. (n - 1)
        BY <1>1, <1>2, <2>1, <2>2, <3>2
      <4>2. data'[offset' + i - 1] \in Byte
        BY <2>2, <2>3, <4>1
      <4> QED
        BY <4>2 DEF readbuffer__get_read_view
    <3> QED
      BY <1>1, <1>2, <2>2, <3>1, <3>2
  <2>9. TypeOK'
    BY <1>1, <1>2, <2>1, <2>2, <2>4, ConstantsAssumption
       DEF IInv, TypeOK, ErrorCode
  <2>10. InBounds' /\ NoBlock'
    BY <1>1, <1>2, <2>1, <2>2 DEF InBounds, NoBlock
  <2>11. NoLeak'
    BY <2>2, <2>5 DEF IInv, NoLeak
  <2> QED
    BY <2>2, <2>7, <2>8, <2>9, <2>10, <2>11 DEF IInv, ViewIsWritten
<1> QED
  BY <1>4, <1>5

(* consume() drops bytes from the front of the view. *)
LEMMA ConsumeInv ==
  ASSUME IInv, NEW n \in 0 .. SIZE_MAX, readbuffer__consume(n)
  PROVE  /\ IInv'
         /\ \/ UNCHANGED readbuffer__get_read_view
            \/ /\ n <= length
               /\ length' = length - n
               /\ \A i \in 1 .. length' :
                    readbuffer__get_read_view'[i] =
                      readbuffer__get_read_view[n + i]
<1>1. n \in Nat
  BY ConstantsAssumption
<1>2. capacity \in Nat /\ length \in Nat /\ offset \in Nat
      /\ offset + length <= capacity /\ capacity <= SIZE_MAX
  BY ConstantsAssumption DEF IInv, TypeOK, InBounds
<1>3. CASE n > length
  BY <1>3, SameMemory
     DEF readbuffer__consume, Memory, ErrorCode, readbuffer__get_read_view
<1>4. CASE n <= length
  <2>1. /\ length' = length - n
        /\ offset' = (IF length' = 0 THEN 0 ELSE offset + n)
        /\ data' = data /\ capacity' = capacity
        /\ heap' = heap /\ result' = "NONE"
        /\ exists' = exists /\ exists
    <3>1. ~ (n > length)
      BY <1>1, <1>2, <1>4
    <3> QED
      BY <3>1, Zenon DEF readbuffer__consume
  <2>2. \A i \in 1 .. length' :
           readbuffer__get_read_view'[i] = readbuffer__get_read_view[n + i]
    <3> SUFFICES ASSUME NEW i \in 1 .. length'
                 PROVE  readbuffer__get_read_view'[i] =
                          readbuffer__get_read_view[n + i]
      OBVIOUS
    <3>1. length' # 0 /\ n + i \in 1 .. length
      BY <1>1, <1>2, <1>4, <2>1
    <3>2. offset' + i - 1 = offset + (n + i) - 1
      BY <1>1, <1>2, <2>1, <3>1
    <3> QED
      BY <2>1, <3>1, <3>2 DEF readbuffer__get_read_view
  <2>3. \A i \in 1 .. length' : n + i \in 1 .. length
    BY <1>1, <1>2, <1>4, <2>1
  <2>4. ViewIsWritten'
    BY <2>2, <2>3 DEF IInv, ViewIsWritten
  <2>5. TypeOK'
    BY <1>1, <1>2, <1>4, <2>1, ConstantsAssumption
       DEF IInv, TypeOK, ErrorCode
  <2>6. InBounds' /\ NoBlock' /\ NoLeak'
    BY <1>1, <1>2, <1>4, <2>1 DEF IInv, InBounds, NoBlock, NoLeak
  <2> QED
    BY <1>4, <2>1, <2>2, <2>4, <2>5, <2>6 DEF IInv
<1> QED
  BY <1>1, <1>2, <1>3, <1>4

LEMMA NextInv == IInv /\ [Next]_vars => IInv'
<1> SUFFICES ASSUME IInv, [Next]_vars PROVE IInv'
  OBVIOUS
<1>1. CASE InitFails
  BY <1>1, SameMemory DEF InitFails, ErrorCode
<1>2. CASE \E c \in InitCapacities : readbuffer__init(c)
  BY <1>2, CreateInv, ConstantsAssumption
<1>3. CASE NullArgument
  BY <1>3, SameMemory DEF NullArgument, ErrorCode
<1>4. CASE \E n \in Requests : readbuffer__assure(n)
  BY <1>4, AssureInv, ConstantsAssumption
<1>5. CASE \E bytes \in Writes : readbuffer__commit_write(bytes)
  BY <1>5, CommitInv, ConstantsAssumption
<1>6. CASE \E n \in Requests : readbuffer__consume(n)
  BY <1>6, ConsumeInv, ConstantsAssumption
<1>7. CASE readbuffer__destroy
  BY <1>7, DestroyInv
<1>8. CASE UNCHANGED vars
  BY <1>8, SameMemory DEF vars, Memory, IInv, TypeOK
<1> QED
  BY <1>1, <1>2, <1>3, <1>4, <1>5, <1>6, <1>7, <1>8 DEF Next

(* IInv holds in every state of every behaviour. *)
THEOREM Invariance == Spec => []IInv
BY InitInv, NextInv, PTL DEF Spec

(* The type invariant of ReadBuffer, for every instance. *)
THEOREM TypeCorrect == Spec => []TypeOK
<1>1. IInv => TypeOK
  BY DEF IInv
<1> QED
  BY Invariance, <1>1, PTL

(* readbuffer.c never stores or copies outside the block, none of its      *)
(* subtractions wraps around, and no block is lost or freed twice.         *)
THEOREM AlwaysMemorySafe == Spec => []MemorySafe
<1>1. IInv => MemorySafe
  BY DEF IInv, MemorySafe
<1> QED
  BY Invariance, <1>1, PTL

(* The view given to a reader never contains uninitialised memory. *)
THEOREM ViewAlwaysWritten == Spec => []ViewIsWritten
<1>1. IInv => ViewIsWritten
  BY DEF IInv
<1> QED
  BY Invariance, <1>1, PTL

-----------------------------------------------------------------------------
(* The view is a sequence of written bytes, of the recorded length. *)
LEMMA ViewIsSequence ==
  ASSUME IInv
  PROVE  /\ readbuffer__get_read_view \in Seq(Byte)
         /\ Len(readbuffer__get_read_view) = length
         /\ length \in Nat
<1>1. length \in Nat
  BY ConstantsAssumption DEF IInv, TypeOK
<1>2. readbuffer__get_read_view \in [1 .. length -> Byte]
  BY DEF IInv, ViewIsWritten, readbuffer__get_read_view
<1> QED
  BY <1>1, <1>2

(* Every step of the buffer is a step of the queue, or leaves it alone. *)
LEMMA StepIsFifoStep ==
  ASSUME IInv, IInv', [Next]_vars
  PROVE  [Fifo!Next]_(readbuffer__get_read_view)
<1> DEFINE seen == readbuffer__get_read_view
<1>1. seen \in Seq(Byte) /\ Len(seen) = length /\ length \in Nat
  BY ViewIsSequence
<1>2. seen' \in Seq(Byte) /\ Len(seen') = length' /\ length' \in Nat
  <2>1. 0 <= length' /\ length' \in Nat
    BY ConstantsAssumption DEF IInv, TypeOK
  <2>2. seen' \in [1 .. length' -> Byte]
    BY DEF IInv, ViewIsWritten, readbuffer__get_read_view
  <2> QED
    BY <2>1, <2>2
<1>3. CASE InitFails \/ NullArgument \/ UNCHANGED vars
  BY <1>3 DEF InitFails, NullArgument, Memory, vars,
              readbuffer__get_read_view
<1>4. CASE \E c \in InitCapacities : readbuffer__init(c)
  <2>1. length = 0 /\ length' = 0
    BY <1>4 DEF IInv, NoBlock, readbuffer__init
  <2> QED
    BY <1>1, <1>2, <2>1 DEF Fifo!Next, Fifo!Take
<1>5. CASE readbuffer__destroy
  <2>1. length' = 0
    BY <1>5 DEF readbuffer__destroy
  <2> QED
    BY <1>1, <1>2, <2>1 DEF Fifo!Next, Fifo!Take
<1>6. CASE \E n \in Requests : readbuffer__assure(n)
  BY <1>6, AssureInv, ConstantsAssumption
<1>7. CASE \E bytes \in Writes : readbuffer__commit_write(bytes)
  <2>1. PICK bytes \in Writes : readbuffer__commit_write(bytes)
    BY <1>7
  <2>2. Len(bytes) \in Nat
    BY ConstantsAssumption
  <2>3. CASE UNCHANGED seen
    BY <2>3
  <2>4. CASE /\ length' = length + Len(bytes)
             /\ \A i \in 1 .. length : seen'[i] = seen[i]
    BY <1>1, <1>2, <2>2, <2>4 DEF Fifo!Next, Fifo!Put
  <2> QED
    BY <2>1, <2>3, <2>4, CommitInv, ConstantsAssumption
<1>8. CASE \E n \in Requests : readbuffer__consume(n)
  <2>1. PICK n \in Requests : readbuffer__consume(n)
    BY <1>8
  <2>2. n \in Nat
    BY ConstantsAssumption
  <2>3. CASE UNCHANGED seen
    BY <2>3
  <2>4. CASE /\ n <= length /\ length' = length - n
             /\ \A i \in 1 .. length' : seen'[i] = seen[n + i]
    <3>1. Len(seen') <= Len(seen) /\ Len(seen) - Len(seen') = n
      BY <1>1, <1>2, <2>2, <2>4
    <3> QED
      BY <1>1, <1>2, <2>4, <3>1 DEF Fifo!Next, Fifo!Take
  <2> QED
    BY <2>1, <2>3, <2>4, ConsumeInv, ConstantsAssumption
<1> QED
  BY <1>3, <1>4, <1>5, <1>6, <1>7, <1>8 DEF Next

(* ReadBuffer implements the queue of bytes, whatever the sizes: no byte   *)
(* is lost, duplicated or reordered by compaction, growth, partial         *)
(* consumption or a failing call.                                          *)
THEOREM ImplementsFifo == Spec => FifoSpec
<1>1. Init => Fifo!Init
  <2>1. ASSUME Init PROVE readbuffer__get_read_view = << >>
    <3>1. 1 .. length = {}
      BY <2>1 DEF Init
    <3> QED
      BY <3>1 DEF readbuffer__get_read_view
  <2> QED
    BY <2>1 DEF Fifo!Init
<1>2. IInv /\ IInv' /\ [Next]_vars
        => [Fifo!Next]_(readbuffer__get_read_view)
  BY StepIsFifoStep
<1> QED
  BY Invariance, <1>1, <1>2, PTL DEF Spec, FifoSpec, Fifo!Spec

(* readbuffer.h:41-44, for every request: a successful assure(n) leaves n  *)
(* bytes at the write cursor; a refused one leaves the buffer as it was.   *)
THEOREM AssureAlwaysKeepsItsPromise == Spec => AssureKeepsItsPromise
<1>1. ASSUME IInv, NEW n \in Requests, readbuffer__assure(n)
      PROVE  IF result' = "NONE"
             THEN n <= (capacity' - (offset' + length'))
             ELSE UNCHANGED Memory
  <2>1. n \in Nat /\ capacity \in Nat /\ offset \in Nat /\ length \in Nat
        /\ offset + length <= capacity
    <3>1. n \in Nat /\ SIZE_MAX \in Nat
      BY ConstantsAssumption
    <3>2. /\ capacity \in 0 .. SIZE_MAX /\ offset \in 0 .. SIZE_MAX
          /\ length \in 0 .. SIZE_MAX
      BY <1>1 DEF IInv, TypeOK
    <3>3. offset + length <= capacity
      BY <1>1 DEF IInv, InBounds
    <3> QED
      BY <3>1, <3>2, <3>3
  <2>2. CASE AssureHasRoom(n)
    <3>1. n <= capacity - (offset + length)
      BY <2>1, <2>2, MinusIsDifference DEF AssureHasRoom
    <3> QED
      BY <2>2, <3>1 DEF AssureHasRoom, Memory
  <2>3. CASE AssureCompacts(n)
    <3>1. n <= capacity - length
      BY <2>1, <2>3, MinusIsDifference DEF AssureCompacts
    <3> QED
      BY <2>1, <2>3, <3>1 DEF AssureCompacts
  <2>4. CASE AssureOverflows(n) \/ AssureAllocationFails(n)
    BY <2>4 DEF AssureOverflows, AssureAllocationFails
  <2>5. CASE AssureGrows(n)
    <3>1. result' = "NONE"
      BY <2>5 DEF AssureGrows
    <3> QED
      BY <1>1, <2>5, <3>1, GrowInv, ConstantsAssumption
         DEF readbuffer__assure
  <2> QED
    BY <1>1, <2>2, <2>3, <2>4, <2>5 DEF readbuffer__assure
<1>2. IInv /\ [Next]_vars =>
        [\A n \in Requests :
           readbuffer__assure(n) =>
             IF result' = "NONE"
             THEN n <= (capacity' - (offset' + length'))
             ELSE UNCHANGED Memory]_vars
  BY <1>1
<1> QED
  BY Invariance, <1>2, PTL DEF Spec, AssureKeepsItsPromise

-----------------------------------------------------------------------------
(* The line stream *)

StreamTypes ==
  /\ file \in Seq(Byte)
  /\ pos \in 0 .. Len(file)
  /\ pc \in {"idle", "scan", "assure", "read"}
  /\ scanned \in Nat

(* A call has a stream, and no result yet. *)
OneCall ==
  IF pc = "idle" THEN status # "busy"
  ELSE status = "busy" /\ string = NoString /\ exists

(* Before the loop asks for more it has examined all there is. *)
AllScanned == pc \in {"assure", "read"} => scanned = length

(* What is in the view is what was read last. *)
ViewIsFile ==
  length <= pos /\ \A k \in 1 .. length : view[k] = file[pos - length + k]

(* The inductive invariant of the stream, on top of that of its buffer.    *)
(* That a line ends at the newline found needs SkippedHasNoNewline, and    *)
(* that the last line has none needs AllScanned, too.                      *)
StreamInv ==
  IInv /\ StreamTypes /\ OneCall /\ AllScanned /\ SkippedHasNoNewline

(* What one step of the stream is to its caller *)
StreamStep ==
  [Stream!Next]_<< view \o Unread, status, Shown >>

-----------------------------------------------------------------------------
(* Sequences *)

LEMMA SplitsAt ==
  ASSUME NEW S, NEW s \in Seq(S), NEW n \in 0 .. Len(s)
  PROVE  /\ SubSeq(s, 1, n) \in Seq(S) /\ SubSeq(s, n + 1, Len(s)) \in Seq(S)
         /\ Len(SubSeq(s, 1, n)) = n
         /\ Len(SubSeq(s, n + 1, Len(s))) = Len(s) - n
         /\ \A k \in 1 .. n : SubSeq(s, 1, n)[k] = s[k]
         /\ \A k \in 1 .. Len(s) - n : SubSeq(s, n + 1, Len(s))[k] = s[n + k]
         /\ s = SubSeq(s, 1, n) \o SubSeq(s, n + 1, Len(s))
<1> DEFINE a == SubSeq(s, 1, n)
           b == SubSeq(s, n + 1, Len(s))
<1>1. /\ a \in Seq(S) /\ Len(a) = n /\ \A k \in 1 .. n : a[k] = s[k]
      /\ b \in Seq(S) /\ Len(b) = Len(s) - n
      /\ \A k \in 1 .. Len(s) - n : b[k] = s[n + k]
  OBVIOUS
<1> HIDE DEF a, b
<1>2. /\ a \o b \in Seq(S) /\ Len(a \o b) = Len(s)
      /\ \A k \in 1 .. Len(s) :
           (a \o b)[k] = IF k <= n THEN a[k] ELSE b[k - n]
  BY <1>1, ConcatProperties
<1>3. \A k \in 1 .. Len(s) : (a \o b)[k] = s[k]
  <2> SUFFICES ASSUME NEW k \in 1 .. Len(s) PROVE (a \o b)[k] = s[k]
    OBVIOUS
  <2>1. CASE k <= n
    <3>1. k \in 1 .. n
      BY <2>1
    <3> QED
      BY <1>1, <1>2, <2>1, <3>1
  <2>2. CASE ~ (k <= n)
    <3>1. k - n \in 1 .. Len(s) - n /\ n + (k - n) = k /\ ~ (k <= n)
      BY <2>2
    <3>2. b[k - n] = s[n + (k - n)]
      BY <1>1, <3>1
    <3> QED
      BY <1>2, <3>1, <3>2
  <2> QED
    BY <2>1, <2>2
<1>4. a \o b = s
  BY <1>2, <1>3, SeqEqual
<1> QED
  BY <1>1, <1>4 DEF a, b

(* What is read next is what was unread, taken from its front. *)
LEMMA ReadSplits ==
  ASSUME NEW S, NEW s \in Seq(S), NEW p \in 0 .. Len(s),
         NEW n \in 0 .. Len(s) - p
  PROVE  SubSeq(s, p + 1, Len(s))
           = SubSeq(s, p + 1, p + n) \o SubSeq(s, p + n + 1, Len(s))
<1> DEFINE a == SubSeq(s, p + 1, p + n)
           b == SubSeq(s, p + n + 1, Len(s))
           c == SubSeq(s, p + 1, Len(s))
<1>1. /\ a \in Seq(S) /\ Len(a) = n
      /\ \A k \in 1 .. n : a[k] = s[p + k]
      /\ b \in Seq(S) /\ Len(b) = Len(s) - p - n
      /\ \A k \in 1 .. Len(s) - p - n : b[k] = s[p + n + k]
      /\ c \in Seq(S) /\ Len(c) = Len(s) - p
      /\ \A k \in 1 .. Len(s) - p : c[k] = s[p + k]
  OBVIOUS
<1> HIDE DEF a, b, c
<1>2. /\ a \o b \in Seq(S) /\ Len(a \o b) = Len(s) - p
      /\ \A k \in 1 .. Len(s) - p :
           (a \o b)[k] = IF k <= n THEN a[k] ELSE b[k - n]
  <2>1. /\ a \o b \in Seq(S) /\ Len(a \o b) = Len(a) + Len(b)
        /\ \A k \in 1 .. Len(a) + Len(b) :
             (a \o b)[k] = IF k <= Len(a) THEN a[k] ELSE b[k - Len(a)]
    <3>1. a \in Seq(S) /\ b \in Seq(S)
      BY <1>1
    <3> QED
      BY <3>1, ConcatProperties
  <2>2. Len(a) + Len(b) = Len(s) - p
    BY <1>1
  <2> QED
    BY <1>1, <2>1, <2>2
<1>3. \A k \in 1 .. Len(s) - p : (a \o b)[k] = c[k]
  <2> SUFFICES ASSUME NEW k \in 1 .. Len(s) - p PROVE (a \o b)[k] = c[k]
    OBVIOUS
  <2>1. CASE k <= n
    <3>1. k \in 1 .. n
      BY <2>1
    <3> QED
      BY <1>1, <1>2, <2>1, <3>1
  <2>2. CASE ~ (k <= n)
    <3>1. k - n \in 1 .. Len(s) - p - n /\ p + n + (k - n) = p + k
          /\ ~ (k <= n)
      BY <2>2
    <3>2. b[k - n] = s[p + n + (k - n)]
      BY <1>1, <3>1
    <3> QED
      BY <1>1, <1>2, <3>1, <3>2
  <2> QED
    BY <2>1, <2>2
<1>4. a \o b = c
  BY <1>1, <1>2, <1>3, SeqEqual
<1> QED
  BY <1>4 DEF a, b, c

(* An appended byte is the last of what is unread. *)
LEMMA AppendUnread ==
  ASSUME NEW S, NEW s \in Seq(S), NEW p \in 0 .. Len(s), NEW e \in S
  PROVE  SubSeq(Append(s, e), p + 1, Len(Append(s, e)))
           = SubSeq(s, p + 1, Len(s)) \o << e >>
<1> DEFINE t == Append(s, e)
           a == SubSeq(s, p + 1, Len(s))
           b == SubSeq(t, p + 1, Len(t))
<1>1. /\ t \in Seq(S) /\ Len(t) = Len(s) + 1
      /\ \A k \in 1 .. Len(s) : t[k] = s[k]
      /\ t[Len(s) + 1] = e
  OBVIOUS
<1> HIDE DEF t
<1>2. /\ a \in Seq(S) /\ Len(a) = Len(s) - p
      /\ \A k \in 1 .. Len(s) - p : a[k] = s[p + k]
      /\ b \in Seq(S) /\ Len(b) = Len(s) + 1 - p
      /\ \A k \in 1 .. Len(s) + 1 - p : b[k] = t[p + k]
  BY <1>1
<1>3. << e >> \in Seq(S) /\ Len(<< e >>) = 1 /\ << e >>[1] = e
  OBVIOUS
<1> HIDE DEF a, b
<1>4. /\ a \o << e >> \in Seq(S) /\ Len(a \o << e >>) = Len(s) - p + 1
      /\ \A k \in 1 .. Len(s) - p + 1 :
           (a \o << e >>)[k] = IF k <= Len(s) - p THEN a[k]
                               ELSE << e >>[k - (Len(s) - p)]
  BY <1>2, <1>3, ConcatProperties
<1>5. \A k \in 1 .. Len(s) - p + 1 : (a \o << e >>)[k] = b[k]
  <2> SUFFICES ASSUME NEW k \in 1 .. Len(s) - p + 1
               PROVE  (a \o << e >>)[k] = b[k]
    OBVIOUS
  <2>1. k \in 1 .. Len(s) + 1 - p
    OBVIOUS
  <2>2. CASE k <= Len(s) - p
    <3>1. k \in 1 .. Len(s) - p /\ p + k \in 1 .. Len(s)
      BY <2>2
    <3> QED
      BY <1>1, <1>2, <1>4, <2>1, <2>2, <3>1
  <2>3. CASE ~ (k <= Len(s) - p)
    <3>1. k - (Len(s) - p) = 1 /\ p + k = Len(s) + 1 /\ ~ (k <= Len(s) - p)
      BY <2>3
    <3> QED
      BY <1>1, <1>2, <1>3, <1>4, <2>1, <3>1
  <2> QED
    BY <2>2, <2>3
<1>6. a \o << e >> = b
  <2>1. Len(s) - p + 1 = Len(s) + 1 - p
    OBVIOUS
  <2> QED
    BY <1>2, <1>4, <1>5, <2>1, SeqEqual
<1> QED
  BY <1>6 DEF a, b, t

-----------------------------------------------------------------------------
(* The buffer in the stream *)

LEMMA ViewNow ==
  ASSUME IInv
  PROVE  /\ view \in Seq(Byte) /\ Len(view) = length /\ length \in Nat
         /\ length \in 0 .. SIZE_MAX
         /\ ~ exists => view = << >>
<1>1. view \in Seq(Byte) /\ Len(view) = length /\ length \in Nat
      /\ length \in 0 .. SIZE_MAX
  BY ViewIsSequence DEF view, IInv, TypeOK
<1>2. ~ exists => length = 0
  BY DEF IInv, NoBlock
<1> QED
  BY <1>1, <1>2

LEMMA ViewAgain ==
  ASSUME UNCHANGED Memory
  PROVE  UNCHANGED view
BY DEF Memory, view, readbuffer__get_read_view

LEMMA CommitAppends ==
  ASSUME IInv, NEW bytes \in Seq(Byte), readbuffer__commit_write(bytes),
         Len(bytes) <= readbuffer__get_write_cursor_limit
  PROVE  /\ result' = "NONE" /\ exists' /\ length' = length + Len(bytes)
         /\ view' = view \o bytes
<1> DEFINE n == Len(bytes)
           last == offset + length
<1>1. /\ data \in [0 .. (capacity - 1) -> Byte \cup {Junk}]
      /\ capacity \in Nat /\ capacity <= SIZE_MAX /\ SIZE_MAX \in Nat
      /\ length \in Nat /\ offset \in Nat /\ last <= capacity /\ n \in Nat
      /\ length \in Int
  BY ConstantsAssumption DEF IInv, TypeOK, InBounds
<1>2. readbuffer__get_write_cursor_limit = capacity - last
  BY <1>1, MinusIsDifference DEF readbuffer__get_write_cursor_limit
<1>3. n <= capacity - last
  BY <1>2
<1>4. ~ (n > readbuffer__get_write_cursor_limit)
  BY <1>1, <1>2, <1>3
<1>5. /\ data' = [k \in 0 .. (capacity - 1) |->
                    IF k - last \in 0 .. (n - 1)
                    THEN bytes[k - last + 1] ELSE data[k]]
      /\ length' = length + n /\ result' = "NONE"
      /\ UNCHANGED << exists, offset >> /\ exists
  BY <1>1, <1>4 DEF readbuffer__commit_write
<1>6. \A k \in 1 .. length + n :
        view'[k] = IF k <= length THEN view[k] ELSE bytes[k - length]
  <2> SUFFICES ASSUME NEW k \in 1 .. length + n
               PROVE  view'[k] = IF k <= length THEN view[k]
                                 ELSE bytes[k - length]
    OBVIOUS
  <2> DEFINE cell == offset + k - 1
  <2>1. view'[k] = data'[cell]
    BY <1>5 DEF view, readbuffer__get_read_view
  <2>2. cell \in 0 .. (capacity - 1)
    BY <1>1, <1>3
  <2>3. /\ k <= length => /\ ~ (cell - last \in 0 .. (n - 1))
                          /\ k \in 1 .. length
        /\ ~ (k <= length) => /\ cell - last \in 0 .. (n - 1)
                              /\ cell - last + 1 = k - length
    BY <1>1
  <2>4. k \in 1 .. length => view[k] = data[cell]
    BY DEF view, readbuffer__get_read_view
  <2>5. data'[cell] = IF cell - last \in 0 .. (n - 1)
                      THEN bytes[cell - last + 1] ELSE data[cell]
    BY <1>5, <2>2
  <2> HIDE DEF cell, last, n
  <2>6. CASE k <= length
    BY <2>1, <2>3, <2>4, <2>5, <2>6
  <2>7. CASE ~ (k <= length)
    BY <2>1, <2>3, <2>5, <2>7
  <2> QED
    BY <2>6, <2>7
<1>7. view \in Seq(Byte) /\ Len(view) = length
  BY ViewNow
<1>8. /\ view \o bytes \in Seq(Byte) /\ Len(view \o bytes) = length + n
      /\ \A k \in 1 .. length + n :
           (view \o bytes)[k]
             = IF k <= length THEN view[k] ELSE bytes[k - length]
  BY <1>7, ConcatProperties
<1>9. IInv'
  BY CommitInv
<1>10. view' \in [1 .. length + n -> Byte]
  BY <1>5, <1>9 DEF IInv, ViewIsWritten, view, readbuffer__get_read_view
<1>11. view' \in Seq(Byte) /\ Len(view') = length + n
  BY <1>1, <1>10
<1> HIDE DEF n, last
<1>12. view' = view \o bytes
  BY <1>6, <1>8, <1>11, SeqEqual
<1> QED
  BY <1>5, <1>12 DEF n

LEMMA ConsumeTakes ==
  ASSUME IInv, NEW n \in 0 .. length, readbuffer__consume(n)
  PROVE  /\ exists' /\ length' = length - n /\ UNCHANGED data
         /\ view' = SubSeq(view, n + 1, length)
         /\ IInv'
<1>1. length \in 0 .. SIZE_MAX /\ SIZE_MAX \in Nat /\ offset \in Nat
      /\ n \in Nat /\ length \in Nat
  BY ConstantsAssumption DEF IInv, TypeOK
<1>2. n \in 0 .. SIZE_MAX /\ ~ (n > length)
  BY <1>1
<1>3. IInv'
  BY <1>2, ConsumeInv
<1>4. /\ length' = length - n
      /\ offset' = (IF length' = 0 THEN 0 ELSE offset + n)
      /\ UNCHANGED << exists, data >> /\ exists
  BY <1>2, Zenon DEF readbuffer__consume
<1>5. /\ view \in Seq(Byte) /\ Len(view) = length
  BY ViewNow
<1> DEFINE rest == SubSeq(view, n + 1, length)
<1>6. /\ rest \in Seq(Byte) /\ Len(rest) = length - n
      /\ \A k \in 1 .. length - n : rest[k] = view[n + k]
  BY <1>5, SplitsAt
<1>7. \A k \in 1 .. length - n : view'[k] = rest[k]
  <2> SUFFICES ASSUME NEW k \in 1 .. length - n PROVE view'[k] = rest[k]
    OBVIOUS
  <2>1. length' # 0 /\ k \in 1 .. length' /\ n + k \in 1 .. length
    BY <1>1, <1>4
  <2>2. view'[k] = data'[offset' + k - 1]
    BY <2>1 DEF view, readbuffer__get_read_view
  <2>3. view[n + k] = data[offset + (n + k) - 1]
    BY <2>1 DEF view, readbuffer__get_read_view
  <2>4. offset' + k - 1 = offset + (n + k) - 1
    BY <1>1, <1>4, <2>1
  <2> QED
    BY <1>4, <1>6, <2>2, <2>3, <2>4
<1>8. view' \in [1 .. length - n -> Byte]
  BY <1>3, <1>4 DEF IInv, ViewIsWritten, view, readbuffer__get_read_view
<1>9. view' \in Seq(Byte) /\ Len(view') = length - n
  <2>1. length - n \in Nat
    BY <1>1
  <2> QED
    BY <1>8, <2>1
<1> HIDE DEF rest
<1>10. view' = rest
  BY <1>6, <1>7, <1>9, SeqEqual
<1> QED
  BY <1>3, <1>4, <1>10 DEF rest

(* What is left of the input: what is in the view, and then the file. *)
LEMMA RestNow ==
  ASSUME IInv, StreamTypes
  PROVE  /\ view \in Seq(Byte) /\ Len(view) = length /\ length \in Nat
         /\ Unread \in Seq(Byte) /\ Len(Unread) = Len(file) - pos
         /\ view \o Unread \in Seq(Byte)
         /\ Len(view \o Unread) = length + (Len(file) - pos)
         /\ Len(file) \in Nat /\ pos \in Nat
         /\ pos = Len(file) => Unread = << >>
<1>1. view \in Seq(Byte) /\ Len(view) = length /\ length \in Nat
  BY ViewNow
<1>2. file \in Seq(Byte) /\ pos \in 0 .. Len(file) /\ Len(file) \in Nat
  BY DEF StreamTypes
<1>3. Unread \in Seq(Byte) /\ Len(Unread) = Len(file) - pos
  BY <1>2, SplitsAt DEF Unread
<1>4. /\ view \o Unread \in Seq(Byte)
      /\ Len(view \o Unread) = Len(view) + Len(Unread)
  BY <1>1, <1>3, ConcatProperties
<1>5. pos = Len(file) => Unread = << >>
  BY <1>2, <1>3
<1> QED
  BY <1>1, <1>2, <1>3, <1>4, <1>5

(* No string has been returned, or none with a byte. *)
LEMMA NothingShown == string = NoString => Shown = << >>
<1> SUFFICES ASSUME string = NoString PROVE Shown = << >>
  OBVIOUS
<1>1. 1 .. string.size = {}
  BY DEF NoString
<1> QED
  BY <1>1 DEF Shown

LEMMA NothingShownNext == string' = NoString => Shown' = << >>
<1>1. (string = NoString => Shown = << >>)'
  BY NothingShown, PTL
<1> QED
  BY <1>1 DEF NoString

-----------------------------------------------------------------------------
(* The steps of the stream: each keeps the invariant, and is a step of the *)
(* abstract stream or none.                                                *)

LEMMA SameBuffer ==
  ASSUME IInv, UNCHANGED bufferVars
  PROVE  IInv' /\ UNCHANGED << view, data, length, exists >>
<1>1. UNCHANGED Memory /\ result' = result
  BY DEF bufferVars, vars, Memory
<1>2. result' \in ErrorCode
  BY <1>1 DEF IInv, TypeOK
<1>3. IInv'
  BY <1>1, <1>2, SameMemory
<1> QED
  BY <1>1, <1>3, ViewAgain DEF Memory

LEMMA ReturnInv ==
  ASSUME IInv', file' \in Seq(Byte), pos' \in 0 .. Len(file'),
         NEW code, NEW view_, Return(code, view_), code # "busy"
  PROVE  StreamInv'
BY DEF Return, StreamInv, StreamTypes, OneCall, AllScanned,
       SkippedHasNoNewline

(* A call that fails gives back nothing and takes nothing. *)
LEMMA FailStep ==
  ASSUME StreamInv, IInv', UNCHANGED << view, file, pos >>,
         NEW code \in Stream!Failure, Return(code, NoString)
  PROVE  StreamInv' /\ StreamStep
<1>1. code # "busy"
  BY DEF Stream!Failure
<1>2. StreamInv'
  BY <1>1, ReturnInv DEF StreamInv, StreamTypes
<1>3. UNCHANGED (view \o Unread)
  BY DEF Unread
<1>4. Shown' = << >> /\ status' = code
  BY NothingShownNext DEF Return
<1> QED
  BY <1>2, <1>3, <1>4 DEF StreamStep, Stream!Next, Stream!Fail

LEMMA DropsFirst ==
  ASSUME NEW S, NEW a \in Seq(S), NEW b \in Seq(S)
  PROVE  SubSeq(a \o b, Len(a \o b) - Len(b) + 1, Len(a \o b)) = b
<1> DEFINE t == a \o b
           c == SubSeq(t, Len(a) + 1, Len(t))
<1>1. /\ t \in Seq(S) /\ Len(t) = Len(a) + Len(b)
      /\ \A k \in 1 .. Len(a) + Len(b) :
           t[k] = IF k <= Len(a) THEN a[k] ELSE b[k - Len(a)]
      /\ Len(a) \in Nat /\ Len(b) \in Nat
  BY ConcatProperties
<1> HIDE DEF t
<1>2. /\ c \in Seq(S) /\ Len(c) = Len(b)
      /\ \A k \in 1 .. Len(b) : c[k] = t[Len(a) + k]
  <2>1. Len(a) \in 0 .. Len(t) /\ Len(t) - Len(a) = Len(b)
    BY <1>1
  <2>2. /\ c \in Seq(S) /\ Len(c) = Len(t) - Len(a)
        /\ \A k \in 1 .. Len(t) - Len(a) : c[k] = t[Len(a) + k]
    <3> DEFINE m == Len(a)
    <3>1. m \in 0 .. Len(t) /\ c = SubSeq(t, m + 1, Len(t))
      BY <2>1
    <3> HIDE DEF m, c
    <3>2. /\ c \in Seq(S) /\ Len(c) = Len(t) - m
          /\ \A k \in 1 .. Len(t) - m : c[k] = t[m + k]
      BY <1>1, <3>1, SplitsAt
    <3> QED
      BY <3>2 DEF m
  <2> HIDE DEF c
  <2> QED
    BY <2>1, <2>2
<1>3. \A k \in 1 .. Len(b) : c[k] = b[k]
  <2> SUFFICES ASSUME NEW k \in 1 .. Len(b) PROVE c[k] = b[k]
    OBVIOUS
  <2> DEFINE j == Len(a) + k
  <2>1. j \in 1 .. Len(a) + Len(b) /\ ~ (j <= Len(a)) /\ j - Len(a) = k
    BY <1>1
  <2> HIDE DEF j, c
  <2>2. t[j] = b[k]
    BY <1>1, <2>1
  <2>3. c[k] = t[j]
    BY <1>2 DEF j
  <2> QED
    BY <2>2, <2>3
<1>4. Len(t) - Len(b) + 1 = Len(a) + 1
  BY <1>1
<1> HIDE DEF c
<1>5. c = b
  BY <1>2, <1>3, SeqEqual
<1> QED
  BY <1>4, <1>5 DEF c, t

LEMMA CloseStep ==
  ASSUME StreamInv, IInv', pc = "idle", view' = << >>,
         UNCHANGED << file, pos >>, Return("none", NoString)
  PROVE  StreamInv' /\ StreamStep
<1>1. StreamInv'
  BY ReturnInv DEF StreamInv, StreamTypes
<1>2. status # "busy" /\ status' = "none"
  BY DEF StreamInv, OneCall, Return
<1>3. Shown' = << >>
  BY NothingShownNext DEF Return
<1>4. /\ view \in Seq(Byte) /\ Unread \in Seq(Byte)
      /\ Len(view \o Unread) = length + Len(Unread)
      /\ length \in Nat /\ Len(Unread) \in Nat
  BY RestNow DEF StreamInv
<1>5. (view \o Unread)' = Unread
  <2>1. Unread' = Unread
    BY DEF Unread
  <2> QED
    BY <1>4, <2>1
<1>6. Len(Unread) <= Len(view \o Unread)
  BY <1>4
<1>7. Unread = SubSeq(view \o Unread,
                      Len(view \o Unread) - Len(Unread) + 1,
                      Len(view \o Unread))
  BY <1>4, DropsFirst
<1>8. Stream!Close
  BY <1>2, <1>3, <1>5, <1>6, <1>7 DEF Stream!Close
<1> QED
  BY <1>1, <1>8 DEF StreamStep, Stream!Next

LEMMA CreateStep ==
  ASSUME StreamInv, linestream__create
  PROVE  StreamInv' /\ StreamStep
<1>0. IInv /\ pc = "idle" /\ UNCHANGED << file, pos >>
  BY DEF StreamInv, linestream__create
<1>1. CASE InitFails /\ Return("INIT_FAILED", NoString)
  <2>1. IInv' /\ view' = view
    BY <1>0, <1>1, SameMemory, ViewAgain DEF InitFails, ErrorCode
  <2> QED
    BY <1>0, <1>1, <2>1, FailStep DEF Stream!Failure
<1>2. CASE readbuffer__init(PageSize) /\ Return("none", NoString)
  <2>1. PageSize \in 0 .. SIZE_MAX
    BY StreamAssumption, ConstantsAssumption
  <2>2. IInv'
    BY <1>0, <1>2, <2>1, CreateInv
  <2>3. view' = << >>
    <3>1. length' = 0 /\ 1 .. 0 = {}
      BY <1>2 DEF readbuffer__init
    <3> QED
      BY <3>1 DEF view, readbuffer__get_read_view
  <2> QED
    BY <1>0, <1>2, <2>2, <2>3, CloseStep
<1> QED
  BY <1>1, <1>2 DEF linestream__create

LEMMA DestroyStep ==
  ASSUME StreamInv, linestream__destroy
  PROVE  StreamInv' /\ StreamStep
<1>1. /\ IInv /\ pc = "idle" /\ UNCHANGED << file, pos >>
      /\ readbuffer__destroy /\ Return("none", NoString)
  BY DEF StreamInv, linestream__destroy
<1>2. view' = << >>
  <2>1. length' = 0 /\ 1 .. 0 = {}
    BY <1>1 DEF readbuffer__destroy
  <2> QED
    BY <2>1 DEF view, readbuffer__get_read_view
<1> QED
  BY <1>1, <1>2, DestroyInv, CloseStep

LEMMA NullStep ==
  ASSUME StreamInv, NullStream
  PROVE  StreamInv' /\ StreamStep
BY SameBuffer, FailStep DEF NullStream, StreamInv, Stream!Failure

LEMMA CallStep ==
  ASSUME StreamInv, Call
  PROVE  StreamInv' /\ StreamStep
<1>1. IInv' /\ UNCHANGED << view, length, exists, file, pos >>
  BY SameBuffer DEF Call, StreamInv
<1>2. StreamInv'
  <2>1. OneCall' /\ AllScanned'
    BY <1>1 DEF Call, OneCall, AllScanned
  <2>2. StreamTypes'
    BY <1>1 DEF Call, StreamInv, StreamTypes
  <2>3. SkippedHasNoNewline'
    <3>1. scanned' = 0 /\ 1 .. 0 = {} /\ 0 <= length'
      BY <1>1, ViewNow DEF Call, StreamInv
    <3> QED
      BY <3>1 DEF SkippedHasNoNewline
  <2> QED
    BY <1>1, <2>1, <2>2, <2>3 DEF StreamInv
<1>3. UNCHANGED (view \o Unread)
  BY <1>1 DEF Unread
<1>4. Shown' = << >> /\ status # "busy" /\ status' = "busy"
  BY NothingShownNext DEF Call, StreamInv, OneCall
<1> QED
  BY <1>2, <1>3, <1>4 DEF StreamStep, Stream!Next, Stream!Call

LEMMA GrowStep ==
  ASSUME StreamInv, NEW byte \in Byte, Grow(byte)
  PROVE  StreamInv' /\ StreamStep
<1>1. /\ IInv' /\ UNCHANGED << view, data, length, exists >>
      /\ UNCHANGED << pos, pc, scanned, status, string >>
      /\ file' = Append(file, byte)
  BY SameBuffer DEF Grow, StreamInv, streamVars
<1>2. /\ file \in Seq(Byte) /\ pos \in 0 .. Len(file)
      /\ file' \in Seq(Byte) /\ Len(file') = Len(file) + 1
  BY <1>1 DEF StreamInv, StreamTypes
<1>3. StreamInv'
  <2>1. StreamTypes'
    BY <1>1, <1>2 DEF StreamInv, StreamTypes
  <2>2. OneCall' /\ AllScanned' /\ SkippedHasNoNewline'
    BY <1>1 DEF StreamInv, OneCall, AllScanned, SkippedHasNoNewline
  <2> QED
    BY <1>1, <2>1, <2>2 DEF StreamInv
<1>4. Unread' = Unread \o << byte >>
  BY <1>1, <1>2, AppendUnread DEF Unread
<1>5. view \in Seq(Byte) /\ Unread \in Seq(Byte)
      /\ view \o Unread \in Seq(Byte) /\ << byte >> \in Seq(Byte)
  BY RestNow DEF StreamInv
<1>6. view \o (Unread \o << byte >>) = (view \o Unread) \o << byte >>
  BY <1>5, ConcatAssociative
<1>7. (view \o Unread) \o << byte >> = Append(view \o Unread, byte)
  BY <1>5
<1>8. (view \o Unread)' = Append(view \o Unread, byte)
  BY <1>1, <1>4, <1>6, <1>7
<1>9. Shown' = Shown
  BY <1>1 DEF Shown
<1>10. Stream!Grow
  <2> DEFINE now == view \o Unread
             next == Append(now, byte)
  <2>1. now \in Seq(Byte)
    BY <1>5
  <2> HIDE DEF now
  <2>2. /\ Len(now) \in Nat /\ Len(next) = Len(now) + 1
        /\ SubSeq(next, 1, Len(now)) = now
        /\ next[Len(now) + 1] = byte
    BY <2>1
  <2>3. \A k \in Len(now) + 1 .. Len(next) : next[k] \in Byte
    BY <2>2
  <2> QED
    BY <1>1, <1>8, <1>9, <2>2, <2>3 DEF Stream!Grow, now
<1> QED
  BY <1>3, <1>10 DEF StreamStep, Stream!Next

(* A newline is found: the line before it, and the newline, are consumed. *)
LEMMA HitStep ==
  ASSUME StreamInv, ScanHit
  PROVE  StreamInv' /\ StreamStep
<1>1. PICK k \in 1 .. length :
        /\ FirstNewline(k)
        /\ readbuffer__consume(k)
        /\ Return("OK", [cursor |-> offset, size |-> k - 1])
  BY DEF ScanHit
<1>2. /\ pc = "scan" /\ UNCHANGED << file, pos >> /\ IInv
      /\ status = "busy" /\ scanned \in Nat
      /\ \A j \in 1 .. scanned : view[j] # NL
  BY DEF ScanHit, StreamInv, OneCall, StreamTypes, SkippedHasNoNewline
<1>3. /\ view \in Seq(Byte) /\ Len(view) = length /\ length \in Nat
      /\ Unread \in Seq(Byte)
  BY RestNow DEF StreamInv
<1>4. /\ UNCHANGED data /\ IInv'
      /\ view' = SubSeq(view, k + 1, length)
  <2>1. k \in 0 .. length
    BY <1>3
  <2> QED
    BY <1>1, <1>2, <2>1, ConsumeTakes
<1>5. StreamInv'
  BY <1>1, <1>2, <1>4, ReturnInv DEF StreamInv, StreamTypes
<1> DEFINE first == SubSeq(view, 1, k - 1)
           after == SubSeq(view, k + 1, length)
<1>6. /\ first \in Seq(Byte) /\ Len(first) = k - 1
      /\ \A j \in 1 .. k - 1 : first[j] = view[j]
      /\ after \in Seq(Byte) /\ << NL >> \in Seq(Byte)
      /\ view = first \o (<< NL >> \o after)
  <2>1. k - 1 \in 0 .. length /\ k - 1 + 1 = k /\ k \in 0 .. length
    BY <1>3
  <2>2. /\ first \in Seq(Byte) /\ Len(first) = k - 1
        /\ \A j \in 1 .. k - 1 : first[j] = view[j]
        /\ view = first \o SubSeq(view, k, length)
    <3> DEFINE i == k - 1
    <3>1. i \in 0 .. Len(view) /\ i + 1 = k /\ length = Len(view)
      BY <1>3, <2>1
    <3>2. view \in Seq(Byte)
      BY <1>3
    <3> HIDE DEF i
    <3>3. /\ SubSeq(view, 1, i) \in Seq(Byte)
          /\ Len(SubSeq(view, 1, i)) = i
          /\ \A j \in 1 .. i : SubSeq(view, 1, i)[j] = view[j]
          /\ view = SubSeq(view, 1, i) \o SubSeq(view, k, length)
      BY <3>1, <3>2, SplitsAt
    <3> QED
      BY <3>3 DEF i
  <2>3. after \in Seq(Byte)
    BY <1>3, <2>1, SplitsAt
  <2>4. SubSeq(view, k, length) = << view[k] >> \o after
    <3>1. k \in 1 .. Len(view) /\ length \in k .. Len(view)
      BY <1>3
    <3>2. view \in Seq(Byte)
      BY <1>3
    <3> QED
      BY <3>1, <3>2, SubSeqRecursiveFirst
  <2>5. view[k] = NL /\ NL \in Byte
    BY <1>1, StreamAssumption DEF FirstNewline
  <2> QED
    BY <2>2, <2>3, <2>4, <2>5
<1>7. Shown' = first
  <2>1. string' = [cursor |-> offset, size |-> k - 1]
    BY <1>1 DEF Return
  <2>2. Shown' = [j \in 1 .. k - 1 |-> data[offset + j - 1]]
    BY <1>4, <2>1 DEF Shown
  <2>3. \A j \in 1 .. k - 1 : view[j] = data[offset + j - 1]
    BY <1>3 DEF view, readbuffer__get_read_view
  <2>4. first = [j \in 1 .. k - 1 |-> first[j]]
    BY <1>6
  <2> HIDE DEF first
  <2>5. \A j \in 1 .. k - 1 : first[j] = data[offset + j - 1]
    BY <1>6, <2>3
  <2> QED
    BY <2>2, <2>4, <2>5
<1>8. \A j \in DOMAIN first : first[j] # NL
  <2> SUFFICES ASSUME NEW j \in 1 .. k - 1 PROVE view[j] # NL
    BY <1>6
  <2>1. CASE j <= scanned
    BY <1>2, <2>1
  <2>2. CASE ~ (j <= scanned)
    <3>1. j \in scanned + 1 .. k - 1
      BY <1>2, <1>3, <2>2
    <3> QED
      BY <1>1, <3>1 DEF FirstNewline
  <2> QED
    BY <2>1, <2>2
<1> HIDE DEF first, after
<1>9. view \o Unread = first \o << NL >> \o (after \o Unread)
  <2>1. << NL >> \o after \in Seq(Byte) /\ after \o Unread \in Seq(Byte)
    BY <1>3, <1>6, ConcatProperties
  <2>2. view \o Unread = first \o ((<< NL >> \o after) \o Unread)
    <3> DEFINE more == << NL >> \o after
    <3>1. more \in Seq(Byte) /\ view = first \o more
      BY <1>6, <2>1
    <3> HIDE DEF more
    <3>2. (first \o more) \o Unread = first \o (more \o Unread)
      BY <1>3, <1>6, <3>1, ConcatAssociative
    <3> QED
      BY <3>1, <3>2 DEF more
  <2>3. (<< NL >> \o after) \o Unread = << NL >> \o (after \o Unread)
    BY <1>3, <1>6, ConcatAssociative
  <2>4. (first \o << NL >>) \o (after \o Unread)
          = first \o (<< NL >> \o (after \o Unread))
    BY <1>6, <2>1, ConcatAssociative
  <2> QED
    BY <2>2, <2>3, <2>4
<1>10. (view \o Unread)' = after \o Unread
  BY <1>2, <1>4 DEF after, Unread
<1>11. status' = "OK"
  BY <1>1 DEF Return
<1>12. Stream!NextLine
  BY <1>2, <1>7, <1>8, <1>9, <1>10, <1>11 DEF Stream!NextLine, Stream!IsLine
<1> QED
  BY <1>5, <1>12 DEF StreamStep, Stream!Next

(* A step inside a call that leaves the input as it is *)
LEMMA QuietStep ==
  ASSUME StreamInv, string' = NoString, status' = "busy", pc # "idle",
         (view \o Unread)' = view \o Unread
  PROVE  StreamStep
<1>1. string = NoString /\ status = "busy"
  BY DEF StreamInv, OneCall
<1>2. Shown' = << >> /\ Shown = << >>
  BY <1>1, NothingShown, NothingShownNext
<1> QED
  BY <1>1, <1>2 DEF StreamStep

LEMMA MissStep ==
  ASSUME StreamInv, ScanMiss
  PROVE  StreamInv' /\ StreamStep
<1>1. /\ IInv' /\ UNCHANGED << view, data, length, exists >>
      /\ UNCHANGED << file, pos, status, string >>
      /\ pc = "scan" /\ pc' = "assure" /\ scanned' = length /\ IInv
      /\ \A k \in 1 .. length : ~ FirstNewline(k)
  BY SameBuffer DEF ScanMiss, StreamInv
<1>2. length \in Nat /\ scanned \in Nat
  BY <1>1, ViewNow DEF StreamInv, StreamTypes
(* The first newline would have been found. *)
<1>3. \A k \in 1 .. length : view[k] # NL
  <2> SUFFICES ASSUME \E k \in 1 .. length : view[k] = NL PROVE FALSE
    OBVIOUS
  <2> DEFINE At == { k \in Nat : k \in 1 .. length /\ view[k] = NL }
  <2>1. PICK k \in At : \A j \in At : k <= j
    <3>1. At # {} /\ At \subseteq Nat
      BY <1>2
    <3> QED
      BY <3>1, Least
  <2>2. k \in 1 .. length /\ view[k] = NL
    BY <2>1
  <2>3. k > scanned
    BY <1>1, <1>2, <2>2 DEF StreamInv, SkippedHasNoNewline
  <2>4. \A j \in scanned + 1 .. k - 1 : view[j] # NL
    <3> SUFFICES ASSUME NEW j \in scanned + 1 .. k - 1, view[j] = NL
                 PROVE  FALSE
      OBVIOUS
    <3>1. j \in At /\ j < k
      BY <1>2, <2>2
    <3> QED
      BY <1>2, <2>1, <2>2, <3>1
  <2>5. FirstNewline(k)
    BY <1>2, <2>2, <2>3, <2>4 DEF FirstNewline
  <2> QED
    BY <1>1, <2>2, <2>5
<1>4. StreamInv'
  <2>1. StreamTypes' /\ OneCall' /\ AllScanned'
    BY <1>1, <1>2 DEF StreamInv, StreamTypes, OneCall, AllScanned
  <2>2. SkippedHasNoNewline'
    BY <1>1, <1>2, <1>3 DEF SkippedHasNoNewline
  <2> QED
    BY <1>1, <2>1, <2>2 DEF StreamInv
<1>5. (view \o Unread)' = view \o Unread
  BY <1>1 DEF Unread
<1> QED
  BY <1>1, <1>4, <1>5, QuietStep DEF StreamInv, OneCall

(* The buffer grows or not: the view stays. *)
LEMMA AssureStep ==
  ASSUME StreamInv, Assure
  PROVE  StreamInv' /\ StreamStep
<1>1. /\ IInv /\ pc = "assure" /\ readbuffer__assure(READ_BUFFERING_SIZE)
      /\ UNCHANGED << file, pos >> /\ status = "busy" /\ string = NoString
  BY DEF Assure, StreamInv, OneCall
<1>2. IInv' /\ view' = view /\ exists' /\ length' = length
  <2>1. READ_BUFFERING_SIZE \in 0 .. SIZE_MAX
    BY StreamAssumption, ConstantsAssumption
  <2>2. exists'
    BY <1>1 DEF readbuffer__assure, AssureHasRoom, AssureCompacts,
                AssureOverflows, AssureAllocationFails, AssureGrows, Memory
  <2>3. length' = length
    BY <1>1 DEF readbuffer__assure, AssureHasRoom, AssureCompacts,
                AssureOverflows, AssureAllocationFails, AssureGrows, Memory
  <2> QED
    BY <1>1, <2>1, <2>2, <2>3, AssureInv DEF view
<1>3. CASE result' = "NONE"
  <2>1. pc' = "read" /\ UNCHANGED << scanned, status, string >>
    BY <1>3 DEF Assure
  <2>2. StreamTypes' /\ OneCall' /\ AllScanned' /\ SkippedHasNoNewline'
    BY <1>1, <1>2, <2>1
       DEF StreamInv, StreamTypes, OneCall, AllScanned, SkippedHasNoNewline
  <2>3. (view \o Unread)' = view \o Unread
    BY <1>1, <1>2 DEF Unread
  <2> QED
    BY <1>1, <1>2, <2>1, <2>2, <2>3, QuietStep DEF StreamInv
<1>4. CASE result' # "NONE"
  <2>1. Return("ALLOC_FAILED", NoString)
    BY <1>4 DEF Assure
  <2> QED
    BY <1>1, <1>2, <2>1, FailStep DEF Stream!Failure
<1> QED
  BY <1>3, <1>4

LEMMA ReadFailsStep ==
  ASSUME StreamInv, ReadFails
  PROVE  StreamInv' /\ StreamStep
BY SameBuffer, FailStep DEF ReadFails, StreamInv, Stream!Failure

(* Bytes move from the file into the view. *)
LEMMA ReadDataStep ==
  ASSUME StreamInv, NEW n \in 1 .. MaxFile, ReadData(n)
  PROVE  StreamInv' /\ StreamStep
<1> DEFINE bytes == SubSeq(file, pos + 1, pos + n)
<1>1. /\ IInv /\ pc = "read" /\ n <= Len(file) - pos
      /\ n <= readbuffer__get_write_cursor_limit
      /\ readbuffer__commit_write(bytes) /\ pos' = pos + n /\ file' = file
      /\ status = "busy" /\ string = NoString
      /\ file \in Seq(Byte) /\ pos \in 0 .. Len(file) /\ n \in Nat
      /\ scanned \in Nat
  BY StreamAssumption DEF ReadData, StreamInv, OneCall, StreamTypes
<1>2. bytes \in Seq(Byte) /\ Len(bytes) = n
  BY <1>1
<1>3. Unread = bytes \o Unread'
  <2>1. n \in 0 .. Len(file) - pos
    BY <1>1
  <2> QED
    BY <1>1, <2>1, ReadSplits DEF Unread
<1> HIDE DEF bytes
<1>4. /\ IInv' /\ result' = "NONE" /\ exists' /\ length' = length + n
      /\ view' = view \o bytes
  BY <1>1, <1>2, CommitInv, CommitAppends
<1>5. pc' = "scan" /\ UNCHANGED << scanned, status, string >>
  BY <1>4 DEF ReadData
<1>6. view \in Seq(Byte) /\ Len(view) = length /\ length \in Nat
  BY <1>1, ViewNow
<1>7. StreamInv'
  <2>1. StreamTypes'
    BY <1>1, <1>5 DEF StreamTypes
  <2>2. OneCall' /\ AllScanned'
    BY <1>1, <1>4, <1>5 DEF OneCall, AllScanned
  <2>3. SkippedHasNoNewline'
    <3>1. scanned <= length /\ \A k \in 1 .. scanned : view[k] # NL
      BY <1>1 DEF StreamInv, SkippedHasNoNewline
    <3>2. \A k \in 1 .. length : view'[k] = view[k]
      BY <1>2, <1>4, <1>6, ConcatProperties
    <3> QED
      BY <1>1, <1>4, <1>5, <1>6, <3>1, <3>2 DEF SkippedHasNoNewline
  <2> QED
    BY <1>4, <2>1, <2>2, <2>3 DEF StreamInv
<1>8. (view \o Unread)' = view \o Unread
  <2>1. Unread' \in Seq(Byte)
    <3>1. pos + n \in 0 .. Len(file)
      BY <1>1
    <3> QED
      BY <1>1, <3>1, SplitsAt DEF Unread
  <2>2. (view \o bytes) \o Unread' = view \o (bytes \o Unread')
    BY <1>2, <1>6, <2>1, ConcatAssociative
  <2> QED
    BY <1>3, <1>4, <2>2
<1> QED
  BY <1>1, <1>5, <1>7, <1>8, QuietStep

(* The end of the file: what is left is a line, as it has been examined. *)
LEMMA ReadEndsStep ==
  ASSUME StreamInv, ReadEnds
  PROVE  StreamInv' /\ StreamStep
<1>1. /\ IInv /\ pc = "read" /\ pos = Len(file)
      /\ UNCHANGED << file, pos >> /\ status = "busy" /\ string = NoString
      /\ scanned = length
  BY DEF ReadEnds, StreamInv, OneCall, AllScanned
<1>2. /\ view \in Seq(Byte) /\ Len(view) = length /\ length \in Nat
      /\ Unread = << >> /\ Unread' = << >> /\ view \o Unread = view
  <2>1. Unread = << >>
    BY <1>1, RestNow DEF StreamInv
  <2>2. Unread' = Unread
    BY <1>1 DEF Unread
  <2> QED
    BY <2>1, <2>2, RestNow, ConcatEmptySeq DEF StreamInv
<1>3. CASE length = 0
  <2>1. Return("EOF", NoString) /\ UNCHANGED bufferVars
    BY <1>3 DEF ReadEnds
  <2>2. IInv' /\ view' = view
    BY <1>1, <2>1, SameBuffer
  <2>3. StreamInv'
    BY <1>1, <2>1, <2>2, ReturnInv DEF StreamInv, StreamTypes
  <2>4. view = << >>
    BY <1>2, <1>3
  <2>5. Shown' = << >> /\ Shown = << >> /\ status' = "EOF"
    BY <1>1, <2>1, NothingShown, NothingShownNext DEF Return
  <2>6. Stream!AtEnd
    BY <1>1, <1>2, <2>2, <2>4, <2>5 DEF Stream!AtEnd
  <2> QED
    BY <2>3, <2>6 DEF StreamStep, Stream!Next
<1>4. CASE length # 0
  <2>1. /\ readbuffer__consume(length)
        /\ Return("OK", [cursor |-> offset, size |-> length])
    BY <1>4 DEF ReadEnds
  <2>2. IInv' /\ UNCHANGED data /\ view' = SubSeq(view, length + 1, length)
    <3>1. length \in 0 .. length
      BY <1>2
    <3> QED
      BY <1>1, <2>1, <3>1, ConsumeTakes
  <2>3. view' = << >>
    BY <1>2, <2>2, SubSeqEmpty
  <2>4. StreamInv'
    BY <1>1, <2>1, <2>2, ReturnInv DEF StreamInv, StreamTypes
  <2>5. Shown' = view
    <3>1. string' = [cursor |-> offset, size |-> length]
      BY <2>1 DEF Return
    <3>2. Shown' = [j \in 1 .. length |-> data[offset + j - 1]]
      BY <2>2, <3>1 DEF Shown
    <3> QED
      BY <3>2 DEF view, readbuffer__get_read_view
  <2>6. \A k \in DOMAIN view : view[k] # NL
    BY <1>1, <1>2 DEF StreamInv, SkippedHasNoNewline
  <2>7. view \o Unread # << >> /\ (view \o Unread)' = << >>
    <3>1. view # << >>
      BY <1>2, <1>4
    <3>2. << >> \o << >> = << >>
      OBVIOUS
    <3> QED
      BY <1>2, <2>3, <3>1, <3>2
  <2>8. status' = "OK"
    BY <2>1 DEF Return
  <2>9. Stream!LastLine
    BY <1>1, <1>2, <2>5, <2>6, <2>7, <2>8
       DEF Stream!LastLine, Stream!IsLine
  <2> QED
    BY <2>4, <2>9 DEF StreamStep, Stream!Next
<1> QED
  BY <1>3, <1>4

LEMMA StreamNextStep ==
  ASSUME StreamInv, [StreamNext]_allVars
  PROVE  StreamInv' /\ StreamStep
<1>1. CASE UNCHANGED allVars
  <2>1. /\ IInv' /\ UNCHANGED << view, data, length, exists >>
        /\ UNCHANGED << file, pos, pc, scanned, status, string >>
    BY <1>1, SameBuffer DEF allVars, streamVars, StreamInv
  <2>2. StreamInv'
    BY <2>1 DEF StreamInv, StreamTypes, OneCall, AllScanned,
                SkippedHasNoNewline
  <2>3. UNCHANGED << view \o Unread, status, Shown >>
    BY <2>1 DEF Unread, Shown
  <2> QED
    BY <2>2, <2>3 DEF StreamStep
<1> QED
  BY <1>1, CreateStep, DestroyStep, NullStep, CallStep, HitStep, MissStep,
     AssureStep, ReadFailsStep, ReadDataStep, ReadEndsStep, GrowStep
     DEF StreamNext, InCall

LEMMA StreamStarts == StreamInit => StreamInv /\ Stream!Init
<1> SUFFICES ASSUME StreamInit PROVE StreamInv /\ Stream!Init
  OBVIOUS
<1>1. IInv
  BY InitInv DEF StreamInit
<1>2. StreamInv
  BY <1>1 DEF StreamInit, StreamInv, StreamTypes, OneCall, AllScanned,
              SkippedHasNoNewline
<1>3. Shown = << >>
  BY NothingShown DEF StreamInit
<1>4. view \o Unread = << >>
  <2>1. view = << >>
    <3>1. length = 0 /\ 1 .. 0 = {}
      BY DEF StreamInit, Init
    <3> QED
      BY <3>1 DEF view, readbuffer__get_read_view
  <2>2. Unread = << >>
    BY <1>2, RestNow DEF StreamInit, StreamInv
  <2> QED
    BY <2>1, <2>2
<1> QED
  BY <1>2, <1>3, <1>4 DEF StreamInit, Stream!Init

(* The bytes of the view are the last ones that have been read. *)
LEMMA ViewIsFileStep ==
  ASSUME StreamInv, ViewIsFile, [StreamNext]_allVars
  PROVE  ViewIsFile'
<1>0. /\ IInv /\ view \in Seq(Byte) /\ Len(view) = length
      /\ length \in Nat /\ pos \in Nat /\ Len(file) \in Nat
      /\ file \in Seq(Byte) /\ pos <= Len(file) /\ length <= pos
      /\ \A k \in 1 .. length : view[k] = file[pos - length + k]
  BY RestNow DEF StreamInv, StreamTypes, ViewIsFile
<1>1. ASSUME UNCHANGED << view, length, file, pos >>
      PROVE  ViewIsFile'
  BY <1>1 DEF ViewIsFile
<1>2. ASSUME length' = 0, pos' = pos
      PROVE  ViewIsFile'
  <2>1. 1 .. length' = {} /\ length' <= pos'
    BY <1>0, <1>2
  <2> QED
    BY <2>1 DEF ViewIsFile
<1>3. CASE UNCHANGED << bufferVars, file, pos >>
  BY <1>0, <1>1, <1>3, ViewAgain DEF bufferVars, vars, Memory
<1>4. CASE linestream__create
  <2>1. CASE InitFails
    BY <1>1, <1>4, <2>1, ViewAgain DEF linestream__create, InitFails, Memory
  <2>2. CASE readbuffer__init(PageSize)
    BY <1>2, <1>4, <2>2 DEF linestream__create, readbuffer__init
  <2> QED
    BY <1>4, <2>1, <2>2 DEF linestream__create
<1>5. CASE linestream__destroy
  BY <1>2, <1>5 DEF linestream__destroy, readbuffer__destroy
<1>6. CASE ScanHit
  <2>1. PICK n \in 1 .. length : readbuffer__consume(n)
    BY <1>6 DEF ScanHit
  <2>2. n \in 0 .. length /\ UNCHANGED << file, pos >>
    BY <1>0, <1>6, <2>1 DEF ScanHit
  <2>3. length' = length - n /\ view' = SubSeq(view, n + 1, length)
    BY <1>0, <2>1, <2>2, ConsumeTakes
  <2>4. \A k \in 1 .. length - n : view'[k] = view[n + k]
    BY <1>0, <2>2, <2>3, SplitsAt
  <2>5. ASSUME NEW k \in 1 .. length - n
        PROVE  view'[k] = file[pos - (length - n) + k]
    <3>1. n + k \in 1 .. length
      BY <1>0, <2>2
    <3>2. pos - length + (n + k) = pos - (length - n) + k
      BY <1>0, <2>2
    <3> QED
      BY <1>0, <2>4, <3>1, <3>2
  <2>6. length - n <= pos
    BY <1>0, <2>2
  <2> QED
    BY <2>2, <2>3, <2>5, <2>6 DEF ViewIsFile
<1>7. CASE Assure
  <2>1. READ_BUFFERING_SIZE \in 0 .. SIZE_MAX
    BY StreamAssumption, ConstantsAssumption
  <2>2. readbuffer__assure(READ_BUFFERING_SIZE) /\ UNCHANGED << file, pos >>
    BY <1>7 DEF Assure
  <2>3. view' = view
    BY <1>0, <2>1, <2>2, AssureInv DEF view
  <2>4. length' = length
    BY <2>2 DEF readbuffer__assure, AssureHasRoom, AssureCompacts,
                AssureOverflows, AssureAllocationFails, AssureGrows, Memory
  <2> QED
    BY <1>1, <2>2, <2>3, <2>4
<1>8. ASSUME NEW n \in 1 .. MaxFile, ReadData(n)
      PROVE  ViewIsFile'
  <2> DEFINE bytes == SubSeq(file, pos + 1, pos + n)
  <2>1. /\ n \in Nat /\ n <= Len(file) - pos /\ pos' = pos + n
        /\ file' = file /\ readbuffer__commit_write(bytes)
        /\ n <= readbuffer__get_write_cursor_limit
    BY <1>8, StreamAssumption DEF ReadData
  <2>2. /\ bytes \in Seq(Byte) /\ Len(bytes) = n
        /\ \A k \in 1 .. n : bytes[k] = file[pos + k]
    BY <1>0, <2>1
  <2> HIDE DEF bytes
  <2>3. length' = length + n /\ view' = view \o bytes
    BY <1>0, <2>1, <2>2, CommitAppends
  <2>4. \A k \in 1 .. length + n :
          (view \o bytes)[k]
            = IF k <= length THEN view[k] ELSE bytes[k - length]
    <3>1. /\ view \in Seq(Byte) /\ bytes \in Seq(Byte)
          /\ Len(view) = length /\ Len(bytes) = n
      BY <1>0, <2>2
    <3> QED
      BY <3>1, ConcatProperties
  <2>5. ASSUME NEW k \in 1 .. length + n
        PROVE  (view \o bytes)[k] = file[(pos + n) - (length + n) + k]
    <3>1. (pos + n) - (length + n) + k = pos - length + k
      BY <1>0, <2>1
    <3>2. CASE k <= length
      <4>1. k \in 1 .. length
        BY <1>0, <3>2
      <4> QED
        BY <1>0, <2>4, <3>1, <3>2, <4>1
    <3>3. CASE ~ (k <= length)
      <4> DEFINE j == k - length
      <4>1. j \in 1 .. n /\ pos + j = pos - length + k
        BY <1>0, <2>1, <3>3
      <4>2. (view \o bytes)[k] = bytes[j]
        BY <2>4, <3>3
      <4> HIDE DEF j
      <4> QED
        BY <2>2, <3>1, <4>1, <4>2
    <3> QED
      BY <3>2, <3>3
  <2>6. length + n <= pos + n
    BY <1>0, <2>1
  <2> QED
    BY <2>1, <2>3, <2>5, <2>6 DEF ViewIsFile
<1>9. CASE ReadEnds
  <2>1. CASE length = 0
    BY <1>3, <1>9, <2>1 DEF ReadEnds
  <2>2. CASE length # 0
    <3>1. readbuffer__consume(length) /\ UNCHANGED << file, pos >>
      BY <1>9, <2>2 DEF ReadEnds
    <3>2. length \in 0 .. length /\ length - length = 0
      BY <1>0
    <3>3. length' = 0
      BY <1>0, <3>1, <3>2, ConsumeTakes
    <3> QED
      BY <1>2, <3>1, <3>3
  <2> QED
    BY <2>1, <2>2
<1>10. ASSUME NEW byte \in Byte, Grow(byte)
       PROVE  ViewIsFile'
  <2>1. UNCHANGED << view, length, pos >> /\ file' = Append(file, byte)
    BY <1>0, <1>10, SameBuffer DEF Grow, streamVars
  <2>2. \A k \in 1 .. Len(file) : file'[k] = file[k]
    BY <1>0, <2>1
  <2>3. ASSUME NEW k \in 1 .. length
        PROVE  view[k] = file'[pos - length + k]
    <3>1. pos - length + k \in 1 .. Len(file)
      BY <1>0
    <3> QED
      BY <1>0, <2>2, <3>1
  <2> QED
    BY <1>0, <2>1, <2>3 DEF ViewIsFile
<1>11. CASE NullStream \/ Call \/ ScanMiss \/ ReadFails \/ UNCHANGED allVars
  BY <1>3, <1>11 DEF NullStream, Call, ScanMiss, ReadFails, allVars,
                     streamVars
<1> QED
  BY <1>4, <1>5, <1>6, <1>7, <1>8, <1>9, <1>10, <1>11
     DEF StreamNext, InCall

(* What has been read stays read, and a line in it stays a line. *)
LEMMA RunsStay ==
  ASSUME StreamInv, StreamInv', pos <= pos',
         \A k \in 1 .. pos : file'[k] = file[k]
  PROVE  Runs \subseteq Runs'
<1>1. pos \in Nat /\ pos' \in Nat
  BY DEF StreamInv, StreamTypes
<1>2. 1 .. pos + 1 \subseteq 1 .. pos' + 1 /\ 0 .. pos \subseteq 0 .. pos'
  BY <1>1
<1> SUFFICES ASSUME NEW r \in Runs PROVE r \in Runs'
  OBVIOUS
<1>3. /\ r \in (1 .. pos + 1) \X (0 .. pos)
      /\ \A k \in r[1] .. r[2] : file[k] # NL
  BY DEF Runs
<1>4. r[1] .. r[2] \subseteq 1 .. pos
  BY <1>1, <1>3
<1>5. \A k \in r[1] .. r[2] : file'[k] # NL
  BY <1>3, <1>4
<1>6. r \in (1 .. pos' + 1) \X (0 .. pos')
  BY <1>2, <1>3
<1> QED
  BY <1>5, <1>6 DEF Runs

(* A larger block is asked for only when the view, all of one line, and    *)
(* what a read may add do not fit into the one there is.                   *)
LEMMA GrowsForALine ==
  ASSUME StreamInv, ViewIsFile, pc = "assure",
         AssureGrows(READ_BUFFERING_SIZE)
  PROVE  \E r \in Runs :
           capacity' < 2 * ((r[2] + 1 - r[1]) + READ_BUFFERING_SIZE)
<1>0. /\ length \in Nat /\ pos \in Nat /\ length <= pos
      /\ READ_BUFFERING_SIZE \in Nat \ {0} /\ SIZE_MAX \in Nat
  BY RestNow, StreamAssumption, ConstantsAssumption
     DEF StreamInv, ViewIsFile
<1> DEFINE r == << pos - length + 1, pos >>
<1>1. r \in (1 .. pos + 1) \X (0 .. pos)
  BY <1>0
<1>2. ASSUME NEW k \in pos - length + 1 .. pos
      PROVE  file[k] # NL
  <2> DEFINE j == k - (pos - length)
  <2>1. j \in 1 .. length /\ pos - length + j = k
    BY <1>0
  <2> HIDE DEF j
  <2>2. view[j] # NL
    <3>1. scanned = length
      BY DEF StreamInv, AllScanned
    <3>2. \A i \in 1 .. scanned : view[i] # NL
      BY DEF StreamInv, SkippedHasNoNewline
    <3> QED
      BY <2>1, <3>1, <3>2
  <2> QED
    BY <2>1, <2>2 DEF ViewIsFile
<1>3. r \in Runs
  BY <1>1, <1>2 DEF Runs
<1>4. capacity' < 2 * (length + READ_BUFFERING_SIZE)
  <2>1. PICK c \in PowersOfTwo :
          /\ next_power_of_two(length + READ_BUFFERING_SIZE, c)
          /\ capacity' = c
    BY DEF AssureGrows
  <2>2. length + READ_BUFFERING_SIZE \in Nat \ {0}
    BY <1>0
  <2> QED
    BY <2>1, <2>2, NextPowerIsClose
<1>5. r[2] + 1 - r[1] = length
  BY <1>0
<1> HIDE DEF r
<1> QED
  BY <1>3, <1>4, <1>5

LEMMA BufferStep ==
  ASSUME StreamInv, StreamInv', ViewIsFile, BufferFollowsLongestLine,
         [StreamNext]_allVars
  PROVE  BufferFollowsLongestLine'
<1>0. /\ file \in Seq(Byte) /\ pos \in 0 .. Len(file) /\ Len(file) \in Nat
      /\ PageSize \in Nat
  BY StreamAssumption, ConstantsAssumption DEF StreamInv, StreamTypes
<1>1. ASSUME capacity' = capacity, pos <= pos',
             \A k \in 1 .. pos : file'[k] = file[k]
      PROVE  BufferFollowsLongestLine'
  BY <1>1, RunsStay DEF BufferFollowsLongestLine
<1>2. ASSUME UNCHANGED << capacity, file, pos >>
      PROVE  BufferFollowsLongestLine'
  BY <1>2 DEF BufferFollowsLongestLine, Runs
<1>3. CASE linestream__create
  <2>1. CASE InitFails
    BY <1>2, <1>3, <2>1 DEF linestream__create, InitFails, Memory
  <2>2. CASE readbuffer__init(PageSize)
    BY <1>0, <2>2 DEF readbuffer__init, BufferFollowsLongestLine
  <2> QED
    BY <1>3, <2>1, <2>2 DEF linestream__create
<1>4. CASE linestream__destroy
  BY <1>0, <1>4
     DEF linestream__destroy, readbuffer__destroy, BufferFollowsLongestLine
<1>5. CASE Assure
  <2>1. UNCHANGED << file, pos >> /\ pc = "assure"
    BY <1>5 DEF Assure
  <2>2. CASE AssureGrows(READ_BUFFERING_SIZE)
    <3>1. \E r \in Runs :
            capacity' < 2 * ((r[2] + 1 - r[1]) + READ_BUFFERING_SIZE)
      BY <2>1, <2>2, GrowsForALine
    <3>2. Runs' = Runs
      BY <2>1 DEF Runs
    <3> QED
      BY <3>1, <3>2 DEF BufferFollowsLongestLine
  <2>3. CASE ~ AssureGrows(READ_BUFFERING_SIZE)
    <3>1. capacity' = capacity
      BY <1>5, <2>3
         DEF Assure, readbuffer__assure, AssureHasRoom, AssureCompacts,
             AssureOverflows, AssureAllocationFails, Memory
    <3> QED
      BY <1>2, <2>1, <3>1
  <2> QED
    BY <2>2, <2>3
<1>6. CASE ScanHit \/ ReadEnds
  <2>1. capacity' = capacity /\ UNCHANGED << file, pos >>
    BY <1>6 DEF ScanHit, ReadEnds, readbuffer__consume, Memory, bufferVars,
                vars
  <2> QED
    BY <1>2, <2>1
<1>7. ASSUME NEW n \in 1 .. MaxFile, ReadData(n)
      PROVE  BufferFollowsLongestLine'
  <2>1. capacity' = capacity /\ file' = file /\ pos' = pos + n
    BY <1>7 DEF ReadData, readbuffer__commit_write, Memory
  <2>2. pos <= pos'
    BY <1>0, <2>1
  <2> QED
    BY <1>1, <2>1, <2>2
<1>8. ASSUME NEW byte \in Byte, Grow(byte)
      PROVE  BufferFollowsLongestLine'
  <2>1. /\ capacity' = capacity /\ pos' = pos
        /\ file' = Append(file, byte)
    BY <1>8 DEF Grow, bufferVars, vars, streamVars
  <2>2. pos <= pos' /\ \A k \in 1 .. pos : file'[k] = file[k]
    BY <1>0, <2>1
  <2> QED
    BY <1>1, <2>1, <2>2
<1>9. CASE NullStream \/ Call \/ ScanMiss \/ ReadFails \/ UNCHANGED allVars
  BY <1>2, <1>9 DEF NullStream, Call, ScanMiss, ReadFails, allVars,
                    bufferVars, vars, streamVars
<1> QED
  BY <1>3, <1>4, <1>5, <1>6, <1>7, <1>8, <1>9 DEF StreamNext, InCall

(* Between and during calls of next() the buffer is in order, and what is  *)
(* known of the call that is under way is true.                            *)
THEOREM StreamInvariance == StreamSpec => []StreamInv
<1>1. StreamInv /\ [StreamNext]_allVars => StreamInv'
  BY StreamNextStep
<1> QED
  BY <1>1, StreamStarts, PTL DEF StreamSpec

(* Whatever the buffer does between two rounds of the loop (compact, grow, *)
(* fill), the bytes that are not looked at again are in the view and none  *)
(* of them is a newline.                                                   *)
THEOREM ResumesCorrectly == StreamSpec => []SkippedHasNoNewline
<1>1. StreamInv => SkippedHasNoNewline
  BY DEF StreamInv
<1> QED
  BY <1>1, StreamInvariance, PTL

(* However many lines have gone through it, the buffer stays below twice   *)
(* what the longest of them, and one more read, need: the growth of        *)
(* readbuffer__assure() is never driven by what has been consumed.         *)
THEOREM BufferStaysSmall == StreamSpec => []BufferFollowsLongestLine
<1> DEFINE Inv == ViewIsFile /\ BufferFollowsLongestLine
<1>1. StreamInit => Inv
  <2> SUFFICES ASSUME StreamInit PROVE Inv
    OBVIOUS
  <2>1. length = 0 /\ pos = 0 /\ capacity = 0 /\ 1 .. 0 = {} /\ 0 <= 0
    BY DEF StreamInit, Init
  <2>2. 0 <= PageSize
    BY StreamAssumption, ConstantsAssumption
  <2> QED
    BY <2>1, <2>2 DEF ViewIsFile, BufferFollowsLongestLine
<1>2. StreamInv /\ StreamInv' /\ Inv /\ [StreamNext]_allVars => Inv'
  BY ViewIsFileStep, BufferStep
<1>3. Inv => BufferFollowsLongestLine
  OBVIOUS
<1> HIDE DEF Inv
<1> QED
  BY <1>1, <1>2, <1>3, StreamInvariance, PTL DEF StreamSpec

(* For every file, buffer and read size the stream hands out the lines of  *)
(* the file in order; a call that fails takes nothing away.                *)
THEOREM ImplementsLines == StreamSpec => LinesSpec
<1>1. StreamInv /\ [StreamNext]_allVars => StreamStep
  BY StreamNextStep
<1> QED
  BY <1>1, StreamStarts, StreamInvariance, PTL
     DEF StreamSpec, StreamStep, LinesSpec, Stream!Spec

-----------------------------------------------------------------------------
(* The search by line.  First what Keep leaves of a sequence; induction is  *)
(* by least counterexample.                                                *)

(* Some of these numbers are bad only if one of them is the first. *)
LEMMA FirstBad ==
  ASSUME NEW n \in Nat, NEW S \in SUBSET (0 .. n), S # {}, 0 \notin S
  PROVE  \E k \in 1 .. n : k \in S /\ k - 1 \notin S
<1>1. S \in SUBSET Nat
  OBVIOUS
<1>2. PICK k \in S : \A j \in S : k <= j
  BY <1>1, Least
<1>3. k \in 1 .. n /\ k - 1 \notin S
  BY <1>2
<1> QED
  BY <1>2, <1>3

-----------------------------------------------------------------------------
(* Keep *)

KeepStep(s, T, g, n) ==
  IF n = 0 THEN << >>
  ELSE IF s[n] \in T THEN Append(g[n - 1], s[n]) ELSE g[n - 1]

IsKeep(s, T, g) == g = [n \in 0 .. Len(s) |-> KeepStep(s, T, g, n)]

(* The recursion of Keep defines a function. *)
LEMMA KeepExists ==
  ASSUME NEW S, NEW s \in Seq(S), NEW T
  PROVE  \E g : IsKeep(s, T, g)
<1> DEFINE Good(n) ==
      \E g : /\ DOMAIN g = 0 .. n
             /\ g = [k \in 0 .. n |-> g[k]]
             /\ \A k \in 0 .. n : g[k] = KeepStep(s, T, g, k)
           Bad == { n \in 0 .. Len(s) : ~ Good(n) }
<1>0. Len(s) \in Nat
  OBVIOUS
<1>1. Good(0)
  <2> DEFINE g == [k \in 0 .. 0 |-> << >>]
  <2>1. DOMAIN g = 0 .. 0 /\ g = [k \in 0 .. 0 |-> g[k]]
    OBVIOUS
  <2>2. \A k \in 0 .. 0 : k = 0
    OBVIOUS
  <2>3. \A k \in 0 .. 0 : g[k] = KeepStep(s, T, g, k)
    BY <2>2 DEF KeepStep
  <2> QED
    BY <2>1, <2>3
<1>2. ASSUME NEW n \in 1 .. Len(s), Good(n - 1) PROVE Good(n)
  <2>1. PICK g : /\ DOMAIN g = 0 .. n - 1
                 /\ g = [k \in 0 .. n - 1 |-> g[k]]
                 /\ \A k \in 0 .. n - 1 : g[k] = KeepStep(s, T, g, k)
    BY <1>2
  <2> DEFINE h == [k \in 0 .. n |->
                     IF k = n THEN KeepStep(s, T, g, n) ELSE g[k]]
  <2>2. DOMAIN h = 0 .. n /\ h = [k \in 0 .. n |-> h[k]]
    OBVIOUS
  <2>3. \A k \in 0 .. n - 1 : h[k] = g[k]
    BY <1>0
  <2>4. h[n] = KeepStep(s, T, g, n)
    BY <1>0
  <2> HIDE DEF h
  <2>5. ASSUME NEW k \in 0 .. n PROVE h[k] = KeepStep(s, T, h, k)
    <3>1. KeepStep(s, T, h, k) = KeepStep(s, T, g, k)
      <4>1. CASE k = 0
        BY <4>1 DEF KeepStep
      <4>2. CASE k # 0
        <5>1. k - 1 \in 0 .. n - 1
          BY <4>2, <1>0
        <5>2. h[k - 1] = g[k - 1]
          BY <5>1, <2>3
        <5> QED
          BY <5>2 DEF KeepStep
      <4> QED
        BY <4>1, <4>2
    <3>2. k = n \/ k \in 0 .. n - 1
      BY <1>0
    <3> QED
      BY <3>1, <3>2, <2>1, <2>3, <2>4
  <2> QED
    BY <2>2, <2>5
<1> HIDE DEF Good
<1>3. Bad = {}
  <2> SUFFICES ASSUME Bad # {} PROVE FALSE
    OBVIOUS
  <2>1. Bad \in SUBSET (0 .. Len(s)) /\ 0 \notin Bad
    BY <1>1
  <2>2. PICK n \in 1 .. Len(s) : n \in Bad /\ n - 1 \notin Bad
    BY <1>0, <2>1, FirstBad
  <2>3. n - 1 \in 0 .. Len(s)
    BY <1>0
  <2> QED
    BY <1>2, <2>2, <2>3
<1>4. Good(Len(s))
  BY <1>0, <1>3
<1>5. PICK g : /\ DOMAIN g = 0 .. Len(s)
               /\ g = [k \in 0 .. Len(s) |-> g[k]]
               /\ \A k \in 0 .. Len(s) : g[k] = KeepStep(s, T, g, k)
  BY <1>4 DEF Good
<1>6. g = [n \in 0 .. Len(s) |-> KeepStep(s, T, g, n)]
  BY <1>5
<1> QED
  BY <1>6 DEF IsKeep

LEMMA KeepIs ==
  ASSUME NEW S, NEW s \in Seq(S), NEW T
  PROVE  \E g : IsKeep(s, T, g) /\ Keep(s, T) = g[Len(s)]
<1>1. Keep(s, T) = (CHOOSE g : g = [n \in 0 .. Len(s) |->
          IF n = 0 THEN << >>
          ELSE IF s[n] \in T THEN Append(g[n - 1], s[n])
                             ELSE g[n - 1]])[Len(s)]
  BY DEF Keep
<1>2. Keep(s, T) = (CHOOSE g : IsKeep(s, T, g))[Len(s)]
  BY <1>1 DEF IsKeep, KeepStep
<1>3. IsKeep(s, T, CHOOSE g : IsKeep(s, T, g))
  BY KeepExists
<1> QED
  BY <1>2, <1>3

(* What is kept of one element more *)
LEMMA KeepAppend ==
  ASSUME NEW S, NEW s \in Seq(S), NEW x \in S, NEW T
  PROVE  Keep(Append(s, x), T)
           = IF x \in T THEN Append(Keep(s, T), x) ELSE Keep(s, T)
<1> DEFINE t == Append(s, x)
           m == Len(s)
<1>1. /\ t \in Seq(S) /\ Len(t) = m + 1 /\ t[m + 1] = x /\ m \in Nat
      /\ \A k \in 1 .. m : t[k] = s[k]
  OBVIOUS
<1>2. PICK g : IsKeep(s, T, g) /\ Keep(s, T) = g[Len(s)]
  BY KeepIs
<1>3. PICK h : IsKeep(t, T, h) /\ Keep(t, T) = h[Len(t)]
  BY <1>1, KeepIs
<1>4. \A n \in 0 .. m : g[n] = KeepStep(s, T, g, n)
  BY <1>2 DEF IsKeep
<1> HIDE DEF t, m
<1>5. \A n \in 0 .. m + 1 : h[n] = KeepStep(t, T, h, n)
  BY <1>1, <1>3 DEF IsKeep
<1> DEFINE Bad == { n \in 0 .. m : h[n] # g[n] }
<1>6. g[0] = << >> /\ h[0] = << >>
  <2>1. 0 \in 0 .. m /\ 0 \in 0 .. m + 1
    BY <1>1
  <2>2. g[0] = KeepStep(s, T, g, 0) /\ h[0] = KeepStep(t, T, h, 0)
    BY <2>1, <1>4, <1>5
  <2> QED
    BY <2>2 DEF KeepStep
<1>7. ASSUME NEW n \in 1 .. m, h[n - 1] = g[n - 1] PROVE h[n] = g[n]
  <2>1. /\ n \in 0 .. m /\ n \in 0 .. m + 1 /\ n # 0
        /\ t[n] = s[n]
    BY <1>1
  <2>2. g[n] = KeepStep(s, T, g, n) /\ h[n] = KeepStep(t, T, h, n)
    BY <2>1, <1>4, <1>5
  <2> QED
    BY <2>1, <2>2, <1>7 DEF KeepStep
<1>8. Bad = {}
  <2> SUFFICES ASSUME Bad # {} PROVE FALSE
    OBVIOUS
  <2>1. Bad \in SUBSET (0 .. m) /\ 0 \notin Bad
    BY <1>6
  <2>2. PICK n \in 1 .. m : n \in Bad /\ n - 1 \notin Bad
    BY <1>1, <2>1, FirstBad
  <2>3. n - 1 \in 0 .. m
    BY <1>1
  <2> QED
    BY <1>7, <2>2, <2>3
<1>9. h[m] = g[m]
  BY <1>1, <1>8
<1>10. Keep(t, T) = KeepStep(t, T, h, m + 1)
  BY <1>1, <1>3, <1>5
<1>11. m + 1 # 0 /\ (m + 1) - 1 = m
  BY <1>1
<1>12. Keep(s, T) = g[m]
  BY <1>2 DEF m
<1>13. Keep(t, T) = IF x \in T THEN Append(Keep(s, T), x) ELSE Keep(s, T)
  BY <1>1, <1>9, <1>10, <1>11, <1>12 DEF KeepStep
<1> QED
  BY <1>13 DEF t

LEMMA KeepTyped ==
  ASSUME NEW S, NEW s \in Seq(S), NEW T
  PROVE  Keep(s, T) \in Seq(S)
<1>1. PICK g : IsKeep(s, T, g) /\ Keep(s, T) = g[Len(s)]
  BY KeepIs
<1>0. Len(s) \in Nat /\ \A j \in 1 .. Len(s) : s[j] \in S
  OBVIOUS
<1> DEFINE Bad == { n \in 0 .. Len(s) : g[n] \notin Seq(S) }
<1>2. \A n \in 0 .. Len(s) : g[n] = KeepStep(s, T, g, n)
  BY <1>1 DEF IsKeep
<1>3. g[0] \in Seq(S)
  <2>1. g[0] = KeepStep(s, T, g, 0)
    BY <1>0, <1>2
  <2>2. g[0] = << >>
    BY <2>1 DEF KeepStep
  <2> QED
    BY <2>2
<1>4. ASSUME NEW n \in 1 .. Len(s), g[n - 1] \in Seq(S)
      PROVE  g[n] \in Seq(S)
  <2>1. g[n] = KeepStep(s, T, g, n) /\ n # 0 /\ s[n] \in S
    BY <1>0, <1>2
  <2> QED
    BY <2>1, <1>4 DEF KeepStep
<1>5. Bad = {}
  <2> SUFFICES ASSUME Bad # {} PROVE FALSE
    OBVIOUS
  <2>1. Bad \in SUBSET (0 .. Len(s)) /\ 0 \notin Bad
    BY <1>3
  <2>2. PICK n \in 1 .. Len(s) : n \in Bad /\ n - 1 \notin Bad
    BY <1>0, <2>1, FirstBad
  <2>3. n - 1 \in 0 .. Len(s)
    BY <1>0
  <2> QED
    BY <1>4, <2>2, <2>3
<1> QED
  BY <1>0, <1>1, <1>5

LEMMA KeepNone ==
  ASSUME NEW T
  PROVE  Keep(<< >>, T) = << >>
<1>1. << >> \in Seq({}) /\ Len(<< >>) = 0
  OBVIOUS
<1>2. PICK g : IsKeep(<< >>, T, g) /\ Keep(<< >>, T) = g[Len(<< >>)]
  BY <1>1, KeepIs
<1>3. g[0] = KeepStep(<< >>, T, g, 0)
  BY <1>1, <1>2 DEF IsKeep
<1> QED
  BY <1>1, <1>2, <1>3 DEF KeepStep

-----------------------------------------------------------------------------
(* The search by line *)

(* Where in the file the next line begins *)
Rest == (pos - length) + 1

Newlines(p) == { k \in 1 .. p - 1 : file[k] = NL }

(* Line n begins at p. *)
StartsLine(p, n) ==
  /\ p \in 1 .. Len(file) + 1
  /\ p = 1 \/ file[p - 1] = NL
  /\ Cardinality(Newlines(p)) = n - 1

SearchTypes ==
  /\ pattern \in Patterns
  /\ at \in { "start", "call", "next", "line", "over",
              "done", "failed", "exited" }
  /\ lineno \in Nat
  /\ off \in Nat
  /\ out \in Seq(Reports)

(* Between two lines the view and what is left of the file begin a line,   *)
(* or nothing is left.                                                     *)
BetweenLines ==
  at \in { "start", "call", "next", "over" } =>
    off = 0 /\ (StartsLine(Rest, lineno + 1) \/ Rest = Len(file) + 1)

(* What the stream is doing meanwhile *)
Phases ==
  /\ at = "start" => ~ exists
  /\ at = "over" /\ status = "EOF" => length = 0 /\ pos = Len(file)
  /\ at \in { "call", "line", "over" } => pc = "idle"

(* The string is what lies from b to the end of the line or of the file,   *)
(* and the stream has come to what lies behind that.                       *)
HoldsLine(b) ==
  /\ string.size \in Nat
  /\ string.cursor \in Nat
  /\ \A i \in 1 .. string.size :
       /\ string.cursor + i - 1 \in DOMAIN data
       /\ data[string.cursor + i - 1] = file[b + i - 1]

LineEnds(b) ==
  LET e == b + string.size
  IN  /\ \A p \in b .. e - 1 : p <= Len(file) /\ file[p] # NL
      /\ \/ e <= Len(file) /\ file[e] = NL /\ Rest = e + 1
         \/ e = Len(file) + 1 /\ Rest = e

InALine ==
  at = "line" =>
    \E b \in 1 .. Len(file) + 1 :
      StartsLine(b, lineno + 1) /\ HoldsLine(b) /\ LineEnds(b)

(* The inductive invariant of the search, on top of that of the stream.    *)
(* What memmem() is given is known only from HoldsLine; that a report is   *)
(* counted in the right line needs BetweenLines, and that nothing is left  *)
(* to be found when the search ends needs Phases.                          *)
SearchInv ==
  /\ StreamInv /\ ViewIsFile
  /\ SearchTypes /\ BetweenLines /\ Phases /\ InALine

LEMMA NewlinesAreFinite ==
  ASSUME NEW p \in Nat
  PROVE  IsFiniteSet(Newlines(p)) /\ Cardinality(Newlines(p)) \in Nat
<1>1. IsFiniteSet(1 .. p - 1)
  BY FS_Interval
<1>2. Newlines(p) \subseteq 1 .. p - 1
  BY DEF Newlines
<1> QED
  BY <1>1, <1>2, FS_Subset, FS_CardinalityType

(* Behind a newline there is one more. *)
LEMMA OneMoreNewline ==
  ASSUME NEW p \in Nat, NEW q \in Nat, 1 <= p, p < q, file[q - 1] = NL
  PROVE  Cardinality(Newlines(p)) + 1 <= Cardinality(Newlines(q))
<1> DEFINE A == Newlines(p)
           B == A \cup {q - 1}
<1>1. /\ IsFiniteSet(A) /\ Cardinality(A) \in Nat
      /\ IsFiniteSet(Newlines(q)) /\ Cardinality(Newlines(q)) \in Nat
  BY NewlinesAreFinite
<1>2. q - 1 \notin A
  BY DEF Newlines
<1>3. B \subseteq Newlines(q)
  BY DEF Newlines
<1>4. Cardinality(B) = Cardinality(A) + 1
  BY <1>1, <1>2, FS_AddElement
<1>5. Cardinality(B) <= Cardinality(Newlines(q))
  BY <1>1, <1>3, FS_Subset
<1> QED
  BY <1>4, <1>5

(* The next line begins behind the first newline. *)
LEMMA NextLineStarts ==
  ASSUME NEW b \in Nat, NEW n \in Int, StartsLine(b, n), NEW e \in Nat,
         b <= e, e <= Len(file), file[e] = NL,
         \A p \in b .. e - 1 : file[p] # NL, Len(file) \in Nat
  PROVE  StartsLine(e + 1, n + 1)
<1>1. Newlines(e + 1) = Newlines(b) \cup {e} /\ e \notin Newlines(b)
  BY DEF Newlines, StartsLine
<1>2. Cardinality(Newlines(e + 1)) = Cardinality(Newlines(b)) + 1
  BY <1>1, NewlinesAreFinite, FS_AddElement
<1>3. Cardinality(Newlines(b)) = n - 1
  BY DEF StartsLine
<1>4. Cardinality(Newlines(e + 1)) = (n + 1) - 1
  BY <1>2, <1>3
<1>5. e + 1 \in 1 .. Len(file) + 1 /\ (e + 1) - 1 = e
  BY DEF StartsLine
<1> QED
  BY <1>4, <1>5 DEF StartsLine

(* A line begins at one position only. *)
LEMMA LineStartIs ==
  ASSUME NEW b, NEW n \in Int, StartsLine(b, n), Len(file) \in Nat
  PROVE  LineStart(n) = b
<1>1. ASSUME NEW p, NEW q, StartsLine(p, n), StartsLine(q, n), p < q
      PROVE  FALSE
  <2>1. /\ p \in Nat /\ q \in Nat /\ 1 <= p /\ file[q - 1] = NL
        /\ Cardinality(Newlines(p)) = n - 1
        /\ Cardinality(Newlines(q)) = n - 1
    BY <1>1 DEF StartsLine
  <2> QED
    BY <1>1, <2>1, OneMoreNewline
<1>2. \A p : StartsLine(p, n) => p = b
  <2> SUFFICES ASSUME NEW p, StartsLine(p, n) PROVE p = b
    OBVIOUS
  <2>1. p \in Nat /\ b \in Nat
    BY DEF StartsLine
  <2>2. ~ (p < b) /\ ~ (b < p)
    BY <1>1
  <2> QED
    BY <2>1, <2>2
<1>3. LineStart(n) = CHOOSE p \in 1 .. Len(file) + 1 : StartsLine(p, n)
  BY DEF LineStart, StartsLine, Newlines
<1>4. b \in 1 .. Len(file) + 1
  BY DEF StartsLine
<1> QED
  BY <1>2, <1>3, <1>4

-----------------------------------------------------------------------------
(* What the search stands for *)
RefAt ==
  IF at = "line"
  THEN LineStart(lineno + 1)
       + (IF off < string.size THEN off ELSE string.size)
  ELSE (pos - length) + 1

RefReports == [k \in DOMAIN Inside |-> Position(Inside[k])]

RefState ==
  CASE at \in { "failed", "exited" } -> "abandoned"
    [] at = "done" -> "complete"
    [] OTHER -> "searching"

SearchStep ==
  [Reference!Next]_<< file, pattern, RefAt, RefReports, RefState >>

LEMMA SearchingWhile ==
  /\ at \in { "start", "call", "next", "line", "over" }
       => RefState = "searching"
  /\ at \in { "failed", "exited" } => RefState = "abandoned"
  /\ at = "done" => RefState = "complete"
  /\ at # "line" => RefAt = Rest
BY DEF RefState, RefAt, Rest

LEMMA SameLines ==
  ASSUME UNCHANGED << file, pattern >>
  PROVE  /\ \A n : LineStart(n)' = LineStart(n)
         /\ \A r : Position(r)' = Position(r)
         /\ \A r : InsideItsLine(r)' = InsideItsLine(r)
<1>1. \A n : LineStart(n)' = LineStart(n)
  BY DEF LineStart
<1>2. \A r : Position(r)' = Position(r)
  BY <1>1 DEF Position
<1>3. \A r : InsideItsLine(r)' = InsideItsLine(r)
  BY <1>1, <1>2 DEF InsideItsLine, pattern_len
<1> QED
  BY <1>1, <1>2, <1>3

LEMMA SameReports ==
  ASSUME UNCHANGED << file, pattern, out >>
  PROVE  UNCHANGED RefReports
<1>1. UNCHANGED Inside
  BY SameLines DEF Inside
<1> QED
  BY <1>1, SameLines DEF RefReports

(* A report counts if it lies within its line. *)
LEMMA ReportsGrow ==
  ASSUME UNCHANGED << file, pattern >>, out \in Seq(Reports),
         NEW r \in Reports, out' = Append(out, r)
  PROVE  RefReports' = IF InsideItsLine(r)
                       THEN Append(RefReports, Position(r)) ELSE RefReports
<1> DEFINE T == { report \in Reports : InsideItsLine(report) }
           a == Keep(out, T)
<1>1. T' = T
  BY SameLines
<1>2. Inside = a /\ Inside' = Keep(Append(out, r), T)
  BY <1>1 DEF Inside
<1>3. Inside' = IF r \in T THEN Append(a, r) ELSE a
  BY <1>2, KeepAppend
<1>4. a \in Seq(Reports)
  BY KeepTyped
<1>5. RefReports' = [k \in DOMAIN Inside' |-> Position(Inside'[k])]
  BY SameLines DEF RefReports
<1>6. RefReports = [k \in DOMAIN a |-> Position(a[k])]
  BY <1>2 DEF RefReports
<1>7. r \in T <=> InsideItsLine(r)
  OBVIOUS
<1> HIDE DEF T, a
<1>8. CASE ~ InsideItsLine(r)
  BY <1>3, <1>5, <1>6, <1>7, <1>8
<1>9. CASE InsideItsLine(r)
  <2> DEFINE b == Append(a, r)
             pos_(s) == [k \in DOMAIN s |-> Position(s[k])]
  <2>1. RefReports' = pos_(b) /\ RefReports = pos_(a)
    BY <1>3, <1>5, <1>6, <1>7, <1>9
  <2>2. pos_(b) = Append(pos_(a), Position(r))
    BY <1>4
  <2> QED
    BY <2>1, <2>2, <1>9
<1> QED
  BY <1>8, <1>9

LEMMA StutterStep ==
  ASSUME UNCHANGED << file, pattern, out, RefAt, RefState >>
  PROVE  SearchStep
BY SameReports DEF SearchStep

LEMMA GiveUpStep ==
  ASSUME RefState = "searching", RefState' = "abandoned",
         UNCHANGED << file, pattern, out >>
  PROVE  SearchStep
<1>1. Reference!GiveUp
  BY SameReports DEF Reference!GiveUp, RefState, RefReports
<1> QED
  BY <1>1 DEF SearchStep, Reference!Next, RefState

LEMMA PassStep ==
  ASSUME RefState = "searching", RefState' = "searching",
         UNCHANGED << file, pattern, RefReports >>, RefAt' > RefAt,
         Absent(pattern, file, RefAt, RefAt' - 1)
  PROVE  SearchStep
<1>1. Reference!Pass
  BY DEF Reference!Pass, RefState, RefReports, RefAt, Reference!Absent,
         Absent, Reference!Occurs, Occurs
<1> QED
  BY <1>1 DEF SearchStep, Reference!Next, RefState

LEMMA ReportStep ==
  ASSUME RefState = "searching", RefState' = "searching",
         UNCHANGED << file, pattern >>, NEW k \in 1 .. Len(file), k >= RefAt,
         Occurs(pattern, file, k), Absent(pattern, file, RefAt, k - 1),
         RefAt' = k + Len(pattern), RefReports' = Append(RefReports, k)
  PROVE  SearchStep
<1>1. Reference!Report(k)
  BY DEF Reference!Report, RefState, RefReports, RefAt, Reference!Absent,
         Absent, Reference!Occurs, Occurs
<1> QED
  BY <1>1 DEF SearchStep, Reference!Next, RefState

LEMMA CompleteStep ==
  ASSUME RefState = "searching", RefState' = "complete",
         UNCHANGED << file, pattern, out, RefAt >>, RefAt = Len(file) + 1,
         Len(file) \in Nat
  PROVE  SearchStep
<1>1. Reference!Absent(pattern, file, RefAt, Len(file))
  BY DEF Reference!Absent
<1>2. Reference!Complete
  BY <1>1, SameReports
     DEF Reference!Complete, RefState, RefReports, RefAt
<1> QED
  BY <1>2 DEF SearchStep, Reference!Next, RefState

-----------------------------------------------------------------------------
(* The steps of the search: each keeps the invariant, and is a step of the *)
(* abstract search or none.                                                *)

LEMMA SearchFacts ==
  ASSUME SearchInv
  PROVE  /\ IInv /\ file \in Seq(Byte) /\ Len(file) \in Nat
         /\ pos \in Nat /\ length \in Nat
         /\ length <= pos /\ pos <= Len(file)
         /\ Rest \in 1 .. Len(file) + 1
         /\ \A k \in 1 .. length : view[k] = file[Rest + k - 1]
<1>1. /\ IInv /\ file \in Seq(Byte) /\ Len(file) \in Nat
      /\ pos \in Nat /\ length \in Nat
      /\ length <= pos /\ pos <= Len(file)
      /\ \A k \in 1 .. length : view[k] = file[pos - length + k]
  BY RestNow DEF SearchInv, StreamInv, StreamTypes, ViewIsFile
<1>2. ASSUME NEW k \in 1 .. length
      PROVE  Rest + k - 1 = pos - length + k
  BY <1>1 DEF Rest
<1> QED
  BY <1>1, <1>2 DEF Rest

LEMMA StreamKeeps ==
  ASSUME SearchInv, [StreamNext]_allVars
  PROVE  StreamInv' /\ ViewIsFile'
BY StreamNextStep, ViewIsFileStep DEF SearchInv

LEMMA PatternTooLongStep ==
  ASSUME SearchInv, PatternTooLong
  PROVE  SearchInv' /\ SearchStep
<1>1. /\ at = "start" /\ at' = "exited"
      /\ UNCHANGED << allVars, pattern, lineno, off, out >>
  BY DEF PatternTooLong
<1>2. StreamInv' /\ ViewIsFile'
  BY <1>1, StreamKeeps
<1>3. SearchInv'
  BY <1>1, <1>2
     DEF SearchInv, SearchTypes, BetweenLines, Phases, InALine
<1>4. RefState = "searching" /\ RefState' = "abandoned"
  BY <1>1 DEF RefState
<1>5. SearchStep
  BY <1>1, <1>4, GiveUpStep DEF allVars
<1> QED
  BY <1>3, <1>5

(* A step of the stream that hands out no line *)
LEMMA BetweenStep ==
  ASSUME SearchInv, StreamInv', ViewIsFile', Phases',
         at \in { "start", "call", "next" },
         at' \in { "call", "next", "over" },
         UNCHANGED << file, pattern, lineno, off, out, Rest >>
  PROVE  SearchInv' /\ SearchStep
<1>1. SearchTypes' /\ InALine'
  BY DEF SearchInv, SearchTypes, InALine
<1>2. StartsLine(Rest, lineno + 1)' = StartsLine(Rest, lineno + 1)
  BY DEF StartsLine, Newlines
<1>3. BetweenLines'
  BY <1>2 DEF SearchInv, BetweenLines
<1>4. RefAt = Rest /\ RefAt' = Rest'
  BY DEF RefAt, Rest
<1>5. RefState = "searching" /\ RefState' = "searching"
  BY DEF RefState
<1>6. SearchStep
  BY <1>4, <1>5, StutterStep
<1> QED
  BY <1>1, <1>3, <1>6 DEF SearchInv

LEMMA CreateSearchStep ==
  ASSUME SearchInv, Create
  PROVE  SearchInv' /\ SearchStep
<1>1. /\ at = "start" /\ ~ exists /\ linestream__create
      /\ at' = IF status' = "INIT_FAILED" THEN "exited" ELSE "call"
      /\ UNCHANGED << file, pos, pattern, lineno, off, out >>
  BY DEF Create, linestream__create, SearchInv, Phases
<1>2. StreamInv' /\ ViewIsFile'
  BY <1>1, StreamKeeps DEF StreamNext
<1>3. CASE at' = "exited"
  <2>1. SearchInv'
    BY <1>1, <1>2, <1>3
       DEF SearchInv, SearchTypes, BetweenLines, Phases, InALine
  <2>2. RefState = "searching" /\ RefState' = "abandoned"
    BY <1>1, <1>3 DEF RefState
  <2> QED
    BY <1>1, <2>1, <2>2, GiveUpStep
<1>4. CASE at' # "exited"
  <2>1. at' = "call" /\ status' # "INIT_FAILED"
    BY <1>1, <1>4
  <2>2. readbuffer__init(PageSize)
    BY <1>1, <2>1 DEF linestream__create, Return
  <2>3. length = 0 /\ length' = 0
    BY <1>1, <2>2 DEF readbuffer__init, SearchInv, StreamInv, IInv, NoBlock
  <2>4. UNCHANGED Rest
    BY <1>1, <2>3 DEF Rest
  <2>5. Phases'
    BY <1>1, <2>1 DEF Phases, linestream__create, Return
  <2> QED
    BY <1>1, <1>2, <2>1, <2>4, <2>5, BetweenStep
<1> QED
  BY <1>3, <1>4

LEMMA CallNextStep ==
  ASSUME SearchInv, CallNext
  PROVE  SearchInv' /\ SearchStep
<1>1. /\ at = "call" /\ at' = "next" /\ Call
      /\ UNCHANGED << bufferVars, file, pos, pattern, lineno, off, out >>
  BY DEF CallNext, Call
<1>2. StreamInv' /\ ViewIsFile'
  BY <1>1, StreamKeeps DEF StreamNext
<1>3. UNCHANGED Rest /\ Phases'
  BY <1>1 DEF Rest, Phases, bufferVars, vars
<1> QED
  BY <1>1, <1>2, <1>3, BetweenStep

LEMMA FinishStep ==
  ASSUME SearchInv, Finish
  PROVE  SearchInv' /\ SearchStep
<1>1. /\ at = "over" /\ readbuffer__destroy
      /\ at' = IF status = "EOF" THEN "done" ELSE "failed"
      /\ UNCHANGED << file, pos, pc, scanned, status, string >>
      /\ UNCHANGED << pattern, lineno, off, out >>
  BY DEF Finish, streamVars
<1>2. IInv' /\ length' = 0 /\ IInv /\ pc = "idle"
  BY <1>1, DestroyInv
     DEF SearchInv, StreamInv, readbuffer__destroy, Phases
<1>3. StreamInv' /\ ViewIsFile'
  BY <1>1, <1>2
     DEF SearchInv, StreamInv, StreamTypes, OneCall, AllScanned,
         SkippedHasNoNewline, ViewIsFile
<1>4. SearchInv'
  BY <1>1, <1>3
     DEF SearchInv, SearchTypes, BetweenLines, Phases, InALine
<1>5. CASE status # "EOF"
  <2>1. RefState = "searching" /\ RefState' = "abandoned"
    BY <1>1, <1>5 DEF RefState
  <2> QED
    BY <1>1, <1>4, <2>1, GiveUpStep
<1>6. CASE status = "EOF"
  <2>1. length = 0 /\ pos = Len(file)
    BY <1>1, <1>6 DEF SearchInv, Phases
  <2>2. RefState = "searching" /\ RefState' = "complete"
    BY <1>1, <1>6 DEF RefState
  <2>3. Len(file) \in Nat
    BY SearchFacts
  <2>4. RefAt = Len(file) + 1 /\ UNCHANGED RefAt
    BY <1>1, <1>2, <1>6, <2>1, <2>3 DEF RefAt
  <2> QED
    BY <1>1, <1>4, <2>2, <2>3, <2>4, CompleteStep
<1> QED
  BY <1>5, <1>6


(* The string is the line at which the view began. *)
LEMMA LineTaken ==
  ASSUME SearchInv, StreamInv', ViewIsFile', at = "next", at' = "line",
         pc' = "idle",
         NEW k \in 1 .. length, readbuffer__consume(k),
         NEW m \in Nat, string' = [cursor |-> offset, size |-> m],
         \A i \in 1 .. m : view[i] # NL,
         \/ m = k - 1 /\ view[k] = NL
         \/ m = k /\ k = length /\ pos = Len(file),
         UNCHANGED << file, pos, pattern, lineno, off, out >>
  PROVE  SearchInv' /\ SearchStep
<1> DEFINE b == Rest
           n == lineno + 1
<1>1. /\ IInv /\ Len(file) \in Nat /\ pos \in Nat /\ length \in Nat
      /\ length <= pos /\ pos <= Len(file) /\ b \in 1 .. Len(file) + 1
      /\ \A j \in 1 .. length : view[j] = file[b + j - 1]
  BY SearchFacts
<1>2. /\ k \in Nat /\ 1 <= k /\ k <= length /\ m <= k
      /\ b = (pos - length) + 1
  BY <1>1 DEF Rest
<1>3. off = 0 /\ StartsLine(b, n) /\ n \in Int
  BY <1>1, <1>2 DEF SearchInv, SearchTypes, BetweenLines
<1>4. /\ UNCHANGED data /\ length' = length - k
      /\ string'.size = m /\ string'.cursor = offset
  <2>1. k \in 0 .. length
    BY <1>2, <1>1
  <2> QED
    BY <1>1, <2>1, ConsumeTakes
<1>5. Rest' = b + k
  BY <1>1, <1>2, <1>4 DEF Rest
<1>6. PICK c \in 1 .. Len(file) + 1 : c = b
  BY <1>1
<1>7. n' = n /\ Len(file)' = Len(file)
  OBVIOUS
<1>8. StartsLine(c, n)'
  BY <1>3, <1>6, <1>7 DEF StartsLine, Newlines
<1>9. HoldsLine(c)'
  <2>1. /\ offset \in Nat /\ offset + length <= capacity
        /\ capacity \in Nat /\ DOMAIN data = 0 .. (capacity - 1)
    BY <1>1, ConstantsAssumption DEF IInv, TypeOK, InBounds
  <2>2. ASSUME NEW i \in 1 .. m
        PROVE  /\ offset + i - 1 \in DOMAIN data
               /\ data[offset + i - 1] = file[c + i - 1]
    <3>1. i \in 1 .. length
      BY <1>1, <1>2
    <3>2. view[i] = data[offset + i - 1]
      BY <3>1 DEF view, readbuffer__get_read_view
    <3>3. offset + i - 1 \in 0 .. (capacity - 1)
      <4>1. i \in Nat /\ 1 <= i /\ i <= length /\ length \in Nat
        BY <1>1, <3>1
      <4>2. offset \in Nat /\ offset + length <= capacity /\ capacity \in Nat
        BY <2>1
      <4> QED
        BY <4>1, <4>2
    <3> QED
      BY <1>1, <1>6, <2>1, <3>1, <3>2, <3>3
  <2> QED
    BY <1>4, <2>1, <2>2 DEF HoldsLine
<1>10. LineEnds(c)'
  <2> DEFINE e == c + m
  <2>1. ASSUME NEW p \in c .. e - 1 PROVE p <= Len(file) /\ file[p] # NL
    <3> DEFINE i == (p - c) + 1
    <3>1. i \in 1 .. m /\ i \in 1 .. length /\ c + i - 1 = p
      BY <1>1, <1>2, <1>6
    <3>2. view[i] = file[p]
      BY <1>1, <1>6, <3>1
    <3>3. p <= Len(file)
      BY <1>1, <1>2, <1>6, <3>1
    <3> QED
      BY <3>1, <3>2, <3>3
  <2>2. \/ e <= Len(file) /\ file[e] = NL /\ Rest' = e + 1
        \/ e = Len(file) + 1 /\ Rest' = e
    <3>1. CASE m = k - 1 /\ view[k] = NL
      <4>1. e = b + k - 1 /\ e <= Len(file) /\ Rest' = e + 1
        BY <1>1, <1>2, <1>5, <1>6, <3>1
      <4> QED
        BY <1>1, <1>2, <3>1, <4>1
    <3>2. CASE m = k /\ k = length /\ pos = Len(file)
      BY <1>1, <1>2, <1>5, <1>6, <3>2
    <3> QED
      BY <3>1, <3>2
  <2>3. string'.size = m /\ file' = file
    BY <1>4
  <2> QED
    BY <2>1, <2>2, <2>3 DEF LineEnds
<1>11. InALine'
  BY <1>6, <1>7, <1>8, <1>9, <1>10 DEF InALine
<1>12. SearchTypes' /\ BetweenLines'
  BY DEF SearchInv, SearchTypes, BetweenLines
<1>13. Phases'
  BY DEF Phases
<1>14. RefAt' = RefAt
  <2>1. RefAt = b
    BY DEF RefAt, Rest
  <2>2. LineStart(n) = b
    BY <1>1, <1>3, LineStartIs
  <2>3. LineStart(n)' = LineStart(n)
    BY <1>7, SameLines
  <2>4. (IF off' < string'.size THEN off' ELSE string'.size) = 0
    BY <1>3, <1>4
  <2>5. RefAt' = LineStart(n)' + 0
    BY <2>4 DEF RefAt
  <2> QED
    BY <1>1, <2>1, <2>2, <2>3, <2>5
<1>15. RefState = "searching" /\ RefState' = "searching"
  BY DEF RefState
<1>16. SearchStep
  BY <1>14, <1>15, StutterStep
<1> QED
  BY <1>11, <1>12, <1>13, <1>16 DEF SearchInv


LEMMA HitLine ==
  ASSUME SearchInv, StreamInv', ViewIsFile', at = "next", ScanHit,
         at' = "line", UNCHANGED << pattern, lineno, off, out >>
  PROVE  SearchInv' /\ SearchStep
<1>1. PICK k \in 1 .. length :
        /\ FirstNewline(k)
        /\ readbuffer__consume(k)
        /\ Return("OK", [cursor |-> offset, size |-> k - 1])
  BY DEF ScanHit
<1>2. /\ UNCHANGED << file, pos >> /\ pc' = "idle"
      /\ string' = [cursor |-> offset, size |-> k - 1]
  BY <1>1 DEF ScanHit, Return
<1>3. length \in Nat /\ k - 1 \in Nat
  BY SearchFacts
<1>4. /\ scanned \in Nat /\ \A j \in 1 .. scanned : view[j] # NL
      /\ view[k] = NL /\ \A j \in scanned + 1 .. k - 1 : view[j] # NL
  BY <1>1 DEF ScanHit, FirstNewline, SearchInv, StreamInv, StreamTypes,
              SkippedHasNoNewline
<1>5. ASSUME NEW j \in 1 .. k - 1 PROVE view[j] # NL
  <2>1. j \in 1 .. scanned \/ j \in scanned + 1 .. k - 1
    BY <1>3, <1>4
  <2> QED
    BY <2>1, <1>4
<1> DEFINE m == k - 1
<1>6. /\ m \in Nat /\ m = k - 1 /\ \A j \in 1 .. m : view[j] # NL
      /\ string' = [cursor |-> offset, size |-> m]
  BY <1>2, <1>3, <1>5
<1> HIDE DEF m
<1> QED
  BY <1>1, <1>2, <1>4, <1>6, LineTaken

LEMMA ResidualLine ==
  ASSUME SearchInv, StreamInv', ViewIsFile', at = "next", ReadEnds,
         length # 0,
         at' = "line", UNCHANGED << pattern, lineno, off, out >>
  PROVE  SearchInv' /\ SearchStep
<1>1. /\ UNCHANGED << file, pos >> /\ pos = Len(file)
      /\ readbuffer__consume(length) /\ pc' = "idle"
      /\ string' = [cursor |-> offset, size |-> length]
  BY DEF ReadEnds, Return
<1>2. length \in Nat /\ length \in 1 .. length
  BY SearchFacts
<1>3. \A j \in 1 .. length : view[j] # NL
  BY DEF ReadEnds, SearchInv, StreamInv, AllScanned, SkippedHasNoNewline
<1>4. PICK k \in 1 .. length : k = length
  BY <1>2
<1>5. readbuffer__consume(k)
  BY <1>1, <1>4
<1> QED
  BY <1>1, <1>2, <1>3, <1>4, <1>5, LineTaken

LEMMA NextLineStep ==
  ASSUME SearchInv, NextLine
  PROVE  SearchInv' /\ SearchStep
<1>1. /\ at = "next" /\ InCall
      /\ at' = IF status' = "busy" THEN "next"
               ELSE IF status' = "OK" THEN "line" ELSE "over"
      /\ UNCHANGED << pattern, lineno, off, out >>
  BY DEF NextLine
<1>2. StreamInv' /\ ViewIsFile'
  BY <1>1, StreamKeeps DEF StreamNext
<1>3. /\ IInv /\ Len(file) \in Nat /\ pos \in Nat /\ length \in Nat
      /\ length <= pos /\ pos <= Len(file) /\ StreamInv
  BY SearchFacts DEF SearchInv
<1>4. pc # "idle" /\ status = "busy"
  BY <1>1, <1>3 DEF InCall, ScanHit, ScanMiss, Assure, ReadFails, ReadData,
                    ReadEnds, StreamInv, OneCall
(* It is enough that no line is handed out, and none is begun. *)
<1>5. ASSUME status' # "OK", UNCHANGED << file, Rest >>,
             status' = "EOF" => length' = 0 /\ pos' = Len(file)
      PROVE  SearchInv' /\ SearchStep
  <2>1. at' \in { "call", "next", "over" }
    BY <1>1, <1>5
  <2>2. status' # "busy" => pc' = "idle"
    BY <1>2 DEF StreamInv, OneCall
  <2>3. Phases'
    BY <1>1, <1>5, <2>2 DEF Phases
  <2> QED
    BY <1>1, <1>2, <1>5, <2>1, <2>3, BetweenStep
<1>6. CASE ScanHit
  <2>1. status' = "OK"
    BY <1>6 DEF ScanHit, Return
  <2> QED
    BY <1>1, <1>2, <1>6, <2>1, HitLine
<1>7. CASE ScanMiss
  <2>1. UNCHANGED << length, pos, file, status >>
    BY <1>7 DEF ScanMiss, bufferVars, vars
  <2> QED
    BY <1>4, <1>5, <2>1 DEF Rest
<1>8. CASE Assure
  <2>1. UNCHANGED << pos, file >>
    BY <1>8 DEF Assure
  <2>2. status' # "OK" /\ status' # "EOF"
    BY <1>4, <1>8 DEF Assure, Return
  <2>3. UNCHANGED length
    BY <1>8 DEF Assure, readbuffer__assure, AssureHasRoom, AssureCompacts,
                AssureOverflows, AssureAllocationFails, AssureGrows, Memory
  <2> QED
    BY <1>5, <2>1, <2>2, <2>3 DEF Rest
<1>9. CASE ReadFails
  <2>1. UNCHANGED << length, pos, file >> /\ status' = "READ_FAILED"
    BY <1>9 DEF ReadFails, Return, bufferVars, vars
  <2> QED
    BY <1>5, <2>1 DEF Rest
<1>10. ASSUME NEW n \in 1 .. MaxFile, ReadData(n)
       PROVE  SearchInv' /\ SearchStep
  <2> DEFINE bytes == SubSeq(file, pos + 1, pos + n)
  <2>1. /\ file \in Seq(Byte) /\ n \in Nat /\ n <= Len(file) - pos
        /\ n <= readbuffer__get_write_cursor_limit
        /\ readbuffer__commit_write(bytes) /\ pos' = pos + n
        /\ file' = file
    BY <1>10, SearchFacts, StreamAssumption DEF ReadData
  <2>2. bytes \in Seq(Byte) /\ Len(bytes) = n
    BY <1>3, <2>1
  <2> HIDE DEF bytes
  <2>3. result' = "NONE" /\ length' = length + n
    BY <1>3, <2>1, <2>2, CommitAppends
  <2>4. status' = "busy"
    BY <1>4, <1>10, <2>3 DEF ReadData
  <2>5. Rest' = Rest
    BY <1>3, <2>1, <2>3 DEF Rest
  <2> QED
    BY <1>5, <2>1, <2>4, <2>5
<1>11. CASE ReadEnds
  <2>1. CASE length = 0
    <3>1. UNCHANGED << length, pos, file >> /\ pos = Len(file)
      BY <1>11, <2>1 DEF ReadEnds, bufferVars, vars
    <3>2. status' = "EOF"
      BY <1>11, <2>1 DEF ReadEnds, Return
    <3> QED
      BY <1>5, <2>1, <3>1, <3>2 DEF Rest
  <2>2. CASE length # 0
    <3>1. status' = "OK"
      BY <1>11, <2>2 DEF ReadEnds, Return
    <3> QED
      BY <1>1, <1>2, <1>11, <2>2, <3>1, ResidualLine
  <2> QED
    BY <2>1, <2>2
<1> QED
  BY <1>1, <1>6, <1>7, <1>8, <1>9, <1>10, <1>11 DEF InCall


-----------------------------------------------------------------------------
(* Within a line *)

(* The search is in the line that begins at b. *)
InTheLine(b) ==
  /\ b \in 1 .. Len(file) + 1
  /\ at = "line" /\ StartsLine(b, lineno + 1) /\ HoldsLine(b) /\ LineEnds(b)

LEMMA LineFacts ==
  ASSUME SearchInv, NEW b, InTheLine(b)
  PROVE  /\ b \in Nat /\ 1 <= b /\ string.size \in Nat
         /\ string.cursor \in Nat /\ off \in Nat /\ lineno \in Nat
         /\ file \in Seq(Byte) /\ Len(file) \in Nat
         /\ pattern \in Seq(Byte) /\ Len(pattern) \in Nat \ {0}
         /\ \A j \in 1 .. Len(pattern) : pattern[j] \in Byte /\ pattern[j] # NL
         /\ b + string.size <= Len(file) + 1
         /\ LineStart(lineno + 1) = b
         /\ RefAt = b + (IF off < string.size THEN off ELSE string.size)
         /\ RefState = "searching"
<1>1. /\ pattern \in Patterns /\ off \in Nat /\ lineno \in Nat
  BY DEF SearchInv, SearchTypes
<1>2. file \in Seq(Byte) /\ Len(file) \in Nat
  BY SearchFacts
<1>3. pattern \in Seq(Byte \ {NL}) /\ pattern # << >>
  BY <1>1, LineSearchAssumption
<1>4. /\ Len(pattern) \in Nat \ {0}
      /\ \A j \in 1 .. Len(pattern) : pattern[j] \in Byte \ {NL}
  BY <1>3
<1>5. pattern \in Seq(Byte)
  BY <1>4, <1>3
<1>6. /\ string.size \in Nat /\ string.cursor \in Nat /\ b \in Nat /\ 1 <= b
  BY <1>2 DEF InTheLine, HoldsLine
<1>7. b + string.size <= Len(file) + 1
  BY <1>2, <1>6 DEF InTheLine, LineEnds
<1>8. LineStart(lineno + 1) = b
  <2>1. lineno + 1 \in Int
    BY <1>1
  <2> QED
    BY <2>1, <1>2, LineStartIs DEF InTheLine
<1>9. RefAt = b + (IF off < string.size THEN off ELSE string.size)
  BY <1>8 DEF RefAt, InTheLine
<1>10. RefState = "searching"
  BY DEF RefState, InTheLine
<1> QED
  BY <1>1, <1>2, <1>4, <1>5, <1>6, <1>7, <1>8, <1>9, <1>10

LEMMA LineBytes ==
  ASSUME NEW b, InTheLine(b)
  PROVE  \A p \in b .. (b + string.size) - 1 :
           p <= Len(file) /\ file[p] # NL
BY DEF InTheLine, LineEnds

(* What memmem() is given of the line is what the file has there. *)
LEMMA CellIsByte ==
  ASSUME SearchInv, NEW b, InTheLine(b), NEW k \in Nat,
         NEW j \in 1 .. Len(pattern), off + k + j <= string.size
  PROVE  /\ Known(Cell(k, j))
         /\ data[Cell(k, j)] = file[(b + off + k) + j - 1]
<1> DEFINE i == off + k + j
           c == string.cursor
<1>1. /\ b \in Nat /\ 1 <= b /\ string.size \in Nat /\ c \in Nat
      /\ off \in Nat /\ Len(file) \in Nat /\ j \in Nat /\ 1 <= j
      /\ b + string.size <= Len(file) + 1 /\ file \in Seq(Byte)
  BY LineFacts
<1>2. /\ i \in 1 .. string.size /\ Cell(k, j) = c + i - 1
      /\ (b + off + k) + j - 1 = b + i - 1
      /\ b + i - 1 \in 1 .. Len(file)
  <2>1. i \in Nat /\ 1 <= i /\ i <= string.size
    BY <1>1
  <2>2. Cell(k, j) = c + i - 1
    BY <1>1 DEF Cell
  <2>3. (b + off + k) + j - 1 = b + i - 1
    BY <1>1
  <2> HIDE DEF i, c
  <2>4. b + i - 1 \in 1 .. Len(file)
    BY <1>1, <2>1
  <2> QED
    BY <1>1, <2>1, <2>2, <2>3, <2>4
<1>3. c + i - 1 \in DOMAIN data /\ data[c + i - 1] = file[b + i - 1]
  BY <1>2 DEF InTheLine, HoldsLine
<1>4. file[b + i - 1] \in Byte
  BY <1>1, <1>2
<1>5. file[b + i - 1] # Junk
  BY <1>4, LineSearchAssumption
<1> QED
  BY <1>2, <1>3, <1>5 DEF Known

(* Within the line memmem() cannot be mistaken. *)
LEMMA TextIsLine ==
  ASSUME SearchInv, NEW b, InTheLine(b), NEW k \in Nat,
         off + k + Len(pattern) <= string.size
  PROVE  /\ MayMatch(k) => Occurs(pattern, file, b + off + k)
         /\ Occurs(pattern, file, b + off + k) => MustMatch(k)
<1>1. /\ b \in Nat /\ 1 <= b /\ string.size \in Nat
      /\ off \in Nat /\ Len(file) \in Nat /\ Len(pattern) \in Nat
      /\ b + string.size <= Len(file) + 1
  BY LineFacts
<1>2. ASSUME NEW j \in 1 .. Len(pattern)
      PROVE  /\ Known(Cell(k, j))
             /\ data[Cell(k, j)] = file[(b + off + k) + j - 1]
  <2>1. off + k + j <= string.size
    BY <1>1
  <2> QED
    BY <2>1, CellIsByte
<1>3. (b + off + k) + Len(pattern) - 1 <= Len(file)
  BY <1>1
<1> QED
  BY <1>2, <1>3 DEF MayMatch, MustMatch, Occurs, pattern_len

(* An occurrence ends before its line does. *)
LEMMA NotBeyond ==
  ASSUME SearchInv, NEW b, InTheLine(b), NEW p \in Nat, b <= p,
         p <= b + string.size, b + string.size < p + Len(pattern)
  PROVE  ~ Occurs(pattern, file, p)
<1> DEFINE e == b + string.size
           j == (e - p) + 1
<1>1. /\ b \in Nat /\ 1 <= b /\ string.size \in Nat
      /\ Len(file) \in Nat /\ Len(pattern) \in Nat
      /\ \A i \in 1 .. Len(pattern) : pattern[i] # NL
  BY LineFacts
<1>2. j \in 1 .. Len(pattern) /\ p + j - 1 = e
  BY <1>1
<1>3. pattern[j] # NL
  BY <1>1, <1>2
<1>4. CASE e <= Len(file) /\ file[e] = NL
  BY <1>2, <1>3, <1>4 DEF Occurs
<1>5. CASE e = Len(file) + 1
  <2>1. ~ (p + Len(pattern) - 1 <= Len(file))
    BY <1>1, <1>5
  <2> QED
    BY <2>1 DEF Occurs
<1> QED
  BY <1>4, <1>5 DEF InTheLine, LineEnds

(* If memmem() has passed over all there is of the line, there is nothing. *)
LEMMA RestOfLine ==
  ASSUME SearchInv, NEW b, InTheLine(b), off < string.size,
         \A l \in Nat : off + l + Len(pattern) <= string.size
                          => ~ MustMatch(l)
  PROVE  Absent(pattern, file, b + off, b + string.size - 1)
<1>1. /\ b \in Nat /\ 1 <= b /\ string.size \in Nat /\ off \in Nat
      /\ Len(pattern) \in Nat
  BY LineFacts
<1>2. ASSUME NEW p \in b + off .. b + string.size - 1
      PROVE  ~ Occurs(pattern, file, p)
  <2> DEFINE l == p - (b + off)
  <2>1. /\ l \in Nat /\ p = b + off + l /\ p \in Nat /\ b <= p
        /\ p <= b + string.size
    BY <1>1
  <2> HIDE DEF l
  <2>2. CASE off + l + Len(pattern) <= string.size
    BY <2>1, <2>2, TextIsLine
  <2>3. CASE ~ (off + l + Len(pattern) <= string.size)
    <3>1. b + string.size < p + Len(pattern)
      BY <1>1, <2>1, <2>3
    <3> QED
      BY <2>1, <3>1, NotBeyond
  <2> QED
    BY <2>2, <2>3
<1> QED
  BY <1>2 DEF Absent


(* Within a line only the search moves. *)
LEMMA LineStays ==
  ASSUME SearchInv, NEW b, InTheLine(b), SearchTypes', at' = "line",
         UNCHANGED << allVars, pattern, lineno >>
  PROVE  /\ SearchInv'
         /\ RefAt' = b + (IF off' < string.size THEN off' ELSE string.size)
         /\ RefState' = "searching"
<1>1. /\ UNCHANGED << file, pos, length, data, status, string, pc >>
      /\ at = "line"
  BY DEF allVars, bufferVars, vars, streamVars, InTheLine
<1>2. StreamInv' /\ ViewIsFile'
  BY StreamKeeps
<1>3. InALine'
  <2>1. InALine
    BY DEF SearchInv
  <2> QED
    BY <1>1, <2>1
       DEF InALine, StartsLine, Newlines, HoldsLine, LineEnds, Rest
<1>4. BetweenLines' /\ Phases'
  BY <1>1 DEF BetweenLines, Phases, SearchInv
<1>5. LineStart(lineno + 1)' = LineStart(lineno + 1)
  BY <1>1 DEF LineStart
<1>6. RefAt' = b + (IF off' < string.size THEN off' ELSE string.size)
  BY <1>1, <1>5, LineFacts DEF RefAt
<1>7. RefState' = "searching"
  BY DEF RefState
<1> QED
  BY <1>2, <1>3, <1>4, <1>6, <1>7 DEF SearchInv

LEMMA MatchFoundStep ==
  ASSUME SearchInv, NEW k \in 0 .. SIZE_MAX, MatchFound(k)
  PROVE  SearchInv' /\ SearchStep
<1> DEFINE plen == Len(pattern)
           size == string.size
           r == [line |-> lineno + 1, col |-> off + k + 1]
<1>1. PICK b : InTheLine(b)
  BY DEF MatchFound, SearchInv, InALine, InTheLine
<1>2. /\ at' = "line" /\ off < size /\ k + plen <= size
      /\ out' = Append(out, r) /\ off' = off + k + plen
      /\ UNCHANGED << allVars, pattern, lineno, file, string >>
      /\ MayMatch(k) /\ \A l \in 0 .. (k - 1) : ~ MustMatch(l)
  BY DEF MatchFound, Found, text_len, pattern_len, allVars, streamVars
<1>3. /\ b \in Nat /\ 1 <= b /\ size \in Nat /\ off \in Nat /\ k \in Nat
      /\ plen \in Nat /\ plen >= 1 /\ Len(file) \in Nat /\ lineno \in Nat
      /\ b + size <= Len(file) + 1 /\ LineStart(lineno + 1) = b
      /\ RefAt = b + (IF off < size THEN off ELSE size)
      /\ RefState = "searching"
  BY <1>1, LineFacts, ConstantsAssumption
<1>4. r \in Reports /\ out \in Seq(Reports)
  BY <1>3 DEF Reports, SearchInv, SearchTypes
<1>5. r.line = lineno + 1 /\ r.col = off + k + 1
  OBVIOUS
<1> HIDE DEF r
<1>6. SearchTypes'
  <2>1. out' \in Seq(Reports) /\ off' \in Nat
    BY <1>2, <1>3, <1>4
  <2> QED
    BY <1>2, <2>1 DEF SearchInv, SearchTypes
<1> DEFINE q == b + off + k
<1>7. Position(r) = q
  BY <1>3, <1>5 DEF Position
<1>8. RefAt = b + off
  BY <1>2, <1>3
<1>9. /\ SearchInv' /\ RefState' = "searching"
      /\ RefAt' = b + (IF off' < size THEN off' ELSE size)
  BY <1>1, <1>2, <1>6, LineStays
<1>10. InsideItsLine(r) <=> off + k + plen <= size
  <2>1. InsideItsLine(r) <=>
          \A p \in b .. q + plen - 1 : p <= Len(file) /\ file[p] # NL
    BY <1>3, <1>5, <1>7 DEF InsideItsLine, pattern_len
  <2>2. \A p \in b .. (b + size) - 1 : p <= Len(file) /\ file[p] # NL
    BY <1>1, LineBytes
  <2>3. CASE off + k + plen <= size
    <3>1. \A p \in b .. q + plen - 1 : p \in b .. (b + size) - 1
      BY <1>3, <2>3
    <3> QED
      BY <2>1, <2>2, <2>3, <3>1
  <2>4. CASE ~ (off + k + plen <= size)
    <3> DEFINE e == b + size
    <3>1. e \in b .. q + plen - 1
      BY <1>3, <2>4
    <3>2. ~ (e <= Len(file) /\ file[e] # NL)
      BY <1>1, <1>3 DEF InTheLine, LineEnds
    <3> QED
      BY <2>1, <2>4, <3>1, <3>2
  <2> QED
    BY <2>3, <2>4
<1>11. RefReports' = IF InsideItsLine(r)
                     THEN Append(RefReports, q) ELSE RefReports
  BY <1>2, <1>4, <1>7, ReportsGrow
<1>12. CASE off + k + plen <= size
  <2>1. Occurs(pattern, file, q)
    BY <1>1, <1>2, <1>3, <1>12, TextIsLine
  <2>2. ASSUME NEW p \in b + off .. q - 1 PROVE ~ Occurs(pattern, file, p)
    <3> DEFINE l == p - (b + off)
    <3>1. /\ l \in Nat /\ l \in 0 .. (k - 1) /\ p = b + off + l
          /\ off + l + plen <= size
      BY <1>3, <1>12
    <3> HIDE DEF l
    <3> QED
      BY <1>1, <1>2, <3>1, TextIsLine
  <2>3. Absent(pattern, file, RefAt, q - 1)
    BY <1>8, <2>2 DEF Absent
  <2>4. q \in 1 .. Len(file) /\ q >= RefAt
    BY <1>3, <1>8, <1>12
  <2>5. RefAt' = q + plen
    BY <1>2, <1>3, <1>9, <1>12
  <2>6. RefReports' = Append(RefReports, q)
    BY <1>10, <1>11, <1>12
  <2>7. SearchStep
    BY <1>2, <1>3, <1>9, <2>1, <2>3, <2>4, <2>5, <2>6, ReportStep
  <2> QED
    BY <1>9, <2>7
<1>13. CASE ~ (off + k + plen <= size)
  <2>1. ASSUME NEW l \in Nat, off + l + Len(pattern) <= string.size
        PROVE  ~ MustMatch(l)
    <3>1. l \in 0 .. (k - 1)
      BY <1>3, <1>13, <2>1
    <3> QED
      BY <1>2, <3>1
  <2>2. Absent(pattern, file, b + off, b + size - 1)
    BY <1>1, <1>2, <2>1, RestOfLine
  <2>3. RefAt' = b + size
    BY <1>2, <1>3, <1>9, <1>13
  <2>4. RefAt' > RefAt
    BY <1>2, <1>3, <1>8, <2>3
  <2>5. UNCHANGED RefReports
    BY <1>10, <1>11, <1>13
  <2>6. Absent(pattern, file, RefAt, RefAt' - 1)
    <3>1. RefAt' - 1 = b + size - 1
      BY <1>3, <2>3
    <3> QED
      BY <1>8, <2>2, <3>1
  <2>7. UNCHANGED << file, pattern, RefReports >>
    BY <1>2, <2>5
  <2>8. SearchStep
    BY <1>3, <1>9, <2>4, <2>6, <2>7, PassStep
  <2> QED
    BY <1>9, <2>8
<1> QED
  BY <1>12, <1>13

LEMMA NoMatchStep ==
  ASSUME SearchInv, NoMatch
  PROVE  SearchInv' /\ SearchStep
<1> DEFINE size == string.size
<1>1. PICK b : InTheLine(b)
  BY DEF NoMatch, SearchInv, InALine, InTheLine
<1>2. /\ at' = "line" /\ off < size /\ off' = size
      /\ UNCHANGED << allVars, pattern, lineno, out, file, string >>
      /\ \A l \in 0 .. (size - Len(pattern)) : ~ MustMatch(l)
  BY DEF NoMatch, NotFound, text_len, pattern_len, allVars, streamVars,
         InTheLine
<1>3. /\ b \in Nat /\ size \in Nat /\ off \in Nat /\ Len(pattern) \in Nat
      /\ RefAt = b + (IF off < size THEN off ELSE size)
      /\ RefState = "searching"
  BY <1>1, LineFacts
<1>4. SearchTypes'
  BY <1>2, <1>3 DEF SearchInv, SearchTypes
<1>5. /\ SearchInv' /\ RefState' = "searching"
      /\ RefAt' = b + (IF off' < size THEN off' ELSE size)
  BY <1>1, <1>2, <1>4, LineStays
<1>6. ASSUME NEW l \in Nat, off + l + Len(pattern) <= string.size
      PROVE  ~ MustMatch(l)
  BY <1>2, <1>3, <1>6
<1>7. Absent(pattern, file, b + off, b + size - 1)
  BY <1>1, <1>2, <1>6, RestOfLine
<1>8. RefAt = b + off /\ RefAt' = b + size /\ RefAt' > RefAt
  BY <1>2, <1>3, <1>5
<1>9. UNCHANGED RefReports
  BY <1>2, SameReports
<1>10. SearchStep
  BY <1>2, <1>3, <1>5, <1>7, <1>8, <1>9, PassStep
<1> QED
  BY <1>5, <1>10

LEMMA LineDoneStep ==
  ASSUME SearchInv, LineDone
  PROVE  SearchInv' /\ SearchStep
<1>1. PICK b : InTheLine(b)
  BY DEF LineDone, SearchInv, InALine, InTheLine
<1> DEFINE e == b + string.size
<1>2. /\ at' = "call" /\ off >= string.size /\ off' = 0 /\ at = "line"
      /\ lineno' = lineno + 1 /\ UNCHANGED << allVars, pattern, out >>
      /\ UNCHANGED << file, pos, length, status, string, pc >>
  BY DEF LineDone, allVars, bufferVars, vars, streamVars
<1>3. /\ b \in Nat /\ string.size \in Nat /\ off \in Nat /\ 1 <= b
      /\ Len(file) \in Nat /\ Len(pattern) \in Nat \ {0} /\ lineno \in Nat
      /\ RefAt = b + (IF off < string.size THEN off ELSE string.size)
      /\ RefState = "searching"
  BY <1>1, LineFacts
<1>4. StreamInv' /\ ViewIsFile'
  BY <1>2, StreamKeeps
<1>5. SearchTypes' /\ InALine' /\ Phases'
  BY <1>2, <1>3 DEF SearchInv, SearchTypes, InALine, Phases
<1>6. RefAt = e
  BY <1>2, <1>3
<1>7. RefState' = "searching" /\ RefAt' = Rest' /\ Rest' = Rest
  BY <1>2 DEF RefState, RefAt, Rest
<1>8. \/ e <= Len(file) /\ file[e] = NL /\ Rest = e + 1
      \/ e = Len(file) + 1 /\ Rest = e
  BY <1>1 DEF InTheLine, LineEnds
<1>9. e \in Nat /\ b <= e
  BY <1>3
<1>10. CASE e <= Len(file) /\ file[e] = NL /\ Rest = e + 1
  <2>1. \A p \in b .. e - 1 : file[p] # NL
    BY <1>1 DEF InTheLine, LineEnds
  <2>2. StartsLine(b, lineno + 1) /\ lineno + 1 \in Int
    BY <1>1, <1>3 DEF InTheLine
  <2> HIDE DEF e
  <2>3. StartsLine(e + 1, (lineno + 1) + 1)
    BY <1>3, <1>9, <1>10, <2>1, <2>2, NextLineStarts
  <2>4. StartsLine(Rest, lineno + 1)'
    BY <1>2, <1>7, <1>10, <2>3 DEF StartsLine, Newlines
  <2>5. BetweenLines'
    BY <1>2, <2>4 DEF BetweenLines
  <2>6. Len(pattern) >= 1 /\ b + string.size < e + Len(pattern)
    BY <1>3 DEF e
  <2>7. e <= b + string.size
    BY <1>3 DEF e
  <2>8. ~ Occurs(pattern, file, e)
    BY <1>1, <1>9, <2>6, <2>7, NotBeyond
  <2>9. RefAt' = e + 1
    BY <1>7, <1>10
  <2>10. Absent(pattern, file, RefAt, RefAt' - 1)
    <3>1. \A p \in e .. (e + 1) - 1 : p = e
      BY <1>9
    <3> QED
      BY <1>6, <2>8, <2>9, <3>1 DEF Absent
  <2>11. RefAt' > RefAt
    BY <1>6, <1>9, <2>9
  <2>12. UNCHANGED RefReports
    BY <1>2, SameReports
  <2>13. SearchStep
    BY <1>2, <1>3, <1>7, <2>10, <2>11, <2>12, PassStep
  <2> QED
    BY <1>4, <1>5, <2>5, <2>13 DEF SearchInv
(* The last line of a file that does not end in a newline *)
<1>11. CASE e = Len(file) + 1 /\ Rest = e
  <2>1. Rest' = Len(file)' + 1
    BY <1>2, <1>7, <1>11
  <2>2. BetweenLines'
    BY <1>2, <2>1 DEF BetweenLines
  <2>3. UNCHANGED << RefAt, RefState >>
    BY <1>3, <1>6, <1>7, <1>11
  <2>4. SearchStep
    BY <1>2, <2>3, StutterStep
  <2> QED
    BY <1>4, <1>5, <2>2, <2>4 DEF SearchInv
<1> QED
  BY <1>8, <1>10, <1>11

LEMMA SearchNextStep ==
  ASSUME SearchInv, [SearchNext]_grepVars
  PROVE  SearchInv' /\ SearchStep
<1>1. CASE UNCHANGED grepVars
  <2>1. UNCHANGED << allVars, searchVars >>
    BY <1>1 DEF grepVars
  <2>2. UNCHANGED << pattern, at, lineno, off, out >>
    BY <2>1 DEF searchVars
  <2>3. UNCHANGED << file, pos, length, data, exists, status, string, pc >>
    BY <2>1 DEF allVars, bufferVars, vars, streamVars
  <2>4. StreamInv' /\ ViewIsFile'
    BY <2>1, StreamKeeps
  <2>5. SearchInv'
    BY <2>2, <2>3, <2>4
       DEF SearchInv, SearchTypes, BetweenLines, Phases, InALine, StartsLine,
           Newlines, HoldsLine, LineEnds, Rest
  <2>6. UNCHANGED RefAt
    BY <2>2, <2>3, SameLines DEF RefAt
  <2>7. UNCHANGED RefState
    BY <2>2 DEF RefState
  <2> QED
    BY <2>2, <2>3, <2>5, <2>6, <2>7, StutterStep
<1> QED
  BY <1>1, PatternTooLongStep, CreateSearchStep, CallNextStep, NextLineStep,
     MatchFoundStep, NoMatchStep, LineDoneStep, FinishStep DEF SearchNext

LEMMA SearchStarts ==
  ASSUME SearchInit
  PROVE  SearchInv /\ RefAt = 1 /\ RefReports = << >>
         /\ RefState = "searching"
<1>1. /\ Init /\ file \in Files /\ pos = 0 /\ pc = "idle" /\ scanned = 0
      /\ status = "none" /\ string = NoString /\ pattern \in Patterns
      /\ at = "start" /\ lineno = 0 /\ off = 0 /\ out = << >>
      /\ length = 0 /\ ~ exists
  BY DEF SearchInit, Init
<1>2. file \in Seq(Byte) /\ Len(file) \in Nat
  BY <1>1, LineSearchAssumption
<1>3. StreamInv /\ ViewIsFile
  BY <1>1, <1>2, InitInv
     DEF StreamInv, StreamTypes, OneCall, AllScanned, SkippedHasNoNewline,
         ViewIsFile
<1>4. Rest = 1
  BY <1>1 DEF Rest
<1>5. StartsLine(Rest, lineno + 1)
  <2>1. Newlines(1) = {}
    BY DEF Newlines
  <2>2. Cardinality(Newlines(1)) = 0
    BY <2>1, FS_EmptySet
  <2> QED
    BY <1>1, <1>2, <1>4, <2>2 DEF StartsLine
<1>6. SearchInv
  BY <1>1, <1>3, <1>5
     DEF SearchInv, SearchTypes, BetweenLines, Phases, InALine
<1>7. Inside = << >>
  BY <1>1, KeepNone DEF Inside
<1>8. RefReports = << >>
  BY <1>7 DEF RefReports
<1> QED
  BY <1>1, <1>4, <1>6, <1>8 DEF RefAt, RefState, Rest

(* stream_line_and_search() finds what a search of the whole file would:   *)
(* for every file, pattern and buffer, whatever read() returns.            *)
THEOREM SearchesLinesCorrectly == SearchSpec => ReferenceSpec
<1>1. SearchInit => SearchInv /\ Reference!Init
  BY SearchStarts DEF Reference!Init, RefAt, RefReports, RefState
<1>2. SearchInv /\ [SearchNext]_grepVars => SearchInv' /\ SearchStep
  BY SearchNextStep
<1>3. SearchStep => [Reference!Next]_(Reference!vars)
  BY DEF SearchStep, Reference!vars, RefAt, RefReports, RefState
<1> QED
  BY <1>1, <1>2, <1>3, PTL DEF SearchSpec, ReferenceSpec, Reference!Spec

=============================================================================
