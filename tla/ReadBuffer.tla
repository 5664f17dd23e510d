----------------------------- MODULE ReadBuffer -----------------------------
(***************************************************************************)
(* commons/src/readbuffer/src/readbuffer.c: a growing byte buffer with one *)
(* read view and one write cursor.                                         *)
(*                                                                         *)
(* Layout:   0 ........ offset ........ offset+length ........ capacity    *)
(*             consumed        read view             write space           *)
(*                                                                         *)
(* The memory is modelled cell by cell, with the bytes nobody has written  *)
(* yet as Junk, so that compaction and growth are what they are in the     *)
(* code: copies that may or may not move the right bytes.                  *)
(***************************************************************************)
EXTENDS Integers, Sequences

CONSTANTS
  Byte,            \* the values a byte takes
  Junk,            \* the content of memory malloc() returned
  SIZE_MAX,        \* the largest size_t
  InitCapacities,  \* the arguments readbuffer__init() is called with
  Requests,        \* the arguments of readbuffer__assure() and _consume()
  Writes           \* what a caller stores at the write cursor

ASSUME ConstantsAssumption ==
  /\ SIZE_MAX \in Nat
  /\ InitCapacities \subseteq 0 .. SIZE_MAX
  /\ Requests \subseteq 0 .. SIZE_MAX
  /\ Writes \subseteq Seq(Byte)

VARIABLES
  exists,    \* a ReadBuffer is allocated; FALSE stands for a NULL rb
  data,      \* its memory, a function over 0 .. capacity-1; empty for NULL
  capacity,
  length,
  offset,
  heap,      \* the number of blocks this buffer holds of the allocator
  result     \* the error code of the last call

vars == << exists, data, capacity, length, offset, heap, result >>

Memory == << exists, data, capacity, length, offset, heap >>

ErrorCode ==
  { "NONE", "INVALID_ARGUMENT", "ALLOCATION_FAILED", "OVERFLOW",
    "OUT_OF_RANGE" }

NULL == [i \in {} |-> Junk]

-----------------------------------------------------------------------------
(* size_t arithmetic: a difference below zero wraps around. *)
Minus(a, b) == IF a >= b THEN a - b ELSE a - b + SIZE_MAX + 1

(* What the loop of next_power_of_two() goes through *)
Doubled[k \in 0 .. SIZE_MAX] == IF k = 0 THEN 1 ELSE 2 * Doubled[k - 1]

PowersOfTwo == { Doubled[k] : k \in 0 .. SIZE_MAX } \cap 1 .. SIZE_MAX

(* The loop doubles c from 1 and stops at the first power that suffices;   *)
(* the last power size_t can hold may be below value, and then it fails.   *)
next_power_of_two(value, c) ==
  IF value = 0
  THEN c = 0
  ELSE /\ c \in PowersOfTwo
       /\ value <= c
       /\ \A d \in PowersOfTwo : d < c => d < value

readbuffer__get_write_cursor == offset + length

readbuffer__get_write_cursor_limit == Minus(capacity, offset + length)

(* The bytes of the read view, in order. *)
readbuffer__get_read_view == [i \in 1 .. length |-> data[offset + i - 1]]

-----------------------------------------------------------------------------
(* readbuffer__init(): the two allocations, and the first one released     *)
(* when the second fails.                                                  *)
InitFails ==
  /\ ~ exists
  /\ result' = "ALLOCATION_FAILED"
  /\ UNCHANGED Memory

readbuffer__init(init_capacity) ==
  /\ ~ exists
  /\ exists' = TRUE
  /\ data' = [i \in 0 .. (init_capacity - 1) |-> Junk]
  /\ capacity' = init_capacity
  /\ length' = 0
  /\ offset' = 0
  /\ heap' = IF init_capacity = 0 THEN 1 ELSE 2
  /\ result' = "NONE"

readbuffer__destroy ==
  /\ exists
  /\ exists' = FALSE
  /\ data' = NULL
  /\ capacity' = 0
  /\ length' = 0
  /\ offset' = 0
  /\ heap' = heap - (IF data = NULL THEN 0 ELSE 1) - 1
  /\ result' = "NONE"

(* Every operation but readbuffer__destroy() reports a NULL buffer. *)
NullArgument ==
  /\ ~ exists
  /\ result' = "INVALID_ARGUMENT"
  /\ UNCHANGED Memory

-----------------------------------------------------------------------------
(* readbuffer__assure(), one definition per way it returns. *)

(* Faulty variant: the bytes already consumed are counted as space. *)
AssureHasRoom_IgnoresOffset(requested_space) ==
  /\ requested_space <= Minus(capacity, length)
  /\ result' = "NONE"
  /\ UNCHANGED Memory

AssureHasRoom(requested_space) ==
  /\ requested_space <= Minus(capacity, offset + length)
  /\ result' = "NONE"
  /\ UNCHANGED Memory

NeedsMore(requested_space) ==
  requested_space > Minus(capacity, offset + length)

(* Faulty variant: the offset is reset and nothing is moved. *)
AssureCompacts_WithoutMove(requested_space) ==
  /\ NeedsMore(requested_space)
  /\ requested_space <= Minus(capacity, length)
  /\ offset' = 0
  /\ result' = "NONE"
  /\ UNCHANGED << exists, data, capacity, length, heap >>

(* memmove() to the start of the same block *)
AssureCompacts(requested_space) ==
  /\ NeedsMore(requested_space)
  /\ requested_space <= Minus(capacity, length)
  /\ data' = [i \in DOMAIN data |->
                IF i < length THEN data[offset + i] ELSE data[i]]
  /\ offset' = 0
  /\ result' = "NONE"
  /\ UNCHANGED << exists, capacity, length, heap >>

NeedsBlock(requested_space) ==
  /\ NeedsMore(requested_space)
  /\ requested_space > Minus(capacity, length)

AssureOverflows(requested_space) ==
  /\ NeedsBlock(requested_space)
  /\ \/ requested_space > Minus(SIZE_MAX, length)
     \/ \A c \in PowersOfTwo : c < length + requested_space
  /\ result' = "OVERFLOW"
  /\ UNCHANGED Memory

(* malloc() of a block of new_capacity bytes fails, *)
AssureAllocationFails(requested_space) ==
  /\ NeedsBlock(requested_space)
  /\ requested_space <= Minus(SIZE_MAX, length)
  /\ \E c \in PowersOfTwo : length + requested_space <= c
  /\ result' = "ALLOCATION_FAILED"
  /\ UNCHANGED Memory

(* Faulty variant: the view is not copied into the new block. *)
AssureGrows_WithoutCopy(requested_space) ==
  /\ NeedsBlock(requested_space)
  /\ requested_space <= Minus(SIZE_MAX, length)
  /\ \E new_capacity \in PowersOfTwo :
       /\ next_power_of_two(length + requested_space, new_capacity)
       /\ data' = [k \in 0 .. (new_capacity - 1) |-> Junk]
       /\ capacity' = new_capacity
  /\ offset' = 0
  /\ heap' = heap + 1 - (IF data = NULL THEN 0 ELSE 1)
  /\ result' = "NONE"
  /\ UNCHANGED << exists, length >>

(* or succeeds: the view is copied and the old block released. *)
AssureGrows(requested_space) ==
  /\ NeedsBlock(requested_space)
  /\ requested_space <= Minus(SIZE_MAX, length)
  /\ \E new_capacity \in PowersOfTwo :
       /\ next_power_of_two(length + requested_space, new_capacity)
       /\ data' = [i \in 0 .. (new_capacity - 1) |->
                     IF i < length THEN data[offset + i] ELSE Junk]
       /\ capacity' = new_capacity
  /\ offset' = 0
  /\ heap' = heap + 1 - (IF data = NULL THEN 0 ELSE 1)
  /\ result' = "NONE"
  /\ UNCHANGED << exists, length >>

readbuffer__assure(requested_space) ==
  /\ exists
  /\ \/ AssureHasRoom(requested_space)
     \/ AssureCompacts(requested_space)
     \/ AssureOverflows(requested_space)
     \/ AssureAllocationFails(requested_space)
     \/ AssureGrows(requested_space)

-----------------------------------------------------------------------------
(* Faulty variant: the limit is not checked. *)
readbuffer__commit_write_Unchecked(bytes) ==
  /\ exists
  /\ length' = length + Len(bytes)
  /\ result' = "NONE"
  /\ UNCHANGED << exists, data, capacity, offset, heap >>

(* The caller stores bytes at the write cursor, at most up to its limit,   *)
(* and records how many.                                                   *)
readbuffer__commit_write(bytes) ==
  /\ exists
  /\ IF Len(bytes) > readbuffer__get_write_cursor_limit
     THEN /\ result' = "OUT_OF_RANGE"
          /\ UNCHANGED Memory
     ELSE /\ data' = [i \in DOMAIN data |->
                        IF i - (offset + length) \in 0 .. (Len(bytes) - 1)
                        THEN bytes[i - (offset + length) + 1]
                        ELSE data[i]]
          /\ length' = length + Len(bytes)
          /\ result' = "NONE"
          /\ UNCHANGED << exists, capacity, offset, heap >>

readbuffer__consume(bytes_consumed) ==
  /\ exists
  /\ IF bytes_consumed > length
     THEN /\ result' = "OUT_OF_RANGE"
          /\ UNCHANGED Memory
     ELSE /\ length' = length - bytes_consumed
          /\ offset' = IF length' = 0 THEN 0 ELSE offset + bytes_consumed
          /\ result' = "NONE"
          /\ UNCHANGED << exists, data, capacity, heap >>

-----------------------------------------------------------------------------
Init ==
  /\ exists = FALSE
  /\ data = NULL
  /\ capacity = 0
  /\ length = 0
  /\ offset = 0
  /\ heap = 0
  /\ result = "NONE"

Next ==
  \/ InitFails
  \/ \E init_capacity \in InitCapacities : readbuffer__init(init_capacity)
  \/ NullArgument
  \/ \E requested_space \in Requests : readbuffer__assure(requested_space)
  \/ \E bytes \in Writes : readbuffer__commit_write(bytes)
  \/ \E bytes_consumed \in Requests : readbuffer__consume(bytes_consumed)
  \/ readbuffer__destroy

Spec == Init /\ [][Next]_vars

-----------------------------------------------------------------------------
(* The types of the variables; the memory has exactly capacity cells. *)
TypeOK ==
  /\ exists \in BOOLEAN
  /\ capacity \in 0 .. SIZE_MAX
  /\ length \in 0 .. SIZE_MAX
  /\ offset \in 0 .. SIZE_MAX
  /\ data \in [0 .. (capacity - 1) -> Byte \cup {Junk}]
  /\ heap \in 0 .. 2
  /\ result \in ErrorCode

(* The three regions of the layout fit into the block, whatever sequence   *)
(* of calls was made.  It is what keeps the subtractions of readbuffer.c   *)
(* (lines 87, 92, 99, 153) from wrapping around.                           *)
InBounds ==
  /\ offset + length <= capacity
  /\ length = 0 \/ exists

(* The read view never shows memory nobody has written: not after a        *)
(* compaction, not in a grown block, not behind a partial consume.         *)
ViewIsWritten ==
  \A i \in 1 .. length : readbuffer__get_read_view[i] \in Byte

(* Every block obtained is either still reachable from the buffer or has   *)
(* been freed exactly once, on the error paths as well.                    *)
NoLeak ==
  heap = (IF exists THEN 1 ELSE 0) + (IF data = NULL THEN 0 ELSE 1)

(* Both together: what is done with the memory is right.                   *)
MemorySafe == InBounds /\ NoLeak

(* readbuffer.h:41-44: a successful assure(n) leaves n bytes of write      *)
(* space, a refused one leaves the buffer as it was.                       *)
AssureKeepsItsPromise ==
  [][\A n \in Requests :
       readbuffer__assure(n) =>
         IF result' = "NONE"
         THEN n <= (capacity' - (offset' + length'))
         ELSE UNCHANGED Memory]_vars

(* The read view is a queue of bytes; compaction and growth are invisible. *)
Fifo == INSTANCE ByteFifo WITH unread <- readbuffer__get_read_view

FifoSpec == Fifo!Spec

=============================================================================
