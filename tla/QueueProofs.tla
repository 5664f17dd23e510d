---------------------------- MODULE QueueProofs -----------------------------
(***************************************************************************)
(* What the message queue does for a ring of any size, any clients and any *)
(* calls: it is a queue, it keeps account of its messages, and a client is *)
(* sent them in order.                                                     *)
(***************************************************************************)
EXTENDS MessageQueueApi, ServerLemmas

(* From one slot to another in the direction of the ring *)
Dist(a, b) == IF a <= b THEN b - a ELSE b - a + Capacity

Before(slot) == IF slot = 0 THEN Capacity - 1 ELSE slot - 1

(* From start up to end, all around the ring when they are equal *)
Within(first, last, slot) ==
  /\ first # MQ_EMPTY_SENTINEL
  /\ first = last \/ Dist(first, slot) < Dist(first, last)

Inside(slot) == Within(start, end, slot)

(* The number of the message that belongs in a slot, when n are queued *)
Number(slot, last, n) == n - Dist(slot, Before(last))

(* What a flush loop that has come to pos has before it *)
AheadOf(pos, last) == { slot \in Slot : Dist(pos, slot) < Dist(pos, last) }

NewTo(last, message) == message > last

InReach(pos, limit, n, last) == Dist(pos, limit) <= n - last

Lapped(n, last) == n - last >= Capacity

(* Where the flush of a client goes on *)
Position(c) == IF c.fd = writing THEN i ELSE c.roff

Types ==
  /\ QueueTypeOK
  /\ messages \in [Slot -> (1 .. queued) \cup {NULL}]
  /\ clients \in Seq([fd : ClientFd, roff : Slot])
  /\ queued \in 0 .. MaxMessages
  /\ sent \in [ClientFd -> 0 .. queued]

Absent ==
  ~ exists => start = MQ_EMPTY_SENTINEL /\ end = 0 /\ clients = << >>

(* A message is in the slot its number calls for, counted from the end. *)
Placed ==
  \A slot \in Slot :
    messages[slot] # NULL =>
      Inside(slot) /\ messages[slot] = Number(slot, end, queued)

(* Empty slots inside come before all messages, and there is a last one. *)
Packed ==
  /\ \A s, t \in Slot :
       /\ messages[s] # NULL
       /\ Inside(t)
       /\ Dist(start, s) < Dist(start, t)
       => messages[t] # NULL
  /\ start # MQ_EMPTY_SENTINEL => messages[Before(end)] # NULL
  /\ start # MQ_EMPTY_SENTINEL /\ messages[start] = NULL => start = 0

OneEntryEach ==
  \A j, k \in DOMAIN clients : clients[j].fd = clients[k].fd => j = k

InLoop ==
  ~ Idle =>
    /\ start # MQ_EMPTY_SENTINEL
    /\ \E k \in DOMAIN clients : clients[k].fd = writing

(* What a flush that has come to pos will come to is new to a client that  *)
(* was sent `last`, ...                                                    *)
OnlyNewAhead(pos, last) ==
  \A slot \in AheadOf(pos, end) :
    messages[slot] # NULL => NewTo(last, messages[slot])

Restarted == start = 0 /\ messages[0] = NULL

(* ... it is not further than what has been queued since (the exception    *)
(* are clients that join a drained queue: they start at slot 0, as the     *)
(* queue does, which cannot be dequeued any more if its first message is   *)
(* in another slot), ...                                                   *)
Near(pos, last) ==
  \/ InReach(pos, end, queued, last)
  \/ start = MQ_EMPTY_SENTINEL /\ pos = 0
  \/ Restarted /\ (pos <= end \/ end = 0)

(* ... and everything new is ahead of it, unless it is a lap behind.       *)
AllNewAhead(pos, last) ==
  \/ Lapped(queued, last)
  \/ Restarted /\ end = 0 /\ pos = 0
  \/ \A slot \in Slot :
       messages[slot] # NULL /\ NewTo(last, messages[slot])
         => slot \in AheadOf(pos, end)

Tracks(pos, last) ==
  OnlyNewAhead(pos, last) /\ Near(pos, last) /\ AllNewAhead(pos, last)

EachTracks ==
  \A k \in DOMAIN clients : Tracks(Position(clients[k]), sent[clients[k].fd])

(* The inductive invariant.  That a stored message goes to an empty slot   *)
(* and that nothing is released twice needs Placed; what a client is sent  *)
(* needs, besides, how far it is from the end (EachTracks).                *)
RingInv == Types /\ Absent /\ Placed /\ Packed /\ RingHoldsTheLive

ClientInv == OneEntryEach /\ InLoop /\ EachTracks

IInv == RingInv /\ ClientInv

-----------------------------------------------------------------------------
(* The ring *)

LEMMA AdvanceIs ==
  ASSUME NEW a \in Slot
  PROVE  /\ Advance(a) = IF a = Capacity - 1 THEN 0 ELSE a + 1
         /\ Advance(a) \in Slot
         /\ Before(a) \in Slot
         /\ Before(Advance(a)) = a
         /\ Advance(Before(a)) = a
<1>0. Capacity \in Nat /\ Capacity > 0 /\ a \in Nat /\ a < Capacity
  BY QueueAssumption DEF Slot
<1>1. \A b \in Nat : b < Capacity =>
        (b + 1) % Capacity = IF b = Capacity - 1 THEN 0 ELSE b + 1
  BY <1>0
<1>2. \A b \in Nat : b < Capacity =>
        Advance(b) = IF b = Capacity - 1 THEN 0 ELSE b + 1
  BY <1>1 DEF Advance
<1>3. Before(a) \in Nat /\ Before(a) < Capacity
  BY <1>0 DEF Before
<1>4. Advance(a) = IF a = Capacity - 1 THEN 0 ELSE a + 1
  BY <1>0, <1>2
<1>5. Advance(Before(a)) = a
  BY <1>0, <1>2, <1>3 DEF Before
<1> QED
  BY <1>0, <1>3, <1>4, <1>5 DEF Before, Slot

LEMMA DistRange ==
  ASSUME NEW a \in Slot, NEW b \in Slot
  PROVE  /\ Dist(a, b) \in 0 .. Capacity - 1
         /\ Dist(a, b) = 0 <=> a = b
BY QueueAssumption DEF Dist, Slot

LEMMA DistInjective ==
  ASSUME NEW p \in Slot, NEW a \in Slot, NEW b \in Slot,
         Dist(p, a) = Dist(p, b)
  PROVE  a = b
BY QueueAssumption DEF Dist, Slot

LEMMA DistAdds ==
  ASSUME NEW p \in Slot, NEW a \in Slot, NEW b \in Slot
  PROVE  Dist(p, a) <= Dist(p, b) <=> Dist(p, a) + Dist(a, b) = Dist(p, b)
BY QueueAssumption DEF Dist, Slot

LEMMA DistBefore ==
  ASSUME NEW a \in Slot, NEW b \in Slot
  PROVE  Dist(a, Before(b)) = IF a = b THEN Capacity - 1 ELSE Dist(a, b) - 1
BY QueueAssumption DEF Dist, Before, Slot

LEMMA DistAdvance ==
  ASSUME NEW a \in Slot, NEW b \in Slot
  PROVE  /\ Dist(a, Advance(b))
              = IF Advance(b) = a THEN 0 ELSE Dist(a, b) + 1
         /\ Advance(b) = a => Dist(a, b) = Capacity - 1
         /\ Dist(Advance(a), b)
              = IF a = b THEN Capacity - 1 ELSE Dist(a, b) - 1
<1>1. /\ Advance(a) = IF a = Capacity - 1 THEN 0 ELSE a + 1
      /\ Advance(b) = IF b = Capacity - 1 THEN 0 ELSE b + 1
  BY AdvanceIs
<1> QED
  BY <1>1, QueueAssumption DEF Dist, Slot

LEMMA DistIndex ==
  ASSUME NEW a \in Slot
  PROVE  /\ \A n \in 0 .. Capacity - 1 :
              (a + n) % Capacity \in Slot /\ Dist(a, (a + n) % Capacity) = n
         /\ \A b \in Slot : (a + Dist(a, b)) % Capacity = b
<1>0. Capacity \in Nat /\ Capacity > 0 /\ a \in Nat /\ a < Capacity
  BY QueueAssumption DEF Slot
<1>1. ASSUME NEW n \in 0 .. Capacity - 1
      PROVE  (a + n) % Capacity
               = IF a + n < Capacity THEN a + n ELSE a + n - Capacity
  BY <1>0
<1>2. ASSUME NEW n \in 0 .. Capacity - 1
      PROVE  (a + n) % Capacity \in Slot /\ Dist(a, (a + n) % Capacity) = n
  BY <1>0, <1>1 DEF Dist, Slot
<1>3. ASSUME NEW b \in Slot
      PROVE  (a + Dist(a, b)) % Capacity = b
  <2>1. Dist(a, b) \in 0 .. Capacity - 1
    BY DistRange
  <2>2. (a + Dist(a, b)) % Capacity
          = IF a + Dist(a, b) < Capacity THEN a + Dist(a, b)
            ELSE a + Dist(a, b) - Capacity
    BY <1>1, <2>1
  <2> QED
    BY <1>0, <2>2 DEF Dist, Slot
<1> QED
  BY <1>2, <1>3

(* What the code computes as the length *)
LEMMA LengthIs ==
  ASSUME start \in Slot \cup {MQ_EMPTY_SENTINEL}, end \in Slot
  PROVE  /\ start = MQ_EMPTY_SENTINEL <=> start \notin Slot
         /\ get_length = IF start = MQ_EMPTY_SENTINEL THEN 0
                         ELSE IF start = end THEN Capacity
                         ELSE Dist(start, end)
         /\ get_length \in 0 .. Capacity
BY QueueAssumption DEF Slot, MQ_EMPTY_SENTINEL, get_length, Dist

(* Storing a message and releasing the first one move one end. *)
LEMMA WithinAdvance ==
  ASSUME NEW first \in Slot, NEW last \in Slot, NEW slot \in Slot
  PROVE  /\ Within(first, Advance(last), slot)
              <=> Dist(first, slot) <= Dist(first, last)
         /\ Within(first, last, slot) /\ slot # first
              => Within(Advance(first), last, slot)
         /\ Within(first, last, slot) /\ slot # first
              => Advance(first) # last
         /\ Within(Advance(first), last, slot) /\ Advance(first) # last
              => slot # first /\ Within(first, last, slot)
<1>1. first # MQ_EMPTY_SENTINEL /\ Advance(first) # MQ_EMPTY_SENTINEL
  BY AdvanceIs, QueueAssumption DEF Slot, MQ_EMPTY_SENTINEL
<1>2. /\ Dist(first, slot) \in 0 .. Capacity - 1
      /\ Dist(first, last) \in 0 .. Capacity - 1
      /\ Dist(first, slot) = 0 <=> first = slot
      /\ Dist(first, last) = 0 <=> first = last
  BY DistRange
<1>3. /\ Dist(first, Advance(last))
           = IF Advance(last) = first THEN 0 ELSE Dist(first, last) + 1
      /\ Advance(last) = first => Dist(first, last) = Capacity - 1
      /\ Dist(Advance(first), last)
           = IF first = last THEN Capacity - 1 ELSE Dist(first, last) - 1
      /\ Dist(Advance(first), slot)
           = IF first = slot THEN Capacity - 1 ELSE Dist(first, slot) - 1
      /\ Dist(first, Advance(first))
           = IF Advance(first) = first THEN 0 ELSE Dist(first, first) + 1
      /\ Advance(first) = first => Dist(first, first) = Capacity - 1
      /\ Dist(first, first) = 0
  BY DistAdvance, DistRange
<1>4. Capacity \in Nat
  BY QueueAssumption
<1>5. Within(first, Advance(last), slot)
        <=> Dist(first, slot) <= Dist(first, last)
  BY <1>1, <1>2, <1>3, <1>4 DEF Within
<1>6. Within(first, last, slot) /\ slot # first
        => Within(Advance(first), last, slot)
  BY <1>1, <1>2, <1>3, <1>4 DEF Within
<1>7. Within(first, last, slot) /\ slot # first => Advance(first) # last
  BY <1>1, <1>2, <1>3, <1>4 DEF Within
<1>8. Within(Advance(first), last, slot) /\ Advance(first) # last
        => slot # first /\ Within(first, last, slot)
  BY <1>1, <1>2, <1>3, <1>4 DEF Within
<1> QED
  BY <1>5, <1>6, <1>7, <1>8

LEMMA NumbersDiffer ==
  ASSUME NEW a \in Slot, NEW b \in Slot, NEW last \in Slot, NEW n \in Nat,
         Number(a, last, n) = Number(b, last, n)
  PROVE  a = b
<1>1. Before(last) \in Slot
  BY AdvanceIs
<1>2. /\ Dist(a, Before(last)) \in 0 .. Capacity - 1
      /\ Dist(b, Before(last)) \in 0 .. Capacity - 1
  BY <1>1, DistRange
<1>3. Capacity \in Nat
  BY QueueAssumption
<1>4. Dist(a, Before(last)) = Dist(b, Before(last))
  BY <1>2, <1>3 DEF Number
<1> QED
  BY <1>1, <1>4, QueueAssumption DEF Dist, Slot

(* What is not a message *)
LEMMA NullIsNone ==
  ASSUME Types
  PROVE  /\ NULL \notin 1 .. MaxMessages
         /\ \A slot \in Slot :
              messages[slot] # NULL => messages[slot] \in 1 .. queued
BY QueueAssumption, ApiAssumption DEF Types

(* The steps that leave the ring alone *)
LEMMA SameRing ==
  ASSUME RingInv, UNCHANGED << Ring, queued, live >>,
         clients' \in Seq([fd : ClientFd, roff : Slot]),
         ~ exists => clients' = << >>,
         sent' \in [ClientFd -> 0 .. queued],
         writing' \in Int, i' \in Slot, result' \in ReturnCode
  PROVE  RingInv'
<1>1. [fd : ClientFd, roff : Slot] \subseteq [fd : Int, roff : Slot]
  BY ApiAssumption
<1>2. clients' \in Seq([fd : Int, roff : Slot])
  BY <1>1, SeqWider
<1>3. Types'
  BY <1>2 DEF RingInv, Types, QueueTypeOK, Ring
<1>4. Absent' /\ Placed' /\ Packed' /\ RingHoldsTheLive'
  BY DEF RingInv, Absent, Placed, Packed, RingHoldsTheLive, Inside, Ring
<1> QED
  BY <1>3, <1>4 DEF RingInv

(* What q() does when it stores a message *)
Stores ==
  /\ exists /\ end # start /\ queued < MaxMessages
  /\ messages' = [messages EXCEPT ![end] = queued + 1]
  /\ start' = IF start = MQ_EMPTY_SENTINEL THEN 0 ELSE start
  /\ end' = Advance(end)
  /\ result' = "0"
  /\ queued' = queued + 1
  /\ live' = live \cup {queued + 1}
  /\ UNCHANGED << exists, clients, writing, i, sent >>

LEMMA StoreRing ==
  ASSUME RingInv, Stores
  PROVE  RingInv'
<1> DEFINE first == IF start = MQ_EMPTY_SENTINEL THEN 0 ELSE start
<1>0. /\ end \in Slot /\ Advance(end) \in Slot /\ queued \in Nat
      /\ queued + 1 \in 1 .. MaxMessages /\ MaxMessages \in Nat
      /\ messages \in [Slot -> (1 .. queued) \cup {NULL}]
      /\ start \in Slot \cup {MQ_EMPTY_SENTINEL}
  BY AdvanceIs, ApiAssumption DEF RingInv, Types, QueueTypeOK, Stores
<1>1. first \in Slot
  BY <1>0, QueueAssumption DEF Slot
<1>2. NULL \notin 1 .. MaxMessages
  BY NullIsNone DEF RingInv
<1>3. /\ messages'[end] = queued + 1
      /\ \A slot \in Slot \ {end} : messages'[slot] = messages[slot]
      /\ start' = first /\ end' = Advance(end) /\ queued' = queued + 1
  BY <1>0 DEF Stores
<1> HIDE DEF first
<1>4. Types'
  <2>1. (1 .. queued) \cup {NULL} \subseteq (1 .. queued + 1) \cup {NULL}
    BY <1>0
  <2>2. messages' \in [Slot -> (1 .. queued + 1) \cup {NULL}]
    <3>1. messages \in [Slot -> (1 .. queued + 1) \cup {NULL}]
      BY <1>0, <2>1
    <3>2. queued + 1 \in (1 .. queued + 1) \cup {NULL}
      BY <1>0
    <3> QED
      BY <3>1, <3>2 DEF Stores
  <2>3. (1 .. queued + 1) \cup {NULL} \subseteq Message \cup {NULL}
    BY <1>0, ApiAssumption
  <2>4. messages' \in [Slot -> Message \cup {NULL}]
    BY <2>2, <2>3
  <2>5. sent \in [ClientFd -> 0 .. queued + 1]
    <3>1. 0 .. queued \subseteq 0 .. queued + 1
      BY <1>0
    <3> QED
      BY <3>1 DEF RingInv, Types
  <2>6. queued + 1 \in 0 .. MaxMessages
    BY <1>0
  <2>7. /\ messages' \in [Slot -> (1 .. queued') \cup {NULL}]
        /\ queued' \in 0 .. MaxMessages
        /\ sent' \in [ClientFd -> 0 .. queued']
        /\ clients' = clients /\ writing' = writing /\ i' = i
        /\ exists' = exists /\ result' \in ReturnCode
        /\ start' \in Slot /\ end' \in Slot
    BY <1>0, <1>1, <1>3, <2>2, <2>5, <2>6 DEF Stores, ReturnCode
  <2> QED
    BY <2>4, <2>7 DEF RingInv, Types, QueueTypeOK
<1>5. Absent'
  BY DEF Absent, Stores
(* Everything moves one away from the end. *)
<1>6. ASSUME NEW slot \in Slot, messages'[slot] # NULL
      PROVE  /\ Dist(first, slot) <= Dist(first, end)
             /\ messages'[slot] = (queued + 1) - Dist(slot, end)
  <2>1. CASE slot = end
    BY <2>1, <1>0, <1>1, <1>3, DistRange
  <2>2. CASE slot # end
    <3>1. messages[slot] # NULL /\ messages'[slot] = messages[slot]
      BY <1>3, <1>6, <2>2
    <3>2. /\ Within(start, end, slot)
          /\ messages[slot] = queued - Dist(slot, Before(end))
      BY <3>1 DEF RingInv, Placed, Inside, Number
    <3>3. Dist(slot, Before(end)) = Dist(slot, end) - 1
      BY <1>0, <2>2, DistBefore
    <3>4. Dist(slot, end) \in Nat
      BY <1>0, DistRange
    <3>5. start = first /\ start # end
      BY <3>2 DEF Within, first, Stores
    <3>6. Dist(first, slot) \in Nat /\ Dist(first, end) \in Nat
      BY <1>0, <1>1, DistRange
    <3> QED
      BY <1>0, <3>1, <3>2, <3>3, <3>4, <3>5, <3>6 DEF Within
  <2> QED
    BY <2>1, <2>2
<1>7. Placed'
  <2>1. Before(Advance(end)) = end
    BY <1>0, AdvanceIs
  <2>2. ASSUME NEW slot \in Slot, messages'[slot] # NULL
        PROVE  /\ Within(first, Advance(end), slot)
               /\ messages'[slot] = Number(slot, Advance(end), queued + 1)
    <3>1. Dist(first, slot) <= Dist(first, end)
      BY <1>6, <2>2
    <3>2. Within(first, Advance(end), slot)
      BY <1>0, <1>1, <3>1, WithinAdvance
    <3>3. Number(slot, Advance(end), queued + 1)
            = (queued + 1) - Dist(slot, end)
      BY <2>1 DEF Number
    <3> QED
      BY <1>6, <2>2, <3>2, <3>3
  <2> QED
    BY <1>3, <2>2 DEF Placed, Inside
<1>8. Packed'
  <2>1. Before(Advance(end)) = end /\ messages'[end] # NULL
    BY <1>0, <1>2, <1>3, AdvanceIs
  <2>2. ASSUME NEW s \in Slot, NEW t \in Slot, messages'[s] # NULL,
               Within(first, Advance(end), t),
               Dist(first, s) < Dist(first, t)
        PROVE  messages'[t] # NULL
    <3>1. CASE t = end
      BY <3>1, <2>1
    <3>2. CASE t # end
      <4>1. /\ Dist(first, t) <= Dist(first, end)
            /\ Dist(first, s) \in Nat /\ Dist(first, t) \in Nat
            /\ Dist(first, end) \in Nat
            /\ Dist(first, t) # Dist(first, end)
        BY <1>0, <1>1, <2>2, <3>2, WithinAdvance, DistRange, DistInjective
      <4>2. s # end
        BY <2>2, <4>1
      <4>3. messages[s] # NULL
        BY <1>3, <2>2, <4>2
      <4>4. Within(start, end, s)
        BY <4>3 DEF RingInv, Placed, Inside
      <4>5. start = first /\ start # end /\ start # MQ_EMPTY_SENTINEL
        BY <4>4 DEF Within, first, Stores
      <4>6. Within(start, end, t)
        BY <4>1, <4>5 DEF Within
      <4>7. messages[t] # NULL
        BY <2>2, <4>3, <4>5, <4>6 DEF RingInv, Packed, Inside
      <4> QED
        BY <1>3, <3>2, <4>7
    <3> QED
      BY <3>1, <3>2
  <2>3. start' # MQ_EMPTY_SENTINEL /\ messages'[start'] = NULL
          => start' = 0
    <3>1. CASE start = MQ_EMPTY_SENTINEL
      BY <3>1, <1>3 DEF first
    <3>2. CASE start # MQ_EMPTY_SENTINEL
      <4>1. first = start /\ start # end
        BY <3>2 DEF first, Stores
      <4> QED
        BY <1>1, <1>3, <3>2, <4>1 DEF RingInv, Packed
    <3> QED
      BY <3>1, <3>2
  <2> QED
    BY <1>3, <2>1, <2>2, <2>3 DEF Packed, Inside
<1>9. RingHoldsTheLive'
  <2>1. messages[end] = NULL
    <3> SUFFICES ASSUME messages[end] # NULL PROVE FALSE
      OBVIOUS
    <3>1. Within(start, end, end)
      BY <1>0 DEF RingInv, Placed, Inside
    <3>2. start \in Slot /\ start # end
      BY <1>0, <3>1 DEF Within, Stores
    <3>3. Dist(start, end) \in Nat
      BY <1>0, <3>2, DistRange
    <3> QED
      BY <3>1, <3>2, <3>3 DEF Within
  <2>2. live = { messages[slot] : slot \in Slot } \ {NULL}
    BY DEF RingInv, RingHoldsTheLive
  <2>3. queued + 1 # NULL
    BY <1>0, <1>2
  <2>4. \A m : m \in { messages'[slot] : slot \in Slot } \ {NULL}
                 <=> m \in live \cup {queued + 1}
    BY <1>0, <1>3, <2>1, <2>2, <2>3
  <2> QED
    BY <2>4 DEF RingHoldsTheLive, Stores
<1> QED
  BY <1>4, <1>5, <1>7, <1>8, <1>9 DEF RingInv

(* What dq() does when it returns a message *)
Releases ==
  /\ exists /\ start # MQ_EMPTY_SENTINEL /\ messages[start] # NULL
  /\ messages' = [messages EXCEPT ![start] = NULL]
  /\ start' = IF Advance(start) = end THEN MQ_EMPTY_SENTINEL
              ELSE Advance(start)
  /\ result' = "0"
  /\ live' = live \ {messages[start]}
  /\ UNCHANGED << exists, end, clients, writing, i, queued, sent >>

LEMMA ReleaseRing ==
  ASSUME RingInv, Releases
  PROVE  RingInv'
<1>0. /\ start \in Slot /\ end \in Slot /\ queued \in Nat
      /\ Advance(start) \in Slot /\ Before(end) \in Slot
      /\ messages \in [Slot -> (1 .. queued) \cup {NULL}]
      /\ messages \in [Slot -> Message \cup {NULL}]
  BY AdvanceIs DEF RingInv, Types, QueueTypeOK, Releases
<1>1. /\ messages'[start] = NULL
      /\ \A slot \in Slot \ {start} : messages'[slot] = messages[slot]
      /\ start' = IF Advance(start) = end THEN MQ_EMPTY_SENTINEL
                  ELSE Advance(start)
      /\ end' = end /\ queued' = queued
  BY <1>0 DEF Releases
<1>2. Types'
  <2>1. /\ messages' \in [Slot -> (1 .. queued) \cup {NULL}]
        /\ messages' \in [Slot -> Message \cup {NULL}]
    BY <1>0 DEF Releases
  <2>2. start' \in Slot \cup {MQ_EMPTY_SENTINEL}
    BY <1>0 DEF Releases
  <2> QED
    BY <2>1, <2>2 DEF RingInv, Types, QueueTypeOK, Releases, ReturnCode
<1>3. Absent'
  BY DEF Absent, Releases
<1>4. ASSUME NEW slot \in Slot, messages'[slot] # NULL
      PROVE  /\ slot # start /\ messages[slot] # NULL
             /\ messages'[slot] = messages[slot]
             /\ Advance(start) # end
             /\ Within(Advance(start), end, slot)
             /\ messages[slot] = Number(slot, end, queued)
  <2>1. slot # start /\ messages[slot] # NULL
        /\ messages'[slot] = messages[slot]
    BY <1>1, <1>4
  <2>2. Within(start, end, slot) /\ messages[slot] = Number(slot, end, queued)
    BY <2>1 DEF RingInv, Placed, Inside
  <2> QED
    BY <1>0, <2>1, <2>2, WithinAdvance
<1>5. Placed'
  BY <1>1, <1>4 DEF Placed, Inside
<1>6. Packed'
  <2>1. ASSUME NEW t \in Slot, Within(start', end', t)
        PROVE  messages'[t] # NULL
    <3>1. Advance(start) # end /\ Within(Advance(start), end, t)
      BY <1>1, <2>1 DEF Within
    <3>2. t # start /\ Within(start, end, t)
      BY <1>0, <3>1, WithinAdvance
    <3>3. Dist(start, start) = 0 /\ Dist(start, t) \in Nat
          /\ Dist(start, t) # 0
      BY <1>0, <3>2, DistRange
    <3>4. messages[t] # NULL
      BY <1>0, <3>2, <3>3 DEF RingInv, Packed, Inside, Releases
    <3> QED
      BY <1>1, <3>2, <3>4
  <2>2. start' # MQ_EMPTY_SENTINEL => messages'[Before(end)] # NULL
    <3> SUFFICES ASSUME start' # MQ_EMPTY_SENTINEL
                 PROVE  messages'[Before(end)] # NULL
      OBVIOUS
    <3>1. Advance(Before(end)) = end
      BY <1>0, AdvanceIs
    <3>2. Before(end) # start
      BY <1>1, <3>1
    <3>3. messages[Before(end)] # NULL
      BY DEF RingInv, Packed, Releases
    <3> QED
      BY <1>0, <1>1, <3>2, <3>3
  <2>3. start' # MQ_EMPTY_SENTINEL => messages'[start'] # NULL
    <3> SUFFICES ASSUME start' # MQ_EMPTY_SENTINEL
                 PROVE  messages'[start'] # NULL
      OBVIOUS
    <3>1. start' \in Slot /\ end' \in Slot
      BY <1>0, <1>1
    <3>2. Dist(start', start') = 0 /\ Dist(start', end') \in Nat
          /\ (Dist(start', end') = 0 => start' = end')
      BY <3>1, DistRange
    <3>3. Within(start', end', start')
      BY <3>2 DEF Within
    <3> QED
      BY <2>1, <3>1, <3>3
  <2> QED
    BY <1>1, <2>1, <2>2, <2>3 DEF Packed, Inside
<1>7. RingHoldsTheLive'
  <2>1. live = { messages[slot] : slot \in Slot } \ {NULL}
    BY DEF RingInv, RingHoldsTheLive
  <2>2. ASSUME NEW slot \in Slot, messages[slot] = messages[start]
        PROVE  slot = start
    <3>1. /\ messages[slot] = Number(slot, end, queued)
          /\ messages[start] = Number(start, end, queued)
      BY <1>0, <2>2 DEF RingInv, Placed, Releases
    <3> QED
      BY <1>0, <2>2, <3>1, NumbersDiffer
  <2>3. \A m : m \in { messages'[slot] : slot \in Slot } \ {NULL}
                 <=> m \in live \ {messages[start]}
    BY <1>0, <1>1, <2>1, <2>2
  <2> QED
    BY <2>3 DEF RingHoldsTheLive, Releases
<1> QED
  BY <1>2, <1>3, <1>5, <1>6, <1>7 DEF RingInv

(* A queue that is created, or of which everything is released, is empty. *)
LEMMA EmptyRingInv ==
  ASSUME RingInv, exists' \in BOOLEAN, messages' = EmptyRing,
         start' = MQ_EMPTY_SENTINEL, end' = 0, clients' = << >>,
         live' = {}, UNCHANGED << writing, i, result, queued, sent >>
  PROVE  RingInv'
<1>1. 0 \in Slot
  BY QueueAssumption DEF Slot
<1>2. \A slot \in Slot : messages'[slot] = NULL
  BY DEF EmptyRing
<1>3. /\ messages' \in [Slot -> (1 .. queued) \cup {NULL}]
      /\ messages' \in [Slot -> Message \cup {NULL}]
  BY DEF EmptyRing
<1>4. Types'
  BY <1>1, <1>3 DEF RingInv, Types, QueueTypeOK
<1>5. Absent' /\ Placed' /\ RingHoldsTheLive'
  BY <1>1, <1>2 DEF Absent, Placed, RingHoldsTheLive
<1>6. Packed'
  BY <1>2 DEF Packed
<1> QED
  BY <1>4, <1>5, <1>6 DEF RingInv

-----------------------------------------------------------------------------
(* What is queued *)

(* The last m of n messages *)
Run(n, m) == [k \in 1 .. m |-> n - m + k]

LEMMA SkippedIs ==
  ASSUME RingInv
  PROVE  /\ Skipped \in 0 .. get_length
         /\ \A k \in 0 .. Skipped - 1 :
              messages[(start + k) % Capacity] = NULL
         /\ Skipped < get_length
              => messages[(start + Skipped) % Capacity] # NULL
<1> DEFINE At(k) == messages[(start + k) % Capacity]
           Stops == { n \in 0 .. get_length : n < get_length => At(n) # NULL }
<1>1. get_length \in Nat
  BY LengthIs DEF RingInv, Types, QueueTypeOK
<1> HIDE DEF At
<1>2. Stops \in SUBSET Nat /\ get_length \in Stops
  BY <1>1
<1>3. PICK n \in Stops : \A m \in Stops : n <= m
  BY <1>2, Least
<1>4. \A k \in 0 .. n - 1 : At(k) = NULL
  <2> SUFFICES ASSUME NEW k \in 0 .. n - 1 PROVE At(k) = NULL
    OBVIOUS
  <2>1. k \in 0 .. get_length /\ k < n
    BY <1>1, <1>3
  <2> QED
    BY <1>1, <1>3, <2>1
<1>5. /\ n \in 0 .. get_length
      /\ \A k \in 0 .. n - 1 : messages[(start + k) % Capacity] = NULL
      /\ n < get_length => messages[(start + n) % Capacity] # NULL
  BY <1>3, <1>4 DEF At
<1> QED
  BY <1>5 DEF Skipped

(* The messages are numbered without a gap from the oldest one to the last *)
(* one queued, and those are the ones in memory.                           *)
LEMMA ContentRuns ==
  RingInv =>
    \E m \in 0 .. queued :
      /\ Content = Run(queued, m)
      /\ live = (queued - m + 1) .. queued
      /\ start = MQ_EMPTY_SENTINEL => m = 0
      /\ start # MQ_EMPTY_SENTINEL /\ messages[start] # NULL =>
           m = get_length /\ m # 0 /\ messages[start] = queued - m + 1
<1> SUFFICES ASSUME RingInv
             PROVE  \E m \in 0 .. queued :
                      /\ Content = Run(queued, m)
                      /\ live = (queued - m + 1) .. queued
                      /\ start = MQ_EMPTY_SENTINEL => m = 0
                      /\ start # MQ_EMPTY_SENTINEL /\ messages[start] # NULL
                           => /\ m = get_length /\ m # 0
                              /\ messages[start] = queued - m + 1
  OBVIOUS
<1> DEFINE m == get_length - Skipped
           slotOf(k) == (start + Skipped + k - 1) % Capacity
<1>0. /\ start \in Slot \cup {MQ_EMPTY_SENTINEL} /\ end \in Slot
      /\ queued \in Nat /\ Capacity \in Nat
      /\ messages \in [Slot -> (1 .. queued) \cup {NULL}]
      /\ NULL \notin 1 .. queued
  BY NullIsNone, QueueAssumption, ApiAssumption
     DEF RingInv, Types, QueueTypeOK
<1>1. /\ Skipped \in 0 .. get_length /\ get_length \in 0 .. Capacity
      /\ m \in 0 .. Capacity
  BY <1>0, SkippedIs, LengthIs
<1>2. Content = [k \in 1 .. m |-> messages[slotOf(k)]]
  BY DEF Content
<1>3. live = { messages[slot] : slot \in Slot } \ {NULL}
  BY DEF RingInv, RingHoldsTheLive
<1>4. CASE start = MQ_EMPTY_SENTINEL
  <2>1. m = 0
    BY <1>0, <1>1, <1>4, LengthIs
  <2>2. live = {}
    BY <1>3, <1>4 DEF RingInv, Placed, Inside, Within
  <2>3. 1 .. 0 = {} /\ (queued - 0 + 1) .. queued = {} /\ 0 \in 0 .. queued
    BY <1>0
  <2>4. Content = Run(queued, 0)
    BY <1>2, <2>1, <2>3 DEF Run
  <2> QED
    BY <1>4, <2>2, <2>3, <2>4
<1>5. CASE start # MQ_EMPTY_SENTINEL
  <2>1. start \in Slot /\ start \in Int /\ Before(end) \in Slot
    BY <1>0, <1>5, AdvanceIs DEF Slot
  <2>2. Dist(start, Before(end)) = get_length - 1 /\ get_length > 0
    <3>1. /\ get_length = IF start = end THEN Capacity ELSE Dist(start, end)
      BY <1>0, <1>5, LengthIs
    <3>2. Dist(start, end) \in Nat /\ (Dist(start, end) = 0 => start = end)
      BY <1>0, <2>1, DistRange
    <3> QED
      BY <1>0, <2>1, <3>1, <3>2, DistBefore, QueueAssumption
  (* Where a slot inside is, and what is in it *)
  <2>3. ASSUME NEW slot \in Slot, messages[slot] # NULL
        PROVE  /\ Dist(start, slot) \in Nat
               /\ Dist(start, slot) < get_length
               /\ messages[slot]
                    = queued - (get_length - 1) + Dist(start, slot)
    <3>1. /\ Within(start, end, slot)
          /\ messages[slot] = queued - Dist(slot, Before(end))
      BY <2>3 DEF RingInv, Placed, Inside, Number
    <3>2. /\ Dist(start, slot) \in 0 .. Capacity - 1
          /\ Dist(slot, Before(end)) \in 0 .. Capacity - 1
      BY <2>1, DistRange
    <3>3. Dist(start, slot) < get_length
      BY <1>0, <1>5, <3>1, <3>2, LengthIs DEF Within
    <3>4. Dist(start, slot) <= Dist(start, Before(end))
      BY <1>0, <1>1, <2>2, <3>2, <3>3
    <3>5. Dist(start, slot) + Dist(slot, Before(end))
            = Dist(start, Before(end))
      BY <2>1, <3>4, DistAdds
    <3> QED
      BY <1>0, <1>1, <2>2, <3>1, <3>2, <3>3, <3>5
  <2>4. Skipped <= get_length - 1
    <3> SUFFICES ASSUME Skipped = get_length PROVE FALSE
      BY <1>1
    <3>1. get_length - 1 \in 0 .. Skipped - 1
      BY <1>1, <2>2
    <3>2. messages[(start + Dist(start, Before(end))) % Capacity] = NULL
      BY <2>2, <3>1, SkippedIs
    <3>3. (start + Dist(start, Before(end))) % Capacity = Before(end)
      BY <2>1, DistIndex
    <3> QED
      BY <1>5, <3>2, <3>3 DEF RingInv, Packed
  <2>5. ASSUME NEW k \in 1 .. m
        PROVE  /\ slotOf(k) \in Slot
               /\ Dist(start, slotOf(k)) = Skipped + k - 1
               /\ messages[slotOf(k)] = queued - m + k
    <3>1. Skipped + k - 1 \in 0 .. Capacity - 1
          /\ start + (Skipped + k - 1) = start + Skipped + k - 1
      BY <1>0, <1>1, <2>1
    <3>2. slotOf(k) \in Slot /\ Dist(start, slotOf(k)) = Skipped + k - 1
      BY <2>1, <3>1, DistIndex
    <3>3. messages[slotOf(k)] # NULL
      <4>0. Skipped \in 0 .. Capacity - 1
        BY <1>0, <1>1, <2>4
      <4> DEFINE oldest == (start + Skipped) % Capacity
      <4>1. /\ oldest \in Slot /\ messages[oldest] # NULL
            /\ Dist(start, oldest) = Skipped
        BY <1>1, <2>1, <2>4, <4>0, SkippedIs, DistIndex
      <4>2. Skipped + k - 1 < get_length
        BY <1>1
      <4>3. Within(start, end, slotOf(k))
        BY <1>0, <1>5, <3>2, <4>2, LengthIs DEF Within
      <4> HIDE DEF oldest
      <4>4. CASE k = 1
        <5>1. Dist(start, slotOf(k)) = Dist(start, oldest)
          BY <1>1, <3>2, <4>1, <4>4
        <5> QED
          BY <2>1, <3>2, <4>1, <5>1, DistInjective
      <4>5. CASE k # 1
        <5>1. Dist(start, oldest) < Dist(start, slotOf(k))
          BY <1>1, <3>2, <4>1, <4>5
        <5> QED
          BY <3>2, <4>1, <4>3, <5>1 DEF RingInv, Packed, Inside
      <4> QED
        BY <4>4, <4>5
    <3>4. messages[slotOf(k)]
            = queued - (get_length - 1) + (Skipped + k - 1)
      BY <2>3, <3>2, <3>3
    <3> QED
      BY <1>0, <1>1, <3>2, <3>4
  <2> HIDE DEF slotOf
  <2>6. m \in 0 .. queued
    <3>1. 1 \in 1 .. m
      BY <1>1, <2>4
    <3>2. messages[slotOf(1)] \in (1 .. queued) \cup {NULL}
          /\ messages[slotOf(1)] # NULL
          /\ messages[slotOf(1)] = queued - m + 1
      <4>1. slotOf(1) \in Slot /\ messages[slotOf(1)] = queued - m + 1
        BY <2>5, <3>1
      <4>2. messages[slotOf(1)] # NULL
        <5>1. (start + Skipped + 1 - 1) % Capacity
                = (start + Skipped) % Capacity
          BY <1>1, <2>1
        <5>2. Skipped < get_length
          BY <1>1, <2>4
        <5> QED
          BY <5>1, <5>2, SkippedIs DEF slotOf
      <4> QED
        BY <1>0, <4>1, <4>2
    <3>3. queued - m + 1 \in 1 .. queued
      BY <3>2
    <3> QED
      BY <1>0, <1>1, <3>3
  <2>7. Content = Run(queued, m)
    BY <1>2, <2>5 DEF Run
  <2>8. \A n : n \in live <=> n \in (queued - m + 1) .. queued
    <3>1. ASSUME NEW n \in live
          PROVE  n \in (queued - m + 1) .. queued
      <4>1. PICK slot \in Slot : n = messages[slot] /\ n # NULL
        BY <1>3, <3>1
      <4>2. /\ Dist(start, slot) \in Nat
            /\ Dist(start, slot) < get_length
            /\ n = queued - (get_length - 1) + Dist(start, slot)
        BY <2>3, <4>1
      <4>3. ~ (Dist(start, slot) < Skipped)
        <5> SUFFICES ASSUME Dist(start, slot) < Skipped PROVE FALSE
          OBVIOUS
        <5>1. Dist(start, slot) \in 0 .. Skipped - 1
          BY <1>1, <4>2
        <5>2. messages[(start + Dist(start, slot)) % Capacity] = NULL
          BY <5>1, SkippedIs
        <5> QED
          BY <2>1, <4>1, <5>2, DistIndex
      <4> QED
        BY <1>0, <1>1, <4>2, <4>3
    <3>2. ASSUME NEW n \in (queued - m + 1) .. queued
          PROVE  n \in live
      <4>1. n - queued + m \in 1 .. m /\ queued - m + (n - queued + m) = n
        BY <1>0, <1>1, <2>6
      <4>2. /\ slotOf(n - queued + m) \in Slot
            /\ messages[slotOf(n - queued + m)] = n
        BY <2>5, <4>1
      <4>3. n \in 1 .. queued
        BY <1>0, <2>6
      <4> QED
        BY <1>0, <1>3, <4>2, <4>3
    <3> QED
      BY <3>1, <3>2
  <2>9. ASSUME messages[start] # NULL
        PROVE  m = get_length /\ m # 0 /\ messages[start] = queued - m + 1
    <3>1. Dist(start, start) = 0 /\ (start + Dist(start, start)) % Capacity
                                      = start
      BY <2>1, DistRange, DistIndex
    <3>2. Skipped = 0
      <4> SUFFICES ASSUME Skipped # 0 PROVE FALSE
        OBVIOUS
      <4>1. 0 \in 0 .. Skipped - 1
        BY <1>1
      <4> QED
        BY <2>9, <3>1, <4>1, SkippedIs
    <3>3. messages[start] = queued - (get_length - 1) + 0
      BY <2>1, <2>3, <2>9, <3>1
    <3> QED
      BY <1>0, <1>1, <2>2, <3>2, <3>3
  <2>10. live = (queued - m + 1) .. queued
    BY <2>8
  <2> QED
    BY <1>5, <2>6, <2>7, <2>9, <2>10
<1> QED
  BY <1>4, <1>5

-----------------------------------------------------------------------------
(* The clients *)

(* A message that is stored is ahead of everybody, unless it is stored     *)
(* where the client would go on: then the client is a lap behind.          *)
LEMMA StoreTracks ==
  ASSUME RingInv, Stores, NEW pos \in Slot, NEW last \in 0 .. queued,
         Tracks(pos, last)
  PROVE  Tracks(pos, last)'
<1> DEFINE next == Advance(end)
           first == IF start = MQ_EMPTY_SENTINEL THEN 0 ELSE start
<1>0. /\ end \in Slot /\ next \in Slot /\ queued \in Nat /\ last \in Nat
      /\ last <= queued /\ Capacity \in Nat /\ Capacity > 0
      /\ start \in Slot \cup {MQ_EMPTY_SENTINEL}
      /\ end # start /\ end \in Nat /\ end < Capacity /\ pos \in Nat
      /\ MQ_EMPTY_SENTINEL = -1
      /\ messages \in [Slot -> (1 .. queued) \cup {NULL}]
  BY AdvanceIs, QueueAssumption
     DEF RingInv, Types, QueueTypeOK, Stores, Slot, MQ_EMPTY_SENTINEL
<1>1. /\ messages'[end] = queued + 1
      /\ \A slot \in Slot \ {end} : messages'[slot] = messages[slot]
      /\ start' = first /\ end' = next /\ queued' = queued + 1
  BY <1>0 DEF Stores
<1>2. /\ Dist(pos, next) = IF next = pos THEN 0 ELSE Dist(pos, end) + 1
      /\ next = pos => Dist(pos, end) = Capacity - 1
      /\ Dist(pos, end) \in 0 .. Capacity - 1
      /\ next = IF end = Capacity - 1 THEN 0 ELSE end + 1
  BY <1>0, DistAdvance, DistRange, AdvanceIs
<1> HIDE DEF next
<1>3. start = MQ_EMPTY_SENTINEL => \A slot \in Slot : messages[slot] = NULL
  BY DEF RingInv, Placed, Inside, Within
<1>4. Restarted =>
        /\ start' = 0 /\ messages'[0] = NULL
        /\ end # 0 /\ start = 0 /\ messages[0] = NULL
  BY <1>0, <1>1, QueueAssumption DEF Restarted, Slot
<1>5. start = MQ_EMPTY_SENTINEL /\ end # 0
        => start' = 0 /\ messages'[0] = NULL
  BY <1>0, <1>1, <1>3, QueueAssumption DEF Slot
<1>6. OnlyNewAhead(pos, last)'
  <2> SUFFICES ASSUME NEW slot \in AheadOf(pos, next),
                      messages'[slot] # NULL
               PROVE  NewTo(last, messages'[slot])
    BY <1>1 DEF OnlyNewAhead
  <2>1. slot \in Slot /\ Dist(pos, slot) < Dist(pos, next)
    BY DEF AheadOf
  <2>2. CASE slot = end
    <3>1. NewTo(last, queued + 1)
      BY <1>0 DEF NewTo
    <3> QED
      BY <1>1, <2>2, <3>1
  <2>3. CASE slot # end
    <3>1. /\ Dist(pos, slot) \in Nat
          /\ Dist(pos, slot) # Dist(pos, end)
      BY <1>0, <2>1, <2>3, DistRange, DistInjective
    <3>2. Dist(pos, slot) < Dist(pos, end)
      BY <1>2, <2>1, <3>1
    <3>3. slot \in AheadOf(pos, end)
      BY <2>1, <3>2 DEF AheadOf
    <3>4. messages'[slot] = messages[slot] /\ messages[slot] # NULL
      BY <1>1, <2>1, <2>3
    <3>5. NewTo(last, messages[slot])
      BY <3>3, <3>4 DEF Tracks, OnlyNewAhead
    <3> QED
      BY <3>4, <3>5
  <2> QED
    BY <2>2, <2>3
<1>7. Near(pos, last)'
  <2>1. CASE InReach(pos, end, queued, last)
    <3>1. InReach(pos, next, queued + 1, last)
      BY <1>0, <1>2, <2>1 DEF InReach
    <3> QED
      BY <1>1, <3>1 DEF Near
  <2>2. CASE start = MQ_EMPTY_SENTINEL /\ pos = 0
    <3>1. CASE end = 0
      <4>1. Dist(pos, end) = 0
        BY <1>0, <2>2, <3>1, DistRange
      <4>2. InReach(pos, next, queued + 1, last)
        BY <1>0, <1>2, <4>1 DEF InReach
      <4> QED
        BY <1>1, <4>2 DEF Near
    <3>2. CASE end # 0
      <4>1. start' = 0 /\ messages'[0] = NULL
        BY <1>5, <2>2, <3>2
      <4>2. pos <= next
        BY <1>0, <1>2, <2>2
      <4>3. pos <= end'
        BY <1>1, <4>2
      <4> QED
        BY <4>1, <4>3 DEF Near, Restarted
    <3> QED
      BY <3>1, <3>2
  <2>3. CASE Restarted /\ (pos <= end \/ end = 0)
    <3>1. start' = 0 /\ messages'[0] = NULL
      BY <1>4, <2>3
    <3>2. pos <= next \/ next = 0
      BY <1>0, <1>2, <1>4, <2>3
    <3>3. pos <= end' \/ end' = 0
      BY <1>1, <3>2
    <3> QED
      BY <3>1, <3>3 DEF Near, Restarted
  <2> QED
    BY <2>1, <2>2, <2>3 DEF Tracks, Near
<1>8. AllNewAhead(pos, last)'
  <2>1. CASE Lapped(queued, last)
    <3>1. Lapped(queued + 1, last)
      BY <1>0, <2>1 DEF Lapped
    <3> QED
      BY <1>1, <3>1 DEF AllNewAhead
  <2>2. CASE next = pos
    <3>1. CASE InReach(pos, end, queued, last)
      <4>1. Lapped(queued + 1, last)
        BY <1>0, <1>2, <2>2, <3>1 DEF InReach, Lapped
      <4> QED
        BY <1>1, <4>1 DEF AllNewAhead
    <3>2. CASE start = MQ_EMPTY_SENTINEL /\ pos = 0
      <4>1. CASE end = 0
        <5>1. Lapped(queued + 1, last)
          BY <1>0, <1>2, <2>2, <3>2, <4>1 DEF Lapped
        <5> QED
          BY <1>1, <5>1 DEF AllNewAhead
      <4>2. CASE end # 0
        BY <1>1, <1>5, <2>2, <3>2, <4>2 DEF AllNewAhead, Restarted
      <4> QED
        BY <4>1, <4>2
    <3>3. CASE Restarted /\ (pos <= end \/ end = 0)
      <4>1. next = 0
        BY <1>0, <1>2, <1>4, <2>2, <3>3
      <4> QED
        BY <1>1, <1>4, <2>2, <3>3, <4>1 DEF AllNewAhead, Restarted
    <3> QED
      BY <3>1, <3>2, <3>3 DEF Tracks, Near
  <2>3. CASE ~ Lapped(queued, last) /\ next # pos
    <3>1. ASSUME NEW slot \in Slot, messages'[slot] # NULL,
                 NewTo(last, messages'[slot])
          PROVE  slot \in AheadOf(pos, next)
      <4>1. Dist(pos, end) < Dist(pos, next)
        BY <1>2, <2>3
      <4>2. CASE slot = end
        BY <1>0, <4>1, <4>2 DEF AheadOf
      <4>3. CASE slot # end
        <5>1. messages'[slot] = messages[slot]
          BY <1>1, <4>3
        <5>2. slot \in AheadOf(pos, end)
          BY <1>4, <2>3, <3>1, <5>1 DEF Tracks, AllNewAhead
        <5>3. Dist(pos, slot) < Dist(pos, end) /\ Dist(pos, slot) \in Nat
          BY <5>2, DistRange DEF AheadOf
        <5>4. Dist(pos, slot) < Dist(pos, next)
          BY <1>2, <4>1, <5>3
        <5> QED
          BY <5>4 DEF AheadOf
      <4> QED
        BY <4>2, <4>3
    <3> QED
      BY <1>1, <3>1 DEF AllNewAhead
  <2> QED
    BY <2>1, <2>2, <2>3
<1> QED
  BY <1>6, <1>7, <1>8 DEF Tracks

LEMMA ReleaseTracks ==
  ASSUME RingInv, Releases, NEW pos \in Slot, NEW last \in 0 .. queued,
         Tracks(pos, last)
  PROVE  Tracks(pos, last)'
<1>1. /\ start \in Slot /\ messages \in [Slot -> Message \cup {NULL}]
      /\ end' = end /\ queued' = queued
      /\ start # MQ_EMPTY_SENTINEL /\ messages[start] # NULL
  BY DEF RingInv, Types, QueueTypeOK, Releases
<1>2. \A slot \in Slot : messages'[slot] # NULL
        => messages[slot] # NULL /\ messages'[slot] = messages[slot]
  BY <1>1 DEF Releases
<1>3. ~ Restarted
  BY <1>1 DEF Restarted
<1>4. OnlyNewAhead(pos, last)'
  BY <1>1, <1>2 DEF Tracks, OnlyNewAhead, AheadOf
<1>5. Near(pos, last)'
  BY <1>1, <1>3 DEF Tracks, Near
<1>6. AllNewAhead(pos, last)'
  BY <1>1, <1>2, <1>3 DEF Tracks, AllNewAhead
<1> QED
  BY <1>4, <1>5, <1>6 DEF Tracks

LEMMA SameTracks ==
  ASSUME UNCHANGED << Ring, queued >>, NEW pos, NEW last, Tracks(pos, last)
  PROVE  Tracks(pos, last)'
BY DEF Ring, Tracks, OnlyNewAhead, Near, AllNewAhead, Restarted

(* The loop passes over an empty slot. *)
LEMMA SkipTracks ==
  ASSUME RingInv, start # MQ_EMPTY_SENTINEL, NEW pos \in Slot,
         NEW last \in 0 .. queued, pos # end, messages[pos] = NULL,
         Tracks(pos, last)
  PROVE  Tracks(Advance(pos), last)
<1> DEFINE next == Advance(pos)
<1>0. /\ end \in Slot /\ next \in Slot /\ queued \in Nat /\ last \in Nat
      /\ Capacity \in Nat /\ end \in Nat /\ end < Capacity /\ pos \in Nat
  BY AdvanceIs, QueueAssumption DEF RingInv, Types, QueueTypeOK, Slot
<1>1. \A slot \in Slot :
        /\ Dist(next, slot)
             = IF pos = slot THEN Capacity - 1 ELSE Dist(pos, slot) - 1
        /\ Dist(pos, slot) \in 0 .. Capacity - 1
        /\ Dist(pos, slot) = 0 <=> pos = slot
  BY DistAdvance, DistRange
<1>2. next = IF pos = Capacity - 1 THEN 0 ELSE pos + 1
  BY AdvanceIs
<1> HIDE DEF next
<1>3. \A slot \in Slot :
        slot \in AheadOf(next, end) <=> slot \in AheadOf(pos, end) \ {pos}
  BY <1>0, <1>1 DEF AheadOf
<1>4. OnlyNewAhead(next, last)
  <2>1. \A slot \in AheadOf(next, end) : slot \in AheadOf(pos, end)
    BY <1>3 DEF AheadOf
  <2> QED
    BY <2>1 DEF Tracks, OnlyNewAhead
<1>5. Near(next, last)
  <2>1. CASE InReach(pos, end, queued, last)
    <3>1. InReach(next, end, queued, last)
      BY <1>0, <1>1, <2>1 DEF InReach
    <3> QED
      BY <3>1 DEF Near
  <2>2. CASE Restarted /\ (pos <= end \/ end = 0)
    BY <1>0, <1>2, <2>2 DEF Near
  <2> QED
    BY <2>1, <2>2 DEF Tracks, Near
<1>6. AllNewAhead(next, last)
  BY <1>3 DEF Tracks, AllNewAhead
<1> QED
  BY <1>4, <1>5, <1>6 DEF Tracks, next

(* The loop writes a message: it is the oldest one ahead. *)
LEMMA WriteTracks ==
  ASSUME RingInv, NEW pos \in Slot, pos # end, messages[pos] # NULL
  PROVE  Tracks(Advance(pos), messages[pos])
<1> DEFINE next == Advance(pos)
           last == messages[pos]
<1>0. /\ end \in Slot /\ next \in Slot /\ queued \in Nat /\ last \in Nat
      /\ Capacity \in Nat /\ Before(end) \in Slot
  <2>1. end \in Slot /\ queued \in Nat /\ Capacity \in Nat
    BY QueueAssumption DEF RingInv, Types, QueueTypeOK
  <2>2. last \in 1 .. queued
    BY NullIsNone DEF RingInv
  <2> QED
    BY <2>1, <2>2, AdvanceIs
<1>1. \A slot \in Slot :
        /\ Dist(next, slot)
             = IF pos = slot THEN Capacity - 1 ELSE Dist(pos, slot) - 1
        /\ Dist(pos, slot) \in 0 .. Capacity - 1
        /\ Dist(slot, end) \in 0 .. Capacity - 1
        /\ Dist(pos, slot) = 0 <=> pos = slot
        /\ Dist(slot, end) = 0 <=> slot = end
  BY <1>0, DistAdvance, DistRange
<1>2. ASSUME NEW slot \in Slot, messages[slot] # NULL
      PROVE  /\ messages[slot] \in Nat
             /\ messages[slot] = queued - (IF slot = end THEN Capacity - 1
                                           ELSE Dist(slot, end) - 1)
  <2>1. messages[slot] = queued - Dist(slot, Before(end))
    BY <1>2 DEF RingInv, Placed, Number
  <2>2. messages[slot] \in 1 .. queued
    BY <1>2, NullIsNone DEF RingInv
  <2> QED
    BY <1>0, <2>1, <2>2, DistBefore
<1>3. last = queued - (Dist(pos, end) - 1)
  BY <1>2
<1> HIDE DEF next, last
<1>4. OnlyNewAhead(next, last)
  <2> SUFFICES ASSUME NEW slot \in AheadOf(next, end), messages[slot] # NULL
               PROVE  NewTo(last, messages[slot])
    BY DEF OnlyNewAhead
  <2>1. slot \in Slot /\ Dist(next, slot) < Dist(next, end)
    BY DEF AheadOf
  <2>2. pos # slot /\ Dist(pos, slot) < Dist(pos, end) /\ slot # end
    BY <1>0, <1>1, <2>1
  <2>3. Dist(pos, slot) + Dist(slot, end) = Dist(pos, end)
    BY <1>0, <1>1, <2>1, <2>2, DistAdds
  <2>4. Dist(slot, end) < Dist(pos, end)
    BY <1>0, <1>1, <2>1, <2>2, <2>3
  <2>5. messages[slot] > last
    BY <1>0, <1>1, <1>2, <1>3, <2>1, <2>2, <2>4
  <2> QED
    BY <2>5 DEF NewTo
<1>5. Near(next, last)
  <2>1. Dist(next, end) = Dist(pos, end) - 1
    BY <1>0, <1>1
  <2>2. InReach(next, end, queued, last)
    BY <1>0, <1>1, <1>3, <2>1 DEF InReach
  <2> QED
    BY <2>2 DEF Near
<1>6. AllNewAhead(next, last)
  <2>1. ASSUME NEW slot \in Slot, messages[slot] # NULL,
               messages[slot] > last
        PROVE  slot \in AheadOf(next, end)
    <3>1. slot # end /\ Dist(slot, end) < Dist(pos, end)
      BY <1>0, <1>1, <1>2, <1>3, <2>1
    <3>2. Dist(pos, slot) < Dist(pos, end) /\ slot # pos
      BY <1>0, <3>1, QueueAssumption DEF Dist, Slot
    <3>3. Dist(next, slot) < Dist(next, end)
      BY <1>0, <1>1, <3>1, <3>2
    <3> QED
      BY <3>3 DEF AheadOf
  <2> QED
    BY <2>1 DEF AllNewAhead, NewTo
<1> QED
  BY <1>4, <1>5, <1>6 DEF Tracks, next, last

(* A client that registers is sent what is there from the oldest on. *)
LEMMA RegisterTracks ==
  ASSUME RingInv, NEW fd
  PROVE  /\ NewClient(fd).fd = fd /\ NewClient(fd).roff \in Slot
         /\ Oldest - 1 \in 0 .. queued
         /\ Tracks(NewClient(fd).roff, Oldest - 1)
<1> DEFINE pos == IF start = MQ_EMPTY_SENTINEL THEN 0 ELSE start
<1>1. PICK m \in 0 .. queued :
        /\ Content = Run(queued, m)
        /\ live = (queued - m + 1) .. queued
        /\ start = MQ_EMPTY_SENTINEL => m = 0
        /\ start # MQ_EMPTY_SENTINEL /\ messages[start] # NULL =>
             m = get_length /\ m # 0 /\ messages[start] = queued - m + 1
  BY ContentRuns
<1>0. /\ end \in Slot /\ queued \in Nat /\ Capacity \in Nat
      /\ start \in Slot \cup {MQ_EMPTY_SENTINEL}
      /\ m \in Nat /\ m <= queued /\ end >= 0
      /\ 0 \in Slot
      /\ start = MQ_EMPTY_SENTINEL <=> start \notin Slot
  BY QueueAssumption
     DEF RingInv, Types, QueueTypeOK, Slot, MQ_EMPTY_SENTINEL
<1>2. pos \in Slot /\ NewClient(fd) = [fd |-> fd, roff |-> pos]
  BY <1>0 DEF NewClient
<1>3. Oldest - 1 = queued - m
  <2>1. CASE m = 0
    <3>1. Content = << >>
      <4>1. 1 .. 0 = {}
        OBVIOUS
      <4> QED
        BY <1>1, <2>1, <4>1 DEF Run
    <3> QED
      BY <1>0, <2>1, <3>1 DEF Oldest
  <2>2. CASE m # 0
    <3>1. 1 \in 1 .. m
      BY <1>0, <2>2
    <3>2. Content[1] = queued - m + 1 /\ Content # << >>
      BY <1>1, <3>1 DEF Run
    <3>3. Head(Content) = queued - m + 1
      <4>1. Content \in [1 .. m -> Int]
        BY <1>0, <1>1 DEF Run
      <4>2. Content \in Seq(Int)
        BY <1>0, <4>1, SeqDef
      <4> QED
        BY <3>2, <4>2
    <3> QED
      BY <1>0, <3>2, <3>3 DEF Oldest
  <2> QED
    BY <2>1, <2>2
<1>4. \A slot \in Slot : messages[slot] # NULL =>
        /\ messages[slot] \in live /\ start # MQ_EMPTY_SENTINEL
        /\ Within(start, end, slot)
  BY DEF RingInv, RingHoldsTheLive, Placed, Inside, Within
<1>5. \A slot \in Slot : messages[slot] # NULL =>
        NewTo(queued - m, messages[slot])
  <2>1. \A n \in live : n > queued - m
    BY <1>0, <1>1
  <2> QED
    BY <1>4, <2>1 DEF NewTo
<1> HIDE DEF pos
<1>6. OnlyNewAhead(pos, queued - m)
  BY <1>5 DEF OnlyNewAhead, AheadOf
<1>7. CASE start = MQ_EMPTY_SENTINEL
  <2>1. Near(pos, queued - m) /\ AllNewAhead(pos, queued - m)
    BY <1>4, <1>7 DEF Near, AllNewAhead, pos
  <2> QED
    BY <1>0, <1>2, <1>3, <1>6, <2>1 DEF Tracks
<1>8. CASE start # MQ_EMPTY_SENTINEL
  <2>1. pos = start
    BY <1>8 DEF pos
  <2>2. /\ get_length = IF start = end THEN Capacity ELSE Dist(start, end)
        /\ Dist(start, end) \in 0 .. Capacity - 1
        /\ Dist(start, end) = 0 <=> start = end
    BY <1>0, <1>8, LengthIs, DistRange
  <2>3. CASE messages[start] = NULL
    <3>1. Restarted /\ pos <= end
      BY <1>0, <1>8, <2>1, <2>3 DEF RingInv, Packed, Restarted
    <3>2. Near(pos, queued - m)
      BY <3>1 DEF Near
    <3>3. AllNewAhead(pos, queued - m)
      <4>1. CASE end = 0
        BY <2>1, <3>1, <4>1 DEF AllNewAhead, Restarted
      <4>2. CASE end # 0
        <5>1. start # end
          BY <3>1, <4>2 DEF Restarted
        <5> QED
          BY <1>4, <2>1, <5>1 DEF AllNewAhead, AheadOf, Within
      <4> QED
        BY <4>1, <4>2
    <3> QED
      BY <1>0, <1>2, <1>3, <1>6, <3>2, <3>3 DEF Tracks
  <2>4. CASE messages[start] # NULL
    <3>1. m = get_length
      BY <1>1, <1>8, <2>4
    <3>2. InReach(pos, end, queued, queued - m)
      BY <1>0, <2>1, <2>2, <3>1 DEF InReach
    <3>3. AllNewAhead(pos, queued - m)
      <4>1. CASE start = end
        <5>1. Lapped(queued, queued - m)
          BY <1>0, <2>2, <3>1, <4>1 DEF Lapped
        <5> QED
          BY <5>1 DEF AllNewAhead
      <4>2. CASE start # end
        BY <1>4, <2>1, <4>2 DEF AllNewAhead, AheadOf, Within
      <4> QED
        BY <4>1, <4>2
    <3>4. Near(pos, queued - m)
      BY <3>2 DEF Near
    <3> QED
      BY <1>0, <1>2, <1>3, <1>6, <3>3, <3>4 DEF Tracks
  <2> QED
    BY <2>3, <2>4
<1> QED
  BY <1>7, <1>8

-----------------------------------------------------------------------------
(* The list of clients *)

LEMMA ClientIndex ==
  ASSUME RingInv, NEW fd
  PROVE  /\ ClientOf(fd) \in 0 .. Len(clients)
         /\ ClientOf(fd) = 0 => \A k \in DOMAIN clients : clients[k].fd # fd
         /\ ClientOf(fd) # 0 => /\ ClientOf(fd) \in DOMAIN clients
                                /\ clients[ClientOf(fd)].fd = fd
<1> DEFINE I == { k \in 1 .. Len(clients) : clients[k].fd = fd }
<1>0. clients \in Seq([fd : ClientFd, roff : Slot])
  BY DEF RingInv, Types
<1>1. ClientOf(fd)
        = IF I # {} THEN CHOOSE x \in I : \A y \in I : x =< y ELSE 0
  BY DEF ClientOf, SelectInSeq, Min
<1>2. I \in SUBSET Nat
  OBVIOUS
<1>3. I # {} => \E x \in I : \A y \in I : x =< y
  BY <1>2, Least
<1>4. Len(clients) \in Nat /\ DOMAIN clients = 1 .. Len(clients)
  BY <1>0
<1>5. CASE I = {}
  BY <1>1, <1>4, <1>5
<1>6. CASE I # {}
  <2>1. ClientOf(fd) \in I
    BY <1>1, <1>3, <1>6
  <2> QED
    BY <1>4, <2>1
<1> QED
  BY <1>5, <1>6

LEMMA ClientTyped ==
  ASSUME RingInv, NEW k \in DOMAIN clients
  PROVE  /\ clients[k].fd \in ClientFd /\ clients[k].fd # Nobody
         /\ clients[k].roff \in Slot
         /\ clients[k] = [fd |-> clients[k].fd, roff |-> clients[k].roff]
         /\ Position(clients[k]) \in Slot
         /\ sent[clients[k].fd] \in 0 .. queued
<1>1. clients \in Seq([fd : ClientFd, roff : Slot]) /\ i \in Slot
      /\ sent \in [ClientFd -> 0 .. queued]
  BY DEF RingInv, Types, QueueTypeOK
<1> DEFINE R == [fd : ClientFd, roff : Slot]
<1>2. clients[k] \in R
  <2> HIDE DEF R
  <2>1. clients \in Seq(R)
    BY <1>1 DEF R
  <2> QED
    BY <2>1
<1>3. clients[k].fd \in Nat
  BY <1>2, ApiAssumption
<1>4. Nobody \notin Nat
  BY DEF Nobody
<1> QED
  BY <1>1, <1>2, <1>3, <1>4 DEF Position

(* Steps that leave the list alone *)
LEMMA SameClients ==
  ASSUME IInv, UNCHANGED << clients, writing, i, sent >>,
         Idle \/ UNCHANGED start,
         \A pos \in Slot, last \in 0 .. queued :
           Tracks(pos, last) => Tracks(pos, last)'
  PROVE  ClientInv'
<1>1. OneEntryEach'
  BY DEF IInv, ClientInv, OneEntryEach
<1>2. InLoop'
  BY DEF IInv, ClientInv, InLoop, Idle
<1>3. EachTracks'
  <2> SUFFICES ASSUME NEW k \in DOMAIN clients
               PROVE  Tracks(Position(clients[k]), sent[clients[k].fd])'
    BY DEF EachTracks
  <2>1. PICK pos \in Slot : pos = Position(clients[k])
    BY ClientTyped DEF IInv
  <2>2. PICK last \in 0 .. queued : last = sent[clients[k].fd]
    BY ClientTyped DEF IInv
  <2>3. Tracks(pos, last)'
    BY <2>1, <2>2 DEF IInv, ClientInv, EachTracks
  <2>4. pos = Position(clients[k])' /\ last = sent'[clients'[k].fd]
    BY <2>1, <2>2 DEF Position
  <2> QED
    BY <2>3, <2>4
<1> QED
  BY <1>1, <1>2, <1>3 DEF ClientInv

LEMMA InitInv == Init => IInv
<1> SUFFICES ASSUME Init PROVE IInv
  OBVIOUS
<1>1. 0 \in Slot
  BY QueueAssumption DEF Slot
<1>2. \A slot \in Slot : messages[slot] = NULL
  BY DEF Init, EmptyRing
<1>3. messages \in [Slot -> (1 .. queued) \cup {NULL}]
      /\ messages \in [Slot -> Message \cup {NULL}]
  BY DEF Init, EmptyRing
<1>4. clients \in Seq([fd : ClientFd, roff : Slot])
      /\ clients \in Seq([fd : Int, roff : Slot])
  BY DEF Init
<1>5. queued \in 0 .. MaxMessages /\ sent \in [ClientFd -> 0 .. queued]
  <2>1. 0 \in 0 .. 0 /\ 0 \in 0 .. MaxMessages
    BY ApiAssumption
  <2> QED
    BY <2>1 DEF Init
<1>6. /\ exists \in BOOLEAN /\ start \in Slot \cup {MQ_EMPTY_SENTINEL}
      /\ end \in Slot /\ writing \in Int /\ i \in Slot
      /\ result \in ReturnCode
  <2>1. exists \in BOOLEAN /\ result \in ReturnCode
    BY DEF Init, ReturnCode
  <2>2. writing \in Int
    BY DEF Init, Nobody
  <2> QED
    BY <1>1, <2>1, <2>2 DEF Init
<1>7. Types
  BY <1>3, <1>4, <1>5, <1>6 DEF Types, QueueTypeOK
<1>8. Absent /\ Placed /\ RingHoldsTheLive
  BY <1>1, <1>2 DEF Init, Absent, Placed, RingHoldsTheLive
<1>9. Packed
  BY <1>2 DEF Init, Packed
<1>10. ClientInv
  BY DEF Init, ClientInv, OneEntryEach, InLoop, Idle, EachTracks
<1> QED
  BY <1>7, <1>8, <1>9, <1>10 DEF IInv, RingInv

-----------------------------------------------------------------------------
(* The calls *)

LEMMA NoClients ==
  ASSUME clients' = << >>, writing' = Nobody
  PROVE  ClientInv'
BY DEF ClientInv, OneEntryEach, InLoop, Idle, EachTracks

LEMMA CreateInv ==
  ASSUME IInv, DoInit
  PROVE  IInv'
<1>1. ~ exists /\ clients = << >> /\ start = MQ_EMPTY_SENTINEL
  BY DEF IInv, RingInv, Absent, DoInit, message_queue__init
<1>2. writing = Nobody
  BY <1>1 DEF IInv, ClientInv, InLoop, Idle
<1>3. live = {}
  BY <1>1 DEF IInv, RingInv, RingHoldsTheLive, Placed, Inside, Within
<1>4. RingInv'
  BY <1>3, EmptyRingInv
     DEF IInv, DoInit, message_queue__init, historyVars, Loop
<1>5. clients' = << >> /\ writing' = Nobody
  BY <1>2 DEF DoInit, message_queue__init, Loop
<1> QED
  BY <1>4, <1>5, NoClients DEF IInv

LEMMA FreeInv ==
  ASSUME IInv, DoFree
  PROVE  IInv'
<1>1. RingInv'
  BY EmptyRingInv DEF IInv, DoFree, message_queue__free, Loop
<1>2. clients' = << >> /\ writing' = Nobody
  BY DEF DoFree, message_queue__free, Loop, Idle
<1> QED
  BY <1>1, <1>2, NoClients DEF IInv

(* A call that changes nothing but what it returns *)
LEMMA NothingChanges ==
  ASSUME IInv, UNCHANGED << Ring, clients, historyVars, Loop >>,
         result' \in ReturnCode
  PROVE  IInv'
<1>1. /\ UNCHANGED << Ring, queued, live, clients, writing, i, sent >>
  BY DEF historyVars, Loop
<1>2. /\ clients \in Seq([fd : ClientFd, roff : Slot])
      /\ sent \in [ClientFd -> 0 .. queued] /\ writing \in Int /\ i \in Slot
      /\ ~ exists => clients = << >>
  BY DEF IInv, RingInv, Types, QueueTypeOK, Absent
<1>3. RingInv'
  BY <1>1, <1>2, SameRing DEF IInv
<1>4. UNCHANGED start
  BY <1>1 DEF Ring
<1> QED
  BY <1>1, <1>3, <1>4, SameTracks, SameClients DEF IInv

LEMMA StoreInv ==
  ASSUME IInv, Stores, Idle
  PROVE  IInv'
<1>1. RingInv'
  BY StoreRing DEF IInv
<1>2. \A pos \in Slot, last \in 0 .. queued :
        Tracks(pos, last) => Tracks(pos, last)'
  BY StoreTracks DEF IInv
<1> QED
  BY <1>1, <1>2, SameClients DEF IInv, Stores

(* Of q() of the next message, or of one that is too long *)
LEMMA QStores ==
  ASSUME NEW message, DoQ(message),
         \/ message = queued + 1 /\ queued < MaxMessages
         \/ message \in TooLong
  PROVE  \/ Stores /\ Idle
         \/ /\ UNCHANGED << Ring, clients, historyVars, Loop >>
            /\ result' \in ReturnCode
<1>1. CASE result' = "0"
  <2>1. /\ exists /\ end # start /\ message \notin TooLong
        /\ messages' = [messages EXCEPT ![end] = message]
        /\ start' = IF start = MQ_EMPTY_SENTINEL THEN 0 ELSE start
        /\ end' = Advance(end) /\ UNCHANGED exists
        /\ Idle /\ UNCHANGED << clients, Loop >>
    BY <1>1 DEF DoQ, message_queue__q
  <2> QED
    BY <1>1, <2>1 DEF DoQ, Stores, Loop
<1>2. CASE result' # "0"
  BY <1>2 DEF DoQ, message_queue__q, historyVars, ReturnCode
<1> QED
  BY <1>1, <1>2

LEMMA QInv ==
  ASSUME IInv, NEW message, DoQ(message),
         \/ message = queued + 1 /\ queued < MaxMessages
         \/ message \in TooLong
  PROVE  IInv'
BY QStores, StoreInv, NothingChanges

LEMMA GetInv ==
  ASSUME IInv, NEW index, DoGet(index)
  PROVE  IInv'
<1>1. UNCHANGED << Ring, clients, historyVars, Loop >>
  BY DEF DoGet, message_queue__get
<1>2. result' \in ReturnCode
  BY DEF DoGet, message_queue__get, ReturnCode
<1> QED
  BY <1>1, <1>2, NothingChanges

LEMMA DqReleases ==
  ASSUME DoDq
  PROVE  \/ Releases /\ Idle
         \/ /\ UNCHANGED << Ring, clients, historyVars, Loop >>
            /\ result' \in ReturnCode
<1>1. CASE result' = "0"
  <2>1. /\ exists /\ start # MQ_EMPTY_SENTINEL /\ messages[start] # NULL
        /\ messages' = [messages EXCEPT ![start] = NULL]
        /\ start' = IF Advance(start) = end THEN MQ_EMPTY_SENTINEL
                    ELSE Advance(start)
        /\ UNCHANGED << exists, end, clients, Loop >> /\ Idle
    BY <1>1 DEF DoDq, message_queue__dq
  <2> QED
    BY <1>1, <2>1 DEF DoDq, Releases, Loop
<1>2. CASE result' # "0"
  BY <1>2 DEF DoDq, message_queue__dq, historyVars, ReturnCode
<1> QED
  BY <1>1, <1>2

LEMMA DqInv ==
  ASSUME IInv, DoDq
  PROVE  IInv'
<1>1. CASE Releases /\ Idle
  <2>1. RingInv'
    BY <1>1, ReleaseRing DEF IInv
  <2>2. \A pos \in Slot, last \in 0 .. queued :
          Tracks(pos, last) => Tracks(pos, last)'
    BY <1>1, ReleaseTracks DEF IInv
  <2> QED
    BY <1>1, <2>1, <2>2, SameClients DEF IInv, Releases
<1> QED
  BY <1>1, DqReleases, NothingChanges

(* A step that only takes clients from the list *)
LEMMA FewerClients ==
  ASSUME IInv, Idle, UNCHANGED << Ring, historyVars, Loop >>,
         clients' \in Seq([fd : ClientFd, roff : Slot]),
         ~ exists => clients' = << >>,
         result' \in ReturnCode,
         NEW at \in [DOMAIN clients' -> DOMAIN clients],
         \A j, k \in DOMAIN clients' : at[j] = at[k] => j = k,
         \A k \in DOMAIN clients' : clients'[k] = clients[at[k]]
  PROVE  IInv'
<1>1. /\ UNCHANGED << Ring, queued, live, writing, i, sent >>
      /\ writing \in Int /\ i \in Slot /\ sent \in [ClientFd -> 0 .. queued]
  BY DEF historyVars, Loop, IInv, RingInv, Types, QueueTypeOK
<1>2. RingInv'
  BY <1>1, SameRing DEF IInv
<1>3. OneEntryEach'
  <2> SUFFICES ASSUME NEW j \in DOMAIN clients', NEW k \in DOMAIN clients',
                      clients'[j].fd = clients'[k].fd
               PROVE  j = k
    BY DEF OneEntryEach
  <2>1. at[j] = at[k]
    BY DEF IInv, ClientInv, OneEntryEach
  <2> QED
    BY <2>1
<1>4. InLoop'
  BY <1>1 DEF InLoop, Idle
<1>5. EachTracks'
  <2> SUFFICES ASSUME NEW k \in DOMAIN clients'
               PROVE  Tracks(Position(clients[k]), sent[clients[k].fd])'
    BY DEF EachTracks
  <2>1. Tracks(Position(clients[at[k]]), sent[clients[at[k]].fd])
    BY DEF IInv, ClientInv, EachTracks
  <2>2. /\ Position(clients[k])' = Position(clients[at[k]])
        /\ sent'[clients'[k].fd] = sent[clients[at[k]].fd]
    BY <1>1 DEF Position, Idle
  <2> QED
    BY <1>1, <2>1, <2>2, SameTracks
<1> QED
  BY <1>2, <1>3, <1>4, <1>5 DEF IInv, ClientInv

LEMMA UnregisterInv ==
  ASSUME IInv, NEW fd \in ClientFd, DoUnregister(fd)
  PROVE  IInv'
<1>0. /\ Idle /\ UNCHANGED << Ring, historyVars, Loop >>
      /\ result' \in ReturnCode
  BY DEF DoUnregister, message_queue__unregister_client, ReturnCode
<1>1. CASE clients' = clients
  BY <1>0, <1>1, NothingChanges
<1>2. CASE clients' # clients
  <2> DEFINE R == [fd : ClientFd, roff : Slot]
             j == ClientOf(fd)
             at == [k \in 1 .. Len(clients) - 1 |-> IF k < j THEN k ELSE k + 1]
  <2>1. j # 0 /\ clients' = RemoveAt(clients, j) /\ exists
    BY <1>2 DEF DoUnregister, message_queue__unregister_client
  <2>2. clients \in Seq(R)
    BY DEF IInv, RingInv, Types
  <2>3. Len(clients) \in Nat /\ DOMAIN clients = 1 .. Len(clients)
    <3> HIDE DEF R
    <3> QED
      BY <2>2
  <2>4. j \in 1 .. Len(clients)
    <3>1. j \in 0 .. Len(clients)
      BY ClientIndex DEF IInv
    <3> HIDE DEF j
    <3> QED
      BY <2>1, <2>3, <3>1
  <2> HIDE DEF R, j
  <2>5. /\ clients' \in Seq(R) /\ Len(clients') = Len(clients) - 1
        /\ \A k \in 1 .. Len(clients) - 1 :
             clients'[k] = IF k < j THEN clients[k] ELSE clients[k + 1]
    BY <2>1, <2>2, <2>4, RemoveAtShifts
  <2>6. DOMAIN clients' = 1 .. Len(clients) - 1
    BY <2>5
  <2>7. /\ at \in [DOMAIN clients' -> DOMAIN clients]
        /\ \A k, l \in DOMAIN clients' : at[k] = at[l] => k = l
        /\ \A k \in DOMAIN clients' : clients'[k] = clients[at[k]]
    BY <2>3, <2>4, <2>5, <2>6
  <2> HIDE DEF at
  <2>8. clients' \in Seq([fd : ClientFd, roff : Slot])
    BY <2>5 DEF R
  <2> QED
    BY <1>0, <2>1, <2>7, <2>8, FewerClients
<1> QED
  BY <1>1, <1>2

LEMMA DropInv ==
  ASSUME IInv, DoDrop
  PROVE  IInv'
<1>0. /\ Idle /\ UNCHANGED << Ring, historyVars, Loop >>
      /\ result' \in ReturnCode
  BY DEF DoDrop, message_queue__drop_slow_consumers, IInv, RingInv, Types,
         QueueTypeOK
<1>1. CASE clients' = clients
  BY <1>0, <1>1, NothingChanges
<1>2. CASE clients' # clients
  <2> DEFINE R == [fd : ClientFd, roff : Slot]
  <2>1. PICK T : clients' = Keep(clients, T) /\ exists
    BY <1>2 DEF DoDrop, message_queue__drop_slow_consumers
  <2>2. clients \in Seq(R)
    BY DEF IInv, RingInv, Types
  <2> HIDE DEF R
  <2>3. clients' \in Seq(R \cap T) /\ clients' \in Seq(R)
    <3>1. clients' \in Seq(R \cap T)
      BY <2>1, <2>2, KeepPicks
    <3> QED
      BY <3>1, SeqWider
  <2>4. PICK at : Picks(at, clients', clients, Len(clients), T)
    BY <2>1, <2>2, KeepPicks
  <2>5. DOMAIN clients' = 1 .. Len(clients') /\ Len(clients') \in Nat
        /\ DOMAIN clients = 1 .. Len(clients)
    BY <2>2, <2>3
  <2>6. /\ at \in [DOMAIN clients' -> DOMAIN clients]
        /\ \A k \in DOMAIN clients' : clients'[k] = clients[at[k]]
    BY <2>4, <2>5 DEF Picks
  <2>7. ASSUME NEW j \in DOMAIN clients', NEW k \in DOMAIN clients',
               at[j] = at[k]
        PROVE  j = k
    <3>1. at[j] \in Int /\ at[k] \in Int /\ j \in Int /\ k \in Int
      BY <2>2, <2>5, <2>6
    <3>2. ~ (j < k) /\ ~ (k < j)
      BY <2>4, <2>5, <2>7, <3>1 DEF Picks
    <3> QED
      BY <3>1, <3>2
  <2>8. clients' \in Seq([fd : ClientFd, roff : Slot])
    BY <2>3 DEF R
  <2> QED
    BY <1>0, <2>1, <2>6, <2>7, <2>8, FewerClients
<1> QED
  BY <1>1, <1>2

LEMMA RegisterInv ==
  ASSUME IInv, NEW fd \in ClientFd, DoRegister(fd)
  PROVE  IInv'
<1>0. /\ Idle /\ UNCHANGED << Ring, queued, live, Loop >>
      /\ result' \in ReturnCode
  BY DEF DoRegister, message_queue__register_client, ReturnCode
<1>1. CASE result' # "0"
  BY <1>0, <1>1, NothingChanges
     DEF DoRegister, message_queue__register_client, historyVars
<1>2. CASE result' = "0"
  <2> DEFINE R == [fd : ClientFd, roff : Slot]
             new == NewClient(fd)
             before == Oldest - 1
  <2>1. /\ exists /\ clients' = << new >> \o clients
        /\ sent' = [sent EXCEPT ![fd] = before]
        /\ \A k \in DOMAIN clients : clients[k].fd # fd
    <3>1. ClientOf(fd) = 0
      BY DEF DoRegister
    <3> QED
      BY <1>2, <3>1, ClientIndex
         DEF DoRegister, message_queue__register_client, IInv
  <2>2. /\ new.fd = fd /\ new.roff \in Slot /\ new \in R
        /\ before \in 0 .. queued /\ Tracks(new.roff, before)
    <3>1. /\ new.fd = fd /\ new.roff \in Slot
          /\ before \in 0 .. queued /\ Tracks(new.roff, before)
      BY RegisterTracks DEF IInv
    <3>2. new = [fd |-> new.fd, roff |-> new.roff]
      BY DEF NewClient
    <3> QED
      BY <3>1, <3>2
  <2> HIDE DEF new, before
  <2>3. clients \in Seq(R)
    BY DEF IInv, RingInv, Types
  <2>4. /\ sent' \in [ClientFd -> 0 .. queued] /\ sent'[fd] = before
        /\ \A f \in ClientFd \ {fd} : sent'[f] = sent[f]
    BY <2>1, <2>2 DEF IInv, RingInv, Types
  <2> HIDE DEF R
  <2>5. /\ Len(clients) \in Nat /\ DOMAIN clients = 1 .. Len(clients)
    BY <2>3
  <2>6. << new >> \in Seq(R) /\ Len(<< new >>) = 1 /\ << new >>[1] = new
    BY <2>2
  <2>7. /\ clients' \in Seq(R) /\ Len(clients') = 1 + Len(clients)
        /\ \A k \in 1 .. 1 + Len(clients) :
             clients'[k] = IF k <= 1 THEN << new >>[k] ELSE clients[k - 1]
    BY <2>1, <2>3, <2>6, ConcatProperties
  <2>8. DOMAIN clients' = 1 .. 1 + Len(clients)
    BY <2>7
  <2>9. ASSUME NEW k \in DOMAIN clients'
        PROVE  \/ k = 1 /\ clients'[k] = new
               \/ k # 1 /\ k - 1 \in DOMAIN clients
                    /\ clients'[k] = clients[k - 1]
    <3>1. CASE k = 1
      BY <2>5, <2>6, <2>7, <3>1
    <3>2. CASE k # 1
      BY <2>5, <2>7, <2>8, <3>2
    <3> QED
      BY <3>1, <3>2
  <2>10. RingInv'
    <3>1. clients' \in Seq([fd : ClientFd, roff : Slot])
      BY <2>7 DEF R
    <3>2. writing' \in Int /\ i' \in Slot
      BY <1>0 DEF Loop, IInv, RingInv, Types, QueueTypeOK
    <3> QED
      BY <1>0, <2>1, <2>4, <3>1, <3>2, SameRing DEF IInv
  <2>11. OneEntryEach'
    <3> SUFFICES ASSUME NEW j \in DOMAIN clients', NEW k \in DOMAIN clients',
                        clients'[j].fd = clients'[k].fd
                 PROVE  j = k
      BY DEF OneEntryEach
    <3>1. j = 1 <=> k = 1
      BY <2>1, <2>2, <2>9
    <3>2. j # 1 => j - 1 = k - 1
      BY <2>9, <3>1 DEF IInv, ClientInv, OneEntryEach
    <3> QED
      BY <2>5, <2>8, <3>1, <3>2
  <2>12. InLoop'
    BY <1>0 DEF InLoop, Idle, Loop
  <2>13. EachTracks'
    <3> SUFFICES ASSUME NEW k \in DOMAIN clients'
                 PROVE  Tracks(Position(clients[k]), sent[clients[k].fd])'
      BY DEF EachTracks
    <3>1. writing' = Nobody /\ UNCHANGED << Ring, queued >>
      BY <1>0 DEF Idle, Loop
    <3>2. CASE clients'[k] = new
      <4>1. Position(clients[k])' = new.roff
        <5>1. new.fd # Nobody
          BY <2>2, ApiAssumption DEF Nobody
        <5> QED
          BY <3>1, <3>2, <5>1 DEF Position
      <4> QED
        BY <2>2, <2>4, <3>1, <3>2, <4>1, SameTracks
    <3>3. CASE k - 1 \in DOMAIN clients /\ clients'[k] = clients[k - 1]
      <4>1. /\ clients[k - 1].fd \in ClientFd
            /\ clients[k - 1].fd # Nobody /\ clients[k - 1].fd # fd
        BY <2>1, <3>3, ClientTyped DEF IInv
      <4>2. /\ Position(clients[k])' = Position(clients[k - 1])
            /\ sent'[clients'[k].fd] = sent[clients[k - 1].fd]
        BY <1>0, <2>4, <3>1, <3>3, <4>1 DEF Position, Idle
      <4>3. Tracks(Position(clients[k - 1]), sent[clients[k - 1].fd])
        BY <3>3 DEF IInv, ClientInv, EachTracks
      <4> QED
        BY <3>1, <4>2, <4>3, SameTracks
    <3> QED
      BY <2>9, <3>2, <3>3
  <2> QED
    BY <2>10, <2>11, <2>12, <2>13 DEF IInv, ClientInv
<1> QED
  BY <1>1, <1>2

-----------------------------------------------------------------------------
(* The flush *)

LEMMA FlushInv ==
  ASSUME IInv, NEW fd \in ClientFd, DoFlush(fd)
  PROVE  IInv'
<1>0. Idle /\ UNCHANGED << Ring, clients, historyVars >>
  BY DEF DoFlush, message_queue__flush
<1>1. CASE UNCHANGED Loop
  <2>1. exists /\ get_length # 0 /\ ClientOf(fd) # 0
          => writing' = fd
    BY DEF DoFlush, message_queue__flush
  <2>2. fd # writing
    BY <1>0, ApiAssumption DEF Idle, Nobody
  <2>3. result' \in ReturnCode
    BY <1>1, <2>1, <2>2
       DEF DoFlush, message_queue__flush, ReturnCode, Loop
  <2> QED
    BY <1>0, <1>1, <2>3, NothingChanges
<1>2. CASE ~ UNCHANGED Loop
  <2> DEFINE j == ClientOf(fd)
  <2>1. /\ get_length # 0 /\ j # 0 /\ writing' = fd
        /\ i' = clients[j].roff /\ UNCHANGED result
    BY <1>2 DEF DoFlush, message_queue__flush
  <2>2. j \in DOMAIN clients /\ clients[j].fd = fd
    BY <2>1, ClientIndex DEF IInv
  <2> HIDE DEF j
  <2>3. start # MQ_EMPTY_SENTINEL
    BY <2>1 DEF get_length
  <2>4. i' \in Slot /\ writing' \in Int /\ result' \in ReturnCode
    BY <2>1, <2>2, ClientTyped, ApiAssumption
       DEF IInv, RingInv, Types, QueueTypeOK
  <2>5. RingInv'
    <3>1. /\ clients' \in Seq([fd : ClientFd, roff : Slot])
          /\ sent' \in [ClientFd -> 0 .. queued]
          /\ ~ exists => clients' = << >>
      BY <1>0 DEF IInv, RingInv, Types, Absent, historyVars
    <3> QED
      BY <1>0, <2>4, <3>1, SameRing DEF IInv, historyVars
  <2>6. OneEntryEach'
    BY <1>0 DEF IInv, ClientInv, OneEntryEach
  <2>7. InLoop'
    BY <1>0, <2>1, <2>2, <2>3 DEF InLoop, Ring
  <2>8. EachTracks'
    <3> SUFFICES ASSUME NEW k \in DOMAIN clients
                 PROVE  Tracks(Position(clients[k]), sent[clients[k].fd])'
      BY <1>0 DEF EachTracks
    <3>1. Position(clients[k])' = Position(clients[k])
      <4>1. clients[k].fd # writing
        BY <1>0, ClientTyped DEF IInv, Idle
      <4>2. clients[k].fd = fd => k = j
        BY <2>2 DEF IInv, ClientInv, OneEntryEach
      <4> QED
        BY <1>0, <2>1, <4>1, <4>2 DEF Position
    <3>2. Tracks(Position(clients[k]), sent[clients[k].fd])
      BY DEF IInv, ClientInv, EachTracks
    <3>3. UNCHANGED << Ring, queued, clients, sent >>
      BY <1>0 DEF historyVars
    <3> QED
      BY <3>1, <3>2, <3>3, SameTracks
  <2> QED
    BY <2>5, <2>6, <2>7, <2>8 DEF IInv, ClientInv
<1> QED
  BY <1>1, <1>2

(* The client a flush is busy with *)
LEMMA Busy ==
  ASSUME IInv, ~ Idle
  PROVE  /\ ClientOf(writing) \in DOMAIN clients
         /\ clients[ClientOf(writing)].fd = writing
         /\ \A k \in DOMAIN clients :
              clients[k].fd = writing => k = ClientOf(writing)
         /\ writing \in ClientFd /\ i \in Slot
         /\ start # MQ_EMPTY_SENTINEL
         /\ sent[writing] \in 0 .. queued
         /\ Tracks(i, sent[writing])
<1> DEFINE j == ClientOf(writing)
<1>1. start # MQ_EMPTY_SENTINEL
      /\ \E k \in DOMAIN clients : clients[k].fd = writing
  BY DEF IInv, ClientInv, InLoop
<1>2. j \in DOMAIN clients /\ clients[j].fd = writing
  BY <1>1, ClientIndex DEF IInv
<1> HIDE DEF j
<1>3. \A k \in DOMAIN clients : clients[k].fd = writing => k = j
  BY <1>2 DEF IInv, ClientInv, OneEntryEach
<1>4. writing \in ClientFd /\ i \in Slot /\ sent[writing] \in 0 .. queued
  BY <1>2, ClientTyped DEF IInv, RingInv, Types, QueueTypeOK
<1>5. Tracks(i, sent[writing])
  BY <1>2 DEF IInv, ClientInv, EachTracks, Position
<1> QED
  BY <1>1, <1>2, <1>3, <1>4, <1>5 DEF j

(* One round of the loop, with or without a message *)
LEMMA RoundInv ==
  ASSUME IInv, ~ Idle, UNCHANGED << Ring, clients, writing, result >>,
         UNCHANGED << queued, live >>,
         i' = Advance(i),
         NEW last \in 0 .. queued, Tracks(Advance(i), last),
         sent' = [sent EXCEPT ![writing] = last]
  PROVE  IInv'
<1>1. /\ writing \in ClientFd /\ i' \in Slot /\ i \in Slot
      /\ sent \in [ClientFd -> 0 .. queued]
  BY Busy, AdvanceIs DEF IInv, RingInv, Types
<1>2. RingInv'
  <2>1. /\ clients' \in Seq([fd : ClientFd, roff : Slot])
        /\ sent' \in [ClientFd -> 0 .. queued]
        /\ ~ exists => clients' = << >>
        /\ writing' \in Int /\ result' \in ReturnCode
    BY <1>1 DEF IInv, RingInv, Types, QueueTypeOK, Absent
  <2> QED
    BY <1>1, <2>1, SameRing DEF IInv
<1>3. OneEntryEach' /\ InLoop'
  BY DEF IInv, ClientInv, OneEntryEach, InLoop, Idle, Ring
<1>4. EachTracks'
  <2> SUFFICES ASSUME NEW k \in DOMAIN clients
               PROVE  Tracks(Position(clients[k]), sent[clients[k].fd])'
    BY DEF EachTracks
  <2>1. CASE clients[k].fd = writing
    <3>1. Position(clients[k])' = Advance(i) /\ sent'[clients'[k].fd] = last
      BY <1>1, <2>1 DEF Position
    <3> QED
      BY <3>1, SameTracks
  <2>2. CASE clients[k].fd # writing
    <3>1. clients[k].fd \in ClientFd
      BY ClientTyped DEF IInv
    <3>2. /\ Position(clients[k])' = Position(clients[k])
          /\ sent'[clients'[k].fd] = sent[clients[k].fd]
      BY <1>1, <2>2, <3>1 DEF Position
    <3>3. Tracks(Position(clients[k]), sent[clients[k].fd])
      BY DEF IInv, ClientInv, EachTracks
    <3> QED
      BY <3>2, <3>3, SameTracks
  <2> QED
    BY <2>1, <2>2
<1> QED
  BY <1>2, <1>3, <1>4 DEF IInv, ClientInv

LEMMA WriteInv ==
  ASSUME IInv, DoWrite
  PROVE  IInv'
<1>1. /\ ~ Idle /\ i # end /\ messages[i] # NULL /\ i' = Advance(i)
      /\ UNCHANGED << Ring, clients, writing, result, queued, live >>
      /\ sent' = [sent EXCEPT ![writing] = messages[i]]
  BY DEF DoWrite, FlushWrites, AtMessage
<1>2. i \in Slot
  BY <1>1, Busy
<1>3. messages[i] \in 0 .. queued
  <2>1. messages[i] \in 1 .. queued /\ queued \in Nat
    BY <1>1, <1>2, NullIsNone DEF IInv, RingInv, Types
  <2> QED
    BY <2>1
<1>4. Tracks(Advance(i), messages[i])
  BY <1>1, <1>2, WriteTracks DEF IInv
<1> QED
  BY <1>1, <1>3, <1>4, RoundInv

LEMMA SkipInv ==
  ASSUME IInv, FlushSkips, UNCHANGED historyVars
  PROVE  IInv'
<1>1. /\ ~ Idle /\ i # end /\ messages[i] = NULL /\ i' = Advance(i)
      /\ UNCHANGED << Ring, clients, writing, result, queued, live, sent >>
  BY DEF FlushSkips, historyVars
<1>2. /\ i \in Slot /\ start # MQ_EMPTY_SENTINEL
      /\ writing \in ClientFd
      /\ sent[writing] \in 0 .. queued /\ Tracks(i, sent[writing])
  BY <1>1, Busy
<1>3. Tracks(Advance(i), sent[writing])
  BY <1>1, <1>2, SkipTracks DEF IInv
<1>4. sent' = [sent EXCEPT ![writing] = sent[writing]]
  BY <1>1, <1>2 DEF IInv, RingInv, Types
<1> QED
  BY <1>1, <1>2, <1>3, <1>4, RoundInv

(* After a failure, and at the end, the place is kept for the next flush. *)
LEMMA LeaveInv ==
  ASSUME IInv, ~ Idle, NEW code \in ReturnCode, LeaveLoop(i, code),
         UNCHANGED historyVars
  PROVE  IInv'
<1> DEFINE R == [fd : ClientFd, roff : Slot]
           j == ClientOf(writing)
           left == [clients[j] EXCEPT !.roff = i]
<1>0. 0 \in Slot
  BY QueueAssumption DEF Slot
<1>1. /\ UNCHANGED << Ring, queued, live, sent >> /\ writing' = Nobody
      /\ i' = 0 /\ result' = code
      /\ clients' = [clients EXCEPT ![j] = left]
  BY DEF LeaveLoop, historyVars
<1>2. /\ j \in DOMAIN clients /\ clients[j].fd = writing /\ i \in Slot
      /\ \A k \in DOMAIN clients : clients[k].fd = writing => k = j
      /\ writing \in ClientFd
  BY Busy
<1>3. clients \in Seq(R) /\ clients[j] \in R
  <2>1. clients[j] = [fd |-> clients[j].fd, roff |-> clients[j].roff]
        /\ clients[j].fd \in ClientFd /\ clients[j].roff \in Slot
    BY <1>2, ClientTyped DEF IInv
  <2> HIDE DEF j
  <2> QED
    BY <2>1 DEF IInv, RingInv, Types
<1>4. left \in R /\ left.fd = writing /\ left.roff = i
  BY <1>2, <1>3
<1> HIDE DEF R, j, left
<1>5. /\ clients' \in Seq(R) /\ DOMAIN clients' = DOMAIN clients
      /\ clients'[j] = left
      /\ \A k \in DOMAIN clients : k # j => clients'[k] = clients[k]
  BY <1>1, <1>2, <1>3, <1>4
<1>6. RingInv'
  <2>1. clients' \in Seq([fd : ClientFd, roff : Slot])
    BY <1>5 DEF R
  <2>2. /\ sent' \in [ClientFd -> 0 .. queued]
        /\ ~ exists => clients' = << >>
        /\ i' \in Slot /\ result' \in ReturnCode
    <3>1. exists
      BY <1>2 DEF IInv, RingInv, Absent
    <3> QED
      BY <1>0, <1>1, <3>1 DEF IInv, RingInv, Types
  <2>3. writing' \in Int
    BY <1>1 DEF Nobody
  <2> QED
    BY <1>1, <2>1, <2>2, <2>3, SameRing DEF IInv
<1>7. OneEntryEach'
  <2>1. \A k \in DOMAIN clients : clients'[k].fd = clients[k].fd
    BY <1>2, <1>4, <1>5
  <2> QED
    BY <1>5, <2>1 DEF IInv, ClientInv, OneEntryEach
<1>8. InLoop'
  BY <1>1 DEF InLoop, Idle
<1>9. EachTracks'
  <2> SUFFICES ASSUME NEW k \in DOMAIN clients
               PROVE  Tracks(Position(clients[k]), sent[clients[k].fd])'
    BY <1>5 DEF EachTracks
  <2>1. clients[k].fd # Nobody /\ clients'[k].fd = clients[k].fd
    BY <1>2, <1>4, <1>5, ClientTyped DEF IInv
  <2>2. Position(clients[k])' = Position(clients[k])
    BY <1>1, <1>2, <1>4, <1>5, <2>1 DEF Position
  <2>3. Tracks(Position(clients[k]), sent[clients[k].fd])
    BY DEF IInv, ClientInv, EachTracks
  <2> QED
    BY <1>1, <2>1, <2>2, <2>3, SameTracks
<1> QED
  BY <1>6, <1>7, <1>8, <1>9 DEF IInv, ClientInv

LEMMA LoopInv ==
  ASSUME IInv, DoLoop
  PROVE  IInv'
<1>1. CASE FlushFails /\ UNCHANGED historyVars
  BY <1>1, LeaveInv DEF FlushFails, AtMessage, ReturnCode
<1>2. CASE FlushEnds /\ UNCHANGED historyVars
  BY <1>2, LeaveInv DEF FlushEnds, ReturnCode
<1> QED
  BY <1>1, <1>2, SkipInv DEF DoLoop

LEMMA NextInv ==
  ASSUME IInv, [Next]_vars
  PROVE  IInv'
<1>1. CASE UNCHANGED vars
  <2>1. UNCHANGED << Ring, clients, historyVars, Loop >>
        /\ result' \in ReturnCode
    BY <1>1 DEF vars, queueVars, historyVars, Ring, Loop, IInv, RingInv,
                Types, QueueTypeOK
  <2> QED
    BY <2>1, NothingChanges
<1> QED
  BY <1>1, CreateInv, FreeInv, QInv, GetInv, DqInv, RegisterInv,
     UnregisterInv, FlushInv, DropInv, WriteInv, LoopInv DEF Next

-----------------------------------------------------------------------------
(* What the next message of a client is *)

LEMMA ContentInLive ==
  ASSUME RingInv, NEW k \in DOMAIN Content
  PROVE  Content[k] \in live
<1>1. PICK m \in 0 .. queued :
        Content = Run(queued, m) /\ live = (queued - m + 1) .. queued
  BY ContentRuns
<1>2. queued \in Nat
  BY ApiAssumption DEF RingInv, Types
<1>3. k \in 1 .. m /\ Content[k] = queued - m + k
  BY <1>1 DEF Run
<1> QED
  BY <1>1, <1>2, <1>3

LEMMA AheadIsNewer ==
  ASSUME RingInv, NEW pos \in Slot, pos # end, messages[pos] # NULL,
         NEW slot \in Slot, messages[slot] # NULL,
         Dist(pos, slot) < Dist(pos, end)
  PROVE  messages[pos] <= messages[slot]
<1>0. end \in Slot /\ queued \in Nat /\ Capacity \in Nat
  BY QueueAssumption, ApiAssumption DEF RingInv, Types, QueueTypeOK
<1>1. /\ messages[pos] = queued - Dist(pos, Before(end))
      /\ messages[slot] = queued - Dist(slot, Before(end))
  BY DEF RingInv, Placed, Number
<1>2. /\ Dist(pos, slot) \in 0 .. Capacity - 1
      /\ Dist(pos, end) \in 0 .. Capacity - 1
      /\ Dist(slot, end) \in 0 .. Capacity - 1
  BY <1>0, DistRange
<1>3. slot # end /\ Dist(pos, slot) + Dist(slot, end) = Dist(pos, end)
  BY <1>0, <1>2, DistAdds
<1>4. /\ Dist(pos, Before(end)) = Dist(pos, end) - 1
      /\ Dist(slot, Before(end)) = Dist(slot, end) - 1
  BY <1>0, <1>3, DistBefore
<1> QED
  BY <1>0, <1>1, <1>2, <1>3, <1>4

-----------------------------------------------------------------------------
(* The theorems *)

(* Every call keeps the account of the ring and of the clients. *)
THEOREM Invariance == Spec => []IInv
<1>1. Init => IInv
  BY InitInv
<1>2. IInv /\ [Next]_vars => IInv'
  BY NextInv
<1> QED
  BY <1>1, <1>2, PTL DEF Spec

(* No message is stored over another one, none is lost and none is leaked  *)
(* while the queue is in use, whatever its size.                           *)
THEOREM RingKeepsAccount == Spec => []RingHoldsTheLive
<1>1. IInv => RingHoldsTheLive
  BY DEF IInv, RingInv
<1> QED
  BY <1>1, Invariance, PTL

(* free() releases everything, except from a full ring. *)
THEOREM FreeReleasesAll == Spec => FreeReleases
<1>1. ASSUME IInv PROVE start = end \/ live = ReleasedByFree
  <2> SUFFICES ASSUME start # end PROVE live = ReleasedByFree
    OBVIOUS
  <2>0. /\ start \in Slot \cup {MQ_EMPTY_SENTINEL} /\ end \in Slot
        /\ live = { messages[slot] : slot \in Slot } \ {NULL}
        /\ \A slot \in Slot : messages[slot] # NULL =>
             Within(start, end, slot)
    BY <1>1
       DEF IInv, RingInv, Types, QueueTypeOK, RingHoldsTheLive, Placed, Inside
  <2>1. CASE start = MQ_EMPTY_SENTINEL
    BY <2>0, <2>1 DEF ReleasedByFree, Within
  <2>2. CASE start # MQ_EMPTY_SENTINEL
    <3>1. start \in Slot /\ Dist(start, end) \in 0 .. Capacity - 1
      BY <2>0, <2>2, DistRange
    <3>2. (end - start) % Capacity = Dist(start, end)
      BY <2>0, <3>1, QueueAssumption DEF Dist, Slot
    <3>3. ASSUME NEW m
          PROVE  m \in { messages[slot] : slot \in Slot } \ {NULL} <=>
                 m \in { messages[(start + k) % Capacity] :
                           k \in 0 .. Dist(start, end) - 1 } \ {NULL}
      <4>1. ASSUME NEW slot \in Slot, m = messages[slot], m # NULL
            PROVE  \E k \in 0 .. Dist(start, end) - 1 :
                     m = messages[(start + k) % Capacity]
        <5>1. /\ Dist(start, slot) < Dist(start, end)
              /\ Dist(start, slot) \in Nat
          BY <2>0, <3>1, <4>1, DistRange DEF Within
        <5>2. (start + Dist(start, slot)) % Capacity = slot
          BY <3>1, DistIndex
        <5>3. Dist(start, slot) \in 0 .. Dist(start, end) - 1
          BY <3>1, <5>1
        <5> QED
          BY <4>1, <5>2, <5>3
      <4>2. ASSUME NEW k \in 0 .. Dist(start, end) - 1
            PROVE  (start + k) % Capacity \in Slot
        <5>1. k \in 0 .. Capacity - 1
          BY <3>1, QueueAssumption
        <5> QED
          BY <3>1, <5>1, DistIndex
      <4> QED
        BY <4>1, <4>2
    <3> QED
      BY <2>0, <2>2, <3>2, <3>3 DEF ReleasedByFree
  <2> QED
    BY <2>1, <2>2
<1>2. IInv => [DoFree => start = end \/ live = ReleasedByFree]_vars
  BY <1>1
<1> QED
  BY <1>2, Invariance, PTL DEF FreeReleases

(* A client is sent messages in ascending order, also after a failed       *)
(* write and after it has been lapped.                                     *)
THEOREM NothingIsSentAgain == Spec => SentInOrder
<1>1. ASSUME IInv, DoWrite PROVE messages[i] > sent[writing]
  <2>1. ~ Idle /\ i # end /\ messages[i] # NULL
    BY <1>1 DEF DoWrite, FlushWrites, AtMessage
  <2>2. i \in Slot /\ Tracks(i, sent[writing])
    BY <1>1, <2>1, Busy
  <2>3. end \in Slot
    BY <1>1 DEF IInv, RingInv, Types, QueueTypeOK
  <2>4. Dist(i, i) = 0 /\ Dist(i, end) \in Nat /\ Dist(i, end) # 0
    BY <2>1, <2>2, <2>3, DistRange
  <2>5. i \in AheadOf(i, end)
    BY <2>2, <2>4 DEF AheadOf
  <2> QED
    BY <2>1, <2>2, <2>5 DEF Tracks, OnlyNewAhead, NewTo
<1>2. IInv => [DoWrite => messages[i] > sent[writing]]_vars
  BY <1>1
<1> QED
  BY <1>2, Invariance, PTL DEF SentInOrder

(* While a client is less than a lap behind it is sent the oldest of what  *)
(* it has not been sent: whatever is newer lies ahead of its position, and *)
(* behind the message it is sent next.                                     *)
THEOREM NothingIsPassedOver == Spec => NoGapWithinALap
<1> DEFINE next == messages[i]
           NoGap == \/ queued - sent[writing] >= Capacity
                    \/ \A k \in DOMAIN Content :
                         Content[k] > sent[writing] => next <= Content[k]
<1>1. ASSUME IInv, DoWrite PROVE NoGap
  <2>1. ~ Idle /\ i # end /\ next # NULL
    BY <1>1 DEF DoWrite, FlushWrites, AtMessage
  <2>2. i \in Slot /\ Tracks(i, sent[writing]) /\ RingInv
    BY <1>1, <2>1, Busy DEF IInv
  <2>3. end \in Slot /\ queued \in Nat /\ Capacity \in Nat
    BY <2>2, QueueAssumption DEF RingInv, Types, QueueTypeOK
  <2>4. CASE Lapped(queued, sent[writing])
    BY <2>4 DEF Lapped
  <2>5. CASE Restarted /\ end = 0 /\ i = 0
    BY <2>1, <2>5
  <2>6. CASE \A slot \in Slot :
               messages[slot] # NULL /\ NewTo(sent[writing], messages[slot])
                 => slot \in AheadOf(i, end)
    <3> SUFFICES ASSUME NEW k \in DOMAIN Content,
                        Content[k] > sent[writing]
                 PROVE  next <= Content[k]
      OBVIOUS
    <3>1. Content[k] \in live
      BY <2>2, ContentInLive
    <3>2. PICK slot \in Slot :
            messages[slot] = Content[k] /\ messages[slot] # NULL
      BY <2>2, <3>1 DEF RingInv, RingHoldsTheLive
    <3>3. Dist(i, slot) < Dist(i, end)
      BY <2>6, <3>2 DEF NewTo, AheadOf
    <3>4. messages[i] <= messages[slot]
      BY <2>1, <2>2, <3>2, <3>3, AheadIsNewer
    <3> QED
      BY <3>2, <3>4
  <2> QED
    BY <2>2, <2>4, <2>5, <2>6 DEF Tracks, AllNewAhead
<1>2. IInv => [DoWrite => NoGap]_vars
  BY <1>1
<1>3. Spec => [][DoWrite => NoGap]_vars
  BY <1>2, Invariance, PTL
<1> QED
  BY <1>3 DEF NoGapWithinALap

-----------------------------------------------------------------------------
(* Refinement: what is between start and end is a first-in first-out queue *)

LEMMA RunGrows ==
  ASSUME NEW n \in Nat, NEW m \in 0 .. n
  PROVE  Run(n + 1, m + 1) = Append(Run(n, m), n + 1)
<1> DEFINE Longer == Append(Run(n, m), n + 1)
<1>1. Run(n, m) \in Seq(Int) /\ Len(Run(n, m)) = m
  BY DEF Run
<1>2. /\ Longer \in Seq(Int) /\ Len(Longer) = m + 1
      /\ \A k \in 1 .. m : Longer[k] = Run(n, m)[k]
      /\ Longer[m + 1] = n + 1
  BY <1>1
<1> HIDE DEF Longer
<1>3. Longer = [k \in 1 .. m + 1 |-> Longer[k]]
  BY <1>2
<1>4. \A k \in 1 .. m + 1 : Longer[k] = (n + 1) - (m + 1) + k
  BY <1>2 DEF Run
<1> QED
  BY <1>3, <1>4 DEF Run, Longer

LEMMA RunShrinks ==
  ASSUME NEW n \in Nat, NEW m \in 1 .. n
  PROVE  Run(n, m) # << >> /\ Run(n, m - 1) = Tail(Run(n, m))
<1> DEFINE Rest == Tail(Run(n, m))
<1>1. Run(n, m) \in Seq(Int) /\ Len(Run(n, m)) = m
  BY DEF Run
<1>2. /\ Run(n, m) # << >>
      /\ Rest \in Seq(Int) /\ Len(Rest) = m - 1
      /\ \A k \in 1 .. m - 1 : Rest[k] = Run(n, m)[k + 1]
  BY <1>1
<1> HIDE DEF Rest
<1>3. Rest = [k \in 1 .. m - 1 |-> Rest[k]]
  BY <1>2
<1>4. ASSUME NEW k \in 1 .. m - 1 PROVE Rest[k] = n - (m - 1) + k
  <2>1. Rest[k] = Run(n, m)[k + 1] /\ k + 1 \in 1 .. m
    BY <1>2
  <2>2. Run(n, m)[k + 1] = n - m + (k + 1)
    BY <2>1 DEF Run
  <2> QED
    BY <2>1, <2>2
<1> QED
  BY <1>2, <1>3, <1>4 DEF Run, Rest

(* How many messages are there; a run of numbers is as long as it says. *)
LEMMA LiveIs ==
  ASSUME NEW n \in Nat, NEW k \in 0 .. n, NEW m \in 0 .. n,
         (n - k + 1) .. n = (n - m + 1) .. n
  PROVE  k = m
<1>1. CASE k > m
  <2>1. (n - k) + 1 \in (n - k + 1) .. n
    BY <1>1
  <2> QED
    BY <1>1, <2>1
<1>2. CASE k < m
  <2>1. (n - m) + 1 \in (n - m + 1) .. n
    BY <1>2
  <2> QED
    BY <1>2, <2>1
<1> QED
  BY <1>1, <1>2

(* The content is a run of numbers up to the last one queued. *)
Holds(c, stored, n, m) ==
  /\ m \in 0 .. n
  /\ c = Run(n, m)
  /\ stored = (n - m + 1) .. n

LEMMA ContentHolds == RingInv => \E m : Holds(Content, live, queued, m)
BY ContentRuns DEF Holds

LEMMA ContentHoldsNext ==
  RingInv' => \E m : Holds(Content', live', queued', m)
<1>1. (RingInv => \E m : Holds(Content, live, queued, m))'
  BY ContentHolds, PTL
<1> QED
  BY <1>1

LEMMA StoreAppends ==
  ASSUME IInv, Stores
  PROVE  Fifo!Put(queued + 1) /\ queued + 1 \in Message
<1>1. RingInv' /\ RingInv
  BY StoreRing DEF IInv
<1>2. PICK m : Holds(Content, live, queued, m)
  BY <1>1, ContentHolds
<1>3. PICK k : Holds(Content', live', queued', k)
  BY <1>1, ContentHoldsNext
<1>4. /\ queued \in Nat /\ queued + 1 \in Message /\ queued' = queued + 1
      /\ live' = live \cup {queued + 1} /\ exists /\ UNCHANGED exists
  BY <1>1, ApiAssumption DEF RingInv, Types, Stores
<1>5. k = m + 1
  <2>1. /\ m \in 0 .. queued /\ k \in 0 .. queued + 1
        /\ live = (queued - m + 1) .. queued
        /\ live \cup {queued + 1} = ((queued + 1) - k + 1) .. (queued + 1)
    BY <1>2, <1>3, <1>4 DEF Holds
  <2>2. \A n : n \in live \cup {queued + 1} <=>
                 n \in ((queued + 1) - (m + 1) + 1) .. (queued + 1)
    BY <1>4, <2>1
  <2>3. live \cup {queued + 1}
          = ((queued + 1) - (m + 1) + 1) .. (queued + 1)
    BY <2>2
  <2>4. m + 1 \in 0 .. queued + 1 /\ queued + 1 \in Nat
    BY <1>4, <2>1
  <2> HIDE DEF Holds
  <2> QED
    BY <2>1, <2>3, <2>4, LiveIs
<1>6. Content' = Append(Content, queued + 1)
  <2>1. Run(queued + 1, m + 1) = Append(Run(queued, m), queued + 1)
    BY <1>2, <1>4, RunGrows DEF Holds
  <2> QED
    BY <1>2, <1>3, <1>4, <1>5, <2>1 DEF Holds
<1> QED
  BY <1>4, <1>6 DEF Fifo!Put

LEMMA ReleaseTakes ==
  ASSUME IInv, Releases
  PROVE  Fifo!Take
<1>1. RingInv' /\ RingInv
  BY ReleaseRing DEF IInv
<1>2. PICK m \in 1 .. queued :
        /\ Holds(Content, live, queued, m)
        /\ messages[start] = queued - m + 1
  <2>1. PICK m \in 0 .. queued :
          /\ Content = Run(queued, m)
          /\ live = (queued - m + 1) .. queued
          /\ m # 0 /\ messages[start] = queued - m + 1
    BY <1>1, ContentRuns DEF Releases
  <2>2. m \in 1 .. queued
    BY <2>1
  <2> QED
    BY <2>1, <2>2 DEF Holds
<1>3. PICK k : Holds(Content', live', queued', k)
  BY <1>1, ContentHoldsNext
<1>4. /\ queued \in Nat /\ queued' = queued
      /\ live' = live \ {messages[start]} /\ exists /\ UNCHANGED exists
  BY <1>1, ApiAssumption DEF RingInv, Types, Releases
<1>5. k = m - 1
  <2>1. /\ k \in 0 .. queued
        /\ live = (queued - m + 1) .. queued
        /\ live \ {queued - m + 1} = (queued - k + 1) .. queued
    BY <1>2, <1>3, <1>4 DEF Holds
  <2>2. \A n : n \in live \ {queued - m + 1} <=>
                 n \in (queued - (m - 1) + 1) .. queued
    BY <1>4, <2>1
  <2>3. live \ {queued - m + 1} = (queued - (m - 1) + 1) .. queued
    BY <2>2
  <2>4. m - 1 \in 0 .. queued
    BY <1>4
  <2> QED
    BY <1>4, <2>1, <2>3, <2>4, LiveIs
<1>6. Content # << >> /\ Content' = Tail(Content)
  <2>1. /\ Run(queued, m) # << >>
        /\ Run(queued, m - 1) = Tail(Run(queued, m))
    BY <1>4, RunShrinks
  <2> QED
    BY <1>2, <1>3, <1>4, <1>5, <2>1 DEF Holds
<1> QED
  BY <1>4, <1>6 DEF Fifo!Take

(* Without a first message there is nothing in the queue. *)
LEMMA EmptyContent == start = MQ_EMPTY_SENTINEL => Content = << >>
<1> SUFFICES ASSUME start = MQ_EMPTY_SENTINEL PROVE Content = << >>
  OBVIOUS
<1>1. get_length = 0
  BY DEF get_length
<1>2. Skipped = 0
  BY <1>1 DEF Skipped
<1>3. 1 .. get_length - Skipped = {}
  BY <1>1, <1>2
<1> QED
  BY <1>3 DEF Content

LEMMA EmptyContentNext == start' = MQ_EMPTY_SENTINEL => Content' = << >>
<1>1. (start = MQ_EMPTY_SENTINEL => Content = << >>)'
  BY EmptyContent, PTL
<1> QED
  BY <1>1 DEF MQ_EMPTY_SENTINEL

LEMMA SameContent ==
  ASSUME UNCHANGED Ring
  PROVE  UNCHANGED << exists, Content >>
BY DEF Ring, Content, Skipped, get_length

LEMMA FifoStep ==
  ASSUME IInv, [Next]_vars
  PROVE  [Fifo!Next]_<< exists, Content >>
<1>1. CASE UNCHANGED Ring
  BY <1>1, SameContent
<1>2. CASE DoInit
  <2>1. start' = MQ_EMPTY_SENTINEL /\ ~ exists /\ exists'
    BY <1>2 DEF DoInit, message_queue__init
  <2> QED
    BY <2>1, EmptyContentNext DEF Fifo!Next, Fifo!Create
<1>3. CASE DoFree
  <2>1. start' = MQ_EMPTY_SENTINEL /\ exists /\ ~ exists'
    BY <1>3 DEF DoFree, message_queue__free
  <2> QED
    BY <2>1, EmptyContentNext DEF Fifo!Next, Fifo!Discard
<1>4. ASSUME NEW message, DoQ(message),
             \/ message = queued + 1 /\ queued < MaxMessages
             \/ message \in TooLong
      PROVE  Stores \/ UNCHANGED Ring
  BY <1>4, QStores
<1>5. CASE Stores
  BY <1>5, StoreAppends DEF Fifo!Next
<1>6. CASE DoDq
  BY <1>1, <1>6, DqReleases, ReleaseTakes DEF Fifo!Next
<1>7. CASE Next /\ ~ DoInit /\ ~ DoFree /\ ~ DoDq
           /\ ~ (queued < MaxMessages /\ DoQ(queued + 1))
           /\ ~ \E message \in TooLong : DoQ(message)
  <2>1. UNCHANGED Ring
    BY <1>7 DEF Next, DoGet, message_queue__get, DoRegister,
                message_queue__register_client, DoUnregister,
                message_queue__unregister_client, DoFlush,
                message_queue__flush, DoDrop,
                message_queue__drop_slow_consumers, DoWrite, FlushWrites,
                DoLoop, FlushSkips, FlushFails, FlushEnds, LeaveLoop
  <2> QED
    BY <1>1, <2>1
<1>8. CASE UNCHANGED vars
  BY <1>1, <1>8 DEF vars, queueVars, Ring
<1> QED
  BY <1>1, <1>2, <1>3, <1>4, <1>5, <1>6, <1>7, <1>8

(* For a ring of any size the window between start and end is a queue:     *)
(* messages leave in the order they came, none twice and none lost.        *)
THEOREM RingIsAQueue == Spec => FifoSpec
<1>1. Init => Fifo!Init
  BY EmptyContent DEF Init, Fifo!Init
<1>2. IInv /\ [Next]_vars => [Fifo!Next]_<< exists, Content >>
  BY FifoStep
<1> QED
  BY <1>1, <1>2, Invariance, PTL DEF Spec, FifoSpec, Fifo!Spec

=============================================================================
