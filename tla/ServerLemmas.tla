---------------------------- MODULE ServerLemmas ----------------------------
(***************************************************************************)
(* What the proofs about the servers and the message queue rest on: facts  *)
(* about numbers and sequences, above all about what an operation keeps of *)
(* one, and what the kernel's side of a server keeps true, whichever the   *)
(* server.  Induction is by least counterexample.                          *)
(***************************************************************************)
EXTENDS Sockets, Keeping, SequencesExt, TLAPS, NaturalsInduction,
        WellFoundedInduction, SequenceTheorems

(* Any numbers there are have a least one among them. *)
LEMMA Least ==
  ASSUME NEW S \in SUBSET Nat, S # {}
  PROVE  \E x \in S : \A y \in S : x <= y
<1>1. IsWellFoundedOn(OpToRel(<, Nat), Nat)
  BY NatLessThanWellFounded
<1>2. PICK x \in S : \A y \in S : << y, x >> \notin OpToRel(<, Nat)
  BY <1>1, WFMin
<1>3. \A y \in S : ~ (y < x)
  BY <1>2 DEF OpToRel
<1> QED
  BY <1>3

(* Some of these numbers are bad only if one of them is the first. *)
LEMMA FirstBad ==
  ASSUME NEW n \in Nat, NEW S \in SUBSET (0 .. n), S # {}, 0 \notin S
  PROVE  \E k \in 1 .. n : k \in S /\ k - 1 \notin S
<1>1. S \in SUBSET Nat
  OBVIOUS
<1>2. PICK k \in S : \A j \in S : k <= j
  BY <1>1, Least
<1>3. k \in 1 .. n /\ k - 1 \notin S
  BY <1>2
<1> QED
  BY <1>2, <1>3

-----------------------------------------------------------------------------
(* Keep *)

KeepStep(s, T, g, n) ==
  IF n = 0 THEN << >>
  ELSE IF s[n] \in T THEN Append(g[n - 1], s[n]) ELSE g[n - 1]

IsKeep(s, T, g) == g = [n \in 0 .. Len(s) |-> KeepStep(s, T, g, n)]

(* The recursion of Keep defines a function. *)
LEMMA KeepExists ==
  ASSUME NEW S, NEW s \in Seq(S), NEW T
  PROVE  \E g : IsKeep(s, T, g)
<1> DEFINE Good(n) ==
      \E g : /\ DOMAIN g = 0 .. n
             /\ g = [k \in 0 .. n |-> g[k]]
             /\ \A k \in 0 .. n : g[k] = KeepStep(s, T, g, k)
           Bad == { n \in 0 .. Len(s) : ~ Good(n) }
<1>0. Len(s) \in Nat
  OBVIOUS
<1>1. Good(0)
  <2> DEFINE g == [k \in 0 .. 0 |-> << >>]
  <2>1. DOMAIN g = 0 .. 0 /\ g = [k \in 0 .. 0 |-> g[k]]
    OBVIOUS
  <2>2. \A k \in 0 .. 0 : k = 0
    OBVIOUS
  <2>3. \A k \in 0 .. 0 : g[k] = KeepStep(s, T, g, k)
    BY <2>2 DEF KeepStep
  <2> QED
    BY <2>1, <2>3
<1>2. ASSUME NEW n \in 1 .. Len(s), Good(n - 1) PROVE Good(n)
  <2>1. PICK g : /\ DOMAIN g = 0 .. n - 1
                 /\ g = [k \in 0 .. n - 1 |-> g[k]]
                 /\ \A k \in 0 .. n - 1 : g[k] = KeepStep(s, T, g, k)
    BY <1>2
  <2> DEFINE h == [k \in 0 .. n |->
                     IF k = n THEN KeepStep(s, T, g, n) ELSE g[k]]
  <2>2. DOMAIN h = 0 .. n /\ h = [k \in 0 .. n |-> h[k]]
    OBVIOUS
  <2>3. \A k \in 0 .. n - 1 : h[k] = g[k]
    BY <1>0
  <2>4. h[n] = KeepStep(s, T, g, n)
    BY <1>0
  <2> HIDE DEF h
  <2>5. ASSUME NEW k \in 0 .. n PROVE h[k] = KeepStep(s, T, h, k)
    <3>1. KeepStep(s, T, h, k) = KeepStep(s, T, g, k)
      <4>1. CASE k = 0
        BY <4>1 DEF KeepStep
      <4>2. CASE k # 0
        <5>1. k - 1 \in 0 .. n - 1
          BY <4>2, <1>0
        <5>2. h[k - 1] = g[k - 1]
          BY <5>1, <2>3
        <5> QED
          BY <5>2 DEF KeepStep
      <4> QED
        BY <4>1, <4>2
    <3>2. k = n \/ k \in 0 .. n - 1
      BY <1>0
    <3> QED
      BY <3>1, <3>2, <2>1, <2>3, <2>4
  <2> QED
    BY <2>2, <2>5
<1> HIDE DEF Good
<1>3. Bad = {}
  <2> SUFFICES ASSUME Bad # {} PROVE FALSE
    OBVIOUS
  <2>1. Bad \in SUBSET (0 .. Len(s)) /\ 0 \notin Bad
    BY <1>1
  <2>2. PICK n \in 1 .. Len(s) : n \in Bad /\ n - 1 \notin Bad
    BY <1>0, <2>1, FirstBad
  <2>3. n - 1 \in 0 .. Len(s)
    BY <1>0
  <2> QED
    BY <1>2, <2>2, <2>3
<1>4. Good(Len(s))
  BY <1>0, <1>3
<1>5. PICK g : /\ DOMAIN g = 0 .. Len(s)
               /\ g = [k \in 0 .. Len(s) |-> g[k]]
               /\ \A k \in 0 .. Len(s) : g[k] = KeepStep(s, T, g, k)
  BY <1>4 DEF Good
<1>6. g = [n \in 0 .. Len(s) |-> KeepStep(s, T, g, n)]
  BY <1>5
<1> QED
  BY <1>6 DEF IsKeep

LEMMA KeepIs ==
  ASSUME NEW S, NEW s \in Seq(S), NEW T
  PROVE  \E g : IsKeep(s, T, g) /\ Keep(s, T) = g[Len(s)]
<1>1. Keep(s, T) = (CHOOSE g : g = [n \in 0 .. Len(s) |->
          IF n = 0 THEN << >>
          ELSE IF s[n] \in T THEN Append(g[n - 1], s[n])
                             ELSE g[n - 1]])[Len(s)]
  BY DEF Keep
<1>2. Keep(s, T) = (CHOOSE g : IsKeep(s, T, g))[Len(s)]
  BY <1>1 DEF IsKeep, KeepStep
<1>3. IsKeep(s, T, CHOOSE g : IsKeep(s, T, g))
  BY KeepExists
<1> QED
  BY <1>2, <1>3

(* k[n] is s[at[n]], later ones further on; none of those in T is missing. *)
Picks(at, k, s, n, T) ==
  /\ at \in [1 .. Len(k) -> 1 .. n]
  /\ \A a \in 1 .. Len(k) : k[a] = s[at[a]]
  /\ \A a, b \in 1 .. Len(k) : a < b => at[a] < at[b]
  /\ \A j \in 1 .. n : s[j] \in T => \E a \in 1 .. Len(k) : at[a] = j

LEMMA KeepPicks ==
  ASSUME NEW S, NEW s \in Seq(S), NEW T
  PROVE  /\ Keep(s, T) \in Seq(S \cap T)
         /\ \E at : Picks(at, Keep(s, T), s, Len(s), T)
<1>1. PICK g : IsKeep(s, T, g) /\ Keep(s, T) = g[Len(s)]
  BY KeepIs
<1>0. Len(s) \in Nat /\ \A j \in 1 .. Len(s) : s[j] \in S
  OBVIOUS
<1> DEFINE Good(n) == g[n] \in Seq(S \cap T)
                        /\ \E at : Picks(at, g[n], s, n, T)
           Bad == { n \in 0 .. Len(s) : ~ Good(n) }
<1>2. \A n \in 0 .. Len(s) : g[n] = KeepStep(s, T, g, n)
  BY <1>1 DEF IsKeep
<1>3. Good(0)
  <2>1. g[0] = << >>
    BY <1>0, <1>2 DEF KeepStep
  <2>2. Len(g[0]) = 0 /\ g[0] \in Seq(S \cap T)
    BY <2>1
  <2>3. 1 .. 0 = {}
    OBVIOUS
  <2>4. Picks([a \in 1 .. 0 |-> 0], g[0], s, 0, T)
    BY <2>2, <2>3 DEF Picks
  <2> QED
    BY <2>2, <2>4
<1>4. ASSUME NEW n \in 1 .. Len(s), Good(n - 1) PROVE Good(n)
  <2> DEFINE k == g[n - 1]
  <2>1. k \in Seq(S \cap T) /\ Len(k) \in Nat
    BY <1>4
  <2>2. PICK at : Picks(at, k, s, n - 1, T)
    BY <1>4
  <2>3. g[n] = IF s[n] \in T THEN Append(k, s[n]) ELSE k
    BY <1>0, <1>2 DEF KeepStep
  <2>4. s[n] \in S
    BY <1>0
  <2> HIDE DEF k
  <2>5. CASE s[n] \notin T
    <3>1. g[n] = k
      BY <2>3, <2>5
    <3>2. Picks(at, k, s, n, T)
      BY <2>1, <2>2, <2>5, <1>0 DEF Picks
    <3> QED
      BY <3>1, <3>2, <2>1
  <2>6. CASE s[n] \in T
    <3> DEFINE m == Len(k) + 1
               pick == [a \in 1 .. m |-> IF a = m THEN n ELSE at[a]]
    <3>1. /\ g[n] = Append(k, s[n])
          /\ g[n] \in Seq(S \cap T)
          /\ Len(g[n]) = m
          /\ \A a \in 1 .. Len(k) : g[n][a] = k[a]
          /\ g[n][m] = s[n]
      BY <2>1, <2>3, <2>4, <2>6
    <3>2. m \in Nat /\ \A a \in 1 .. m : a = m \/ a \in 1 .. Len(k)
      BY <2>1
    <3>3. /\ \A a \in 1 .. Len(k) : at[a] \in 1 .. n - 1
          /\ \A a \in 1 .. Len(k) : k[a] = s[at[a]]
          /\ \A a, b \in 1 .. Len(k) : a < b => at[a] < at[b]
          /\ \A j \in 1 .. n - 1 : s[j] \in T =>
               \E a \in 1 .. Len(k) : at[a] = j
      BY <2>2 DEF Picks
    <3>4. pick[m] = n /\ \A a \in 1 .. Len(k) : pick[a] = at[a] /\ a # m
      BY <2>1
    <3>5. pick \in [1 .. m -> 1 .. n]
      BY <3>2, <3>3, <1>0
    <3> HIDE DEF m, pick
    <3>6. \A a \in 1 .. m : g[n][a] = s[pick[a]]
      BY <3>1, <3>2, <3>3, <3>4
    <3>7. \A a, b \in 1 .. m : a < b => pick[a] < pick[b]
      <4> SUFFICES ASSUME NEW a \in 1 .. m, NEW b \in 1 .. m, a < b
                   PROVE  pick[a] < pick[b]
        OBVIOUS
      <4>1. a \in 1 .. Len(k)
        BY <2>1 DEF m
      <4>2. pick[a] = at[a] /\ at[a] < n
        BY <4>1, <3>3, <3>4, <1>0
      <4> QED
        BY <4>1, <4>2, <3>2, <3>3, <3>4
    <3>8. \A j \in 1 .. n : s[j] \in T => \E a \in 1 .. m : pick[a] = j
      <4> SUFFICES ASSUME NEW j \in 1 .. n, s[j] \in T
                   PROVE  \E a \in 1 .. m : pick[a] = j
        OBVIOUS
      <4>1. CASE j = n
        <5>1. m \in 1 .. m
          BY <2>1 DEF m
        <5> QED
          BY <4>1, <5>1, <3>4
      <4>2. CASE j # n
        <5>1. PICK a \in 1 .. Len(k) : at[a] = j
          BY <4>2, <3>3, <1>0
        <5>2. a \in 1 .. m
          BY <2>1 DEF m
        <5> QED
          BY <5>1, <5>2, <3>4
      <4> QED
        BY <4>1, <4>2
    <3>9. Picks(pick, g[n], s, n, T)
      BY <3>1, <3>5, <3>6, <3>7, <3>8 DEF Picks
    <3> QED
      BY <3>1, <3>9
  <2> QED
    BY <2>5, <2>6
<1> HIDE DEF Good
<1>5. Bad = {}
  <2> SUFFICES ASSUME Bad # {} PROVE FALSE
    OBVIOUS
  <2>1. Bad \in SUBSET (0 .. Len(s)) /\ 0 \notin Bad
    BY <1>3
  <2>2. PICK n \in 1 .. Len(s) : n \in Bad /\ n - 1 \notin Bad
    BY <1>0, <2>1, FirstBad
  <2>3. n - 1 \in 0 .. Len(s)
    BY <1>0
  <2> QED
    BY <1>4, <2>2, <2>3
<1>6. Good(Len(s))
  BY <1>0, <1>5
<1> QED
  BY <1>1, <1>6 DEF Good

(* One more element is kept or not, and the ones before it as before. *)
LEMMA KeepAppend ==
  ASSUME NEW S, NEW s \in Seq(S), NEW x \in S, NEW T
  PROVE  Keep(Append(s, x), T)
           = IF x \in T THEN Append(Keep(s, T), x) ELSE Keep(s, T)
<1> DEFINE t == Append(s, x)
           n == Len(s)
<1>1. /\ t \in Seq(S) /\ n \in Nat /\ Len(t) = n + 1 /\ t[n + 1] = x
      /\ \A k \in 1 .. n : t[k] = s[k]
  OBVIOUS
<1>2. PICK g : IsKeep(s, T, g) /\ Keep(s, T) = g[n]
  BY KeepIs
<1> HIDE DEF t
<1>3. PICK h : IsKeep(t, T, h) /\ Keep(t, T) = h[Len(t)]
  BY <1>1, KeepIs
<1>4. /\ \A k \in 0 .. n : g[k] = KeepStep(s, T, g, k)
      /\ \A k \in 0 .. n + 1 : h[k] = KeepStep(t, T, h, k)
  BY <1>1, <1>2, <1>3 DEF IsKeep
<1> HIDE DEF n
<1> DEFINE Bad == { k \in 0 .. n : h[k] # g[k] }
<1>5. Bad = {}
  <2> SUFFICES ASSUME Bad # {} PROVE FALSE
    OBVIOUS
  <2>1. 0 \notin Bad
    <3>1. 0 \in 0 .. n /\ 0 \in 0 .. n + 1
      BY <1>1
    <3>2. g[0] = << >> /\ h[0] = << >>
      BY <1>4, <3>1 DEF KeepStep
    <3> QED
      BY <3>2
  <2>2. PICK k \in 1 .. n : k \in Bad /\ k - 1 \notin Bad
    <3>1. Bad \in SUBSET (0 .. n)
      OBVIOUS
    <3> HIDE DEF Bad
    <3> QED
      BY <1>1, <2>1, <3>1, FirstBad
  <2>3. k \in 0 .. n /\ k \in 0 .. n + 1 /\ k - 1 \in 0 .. n /\ k # 0
    BY <1>1
  <2>4. h[k - 1] = g[k - 1]
    BY <2>2, <2>3
  <2>5. g[k] = KeepStep(s, T, g, k) /\ h[k] = KeepStep(t, T, h, k)
    BY <1>4, <2>3
  <2>6. h[k] = g[k]
    BY <1>1, <2>3, <2>4, <2>5 DEF KeepStep
  <2> QED
    BY <2>2, <2>6
<1>6. h[n] = g[n]
  <2>1. n \in 0 .. n
    BY <1>1
  <2> QED
    BY <1>5, <2>1
<1>7. h[n + 1] = IF x \in T THEN Append(h[n], x) ELSE h[n]
  <2>1. n + 1 \in 0 .. n + 1 /\ n + 1 # 0 /\ (n + 1) - 1 = n
    BY <1>1
  <2>2. h[n + 1] = KeepStep(t, T, h, n + 1)
    BY <1>4, <2>1
  <2> QED
    BY <1>1, <2>1, <2>2 DEF KeepStep
<1> QED
  BY <1>1, <1>2, <1>3, <1>6, <1>7 DEF t

(* Nothing is kept of nothing. *)
LEMMA KeepEmpty ==
  ASSUME NEW T PROVE Keep(<< >>, T) = << >>
<1>1. << >> \in Seq({}) /\ Len(<< >>) = 0
  OBVIOUS
<1>2. PICK g : IsKeep(<< >>, T, g) /\ Keep(<< >>, T) = g[0]
  BY <1>1, KeepIs
<1>3. g[0] = << >>
  BY <1>1, <1>2 DEF IsKeep, KeepStep
<1> QED
  BY <1>2, <1>3

-----------------------------------------------------------------------------
LEMMA SeqWider ==
  ASSUME NEW S, NEW T, S \subseteq T, NEW s \in Seq(S)
  PROVE  s \in Seq(T)
<1>1. PICK n \in Nat : s \in [1 .. n -> S]
  BY SeqDef
<1>2. s \in [1 .. n -> T]
  BY <1>1
<1> QED
  BY <1>2, SeqDef

(* Removing one element *)
LEMMA RemoveAtShifts ==
  ASSUME NEW S, NEW s \in Seq(S), NEW j \in 1 .. Len(s)
  PROVE  /\ RemoveAt(s, j) \in Seq(S)
         /\ Len(RemoveAt(s, j)) = Len(s) - 1
         /\ \A k \in 1 .. Len(s) - 1 :
              RemoveAt(s, j)[k] = IF k < j THEN s[k] ELSE s[k + 1]
<1> DEFINE a == SubSeq(s, 1, j - 1)
           b == SubSeq(s, j + 1, Len(s))
<1>1. Len(s) \in Nat
  OBVIOUS
<1>2. /\ a \in Seq(S) /\ Len(a) = j - 1
      /\ \A k \in 1 .. j - 1 : a[k] = s[k]
  BY <1>1
<1>3. /\ b \in Seq(S) /\ Len(b) = Len(s) - j
      /\ \A k \in 1 .. Len(s) - j : b[k] = s[j + k]
  BY <1>1
<1>4. RemoveAt(s, j) = a \o b
  BY DEF RemoveAt
<1> HIDE DEF a, b
<1>5. /\ a \o b \in Seq(S)
      /\ Len(a \o b) = Len(s) - 1
      /\ \A k \in 1 .. Len(s) - 1 :
           (a \o b)[k] = IF k <= j - 1 THEN a[k] ELSE b[k - (j - 1)]
  <2>1. a \o b \in Seq(S) /\ Len(a \o b) = Len(a) + Len(b)
    BY <1>2, <1>3, ConcatProperties
  <2>2. (j - 1) + (Len(s) - j) = Len(s) - 1
    BY <1>1
  <2>3. \A k \in 1 .. Len(a) + Len(b) :
          (a \o b)[k] = IF k <= Len(a) THEN a[k] ELSE b[k - Len(a)]
    BY <1>2, <1>3, ConcatProperties
  <2>4. Len(a) = j - 1 /\ Len(a) + Len(b) = Len(s) - 1
    BY <1>2, <1>3, <2>2
  <2> QED
    BY <2>1, <2>3, <2>4
<1>6. ASSUME NEW k \in 1 .. Len(s) - 1
      PROVE  (a \o b)[k] = IF k < j THEN s[k] ELSE s[k + 1]
  <2>1. CASE k < j
    BY <1>1, <1>2, <1>5, <2>1
  <2>2. CASE ~ (k < j)
    <3>1. k - (j - 1) \in 1 .. Len(s) - j /\ j + (k - (j - 1)) = k + 1
      BY <1>1, <2>2
    <3>2. b[k - (j - 1)] = s[j + (k - (j - 1))]
      BY <1>3, <3>1
    <3>3. ~ (k <= j - 1)
      BY <2>2
    <3> QED
      BY <1>5, <2>2, <3>1, <3>2, <3>3
  <2> QED
    BY <2>1, <2>2
<1> QED
  BY <1>4, <1>5, <1>6

-----------------------------------------------------------------------------
(* The sockets *)

(* Every open descriptor is that of one connection; a connection is made   *)
(* before it has one, and waits in the backlog, once, until it has;        *)
(* nothing is read that was not sent, and what is sent is counted.         *)
Wired ==
  /\ SocketsTypeOK
  /\ \A p, q \in Peer : sock[p] # 0 /\ sock[p] = sock[q] => p = q
  /\ \A p \in Peer : sock[p] # 0 => link[p] # "none"
  /\ \A k \in 1 .. Len(backlog) :
       sock[backlog[k]] = 0 /\ link[backlog[k]] # "none"
  /\ \A j, k \in 1 .. Len(backlog) : backlog[j] = backlog[k] => j = k
  /\ \A p \in Peer : taken[p] <= given[p]
  /\ \A p \in Peer : given[p] <= sends

LEMMA InitWired == SocketsInit => Wired
BY SocketsAssumption DEF SocketsInit, Wired, SocketsTypeOK, LinkState

(* PeerOf() finds the one peer behind an open descriptor, *)
LEMMA PeerOfOpen ==
  ASSUME NEW fd \in Open
  PROVE  PeerOf(fd) \in Peer /\ sock[PeerOf(fd)] = fd /\ fd # 0
<1>1. \E p \in Peer : sock[p] = fd
  BY DEF Open
<1> QED
  BY <1>1 DEF PeerOf, Open

(* which is the one it was given to. *)
LEMMA PeerOfSock ==
  ASSUME Wired, NEW p \in Peer, sock[p] # 0
  PROVE  PeerOf(sock[p]) = p /\ sock[p] \in Open
<1>1. sock[p] \in Open
  BY DEF Open
<1> QED
  BY <1>1, PeerOfOpen DEF Wired

LEMMA OpenTyped == Wired => Open \subseteq Descriptor
BY DEF Wired, SocketsTypeOK, Open

(* Sending and reading leave who is connected alone. *)
LEMMA SameWired ==
  ASSUME Wired, SocketsTypeOK', UNCHANGED << sock, backlog >>,
         \A q \in Peer : link'[q] # "none" <=> link[q] # "none",
         \A q \in Peer : taken'[q] <= given'[q],
         \A q \in Peer : given'[q] <= sends'
  PROVE  Wired' /\ Open' = Open
<1>1. \A q \in Peer : sock'[q] # 0 => link'[q] # "none"
  BY DEF Wired
<1>2. \A k \in 1 .. Len(backlog') :
        sock'[backlog'[k]] = 0 /\ link'[backlog'[k]] # "none"
  <2> SUFFICES ASSUME NEW k \in 1 .. Len(backlog)
               PROVE  sock[backlog[k]] = 0 /\ link'[backlog[k]] # "none"
    OBVIOUS
  <2>1. backlog[k] \in Peer
    BY DEF Wired, SocketsTypeOK
  <2> QED
    BY <2>1 DEF Wired
<1>3. /\ \A q, r \in Peer : sock'[q] # 0 /\ sock'[q] = sock'[r] => q = r
      /\ \A j, k \in 1 .. Len(backlog') : backlog'[j] = backlog'[k] => j = k
  BY DEF Wired
<1> QED
  BY <1>1, <1>2, <1>3 DEF Wired, Open

LEMMA StillWired ==
  ASSUME Wired, UNCHANGED kernelVars
  PROVE  Wired' /\ Open' = Open
<1>1. SocketsTypeOK'
  BY DEF kernelVars, Wired, SocketsTypeOK
<1> QED
  BY <1>1, SameWired DEF kernelVars, Wired

-----------------------------------------------------------------------------
(* The steps of the peers and of the network *)

LEMMA ConnectWired ==
  ASSUME Wired, NEW p \in Peer, Connect(p)
  PROVE  Wired' /\ Open' = Open /\ sock[p] = 0
<1>1. sock[p] = 0 /\ \A k \in 1 .. Len(backlog) : backlog[k] # p
  BY DEF Wired, Connect
<1>2. /\ Len(backlog') = Len(backlog) + 1
      /\ backlog'[Len(backlog) + 1] = p
      /\ \A k \in 1 .. Len(backlog) : backlog'[k] = backlog[k]
      /\ backlog' \in Seq(Peer)
  BY DEF Wired, SocketsTypeOK, Connect
<1>3. link' \in [Peer -> LinkState] /\ connects' \in 0 .. MaxConnects
  BY SocketsAssumption DEF Wired, SocketsTypeOK, Connect, LinkState
<1>4. taken' \in [Peer -> Nat] /\ \A q \in Peer : taken'[q] <= given[q]
  BY DEF Wired, SocketsTypeOK, Connect
<1>5. \A q \in Peer : link'[q] # "none" <=> q = p \/ link[q] # "none"
  BY DEF Wired, SocketsTypeOK, Connect
<1>6. Len(backlog) \in Nat
  BY DEF Wired, SocketsTypeOK
<1>7. \A k \in 1 .. Len(backlog') :
        \/ k = Len(backlog) + 1 /\ backlog'[k] = p
        \/ /\ k \in 1 .. Len(backlog) /\ backlog'[k] = backlog[k]
           /\ backlog[k] # p /\ backlog[k] \in Peer
  <2>1. \A n \in Nat : \A k \in 1 .. (n + 1) : k = n + 1 \/ k \in 1 .. n
    OBVIOUS
  <2>2. \A k \in 1 .. Len(backlog') :
          k = Len(backlog) + 1 \/ k \in 1 .. Len(backlog)
    BY <1>2, <1>6, <2>1
  <2>3. \A k \in 1 .. Len(backlog) : backlog[k] \in Peer
    BY DEF Wired, SocketsTypeOK
  <2> QED
    BY <1>1, <1>2, <2>2, <2>3
<1>8. \A k \in 1 .. Len(backlog') :
        sock[backlog'[k]] = 0 /\ link'[backlog'[k]] # "none"
  BY <1>1, <1>5, <1>7 DEF Wired
<1>9. \A j, k \in 1 .. Len(backlog') : backlog'[j] = backlog'[k] => j = k
  BY <1>7 DEF Wired
<1>10. SocketsTypeOK'
  BY <1>2, <1>3, <1>4 DEF Wired, SocketsTypeOK, Connect
<1>11. UNCHANGED << sock, given, sends >>
  BY DEF Connect
<1>12. Wired'
  BY <1>4, <1>5, <1>8, <1>9, <1>10, <1>11 DEF Wired
<1> QED
  BY <1>1, <1>11, <1>12 DEF Open

LEMMA SendWired ==
  ASSUME Wired, NEW p \in Peer, Send(p)
  PROVE  Wired' /\ Open' = Open
<1>1. given' \in [Peer -> Nat] /\ \A q \in Peer : taken[q] <= given'[q]
  BY DEF Wired, SocketsTypeOK, Send
<1>2. sends' \in 0 .. MaxUnits /\ \A q \in Peer : given'[q] <= sends'
  BY SocketsAssumption DEF Wired, SocketsTypeOK, Send
<1>3. SocketsTypeOK' /\ UNCHANGED << sock, link, backlog, taken >>
  BY <1>1, <1>2 DEF Wired, SocketsTypeOK, Send
<1> QED
  BY <1>1, <1>2, <1>3, SameWired

LEMMA PeerReadsWired ==
  ASSUME Wired, NEW p \in Peer, PeerReads(p)
  PROVE  Wired' /\ Open' = Open
<1>1. rx' \in [Peer -> 0 .. SockBuf]
  BY SocketsAssumption DEF Wired, SocketsTypeOK, PeerReads
<1>2. /\ SocketsTypeOK'
      /\ UNCHANGED << sock, link, backlog, taken, given, sends >>
  BY <1>1 DEF Wired, SocketsTypeOK, PeerReads
<1> QED
  BY <1>2, SameWired DEF Wired

LEMMA PeerClosesWired ==
  ASSUME Wired, NEW p \in Peer, PeerCloses(p)
  PROVE  Wired' /\ Open' = Open
<1>1. rx' \in [Peer -> 0 .. SockBuf]
  BY SocketsAssumption DEF Wired, SocketsTypeOK, PeerCloses
<1>2. /\ link' \in [Peer -> LinkState]
      /\ \A q \in Peer : link'[q] # "none" <=> link[q] # "none"
  BY DEF Wired, SocketsTypeOK, PeerCloses, LinkState
<1>3. SocketsTypeOK' /\ UNCHANGED << sock, backlog, taken, given, sends >>
  BY <1>1, <1>2 DEF Wired, SocketsTypeOK, PeerCloses
<1> QED
  BY <1>2, <1>3, SameWired DEF Wired

(* Only the state of one connection, which stays made, changes. *)
LEMMA LinkWired ==
  ASSUME Wired, NEW p \in Peer, NEW state \in LinkState \ { "none" },
         link[p] # "none", link' = [link EXCEPT ![p] = state],
         UNCHANGED << sock, backlog, given, taken, rx, connects, sends >>
  PROVE  Wired' /\ Open' = Open
<1>1. /\ link' \in [Peer -> LinkState]
      /\ \A q \in Peer : link'[q] # "none" <=> link[q] # "none"
  BY DEF Wired, SocketsTypeOK, LinkState
<1>2. SocketsTypeOK'
  BY <1>1 DEF Wired, SocketsTypeOK
<1> QED
  BY <1>1, <1>2, SameWired DEF Wired

LEMMA ResetArrivesWired ==
  ASSUME Wired, NEW p \in Peer, ResetArrives(p)
  PROVE  Wired' /\ Open' = Open
<1>1. "broken" \in LinkState \ { "none" }
  BY DEF LinkState
<1> QED
  BY <1>1, LinkWired DEF ResetArrives

-----------------------------------------------------------------------------
(* The steps of the server *)

LEMMA AcceptsWired ==
  ASSUME Wired, NEW fd \in Descriptor \ Open, Accepts(fd)
  PROVE  /\ Wired' /\ Open' = Open \cup { fd }
         /\ Head(backlog) \in Peer
         /\ sock[Head(backlog)] = 0 /\ link[Head(backlog)] # "none"
         /\ sock' = [sock EXCEPT ![Head(backlog)] = fd]
<1> DEFINE p == Head(backlog)
<1>1. /\ p \in Peer /\ p = backlog[1] /\ 1 \in 1 .. Len(backlog)
      /\ Len(backlog) \in Nat
  BY DEF Wired, SocketsTypeOK, Accepts
<1>2. /\ backlog' \in Seq(Peer)
      /\ Len(backlog') = Len(backlog) - 1
      /\ \A k \in 1 .. Len(backlog') :
           backlog'[k] = backlog[k + 1] /\ k + 1 \in 1 .. Len(backlog)
  BY DEF Wired, SocketsTypeOK, Accepts
<1>3. sock[p] = 0 /\ link[p] # "none"
  BY <1>1 DEF Wired
<1>4. fd # 0
  BY DEF Descriptor, ServerFd
<1>5. sock' = [sock EXCEPT ![p] = fd]
  BY DEF Accepts
<1>6. sock' \in [Peer -> { 0 } \cup Descriptor]
  BY <1>1, <1>5 DEF Wired, SocketsTypeOK
<1>7. \A q \in Peer : sock'[q] = IF q = p THEN fd ELSE sock[q]
  BY <1>5 DEF Wired, SocketsTypeOK
<1>8. \A q \in Peer : sock[q] # fd
  BY <1>4 DEF Open
<1>9. \A k \in 1 .. Len(backlog') :
        backlog'[k] # p /\ backlog'[k] \in Peer
  <2> SUFFICES ASSUME NEW k \in 1 .. Len(backlog')
               PROVE  backlog'[k] # p /\ backlog'[k] \in Peer
    OBVIOUS
  <2>1. backlog'[k] = backlog[k + 1] /\ k + 1 \in 1 .. Len(backlog)
    BY <1>2
  <2>2. k \in Nat \ {0} /\ k + 1 # 1
    BY <1>1, <1>2
  <2>3. backlog[k + 1] # backlog[1]
    BY <1>1, <2>1, <2>2 DEF Wired
  <2>4. backlog[k + 1] \in Peer
    <3>1. backlog \in Seq(Peer)
      BY DEF Wired, SocketsTypeOK
    <3> QED
      BY <2>1, <3>1
  <2> QED
    BY <1>1, <2>1, <2>3, <2>4
<1>10. \A k \in 1 .. Len(backlog') :
         sock'[backlog'[k]] = 0 /\ link[backlog'[k]] # "none"
  <2>1. \A k \in 1 .. Len(backlog) :
          sock[backlog[k]] = 0 /\ link[backlog[k]] # "none"
    BY DEF Wired
  <2>2. ASSUME NEW k \in 1 .. Len(backlog')
        PROVE  sock[backlog'[k]] = 0 /\ link[backlog'[k]] # "none"
    BY <1>2, <2>1
  <2>3. ASSUME NEW k \in 1 .. Len(backlog')
        PROVE  sock'[backlog'[k]] = sock[backlog'[k]]
    BY <1>7, <1>9
  <2> QED
    BY <2>2, <2>3
<1>11. \A j, k \in 1 .. Len(backlog') : backlog'[j] = backlog'[k] => j = k
  <2> SUFFICES ASSUME NEW j \in 1 .. Len(backlog'),
                      NEW k \in 1 .. Len(backlog'), backlog'[j] = backlog'[k]
               PROVE  j = k
    OBVIOUS
  <2>1. j + 1 = k + 1
    BY <1>2 DEF Wired
  <2> QED
    BY <2>1
<1>12. \A q, r \in Peer : sock'[q] # 0 /\ sock'[q] = sock'[r] => q = r
  BY <1>7, <1>8 DEF Wired
<1>13. \A q \in Peer : sock'[q] # 0 => link[q] # "none"
  BY <1>3, <1>7 DEF Wired
<1>14. Open' = Open \cup { fd }
  BY <1>1, <1>3, <1>4, <1>7 DEF Open
<1>15. UNCHANGED << link, given, taken, rx, connects, sends >>
  BY DEF Accepts
<1>16. Wired'
  BY <1>2, <1>6, <1>10, <1>11, <1>12, <1>13, <1>15 DEF Wired, SocketsTypeOK
<1> QED
  BY <1>1, <1>3, <1>5, <1>14, <1>16

LEMMA ReadsWired ==
  ASSUME Wired, NEW p \in Peer, NEW n \in Nat, Reads(p, n)
  PROVE  Wired' /\ Open' = Open
<1>1. taken' \in [Peer -> Nat] /\ \A q \in Peer : taken'[q] <= given[q]
  BY DEF Wired, SocketsTypeOK, Reads, Unread
<1>2. SocketsTypeOK' /\ UNCHANGED << sock, link, backlog, given, sends >>
  BY <1>1 DEF Wired, SocketsTypeOK, Reads
<1> QED
  BY <1>1, <1>2, SameWired DEF Wired

LEMMA WritesWired ==
  ASSUME Wired, NEW p \in Peer, Writes(p)
  PROVE  Wired' /\ Open' = Open
<1>1. CASE /\ link[p] = "up" /\ rx[p] < SockBuf
           /\ rx' = [rx EXCEPT ![p] = @ + 1] /\ UNCHANGED link
  <2>1. rx' \in [Peer -> 0 .. SockBuf]
    BY <1>1, SocketsAssumption DEF Wired, SocketsTypeOK
  <2>2. /\ SocketsTypeOK'
        /\ UNCHANGED << sock, link, backlog, given, taken, sends >>
    BY <1>1, <2>1 DEF Wired, SocketsTypeOK, Writes
  <2> QED
    BY <2>2, SameWired DEF Wired
<1>2. CASE /\ link[p] \in { "fin", "rstsent" }
           /\ link' = [link EXCEPT ![p] = "rstsent"] /\ UNCHANGED rx
  <2>1. "rstsent" \in LinkState \ { "none" } /\ link[p] # "none"
    BY <1>2 DEF LinkState
  <2> QED
    BY <1>2, <2>1, LinkWired DEF Writes
<1> QED
  BY <1>1, <1>2 DEF Writes

LEMMA ReportsResetWired ==
  ASSUME Wired, NEW p \in Peer, ReportsReset(p)
  PROVE  Wired' /\ Open' = Open
<1>1. "broken" \in LinkState \ { "none" }
  BY DEF LinkState
<1> QED
  BY <1>1, LinkWired DEF ReportsReset

LEMMA ClosesWired ==
  ASSUME Wired, NEW p \in Peer, sock[p] # 0, Closes(p)
  PROVE  Wired' /\ Open' = Open \ { sock[p] }
<1>1. \A k \in 1 .. Len(backlog) : backlog[k] # p /\ backlog[k] \in Peer
  BY DEF Wired, SocketsTypeOK
<1>2. /\ sock' \in [Peer -> { 0 } \cup Descriptor]
      /\ link' \in [Peer -> LinkState]
      /\ rx' \in [Peer -> 0 .. SockBuf]
  BY SocketsAssumption DEF Wired, SocketsTypeOK, Closes, LinkState
<1>3. \A q \in Peer : /\ sock'[q] = IF q = p THEN 0 ELSE sock[q]
                      /\ link'[q] = IF q = p THEN "none" ELSE link[q]
  BY DEF Wired, SocketsTypeOK, Closes
<1>4. \A k \in 1 .. Len(backlog) :
        sock'[backlog[k]] = 0 /\ link'[backlog[k]] # "none"
  BY <1>1, <1>3 DEF Wired
<1>5. /\ \A q, r \in Peer : sock'[q] # 0 /\ sock'[q] = sock'[r] => q = r
      /\ \A q \in Peer : sock'[q] # 0 => link'[q] # "none"
  BY <1>3 DEF Wired
<1>6. Open' = Open \ { sock[p] }
  BY <1>3 DEF Open, Wired
<1>7. UNCHANGED << backlog, given, taken, connects, sends >>
  BY DEF Closes
<1>8. Wired'
  BY <1>2, <1>4, <1>5, <1>7 DEF Wired, SocketsTypeOK
<1> QED
  BY <1>6, <1>8

=============================================================================
