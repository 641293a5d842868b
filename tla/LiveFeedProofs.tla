--------------------------- MODULE LiveFeedProofs ---------------------------
(***************************************************************************)
(* Proofs about LiveFeed, for every size of its queues, replays and logs    *)
(* and every schedule of its threads, connections and failures.             *)
(***************************************************************************)
EXTENDS LiveFeed, FiniteSetTheorems, SequenceTheorems, WellFoundedInduction, TLAPS

Rising(e) == \A k, l \in DOMAIN e : k < l => e[k] < e[l]

-----------------------------------------------------------------------------
(* Helpers. *)

LEMMA Sizes ==
  /\ MaxSeq \in Nat /\ MaxFaults \in Nat /\ HandshakeCommits \in Nat
  /\ MaxBatch \in Nat \ {0} /\ Capacity \in Nat \ {0} /\ MaxReplay \in Nat \ {0}
  /\ TrimEvery \in Nat \ {0} /\ WireSize \in Nat \ {0}
  /\ Retention \in Nat /\ Retention >= MaxReplay + HandshakeCommits
BY SizesAssumption, RetentionAssumption

LEMMA LeastMember ==
  ASSUME NEW S, S \subseteq Nat, S # {}
  PROVE  \E m \in S : \A s \in S : m <= s
<1>1. PICK m \in S : \A s \in S : <<s, m>> \notin OpToRel(<, Nat)
  BY WFMin, NatLessThanWellFounded
<1>2. ASSUME NEW s \in S PROVE m <= s
  <2>1. s < m => <<s, m>> \in OpToRel(<, Nat)
    BY DEF OpToRel
  <2>2. ~(s < m)
    BY <1>1, <2>1, Zenon
  <2> QED
    BY <2>2
<1> QED
  BY <1>2

\* The largest of a bounded set of numbers.
LEMMA LargestMember ==
  ASSUME NEW S, S \subseteq Nat, S # {}, NEW b \in Nat, \A x \in S : x <= b
  PROVE  MaxOf(S) \in S /\ \A y \in S : y <= MaxOf(S)
<1>1. PICK T : T = {n \in Nat : \E x \in S : n = b - x}
  OBVIOUS
<1>2. T \subseteq Nat /\ T # {}
  <2>1. PICK x \in S : TRUE
    OBVIOUS
  <2>2. b - x \in Nat
    BY <2>1
  <2> QED
    BY <1>1, <2>1, <2>2
<1>3. PICK t \in T : \A s \in T : t <= s
  BY <1>2, LeastMember
<1>4. PICK x \in S : t = b - x
  BY <1>1, <1>3
<1>5. ASSUME NEW y \in S PROVE y <= x
  <2>1. b - y \in Nat /\ b - y \in T
    BY <1>1, <1>5
  <2>2. b - x <= b - y
    BY <1>3, <1>4, <2>1
  <2> QED
    BY <1>4, <1>5, <2>2
<1> QED
  BY <1>5, Zenon DEF MaxOf

LEMMA LargerOfTwo ==
  ASSUME NEW a \in Int, NEW b \in Int
  PROVE  MaxOf({a, b}) \in {a, b} /\ a <= MaxOf({a, b}) /\ b <= MaxOf({a, b})
<1>1. \E x \in {a, b} : \A y \in {a, b} : y <= x
  <2>1. CASE a <= b
    BY <2>1
  <2>2. CASE ~(a <= b)
    BY <2>2
  <2> QED
    BY <2>1, <2>2
<1>2. MaxOf({a, b}) \in {a, b} /\ \A y \in {a, b} : y <= MaxOf({a, b})
  BY <1>1, Zenon DEF MaxOf
<1> QED
  BY <1>2

LEMMA LargerSeq ==
  ASSUME NEW S, NEW T, S \subseteq T, NEW s \in Seq(S)
  PROVE  s \in Seq(T)
OBVIOUS

\* The sequence that Kept builds, one element at a time.
LEMMA KeptBuilt ==
  ASSUME NEW e, Len(e) \in Nat, NEW S
  PROVE  \E f : /\ f = [n \in 0..Len(e) |->
                          IF n = 0 THEN <<>>
                          ELSE IF e[n] \in S THEN Append(f[n - 1], e[n])
                          ELSE f[n - 1]]
                /\ Kept(e, S) = f[Len(e)]
<1> DEFINE Step(f, n) == IF n = 0 THEN <<>>
                         ELSE IF e[n] \in S THEN Append(f[n - 1], e[n])
                         ELSE f[n - 1]
<1> DEFINE Built(k) == \E f : f = [n \in 0..k |-> Step(f, n)]
<1> DEFINE B == {k \in Nat : ~Built(k)}
<1>1. B = {}
  <2> SUFFICES ASSUME B # {} PROVE FALSE
    OBVIOUS
  <2>1. PICK m \in B : \A s \in B : m <= s
    <3>1. B \subseteq Nat
      OBVIOUS
    <3> HIDE DEF B
    <3> QED
      BY <3>1, LeastMember
  <2>2. m \in Nat /\ ~Built(m)
    OBVIOUS
  <2>3. CASE m = 0
    <3>1. PICK f : f = [n \in 0..0 |-> <<>>]
      OBVIOUS
    <3>2. f = [n \in 0..0 |-> Step(f, n)]
      BY <3>1
    <3>3. Built(0)
      BY <3>2
    <3> HIDE DEF Built
    <3> QED
      BY <2>2, <2>3, <3>3
  <2>4. CASE m # 0
    <3>1. m - 1 \in Nat /\ m - 1 \notin B
      <4>1. m - 1 \in Nat /\ ~(m <= m - 1)
        BY <2>2, <2>4
      <4> HIDE DEF B
      <4> QED
        BY <2>1, <4>1
    <3>2. Built(m - 1)
      BY <3>1
    <3>3. PICK f : f = [n \in 0..(m - 1) |-> Step(f, n)]
      BY <3>2
    <3>4. PICK x : x = Step(f, m)
      OBVIOUS
    <3>5. PICK g : g = [n \in 0..m |-> IF n = m THEN x ELSE f[n]]
      OBVIOUS
    <3>6. ASSUME NEW n \in 0..m
          PROVE  g[n] = Step(g, n)
      <4>1. CASE n = 0
        BY <2>4, <3>3, <3>5, <4>1
      <4>2. CASE n # 0
        <5>1. n - 1 \in 0..(m - 1) /\ n - 1 # m /\ n - 1 \in 0..m
          BY <2>2, <4>2
        <5>2. g[n - 1] = f[n - 1]
          BY <3>5, <5>1
        <5>3. Step(g, n) = Step(f, n)
          BY <4>2, <5>2
        <5>4. CASE n = m
          BY <3>4, <3>5, <5>3, <5>4
        <5>5. CASE n # m
          <6>1. n \in 0..(m - 1)
            BY <2>2, <5>5
          <6> QED
            BY <3>3, <3>5, <5>3, <5>5, <6>1
        <5> QED
          BY <5>4, <5>5
      <4> QED
        BY <4>1, <4>2
    <3>7. g = [n \in 0..m |-> Step(g, n)]
      BY <3>5, <3>6
    <3>8. Built(m)
      BY <3>7
    <3> QED
      BY <2>2, <3>8
  <2> QED
    BY <2>3, <2>4
<1>2. Built(Len(e))
  BY <1>1
<1>3. Kept(e, S) = (CHOOSE f : f = [n \in 0..Len(e) |-> Step(f, n)])[Len(e)]
  BY DEF Kept
<1>4. PICK f : f = CHOOSE h : h = [n \in 0..Len(e) |-> Step(h, n)]
  OBVIOUS
<1>5. f = [n \in 0..Len(e) |-> Step(f, n)]
  BY <1>2, <1>4, Zenon
<1> QED
  BY <1>3, <1>4, <1>5, Zenon

\* Kept keeps the elements that are in S, and their order.
LEMMA KeptFacts ==
  ASSUME NEW T, T \subseteq Int, NEW e \in Seq(T), NEW S
  PROVE  /\ Kept(e, S) \in Seq(T \cap S)
         /\ \A i \in DOMAIN Kept(e, S) : \E k \in DOMAIN e : Kept(e, S)[i] = e[k]
         /\ \A k \in DOMAIN e : e[k] \in S => \E i \in DOMAIN Kept(e, S) : Kept(e, S)[i] = e[k]
         /\ Rising(e) => Rising(Kept(e, S))
<1>1. Len(e) \in Nat /\ DOMAIN e = 1..Len(e) /\ \A k \in 1..Len(e) : e[k] \in T
  BY LenProperties, ElementOfSeq
<1>2. PICK f : /\ f = [n \in 0..Len(e) |->
                         IF n = 0 THEN <<>>
                         ELSE IF e[n] \in S THEN Append(f[n - 1], e[n])
                         ELSE f[n - 1]]
               /\ Kept(e, S) = f[Len(e)]
  BY <1>1, KeptBuilt
<1> DEFINE P(n) == /\ f[n] \in Seq(T \cap S)
                   /\ \A i \in 1..Len(f[n]) : \E k \in 1..n : f[n][i] = e[k]
                   /\ \A k \in 1..n : e[k] \in S => \E i \in 1..Len(f[n]) : f[n][i] = e[k]
                   /\ Rising(e) => \A i, j \in 1..Len(f[n]) : i < j => f[n][i] < f[n][j]
<1> DEFINE B == {n \in 0..Len(e) : ~P(n)}
<1>3. f[0] = <<>>
  BY <1>1, <1>2
<1>4. ASSUME NEW n \in 1..Len(e)
      PROVE  f[n] = IF e[n] \in S THEN Append(f[n - 1], e[n]) ELSE f[n - 1]
  <2>1. n \in 0..Len(e) /\ n # 0
    BY <1>1
  <2> QED
    BY <1>2, <2>1
<1>5. P(0)
  <2>1. f[0] \in Seq(T \cap S) /\ Len(f[0]) = 0
    BY <1>3, EmptySeq
  <2> QED
    BY <2>1
<1>6. ASSUME NEW n \in 1..Len(e), P(n - 1)
      PROVE  P(n)
  <2>1. PICK a, x : a = f[n - 1] /\ x = e[n]
    OBVIOUS
  <2>2. /\ a \in Seq(T \cap S)
        /\ \A i \in 1..Len(a) : \E k \in 1..(n - 1) : a[i] = e[k]
        /\ \A k \in 1..(n - 1) : e[k] \in S => \E i \in 1..Len(a) : a[i] = e[k]
        /\ Rising(e) => \A i, j \in 1..Len(a) : i < j => a[i] < a[j]
    BY <1>6, <2>1
  <2>3. Len(a) \in Nat /\ n \in Nat /\ n - 1 \in Nat /\ 1..(n - 1) \subseteq 1..n
    BY <1>1, <2>2, LenProperties
  <2>4. CASE x \notin S
    <3>1. f[n] = a
      BY <1>4, <2>1, <2>4
    <3>2. \A k \in 1..n : e[k] \in S => k \in 1..(n - 1)
      BY <2>1, <2>3, <2>4
    <3> QED
      BY <2>2, <2>3, <3>1, <3>2
  <2>5. CASE x \in S
    <3>1. PICK b : b = Append(a, x)
      OBVIOUS
    <3>2. f[n] = b
      BY <1>4, <2>1, <2>5, <3>1
    <3>3. x \in T \cap S
      BY <1>1, <2>1, <2>5
    <3>4. /\ b \in Seq(T \cap S) /\ Len(b) = Len(a) + 1
          /\ \A i \in 1..Len(a) : b[i] = a[i]
          /\ b[Len(a) + 1] = x
      BY <2>2, <3>1, <3>3, AppendProperties
    <3>5. ASSUME NEW i \in 1..Len(b) PROVE \E k \in 1..n : b[i] = e[k]
      <4>1. i \in 1..Len(a) \/ i = Len(a) + 1
        BY <2>3, <3>4
      <4>2. n \in 1..n
        BY <2>3
      <4> QED
        BY <2>1, <2>2, <2>3, <3>4, <4>1, <4>2
    <3>6. ASSUME NEW k \in 1..n, e[k] \in S PROVE \E i \in 1..Len(b) : b[i] = e[k]
      <4>1. 1..Len(a) \subseteq 1..Len(b) /\ Len(a) + 1 \in 1..Len(b)
        BY <2>3, <3>4
      <4>2. k \in 1..(n - 1) \/ k = n
        BY <2>3
      <4> QED
        BY <2>1, <2>2, <3>4, <3>6, <4>1, <4>2
    <3>7. ASSUME Rising(e), NEW i \in 1..Len(b), NEW j \in 1..Len(b), i < j
          PROVE  b[i] < b[j]
      <4>1. i \in 1..Len(a) /\ (j \in 1..Len(a) \/ j = Len(a) + 1)
        BY <2>3, <3>4, <3>7
      <4>2. CASE j \in 1..Len(a)
        BY <2>2, <3>4, <3>7, <4>1, <4>2
      <4>3. CASE j = Len(a) + 1
        <5>1. PICK k \in 1..(n - 1) : a[i] = e[k]
          BY <2>2, <4>1
        <5>2. k \in DOMAIN e /\ n \in DOMAIN e /\ k < n
          BY <1>1, <2>3, <5>1
        <5>3. e[k] < e[n]
          BY <3>7, <5>2 DEF Rising
        <5> QED
          BY <2>1, <3>4, <4>1, <4>3, <5>1, <5>3
      <4> QED
        BY <4>1, <4>2, <4>3
    <3> QED
      BY <3>2, <3>4, <3>5, <3>6, <3>7
  <2> QED
    BY <2>4, <2>5
<1>7. B = {}
  <2> SUFFICES ASSUME B # {} PROVE FALSE
    OBVIOUS
  <2>1. PICK m \in B : \A s \in B : m <= s
    <3>1. B \subseteq Nat
      BY <1>1
    <3> HIDE DEF B
    <3> QED
      BY <3>1, LeastMember
  <2>2. m \in 0..Len(e) /\ ~P(m)
    BY <2>1
  <2>3. m # 0
    BY <1>5, <2>2
  <2>4. m \in 1..Len(e) /\ m - 1 \in 0..Len(e) /\ ~(m <= m - 1)
    BY <1>1, <2>2, <2>3
  <2>5. P(m - 1)
    <3>1. m - 1 \notin B
      BY <2>1, <2>4
    <3> QED
      BY <2>4, <3>1
  <2> HIDE DEF P
  <2> QED
    BY <1>6, <2>2, <2>4, <2>5
<1>8. P(Len(e))
  <2>1. Len(e) \in 0..Len(e)
    BY <1>1
  <2> QED
    BY <1>7, <2>1
<1>9. PICK r : r = Kept(e, S)
  OBVIOUS
<1>10. /\ r \in Seq(T \cap S)
       /\ \A i \in 1..Len(r) : \E k \in 1..Len(e) : r[i] = e[k]
       /\ \A k \in 1..Len(e) : e[k] \in S => \E i \in 1..Len(r) : r[i] = e[k]
       /\ Rising(e) => \A i, j \in 1..Len(r) : i < j => r[i] < r[j]
  BY <1>2, <1>8, <1>9
<1>11. DOMAIN r = 1..Len(r)
  BY <1>10, LenProperties
<1> QED
  BY <1>1, <1>9, <1>10, <1>11 DEF Rising

-----------------------------------------------------------------------------
(* What frames name. *)

Messages == {TooSlow} \cup {Event(s) : s \in Own}
Hellos == [type : {"hello"}, seq : 0..Len(log), resync : BOOLEAN]

\* The queue and the wire hold the account's own stored events; a hello is only
\* ever the first frame on the wire, and nothing is on a socket that is not open.
FramesInv ==
  /\ queue \in Seq(Messages)
  /\ wire \in Seq(Messages \cup Hellos)
  /\ \A i \in DOMAIN wire : wire[i].type = "hello" => i = 1 /\ replaying > 0
  /\ conn # "open" => queue = <<>> /\ wire = <<>>
  /\ live \subseteq Own

\* The numbers of transactions that lasted.
Lasting == {s \in DOMAIN log : log[s] # "void"}

\* Nothing else is ever announced.
AnnouncedInv == loop \in Seq(Seq(Lasting)) /\ unheard \in [Publishers -> Seq(Lasting)]

Framed == TypeOK /\ FramesInv /\ AnnouncedInv

LEMMA LogFacts ==
  ASSUME TypeOK
  PROVE  /\ log \in Seq(Kinds) /\ Len(log) \in Nat /\ Len(log) <= MaxSeq
         /\ DOMAIN log = 1..Len(log) /\ trimmed \in 0..Len(log)
         /\ Own \subseteq 1..Len(log) /\ Stored \subseteq 1..Len(log)
         /\ 1..Len(log) \subseteq Seqs
<1>1. log \in Seq(Kinds) /\ Len(log) <= MaxSeq /\ trimmed \in 0..Len(log)
  BY DEF TypeOK
<1>2. Len(log) \in Nat /\ DOMAIN log = 1..Len(log)
  BY <1>1, LenProperties
<1> QED
  BY <1>1, <1>2, Sizes DEF Own, Stored, Seqs

LEMMA LatestFacts ==
  ASSUME TypeOK
  PROVE  /\ Latest \in 0..Len(log) /\ \A s \in Stored : s <= Latest
         /\ Latest = 0 \/ Latest \in Stored
<1>1. PICK S : S = {0} \cup Stored
  OBVIOUS
<1>2. S \subseteq Nat /\ S # {} /\ Len(log) \in Nat /\ \A x \in S : x <= Len(log)
  BY <1>1, LogFacts
<1>3. MaxOf(S) \in S /\ \A y \in S : y <= MaxOf(S)
  BY <1>2, LargestMember
<1>4. Latest = MaxOf(S) /\ Stored \subseteq S /\ S \subseteq {0} \cup Stored
  BY <1>1 DEF Latest
<1>5. PICK m : m = MaxOf(S)
  OBVIOUS
<1>6. m \in S /\ \A y \in S : y <= m
  BY <1>3, <1>5
<1>7. m \in 0..Len(log)
  BY <1>2, <1>6
<1>8. Latest = m
  BY <1>4, <1>5
<1> QED
  BY <1>4, <1>6, <1>7, <1>8

LEMMA OldestTyped ==
  ASSUME TypeOK
  PROVE  Oldest \in 0..Len(log)
<1>1. Stored \subseteq 1..Len(log) /\ Len(log) \in Nat
  BY LogFacts
<1>2. CASE Stored = {}
  <2>1. Oldest = 0
    BY <1>2, Zenon DEF Oldest
  <2> QED
    BY <1>1, <2>1
<1>3. CASE Stored # {}
  <2>1. PICK m \in Stored : \A s \in Stored : m <= s
    <3>1. PICK S : S = Stored
      OBVIOUS
    <3>2. S \subseteq Nat /\ S # {}
      BY <1>1, <1>3, <3>1
    <3>3. \E m \in S : \A s \in S : m <= s
      BY <3>2, LeastMember
    <3> QED
      BY <3>1, <3>3
  <2>2. Oldest \in Stored
    BY <1>3, <2>1, Zenon DEF Oldest
  <2> QED
    BY <1>1, <2>2
<1> QED
  BY <1>2, <1>3

LEMMA MatchTyped ==
  ASSUME TypeOK, NEW s \in 1..Len(log)
  PROVE  Match(s) \in 0..Len(log)
<1>1. PICK S : S = {t \in 1..s : log[t] = "start"}
  OBVIOUS
<1>2. S \subseteq 1..s /\ s \in Nat /\ s <= Len(log) /\ Len(log) \in Nat
  BY <1>1, LogFacts
<1>3. IsFiniteSet(1..s) /\ Cardinality(1..s) = s
  BY <1>2, FS_Interval
<1>4. IsFiniteSet(S) /\ Cardinality(S) <= s /\ Cardinality(S) \in Nat
  BY <1>2, <1>3, FS_Subset, FS_CardinalityType
<1> QED
  BY <1>1, <1>2, <1>4 DEF Match

LEMMA EventShape ==
  ASSUME NEW s
  PROVE  /\ Event(s).type = "event" /\ Event(s).seq = s /\ Event(s).resync = FALSE
         /\ TooSlow.type = "resync" /\ TooSlow.resync = TRUE /\ Event(s) # TooSlow
BY DEF Event, TooSlow

\* A fan-out's events become messages.
LEMMA Wrapped ==
  ASSUME NEW S, NEW e \in Seq(S), NEW M, \A s \in S : Event(s) \in M,
         NEW w, w = [i \in DOMAIN e |-> Event(e[i])]
  PROVE  /\ w \in Seq(M) /\ Len(w) = Len(e) /\ DOMAIN w = DOMAIN e
         /\ \A i \in DOMAIN e : w[i] = Event(e[i])
<1>1. Len(e) \in Nat /\ DOMAIN e = 1..Len(e) /\ \A i \in 1..Len(e) : e[i] \in S
  BY LenProperties, ElementOfSeq
<1>2. w \in [1..Len(e) -> M]
  BY <1>1
<1>3. w \in Seq(M)
  BY <1>1, <1>2
<1>4. DOMAIN w = 1..Len(e) /\ DOMAIN w = 1..Len(w) /\ Len(w) \in Nat
  BY <1>1, <1>2, <1>3, LenProperties
<1>5. Len(w) = Len(e)
  BY <1>1, <1>4
<1> QED
  BY <1>1, <1>3, <1>4, <1>5

LEMMA MineOfFacts ==
  ASSUME TypeOK, NEW e \in Seq(Lasting)
  PROVE  /\ MineOf(e) \in Seq(Own)
         /\ \A i \in DOMAIN MineOf(e) : \E k \in DOMAIN e : MineOf(e)[i] = e[k]
         /\ \A k \in DOMAIN e : e[k] \in Own => \E i \in DOMAIN MineOf(e) : MineOf(e)[i] = e[k]
         /\ Rising(e) => Rising(MineOf(e))
<1>1. PICK T, F : T = Lasting /\ F = {s \in DOMAIN log : log[s] # "theirs"}
  OBVIOUS
<1>2. T \subseteq Int /\ T \cap F = Own /\ e \in Seq(T)
  <2>1. DOMAIN log = 1..Len(log) /\ log \in Seq(Kinds) /\ Len(log) \in Nat
    BY LogFacts
  <2>2. \A s \in DOMAIN log : log[s] \in Kinds
    BY <2>1, ElementOfSeq
  <2>3. \A s \in DOMAIN log : log[s] \in Mine <=> log[s] # "void" /\ log[s] # "theirs"
    BY <2>2 DEF Kinds, Mine
  <2> QED
    BY <1>1, <2>1, <2>3 DEF Lasting, Own
<1>3. /\ Kept(e, F) \in Seq(T \cap F)
      /\ \A i \in DOMAIN Kept(e, F) : \E k \in DOMAIN e : Kept(e, F)[i] = e[k]
      /\ \A k \in DOMAIN e : e[k] \in F =>
           \E i \in DOMAIN Kept(e, F) : Kept(e, F)[i] = e[k]
      /\ Rising(e) => Rising(Kept(e, F))
  BY <1>2, KeptFacts
<1>4. MineOf(e) = Kept(e, F)
  BY <1>1 DEF MineOf
<1>5. Own \subseteq F
  BY <1>2
<1> QED
  BY <1>2, <1>3, <1>4, <1>5, Zenon

-----------------------------------------------------------------------------
(* The replay. *)

LEMMA RisingSpread ==
  ASSUME NEW e \in Seq(Int), Rising(e), NEW c \in Int, \A i \in DOMAIN e : c < e[i]
  PROVE  \A i \in DOMAIN e : c + i <= e[i]
<1> DEFINE B == {n \in DOMAIN e : ~(c + n <= e[n])}
<1>1. Len(e) \in Nat /\ DOMAIN e = 1..Len(e) /\ \A k \in 1..Len(e) : e[k] \in Int
  BY LenProperties, ElementOfSeq
<1>2. B = {}
  <2> SUFFICES ASSUME B # {} PROVE FALSE
    OBVIOUS
  <2>1. PICK m \in B : \A s \in B : m <= s
    <3>1. B \subseteq Nat
      BY <1>1
    <3> HIDE DEF B
    <3> QED
      BY <3>1, LeastMember
  <2>2. m \in 1..Len(e) /\ ~(c + m <= e[m]) /\ e[m] \in Int /\ c < e[m]
    BY <1>1, <2>1
  <2>3. m # 1
    BY <2>2
  <2>4. m - 1 \in 1..Len(e) /\ m - 1 < m /\ ~(m <= m - 1)
    BY <1>1, <2>2, <2>3
  <2>5. c + (m - 1) <= e[m - 1]
    <3>1. m - 1 \notin B
      BY <2>1, <2>4
    <3> QED
      BY <1>1, <2>4, <3>1
  <2>6. e[m - 1] < e[m] /\ e[m - 1] \in Int
    BY <1>1, <2>2, <2>4 DEF Rising
  <2> QED
    BY <2>2, <2>5, <2>6
<1> QED
  BY <1>2

Counts(e, T) == DOMAIN e = T /\ \A k \in T : e[k] = k

\* r names the elements of S in their order.
Lists(r, S) ==
  /\ r \in Seq(S) /\ Rising(r)
  /\ \A s \in S : \E i \in DOMAIN r : r[i] = s

\* The numbers of T, which e counts, that are in a set, in their order.
LEMMA NumbersOf ==
  ASSUME NEW T, T \subseteq Int, NEW S, S \subseteq T, NEW e \in Seq(T), Counts(e, T)
  PROVE  Lists(Kept(e, S), S)
<1>1. PICK r : r = Kept(e, S)
  OBVIOUS
<1>2. /\ r \in Seq(T \cap S)
      /\ \A i \in DOMAIN r : \E k \in DOMAIN e : r[i] = e[k]
      /\ \A k \in DOMAIN e : e[k] \in S => \E i \in DOMAIN r : r[i] = e[k]
      /\ Rising(e) => Rising(r)
  <2>1. /\ Kept(e, S) \in Seq(T \cap S)
        /\ \A i \in DOMAIN Kept(e, S) : \E k \in DOMAIN e : Kept(e, S)[i] = e[k]
        /\ \A k \in DOMAIN e : e[k] \in S => \E i \in DOMAIN Kept(e, S) : Kept(e, S)[i] = e[k]
        /\ Rising(e) => Rising(Kept(e, S))
    BY KeptFacts
  <2> QED
    BY <1>1, <2>1, Zenon
<1>3. Rising(e)
  BY DEF Rising, Counts
<1>4. T \cap S = S
  OBVIOUS
<1>5. Lists(r, S)
  BY <1>2, <1>3, <1>4 DEF Counts, Lists
<1> QED
  BY <1>1, <1>5, Zenon

\* What the replay's query would find without its limit.
LEMMA MissedFacts ==
  ASSUME TypeOK
  PROVE  \E m : /\ m = Missed
                /\ Lists(m, {s \in Stored \cap Own : s > cursor})
<1>1. PICK S : S = {s \in Stored \cap Own : s > cursor}
  OBVIOUS
<1>2. PICK T : T = 1..Len(log)
  OBVIOUS
<1>3. Len(log) \in Nat /\ DOMAIN log = T /\ T \subseteq Int /\ S \subseteq T
  <2>1. \A s \in Stored : s \in 1..Len(log)
    BY LogFacts
  <2>2. Len(log) \in Nat /\ DOMAIN log = T /\ T \subseteq Int
    BY <1>2, LogFacts
  <2> QED
    BY <1>1, <1>2, <2>1, <2>2
<1>4. PICK e : e = [i \in DOMAIN log |-> i]
  OBVIOUS
<1>5. e \in Seq(T) /\ DOMAIN e = T /\ \A k \in T : e[k] = k
  <2>1. e \in [1..Len(log) -> T]
    BY <1>2, <1>3, <1>4
  <2> QED
    BY <1>2, <1>3, <1>4, <2>1
<1>6. PICK r : r = Kept(e, S)
  OBVIOUS
<1>7. Lists(r, S)
  <2>1. T \subseteq Int /\ S \subseteq T /\ e \in Seq(T) /\ Counts(e, T)
    BY <1>3, <1>5 DEF Counts
  <2>2. Lists(Kept(e, S), S)
    BY <2>1, NumbersOf
  <2> QED
    BY <1>6, <2>2, Zenon
<1>8. Missed = r
  BY <1>1, <1>4, <1>6, Zenon DEF Missed
<1> QED
  BY <1>1, <1>7, <1>8

\* The replay is the front of it, and reaches MaxReplay numbers far.
LEMMA ReplayFacts ==
  ASSUME TypeOK
  PROVE  /\ Replay \in Seq(Own) /\ Rising(Replay)
         /\ cursor = None \/ Behind => Replay = <<>>
         /\ cursor # None /\ ~Behind =>
              /\ \A i \in DOMAIN Replay : cursor < Replay[i]
              /\ \A i \in DOMAIN Replay : \A s \in Stored \cap Own :
                   s > cursor /\ s <= Replay[i] => \E j \in 1..i : Replay[j] = s
              /\ \A s \in Stored \cap Own :
                   s > cursor /\ s <= cursor + MaxReplay => \E j \in DOMAIN Replay : Replay[j] = s
<1>1. CASE cursor = None \/ Behind
  <2>1. Replay = <<>>
    BY <1>1, Zenon DEF Replay
  <2>2. Rising(<<>>)
    BY DEF Rising
  <2> QED
    BY <1>1, <2>1, <2>2, EmptySeq
<1>2. CASE cursor # None /\ ~Behind
  <2>1. PICK S : S = {s \in Stored \cap Own : s > cursor}
    OBVIOUS
  <2>2. PICK m : /\ m = Missed
                 /\ Lists(m, {s \in Stored \cap Own : s > cursor})
    BY MissedFacts
  <2>3. /\ m \in Seq(S) /\ Rising(m)
        /\ \A s \in S : \E i \in DOMAIN m : m[i] = s
    BY <2>1, <2>2 DEF Lists
  <2>4. /\ Len(log) \in Nat /\ Stored \subseteq 1..Len(log) /\ cursor \in Nat
        /\ MaxReplay \in Nat /\ MaxReplay > 0
    BY <1>2, LogFacts, Sizes DEF TypeOK
  <2>5. /\ Len(m) \in Nat /\ DOMAIN m = 1..Len(m)
        /\ \A i \in 1..Len(m) : m[i] \in S /\ m[i] \in Int /\ m[i] > cursor
    <3>1. Len(m) \in Nat /\ DOMAIN m = 1..Len(m) /\ \A i \in 1..Len(m) : m[i] \in S
      BY <2>3, LenProperties, ElementOfSeq
    <3>2. \A s \in S : s \in Int /\ s > cursor
      BY <2>1, <2>4
    <3> QED
      BY <3>1, <3>2
  <2>6. PICK n : n = IF Len(m) < MaxReplay THEN Len(m) ELSE MaxReplay
    OBVIOUS
  <2>7. /\ n \in Nat /\ n <= Len(m) /\ n <= MaxReplay /\ (n = Len(m) \/ n = MaxReplay)
        /\ 1..n \subseteq 1..Len(m)
    <3>1. Len(m) \in Nat /\ MaxReplay \in Nat
      BY <2>4, <2>5
    <3> QED
      BY <2>6, <3>1
  <2>8. PICK r : r = SubSeq(m, 1, n)
    OBVIOUS
  <2>9. r \in Seq(S) /\ Len(r) = n /\ \A i \in 1..n : r[i] = m[i]
    <3>1. \A i \in 1..n : m[i] \in S
      BY <2>5, <2>7
    <3>2. /\ r \in Seq(S)
          /\ Len(r) = IF 1 <= n THEN n - 1 + 1 ELSE 0
          /\ \A i \in 1 .. n - 1 + 1 : r[i] = m[1 + i - 1]
      BY <2>7, <2>8, <3>1, SubSeqProperties
    <3>3. Len(r) = n
      BY <2>7, <3>2
    <3>4. \A i \in 1..n : i \in 1 .. n - 1 + 1 /\ 1 + i - 1 = i
      BY <2>7
    <3> QED
      BY <3>2, <3>3, <3>4
  <2>10. Replay = r
    <3>1. Replay = SubSeq(Missed, 1, IF Len(Missed) < MaxReplay THEN Len(Missed) ELSE MaxReplay)
      BY <1>2, Zenon DEF Replay
    <3> QED
      BY <2>2, <2>6, <2>8, <3>1
  <2>11. DOMAIN r = 1..n
    BY <2>9, LenProperties
  <2>12. S \subseteq Own /\ r \in Seq(Own)
    <3>1. S \subseteq Own
      BY <2>1
    <3> QED
      BY <2>9, <3>1, LargerSeq
  <2>13. ASSUME NEW i \in 1..n, NEW s \in Stored \cap Own, s > cursor, s <= r[i]
         PROVE  \E j \in 1..i : r[j] = s
    <3>1. s \in S
      BY <2>1, <2>13
    <3>2. PICK j \in 1..Len(m) : m[j] = s
      BY <2>3, <2>5, <3>1
    <3>3. i \in 1..Len(m) /\ r[i] = m[i] /\ m[i] \in Int /\ m[j] \in Int /\ m[j] <= m[i]
      <4>1. i \in 1..Len(m) /\ r[i] = m[i]
        BY <2>7, <2>9
      <4> QED
        BY <2>5, <2>13, <3>2, <4>1
    <3>4. ~(i < j)
      <4>1. i < j => m[i] < m[j]
        BY <2>3, <2>5, <3>2, <3>3 DEF Rising
      <4> QED
        BY <3>3, <4>1
    <3>5. j \in 1..i /\ j \in 1..n
      <4>1. i \in Nat /\ i <= n /\ j \in Nat /\ 1 <= j
        <5>1. i \in Nat /\ i <= n
          BY <2>7
        <5>2. j \in Nat /\ 1 <= j
          BY <2>5, <3>2
        <5> QED
          BY <5>1, <5>2
      <4> QED
        BY <2>7, <3>4, <4>1
    <3> QED
      BY <2>9, <3>2, <3>5
  <2>14. ASSUME NEW s \in Stored \cap Own, s > cursor, s <= cursor + MaxReplay
         PROVE  \E j \in 1..n : r[j] = s
    <3>1. s \in S
      BY <2>1, <2>14
    <3>2. PICK j \in 1..Len(m) : m[j] = s
      BY <2>3, <2>5, <3>1
    <3>3. cursor + j <= m[j]
      <4>1. m \in Seq(Int) /\ cursor \in Int /\ \A i \in DOMAIN m : cursor < m[i]
        <5>1. S \subseteq Int
          <6>1. \A t \in Stored : t \in 1..Len(log)
            BY <2>4
          <6>2. \A t \in 1..Len(log) : t \in Int
            BY <2>4
          <6> QED
            BY <2>1, <6>1, <6>2
        <5>2. m \in Seq(Int)
          BY <2>3, <5>1, LargerSeq
        <5> QED
          BY <2>4, <2>5, <5>2
      <4>2. \A i \in DOMAIN m : cursor + i <= m[i]
        <5>1. PICK c : c = cursor
          OBVIOUS
        <5>2. \A i \in DOMAIN m : c + i <= m[i]
          BY <2>3, <4>1, <5>1, RisingSpread
        <5> QED
          BY <5>1, <5>2
      <4> QED
        BY <2>5, <3>2, <4>2
    <3>4. j <= MaxReplay
      BY <2>4, <2>5, <2>14, <3>2, <3>3
    <3>5. j \in 1..n
      <4>1. j \in Nat /\ 1 <= j /\ j <= Len(m) /\ Len(m) \in Nat
        BY <2>5, <3>2
      <4> QED
        BY <2>4, <2>7, <3>4, <4>1
    <3> QED
      BY <2>9, <3>2, <3>5
  <2>15. Rising(r)
    BY <2>3, <2>5, <2>7, <2>9, <2>11 DEF Rising
  <2>16. \A i \in 1..n : cursor < r[i]
    BY <2>5, <2>7, <2>9
  <2> QED
    BY <1>2, <2>10, <2>11, <2>12, <2>13, <2>14, <2>15, <2>16
<1> QED
  BY <1>1, <1>2

-----------------------------------------------------------------------------
(* No step puts a frame where it does not belong, or a foreign event on one. *)

LEMMA QueueShape ==
  ASSUME NEW O, O \subseteq Seqs, NEW M, M = {TooSlow} \cup {Event(s) : s \in O},
         NEW q \in Seq(M)
  PROVE  \A i \in DOMAIN q : q[i] \in {TooSlow} \cup {Event(s) : s \in Seqs}
<1>1. DOMAIN q = 1..Len(q) /\ \A i \in 1..Len(q) : q[i] \in M
  BY LenProperties, ElementOfSeq
<1>2. M \subseteq {TooSlow} \cup {Event(s) : s \in Seqs}
  OBVIOUS
<1> QED
  BY <1>1, <1>2

LEMMA WireShape ==
  ASSUME NEW O, NEW n, NEW M, NEW H, M = {TooSlow} \cup {Event(s) : s \in O},
         H = [type : {"hello"}, seq : n, resync : BOOLEAN], NEW w \in Seq(M \cup H)
  PROVE  \A i \in DOMAIN w : w[i].type \in {"hello", "event", "resync"}
<1>1. DOMAIN w = 1..Len(w) /\ \A i \in 1..Len(w) : w[i] \in M \cup H
  BY LenProperties, ElementOfSeq
<1>2. \A f \in M : f.type \in {"event", "resync"}
  BY DEF Event, TooSlow
<1>3. \A f \in H : f.type = "hello"
  OBVIOUS
<1> QED
  BY <1>1, <1>2, <1>3

\* The log is n events longer.
Longer(n) ==
  /\ log' \in Seq(Kinds) /\ Len(log') = Len(log) + n /\ Len(log') <= MaxSeq
  /\ \A s \in 1..Len(log) : log'[s] = log[s]

LEMMA LongerFacts ==
  ASSUME TypeOK, NEW n \in Nat, Longer(n)
  PROVE  /\ Len(log') \in Nat /\ DOMAIN log' = 1..Len(log')
         /\ 0..Len(log) \subseteq 0..Len(log') /\ 1..Len(log) \subseteq 1..Len(log')
         /\ Seq(1..Len(log)) \subseteq Seq(1..Len(log'))
         /\ Seq(Seq(1..Len(log))) \subseteq Seq(Seq(1..Len(log')))
         /\ Own \subseteq Own' /\ \A s \in Own' : s <= Len(log) => s \in Own
         /\ Seq(Messages) \subseteq Seq(Messages')
         /\ Seq(Messages \cup Hellos) \subseteq Seq((Messages \cup Hellos)')
<1>1. Len(log) \in Nat /\ DOMAIN log = 1..Len(log)
  BY LogFacts
<1>2. Len(log') \in Nat /\ DOMAIN log' = 1..Len(log') /\ Len(log') = Len(log) + n
  BY <1>1, LenProperties DEF Longer
<1>3. PICK a, b : a = 1..Len(log) /\ b = 1..Len(log')
  OBVIOUS
<1>4. a \subseteq b /\ 0..Len(log) \subseteq 0..Len(log')
  BY <1>1, <1>2, <1>3
<1>5. \A s \in Seq(a) : s \in Seq(b)
  BY <1>4, LargerSeq
<1>6. \A s \in Seq(Seq(a)) : s \in Seq(Seq(b))
  <2>1. PICK c, d : c = Seq(a) /\ d = Seq(b)
    OBVIOUS
  <2>2. c \subseteq d
    BY <1>5, <2>1
  <2>3. \A s \in Seq(c) : s \in Seq(d)
    BY <2>2, LargerSeq
  <2> QED
    BY <2>1, <2>3
<1>7. ASSUME NEW s \in Own PROVE s \in Own'
  <2>1. s \in 1..Len(log) /\ log[s] \in Mine
    BY <1>1, <1>7 DEF Own
  <2>2. s \in DOMAIN log' /\ log'[s] = log[s]
    BY <1>2, <1>3, <1>4, <2>1 DEF Longer
  <2> QED
    BY <2>1, <2>2 DEF Own
<1>8. ASSUME NEW s \in Own', s <= Len(log) PROVE s \in Own
  <2>1. s \in 1..Len(log') /\ log'[s] \in Mine
    BY <1>2, <1>8 DEF Own
  <2>2. s \in 1..Len(log)
    BY <1>1, <1>2, <1>8, <2>1
  <2>3. log'[s] = log[s]
    BY <2>2 DEF Longer
  <2> QED
    BY <1>1, <2>1, <2>2, <2>3 DEF Own
<1>9. Messages \subseteq Messages' /\ Hellos \subseteq Hellos'
  <2>1. Messages \subseteq Messages'
    <3>1. PICK o, p : o = Own /\ p = Own'
      OBVIOUS
    <3>2. o \subseteq p
      BY <1>7, <3>1
    <3>3. {Event(s) : s \in o} \subseteq {Event(s) : s \in p}
      BY <3>2
    <3> QED
      BY <3>1, <3>3 DEF Messages, Event, TooSlow
  <2>2. Hellos \subseteq Hellos'
    BY <1>4 DEF Hellos
  <2> QED
    BY <2>1, <2>2
<1>10. PICK m, mm, h, hh : m = Messages /\ mm = Messages' /\ h = Hellos /\ hh = Hellos'
  OBVIOUS
<1>11. m \subseteq mm /\ m \cup h \subseteq mm \cup hh
  BY <1>9, <1>10
<1>12. \A s \in Seq(m) : s \in Seq(mm)
  BY <1>11, LargerSeq
<1>13. \A s \in Seq(m \cup h) : s \in Seq(mm \cup hh)
  <2>1. PICK c, d : c = m \cup h /\ d = mm \cup hh
    OBVIOUS
  <2>2. \A s \in Seq(c) : s \in Seq(d)
    BY <1>11, <2>1, LargerSeq
  <2> QED
    BY <2>1, <2>2
<1>14. Seq(Messages) \subseteq Seq(Messages')
  BY <1>10, <1>12
<1>15. Seq(Messages \cup Hellos) \subseteq Seq((Messages \cup Hellos)')
  BY <1>10, <1>13
<1>16. Seq(1..Len(log)) \subseteq Seq(1..Len(log'))
  BY <1>3, <1>5
<1>17. Seq(Seq(1..Len(log))) \subseteq Seq(Seq(1..Len(log')))
  BY <1>3, <1>6
<1> QED
  BY <1>2, <1>3, <1>4, <1>7, <1>8, <1>14, <1>15, <1>16, <1>17

\* The history only ever names numbers of the log.
LEMMA HistoryGrows ==
  ASSUME TypeOK, Len(log') \in Nat, Len(log) <= Len(log'),
         NEW S, S \subseteq 1..Len(log),
         wanted' \subseteq wanted \cup S, untold' \subseteq untold \cup S,
         overtaken' \subseteq overtaken \cup S, cutOff' \subseteq cutOff \cup S,
         passedBy' \subseteq passedBy \cup S, failed' \subseteq failed \cup wanted
  PROVE  HistoryOK'
<1>1. Len(log) \in Nat /\ HistoryOK
  BY LogFacts DEF TypeOK
<1>2. 1..Len(log) \subseteq 1..Len(log')
  BY <1>1
<1>3. PICK a, b : a = 1..Len(log) /\ b = 1..Len(log')
  OBVIOUS
<1>4. /\ wanted \subseteq a /\ untold \subseteq a /\ overtaken \subseteq a
      /\ cutOff \subseteq a /\ passedBy \subseteq a /\ failed \subseteq a
  BY <1>1, <1>3 DEF HistoryOK
<1>5. /\ wanted' \subseteq b /\ untold' \subseteq b /\ overtaken' \subseteq b
      /\ cutOff' \subseteq b /\ passedBy' \subseteq b /\ failed' \subseteq b
  BY <1>2, <1>3, <1>4
<1> QED
  BY <1>3, <1>5 DEF HistoryOK

LEMMA HistorySame ==
  ASSUME TypeOK, Len(log') \in Nat, Len(log) <= Len(log'),
         wanted' = wanted, UNCHANGED <<untold, overtaken, losses>>
  PROVE  HistoryOK'
BY HistoryGrows DEF losses

\* What a longer log leaves alone stays well formed.
LEMMA LongerFramed ==
  ASSUME Framed, NEW n \in Nat, Longer(n),
         UNCHANGED <<trimmed, loop, socket, request, page, untold, overtaken, losses, faults>>,
         phase' \in [Publishers -> {"idle", "publish", "trim"}], sinceTrim' \in Nat,
         unheard' \in [Publishers -> Seq(1..Len(log'))]
  PROVE  TypeOK' /\ FramesInv'
<1>1. TypeOK /\ FramesInv
  BY DEF Framed
<1>2. /\ Len(log') \in Nat
      /\ 0..Len(log) \subseteq 0..Len(log') /\ 1..Len(log) \subseteq 1..Len(log')
      /\ Seq(Seq(1..Len(log))) \subseteq Seq(Seq(1..Len(log')))
      /\ Own \subseteq Own'
      /\ Seq(Messages) \subseteq Seq(Messages')
      /\ Seq(Messages \cup Hellos) \subseteq Seq((Messages \cup Hellos)')
  BY <1>1, LongerFacts
<1>3. /\ trimmed' = trimmed /\ loop' = loop /\ conn' = conn /\ current' = current
      /\ oldest' = oldest /\ queue' = queue /\ wire' = wire /\ replaying' = replaying
      /\ cursor' = cursor /\ live' = live /\ snap' = snap /\ answer' = answer
      /\ fetch' = fetch /\ liveKey' = liveKey /\ base' = base /\ faults' = faults
  BY DEF socket, handshake, request, page
<1>4. /\ trimmed \in 0..Len(log) /\ current \in 0..Len(log) /\ oldest \in 0..Len(log)
      /\ cursor \in {None} \cup (0..Len(log)) /\ live \subseteq 1..Len(log)
      /\ snap \in 0..Len(log) /\ answer \in 0..Len(log) /\ liveKey \in 0..Len(log)
      /\ base \in {None} \cup (0..Len(log)) /\ loop \in Seq(Seq(1..Len(log)))
  BY <1>1 DEF TypeOK
<1>5. /\ trimmed' \in 0..Len(log') /\ current' \in 0..Len(log') /\ oldest' \in 0..Len(log')
      /\ cursor' \in {None} \cup (0..Len(log')) /\ live' \subseteq 1..Len(log')
      /\ snap' \in 0..Len(log') /\ answer' \in 0..Len(log') /\ liveKey' \in 0..Len(log')
      /\ base' \in {None} \cup (0..Len(log'))
  BY <1>2, <1>3, <1>4
<1>6. loop' \in Seq(Seq(1..Len(log')))
  BY <1>2, <1>3, <1>4
<1>7. /\ conn' \in {"closed", "latest", "oldest", "open"}
      /\ \A i \in DOMAIN queue' : queue'[i] \in {TooSlow} \cup {Event(s) : s \in Seqs}
      /\ Len(queue') <= Capacity
      /\ \A i \in DOMAIN wire' : wire'[i].type \in {"hello", "event", "resync"}
      /\ replaying' \in 0..Len(wire')
      /\ fetch' \in {"none", "asked", "answered"}
      /\ faults' \in 0..MaxFaults
  BY <1>1, <1>3, Zenon DEF TypeOK
<1>8. log' \in Seq(Kinds) /\ Len(log') <= MaxSeq
  BY DEF Longer
<1>11. HistoryOK'
  <2>1. Len(log) <= Len(log') /\ wanted' = wanted /\ UNCHANGED <<untold, overtaken, losses>>
    BY <1>1, <1>2, LogFacts DEF Longer, request
  <2> QED
    BY <1>1, <1>2, <2>1, HistorySame
<1>9. TypeOK'
  BY <1>5, <1>6, <1>7, <1>8, <1>11, Zenon DEF TypeOK, Event, TooSlow, Seqs
<1>10. FramesInv'
  <2>1. queue' \in Seq(Messages') /\ wire' \in Seq((Messages \cup Hellos)')
    BY <1>1, <1>2, <1>3 DEF FramesInv
  <2>2. live' \subseteq Own'
    BY <1>1, <1>2, <1>3 DEF FramesInv
  <2>3. \A i \in DOMAIN wire' : wire'[i].type = "hello" => i = 1 /\ replaying' > 0
    BY <1>1, <1>3, Zenon DEF FramesInv
  <2>4. conn' # "open" => queue' = <<>> /\ wire' = <<>>
    BY <1>1, <1>3, Zenon DEF FramesInv
  <2> QED
    BY <2>1, <2>2, <2>3, <2>4, Zenon DEF FramesInv
<1> QED
  BY <1>9, <1>10 DEF Framed

\* What is announced was stored.
Storable == Kinds \ {"void"}

LEMMA BatchFacts ==
  ASSUME NEW b \in Batches
  PROVE  b \in Seq(Kinds) /\ b \in Seq(Storable) /\ Len(b) \in Nat
<1>1. PICK n \in 1..MaxBatch : b \in [1..n -> Published \ {"void"}]
  BY DEF Batches
<1>2. n \in Nat
  BY Sizes
<1>3. Published \ {"void"} \subseteq Kinds /\ Published \ {"void"} \subseteq Storable
  BY PublishedAssumption DEF Kinds, Storable
<1>4. b \in [1..n -> Kinds] /\ b \in [1..n -> Storable]
  BY <1>1, <1>3
<1>5. b \in Seq(Kinds) /\ b \in Seq(Storable)
  BY <1>2, <1>4
<1> QED
  BY <1>5, LenProperties

\* A commit's numbers are announced in their order.
LEMMA CommitFacts ==
  ASSUME TypeOK, NEW p \in Publishers, NEW b \in Seq(Kinds), Commit(p, b)
  PROVE  /\ Len(b) \in Nat /\ Longer(Len(b))
         /\ unheard' \in [Publishers -> Seq(1..Len(log'))]
         /\ Len(unheard'[p]) = Len(b)
         /\ \A k \in 1..Len(b) : unheard'[p][k] = Len(log) + k
         /\ \A q \in Publishers : q # p => unheard'[q] = unheard[q]
<1>1. Len(log) \in Nat /\ Len(b) \in Nat /\ DOMAIN b = 1..Len(b) /\ log \in Seq(Kinds)
  BY LogFacts, LenProperties
<1>2. Longer(Len(b))
  <2>1. log' = log \o b /\ Len(log) + Len(b) <= MaxSeq
    BY DEF Commit, Room
  <2>2. /\ log' \in Seq(Kinds) /\ Len(log') = Len(log) + Len(b)
        /\ \A i \in 1 .. Len(log) + Len(b) : log'[i] =
             IF i <= Len(log) THEN log[i] ELSE b[i - Len(log)]
    BY <1>1, <2>1, ConcatProperties
  <2>3. \A s \in 1..Len(log) : s \in 1 .. Len(log) + Len(b) /\ s <= Len(log)
    BY <1>1
  <2> QED
    BY <2>1, <2>2, <2>3 DEF Longer
<1>3. PICK u : u = [i \in DOMAIN b |-> Len(log) + i]
  OBVIOUS
<1>4. Len(log') \in Nat /\ Len(log') = Len(log) + Len(b)
  BY <1>1, <1>2 DEF Longer
<1>5. u \in [1..Len(b) -> 1..Len(log')]
  <2>1. \A i \in 1..Len(b) : Len(log) + i \in 1..Len(log')
    BY <1>1, <1>4
  <2> QED
    BY <1>1, <1>3, <2>1
<1>6. u \in Seq(1..Len(log')) /\ Len(u) = Len(b) /\ \A k \in 1..Len(b) : u[k] = Len(log) + k
  BY <1>1, <1>3, <1>5
<1>7. unheard \in [Publishers -> Seq(1..Len(log'))]
  <2>1. Seq(1..Len(log)) \subseteq Seq(1..Len(log'))
    BY <1>1, <1>2, LongerFacts
  <2>2. unheard \in [Publishers -> Seq(1..Len(log))]
    BY DEF TypeOK
  <2> QED
    BY <2>1, <2>2
<1>8. unheard' = [unheard EXCEPT ![p] = u]
  BY <1>3 DEF Commit
<1>9. unheard' \in [Publishers -> Seq(1..Len(log'))]
  BY <1>6, <1>7, <1>8
<1>10. unheard'[p] = u /\ \A q \in Publishers : q # p => unheard'[q] = unheard[q]
  BY <1>7, <1>8
<1> QED
  BY <1>1, <1>2, <1>6, <1>9, <1>10

LEMMA CommitFramed ==
  ASSUME Framed, NEW p \in Publishers, NEW b \in Seq(Kinds), Commit(p, b)
  PROVE  TypeOK' /\ FramesInv'
<1>1. TypeOK
  BY DEF Framed
<1>2. Len(b) \in Nat /\ Longer(Len(b)) /\ unheard' \in [Publishers -> Seq(1..Len(log'))]
  BY <1>1, CommitFacts
<1>3. /\ UNCHANGED <<trimmed, sinceTrim, loop, socket, request, page, untold, overtaken, losses, faults>>
      /\ phase' = [phase EXCEPT ![p] = "publish"]
  BY DEF Commit
<1>4. sinceTrim' \in Nat /\ phase' \in [Publishers -> {"idle", "publish", "trim"}]
  BY <1>1, <1>3 DEF TypeOK
<1>5. UNCHANGED <<trimmed, loop, socket, request, page, untold, overtaken, losses, faults>>
  BY <1>3
<1> QED
  BY <1>2, <1>4, <1>5, LongerFramed

LEMMA RollbackFacts ==
  ASSUME TypeOK, Rollback
  PROVE  Longer(1) /\ log'[Len(log) + 1] = "void"
<1>1. log \in Seq(Kinds) /\ "void" \in Kinds /\ Len(log) \in Nat
  BY LogFacts DEF Kinds
<1>2. log' = Append(log, "void") /\ Len(log) + 1 <= MaxSeq
  BY DEF Rollback, Room
<1>3. /\ log' \in Seq(Kinds) /\ Len(log') = Len(log) + 1
      /\ \A i \in 1..Len(log) : log'[i] = log[i]
      /\ log'[Len(log) + 1] = "void"
  BY <1>1, <1>2, AppendProperties
<1> QED
  BY <1>2, <1>3 DEF Longer

LEMMA RollbackFramed ==
  ASSUME Framed, Rollback
  PROVE  TypeOK' /\ FramesInv'
<1>1. TypeOK
  BY DEF Framed
<1>2. Longer(1)
  BY <1>1, RollbackFacts
<1>3. UNCHANGED <<trimmed, phase, unheard, sinceTrim, loop, socket, request, page, untold,
                  overtaken, losses, faults>>
  BY DEF Rollback, threads
<1>4. /\ sinceTrim' \in Nat /\ phase' \in [Publishers -> {"idle", "publish", "trim"}]
      /\ unheard' \in [Publishers -> Seq(1..Len(log'))]
  <2>1. Seq(1..Len(log)) \subseteq Seq(1..Len(log'))
    BY <1>1, <1>2, LongerFacts
  <2>2. unheard' \in [Publishers -> Seq(1..Len(log))]
    BY <1>1, <1>3 DEF TypeOK
  <2> QED
    BY <1>1, <1>3, <2>1, <2>2 DEF TypeOK
<1>5. UNCHANGED <<trimmed, loop, socket, request, page, untold, overtaken, losses, faults>>
  BY <1>3
<1> QED
  BY <1>2, <1>4, <1>5, LongerFramed

\* The frames of a step that leaves the log and the socket alone.
LEMMA SameFrames ==
  ASSUME FramesInv, log' = log, UNCHANGED socket, live' \subseteq Own
  PROVE  FramesInv'
<1>1. conn' = conn /\ queue' = queue /\ wire' = wire /\ replaying' = replaying
  BY DEF socket
<1>2. Own' = Own /\ Messages' = Messages /\ Hellos' = Hellos
  BY DEF Own, Messages, Hellos
<1> QED
  BY <1>1, <1>2 DEF FramesInv

LEMMA PublishFacts ==
  ASSUME TypeOK, NEW p \in Publishers, Publish(p)
  PROVE  /\ unheard' = [unheard EXCEPT ![p] = <<>>]
         /\ unheard' \in [Publishers -> Seq(1..Len(log))]
         /\ sinceTrim' \in Nat
         /\ phase' \in [Publishers -> {"idle", "publish", "trim"}]
         /\ phase'[p] # "publish" /\ \A q \in Publishers : q # p => phase'[q] = phase[q]
         /\ \/ loop' = Append(loop, unheard[p]) /\ untold' = untold
            \/ /\ loop' = loop /\ conn = "closed"
               /\ untold' = untold \cup {unheard[p][i] : i \in DOMAIN unheard[p]}
         /\ loop' \in Seq(Seq(1..Len(log)))
<1>1. PICK n, full : /\ n = IF p = "ingest" THEN sinceTrim + Len(unheard[p]) ELSE sinceTrim
                     /\ full \in BOOLEAN
                     /\ sinceTrim' = IF full THEN 0 ELSE n
                     /\ phase' = [phase EXCEPT ![p] = IF full THEN "trim" ELSE "idle"]
  <2>1. PICK n : n = IF p = "ingest" THEN sinceTrim + Len(unheard[p]) ELSE sinceTrim
    OBVIOUS
  <2>2. (p = "ingest" /\ n >= TrimEvery) \in BOOLEAN
    OBVIOUS
  <2>3. /\ sinceTrim' = IF p = "ingest" /\ n >= TrimEvery THEN 0 ELSE n
        /\ phase' = [phase EXCEPT ![p] =
             IF p = "ingest" /\ n >= TrimEvery THEN "trim" ELSE "idle"]
    BY <2>1 DEF Publish
  <2> QED
    BY <2>1, <2>2, <2>3, Zenon
<1>2. unheard \in [Publishers -> Seq(1..Len(log))] /\ sinceTrim \in Nat
  BY DEF TypeOK
<1>3. unheard[p] \in Seq(1..Len(log)) /\ Len(unheard[p]) \in Nat
  BY <1>2, LenProperties
<1>4. sinceTrim' \in Nat
  BY <1>1, <1>2, <1>3
<1>5. phase \in [Publishers -> {"idle", "publish", "trim"}]
  BY DEF TypeOK
<1>6. /\ phase' \in [Publishers -> {"idle", "publish", "trim"}]
      /\ phase'[p] # "publish" /\ \A q \in Publishers : q # p => phase'[q] = phase[q]
  BY <1>1, <1>5
<1>7. unheard' = [unheard EXCEPT ![p] = <<>>]
  BY DEF Publish
<1>8. unheard' \in [Publishers -> Seq(1..Len(log))]
  <2>1. <<>> \in Seq(1..Len(log))
    BY EmptySeq
  <2> QED
    BY <1>2, <1>7, <2>1
<1>9. \/ loop' = Append(loop, unheard[p]) /\ untold' = untold
      \/ /\ loop' = loop /\ conn = "closed"
         /\ untold' = untold \cup {unheard[p][i] : i \in DOMAIN unheard[p]}
  BY DEF Publish, Schedule
<1>10. loop' \in Seq(Seq(1..Len(log)))
  <2>1. loop \in Seq(Seq(1..Len(log)))
    BY DEF TypeOK
  <2>2. PICK S : S = Seq(1..Len(log))
    OBVIOUS
  <2>3. Append(loop, unheard[p]) \in Seq(S)
    BY <1>3, <2>1, <2>2, AppendProperties
  <2> QED
    BY <1>9, <2>1, <2>2, <2>3
<1> QED
  BY <1>4, <1>6, <1>7, <1>8, <1>9, <1>10

LEMMA PublishFramed ==
  ASSUME Framed, NEW p \in Publishers, Publish(p)
  PROVE  TypeOK' /\ FramesInv'
<1>1. TypeOK /\ FramesInv
  BY DEF Framed
<1>2. /\ unheard' \in [Publishers -> Seq(1..Len(log))] /\ sinceTrim' \in Nat
      /\ phase' \in [Publishers -> {"idle", "publish", "trim"}]
      /\ loop' \in Seq(Seq(1..Len(log)))
  BY <1>1, PublishFacts
<1>3. /\ log' = log /\ trimmed' = trimmed /\ faults' = faults
      /\ UNCHANGED socket /\ UNCHANGED request /\ UNCHANGED page
  BY DEF Publish, database
<1>7. HistoryOK'
  <2>1. Len(log) \in Nat /\ DOMAIN log = 1..Len(log) /\ unheard[p] \in Seq(1..Len(log))
    BY <1>1, LogFacts DEF TypeOK
  <2>2. {unheard[p][i] : i \in DOMAIN unheard[p]} \subseteq 1..Len(log)
    BY <2>1, LenProperties, ElementOfSeq
  <2>3. untold' \subseteq untold \cup 1..Len(log)
    BY <1>1, <2>2, PublishFacts
  <2>4. LeftBehind(p) \subseteq 1..Len(log) /\ overtaken' = overtaken \cup LeftBehind(p)
    BY <2>1 DEF LeftBehind, Publish
  <2>5. wanted' = wanted /\ cutOff' = cutOff /\ passedBy' = passedBy /\ failed' = failed
    BY <1>3 DEF request, Publish, losses
  <2>6. Len(log') \in Nat /\ Len(log) <= Len(log')
    BY <1>3, <2>1
  <2> QED
    BY <1>1, <2>3, <2>4, <2>5, <2>6, HistoryGrows
<1>4. TypeOK'
  BY <1>1, <1>2, <1>3, <1>7, Zenon
     DEF TypeOK, socket, handshake, request, page, Event, TooSlow, Seqs
<1>5. live' \subseteq Own
  BY <1>1, <1>3 DEF page, FramesInv
<1>6. FramesInv'
  BY <1>1, <1>3, <1>5, SameFrames
<1> QED
  BY <1>4, <1>6 DEF Framed

LEMMA TrimFacts ==
  ASSUME TypeOK, Trim
  PROVE  /\ trimmed' \in 0..Len(log) /\ trimmed <= trimmed'
         /\ trimmed' = trimmed \/ trimmed' = Latest - Retention
<1>1. Len(log) \in Nat /\ trimmed \in 0..Len(log) /\ Latest \in 0..Len(log)
  BY LogFacts, LatestFacts
<1>2. PICK a, b : a = trimmed /\ b = Latest - Retention
  OBVIOUS
<1>3. a \in Int /\ b \in Int /\ b <= Len(log)
  BY <1>1, <1>2, Sizes
<1>4. PICK m : m = MaxOf({a, b})
  OBVIOUS
<1>5. m \in {a, b} /\ a <= m /\ b <= m
  BY <1>3, <1>4, LargerOfTwo
<1>6. trimmed' = m
  BY <1>2, <1>4 DEF Trim
<1> QED
  BY <1>1, <1>2, <1>3, <1>5, <1>6

LEMMA TrimFramed ==
  ASSUME Framed, Trim
  PROVE  TypeOK' /\ FramesInv'
<1>1. TypeOK /\ FramesInv
  BY DEF Framed
<1>2. trimmed' \in 0..Len(log)
  BY <1>1, TrimFacts
<1>3. /\ log' = log /\ unheard' = unheard /\ sinceTrim' = sinceTrim /\ loop' = loop
      /\ faults' = faults /\ UNCHANGED socket /\ UNCHANGED request /\ UNCHANGED page
  BY DEF Trim
<1>4. phase' \in [Publishers -> {"idle", "publish", "trim"}]
  BY <1>1 DEF Trim, TypeOK, Publishers
<1>8. HistoryOK'
  <2>1. wanted' = wanted /\ UNCHANGED <<untold, overtaken, losses>>
    BY DEF Trim, request
  <2>2. Len(log') \in Nat /\ Len(log) <= Len(log')
    BY <1>1, <1>3, LogFacts
  <2> QED
    BY <1>1, <2>1, <2>2, HistorySame
<1>5. TypeOK'
  BY <1>8, <1>1, <1>2, <1>3, <1>4, Zenon
     DEF TypeOK, socket, handshake, request, page, Event, TooSlow, Seqs
<1>6. live' \subseteq Own
  BY <1>1, <1>3 DEF page, FramesInv
<1>7. FramesInv'
  BY <1>1, <1>3, <1>6, SameFrames
<1> QED
  BY <1>5, <1>7 DEF Framed

LEMMA FrameKinds ==
  ASSUME NEW f \in Messages \cup Hellos
  PROVE  /\ f.type \in {"hello", "event", "resync"}
         /\ f.type = "event" => f.seq \in Own /\ f = Event(f.seq) /\ f.resync = FALSE
         /\ f.type = "resync" => f = TooSlow /\ f.resync = TRUE
         /\ f.type = "hello" => f \in Hellos /\ f.seq \in 0..Len(log) /\ f.resync \in BOOLEAN
<1>1. CASE f \in Hellos
  BY <1>1 DEF Hellos
<1>2. CASE f = TooSlow
  BY <1>2 DEF TooSlow
<1>3. CASE \E s \in Own : f = Event(s)
  BY <1>3 DEF Event
<1> QED
  BY <1>1, <1>2, <1>3 DEF Messages

LEMMA FanoutFacts ==
  ASSUME Framed, Fanout
  PROVE  /\ loop # <<>> /\ Head(loop) \in Seq(1..Len(log))
         /\ loop' = Tail(loop) /\ loop' \in Seq(Seq(1..Len(log)))
         /\ conn # "open" => queue' = queue
         /\ conn = "open" =>
              \/ queue' = <<TooSlow>>
              \/ \E w \in Seq(Messages) :
                   /\ queue' = queue \o w /\ Len(queue) + Len(w) <= Capacity
                   /\ DOMAIN w = DOMAIN MineOf(Head(loop))
                   /\ \A i \in DOMAIN w : w[i] = Event(MineOf(Head(loop))[i])
<1>1. TypeOK /\ FramesInv
  BY DEF Framed
<1>2. loop # <<>> /\ loop' = Tail(loop)
  BY DEF Fanout
<1>3. Head(loop) \in Seq(1..Len(log)) /\ loop' \in Seq(Seq(1..Len(log)))
  <2>1. PICK S : S = Seq(1..Len(log))
    OBVIOUS
  <2>2. loop \in Seq(S)
    BY <1>1, <2>1 DEF TypeOK
  <2>3. Head(loop) \in S /\ Tail(loop) \in Seq(S)
    BY <1>2, <2>2, HeadTailProperties
  <2> QED
    BY <1>2, <2>1, <2>3
<1>4. PICK m : m = MineOf(Head(loop))
  OBVIOUS
<1>5. m \in Seq(Own)
  <2>1. PICK S : S = Seq(Lasting)
    OBVIOUS
  <2>2. loop \in Seq(S)
    BY <2>1 DEF Framed, AnnouncedInv
  <2>3. Head(loop) \in S
    BY <1>2, <2>2, HeadTailProperties
  <2> QED
    BY <1>1, <1>4, <2>1, <2>3, MineOfFacts
<1>6. PICK w : w = [i \in DOMAIN m |-> Event(m[i])]
  OBVIOUS
<1>7. /\ w \in Seq(Messages) /\ Len(w) = Len(m) /\ DOMAIN w = DOMAIN m
      /\ \A i \in DOMAIN m : w[i] = Event(m[i])
  <2>1. PICK O, M : O = Own /\ M = Messages
    OBVIOUS
  <2>2. m \in Seq(O) /\ \A s \in O : Event(s) \in M
    BY <1>5, <2>1 DEF Messages
  <2>3. /\ w \in Seq(M) /\ Len(w) = Len(m) /\ DOMAIN w = DOMAIN m
        /\ \A i \in DOMAIN m : w[i] = Event(m[i])
    BY <1>6, <2>2, Wrapped
  <2> QED
    BY <2>1, <2>3
<1>8. queue' = IF conn = "open" THEN Deliver(m) ELSE queue
  BY <1>4 DEF Fanout
<1>9. Deliver(m) = IF Len(queue) + Len(m) <= Capacity THEN queue \o w ELSE <<TooSlow>>
  BY <1>6 DEF Deliver
<1>10. CASE conn # "open"
  BY <1>2, <1>3, <1>8, <1>10
<1>11. CASE conn = "open" /\ Len(queue) + Len(m) <= Capacity
  <2>1. queue' = queue \o w /\ Len(queue) + Len(w) <= Capacity
    BY <1>7, <1>8, <1>9, <1>11
  <2>2. DOMAIN w = DOMAIN MineOf(Head(loop)) /\ \A i \in DOMAIN w : w[i] = Event(MineOf(Head(loop))[i])
    BY <1>4, <1>7
  <2> QED
    BY <1>2, <1>3, <1>7, <1>11, <2>1, <2>2
<1>12. CASE conn = "open" /\ ~(Len(queue) + Len(m) <= Capacity)
  <2>1. queue' = <<TooSlow>>
    BY <1>8, <1>9, <1>12
  <2> QED
    BY <1>2, <1>3, <1>12, <2>1
<1> QED
  BY <1>10, <1>11, <1>12

LEMMA FanoutFramed ==
  ASSUME Framed, Fanout
  PROVE  TypeOK' /\ FramesInv'
<1>1. TypeOK /\ FramesInv
  BY DEF Framed
<1>2. loop' \in Seq(Seq(1..Len(log))) /\ conn \in {"closed", "open"}
  BY FanoutFacts DEF Fanout
<1>3. queue \in Seq(Messages) /\ Len(queue) <= Capacity /\ Len(queue) \in Nat
  BY <1>1, LenProperties DEF FramesInv, TypeOK
<1>4. queue' \in Seq(Messages) /\ Len(queue') <= Capacity
  <2>1. CASE conn # "open"
    BY <1>3, <2>1, FanoutFacts
  <2>2. CASE conn = "open" /\ queue' = <<TooSlow>>
    <3>1. TooSlow \in Messages
      BY DEF Messages
    <3>2. PICK f, M : f = TooSlow /\ M = Messages
      OBVIOUS
    <3>3. <<f>> \in Seq(M) /\ Len(<<f>>) = 1
      BY <3>1, <3>2
    <3> QED
      BY <2>2, <3>2, <3>3, Sizes
  <2>3. CASE conn = "open" /\ queue' # <<TooSlow>>
    <3>1. PICK w \in Seq(Messages) : queue' = queue \o w /\ Len(queue) + Len(w) <= Capacity
      BY <2>3, FanoutFacts
    <3>2. PICK M : M = Messages
      OBVIOUS
    <3>3. queue \o w \in Seq(M) /\ Len(queue \o w) = Len(queue) + Len(w)
      BY <1>3, <3>1, <3>2, ConcatProperties
    <3> QED
      BY <3>1, <3>2, <3>3
  <2> QED
    BY <2>1, <2>2, <2>3
<1>5. /\ log' = log /\ trimmed' = trimmed /\ faults' = faults /\ UNCHANGED threads
      /\ UNCHANGED <<conn, handshake, wire, replaying>>
      /\ UNCHANGED request /\ UNCHANGED page
  BY DEF Fanout, database
<1>6. Own' = Own /\ Messages' = Messages /\ Hellos' = Hellos
  BY <1>5 DEF Own, Messages, Hellos
<1>7. \A i \in DOMAIN queue' : queue'[i] \in {TooSlow} \cup {Event(s) : s \in Seqs}
  <2>1. PICK O, M, q : O = Own /\ M = Messages /\ q = queue'
    OBVIOUS
  <2>2. O \subseteq Seqs /\ M = {TooSlow} \cup {Event(s) : s \in O} /\ q \in Seq(M)
    BY <1>1, <1>4, <2>1, LogFacts DEF Messages
  <2>3. \A i \in DOMAIN q : q[i] \in {TooSlow} \cup {Event(s) : s \in Seqs}
    BY <2>2, QueueShape
  <2> QED
    BY <2>1, <2>3
<1>10. HistoryOK'
  <2>1. wanted' = wanted /\ UNCHANGED <<untold, overtaken, losses>>
    BY DEF Fanout, request
  <2>2. Len(log') \in Nat /\ Len(log) <= Len(log')
    BY <1>1, <1>5, LogFacts
  <2> QED
    BY <1>1, <2>1, <2>2, HistorySame
<1>8. TypeOK'
  BY <1>10, <1>1, <1>2, <1>4, <1>5, <1>7, Zenon
     DEF TypeOK, threads, handshake, request, page, Event, TooSlow, Seqs
<1>9. FramesInv'
  <2>1. conn # "open" => queue' = queue
    BY FanoutFacts
  <2> QED
    BY <1>1, <1>4, <1>5, <1>6, <2>1 DEF FramesInv, page
<1> QED
  BY <1>8, <1>9 DEF Framed

LEMMA ConnectFramed ==
  ASSUME Framed, Connect \/ ReadOldest
  PROVE  TypeOK' /\ FramesInv'
<1>1. TypeOK /\ FramesInv
  BY DEF Framed
<1>2. /\ conn' \in {"latest", "oldest"} /\ current' \in 0..Len(log) /\ oldest' \in 0..Len(log)
      /\ conn # "open" /\ conn' # "open"
  BY <1>1, LatestFacts, OldestTyped DEF Connect, ReadOldest, TypeOK
<1>3. /\ log' = log /\ trimmed' = trimmed /\ faults' = faults /\ UNCHANGED threads
      /\ loop' = loop /\ queue' = queue /\ wire' = wire /\ replaying' = replaying
      /\ UNCHANGED request /\ UNCHANGED page
  BY DEF Connect, ReadOldest, database
<1>7. HistoryOK'
  <2>1. wanted' = wanted /\ UNCHANGED <<untold, overtaken, losses>>
    BY DEF Connect, ReadOldest, request
  <2>2. Len(log') \in Nat /\ Len(log) <= Len(log')
    BY <1>1, <1>3, LogFacts
  <2> QED
    BY <1>1, <2>1, <2>2, HistorySame
<1>4. TypeOK'
  BY <1>7, <1>1, <1>2, <1>3, Zenon DEF TypeOK, threads, request, page, Event, TooSlow, Seqs
<1>5. Own' = Own /\ Messages' = Messages /\ Hellos' = Hellos
  BY <1>3 DEF Own, Messages, Hellos
<1>6. FramesInv'
  BY <1>1, <1>2, <1>3, <1>5 DEF FramesInv, page
<1> QED
  BY <1>4, <1>6 DEF Framed

LEMMA GreetFacts ==
  ASSUME Framed, Greet
  PROVE  /\ wire' \in Seq(Messages \cup Hellos) /\ Len(wire') = Len(Replay) + 1
         /\ wire'[1] = Hello(current, Behind) /\ wire'[1] \in Hellos
         /\ Len(Replay) \in Nat /\ DOMAIN Replay = 1..Len(Replay)
         /\ \A i \in 1..Len(Replay) : wire'[i + 1] = Event(Replay[i]) /\ Replay[i] \in Own
<1>1. TypeOK
  BY DEF Framed
<1>2. PICK r : r = Replay
  OBVIOUS
<1>3. r \in Seq(Own)
  BY <1>1, <1>2, ReplayFacts
<1>4. PICK w : w = [i \in DOMAIN r |-> Event(r[i])]
  OBVIOUS
<1>5. PICK O, M, F : O = Own /\ M = Messages /\ F = Messages \cup Hellos
  OBVIOUS
<1>6. /\ w \in Seq(M) /\ Len(w) = Len(r) /\ DOMAIN w = DOMAIN r
      /\ \A i \in DOMAIN r : w[i] = Event(r[i])
  <2>1. r \in Seq(O) /\ \A s \in O : Event(s) \in M
    BY <1>3, <1>5 DEF Messages
  <2> QED
    BY <1>4, <2>1, Wrapped
<1>7. PICK h : h = Hello(current, Behind)
  OBVIOUS
<1>8. h \in Hellos
  <2>1. current \in 0..Len(log) /\ Behind \in BOOLEAN
    BY <1>1 DEF TypeOK, Behind
  <2>2. PICK b : b = Behind
    OBVIOUS
  <2>3. h = [type |-> "hello", seq |-> current, resync |-> b]
    BY <1>7, <2>2 DEF Hello
  <2> QED
    BY <2>1, <2>2, <2>3 DEF Hellos
<1>9. h \in F /\ M \subseteq F
  BY <1>5, <1>8
<1>10. w \in Seq(F)
  BY <1>6, <1>9, LargerSeq
<1>11. PICK g : g = <<h>>
  OBVIOUS
<1>12. g \in Seq(F) /\ Len(g) = 1 /\ g[1] = h
  BY <1>9, <1>11
<1>13. PICK x : x = g \o w
  OBVIOUS
<1>14. /\ x \in Seq(F) /\ Len(x) = Len(g) + Len(w)
       /\ \A i \in 1 .. Len(g) + Len(w) : x[i] = IF i <= Len(g) THEN g[i] ELSE w[i - Len(g)]
  BY <1>10, <1>12, <1>13, ConcatProperties
<1>15. /\ Len(r) \in Nat /\ DOMAIN r = 1..Len(r) /\ \A i \in 1..Len(r) : r[i] \in Own
  BY <1>3, LenProperties, ElementOfSeq
<1>16. x[1] = h /\ Len(x) = Len(r) + 1
  <2>1. 1 \in 1 .. Len(g) + Len(w) /\ 1 <= Len(g)
    BY <1>6, <1>12, <1>15
  <2> QED
    BY <1>6, <1>12, <1>14, <1>15, <2>1
<1>17. ASSUME NEW i \in 1..Len(r) PROVE x[i + 1] = Event(r[i])
  <2>1. i + 1 \in 1 .. Len(g) + Len(w) /\ ~(i + 1 <= Len(g)) /\ i + 1 - Len(g) = i
    BY <1>6, <1>12, <1>15
  <2> QED
    BY <1>6, <1>14, <1>15, <2>1
<1>18. wire' = x
  BY <1>2, <1>4, <1>7, <1>11, <1>13, Zenon DEF Greet
<1> QED
  BY <1>2, <1>5, <1>7, <1>8, <1>14, <1>15, <1>16, <1>17, <1>18

LEMMA GreetFramed ==
  ASSUME Framed, Greet
  PROVE  TypeOK' /\ FramesInv'
<1>1. TypeOK /\ FramesInv
  BY DEF Framed
<1>2. PICK n : n = Len(Replay)
  OBVIOUS
<1>3. /\ wire' \in Seq(Messages \cup Hellos) /\ Len(wire') = n + 1 /\ n \in Nat
      /\ \A i \in 1..n : \E s \in Own : wire'[i + 1] = Event(s)
  <2>1. wire' \in Seq(Messages \cup Hellos) /\ Len(wire') = n + 1 /\ n \in Nat
    BY <1>2, GreetFacts
  <2>2. \A i \in 1..n : wire'[i + 1] = Event(Replay[i]) /\ Replay[i] \in Own
    BY <1>2, GreetFacts
  <2> QED
    BY <2>1, <2>2
<1>4. /\ log' = log /\ trimmed' = trimmed /\ faults' = faults /\ UNCHANGED threads
      /\ loop' = loop /\ queue' = queue /\ replaying' = n + 1
      /\ conn = "oldest" /\ conn' = "open" /\ current' = 0 /\ oldest' = 0
      /\ UNCHANGED request /\ UNCHANGED page
  BY <1>2 DEF Greet, database
<1>5. Own' = Own /\ Messages' = Messages /\ Hellos' = Hellos
  BY <1>4 DEF Own, Messages, Hellos
<1>6. \A i \in DOMAIN wire' : wire'[i].type \in {"hello", "event", "resync"}
  <2>1. PICK O, N, M, H, w : /\ O = Own /\ M = Messages /\ H = Hellos /\ w = wire'
                             /\ N = 0..Len(log)
    OBVIOUS
  <2>2. /\ M = {TooSlow} \cup {Event(s) : s \in O}
        /\ H = [type : {"hello"}, seq : N, resync : BOOLEAN] /\ w \in Seq(M \cup H)
    BY <1>3, <2>1 DEF Messages, Hellos
  <2>3. \A i \in DOMAIN w : w[i].type \in {"hello", "event", "resync"}
    BY <2>2, WireShape
  <2> QED
    BY <2>1, <2>3
<1>7. replaying' \in 0..Len(wire') /\ current' \in 0..Len(log) /\ oldest' \in 0..Len(log)
  <2>1. Len(log) \in Nat
    BY <1>1, LogFacts
  <2> QED
    BY <1>3, <1>4, <2>1
<1>11. HistoryOK'
  <2>1. wanted' = wanted /\ UNCHANGED <<untold, overtaken, losses>>
    BY DEF Greet, request
  <2>2. Len(log') \in Nat /\ Len(log) <= Len(log')
    BY <1>1, <1>4, LogFacts
  <2> QED
    BY <1>1, <2>1, <2>2, HistorySame
<1>8. TypeOK'
  BY <1>11, <1>1, <1>4, <1>6, <1>7, Zenon DEF TypeOK, threads, request, page, Event, TooSlow, Seqs
<1>9. \A i \in DOMAIN wire' : wire'[i].type = "hello" => i = 1 /\ replaying' > 0
  <2> SUFFICES ASSUME NEW i \in DOMAIN wire', wire'[i].type = "hello"
               PROVE  i = 1 /\ replaying' > 0
    OBVIOUS
  <2>1. i \in 1..(n + 1)
    BY <1>3, LenProperties
  <2>2. i = 1
    <3> SUFFICES ASSUME i # 1 PROVE FALSE
      OBVIOUS
    <3>1. i - 1 \in 1..n /\ i = (i - 1) + 1
      BY <1>3, <2>1
    <3>2. \E s \in Own : wire'[i] = Event(s)
      BY <1>3, <3>1
    <3> QED
      BY <3>2, EventShape
  <2> QED
    BY <1>3, <1>4, <2>2
<1>10. FramesInv'
  BY <1>1, <1>3, <1>4, <1>5, <1>9 DEF FramesInv, page
<1> QED
  BY <1>8, <1>10 DEF Framed

\* A frame moves from the head of the queue to the end of the wire.
LEMMA SendFacts ==
  ASSUME Framed, Send
  PROVE  /\ Len(queue) \in Nat \ {0} /\ DOMAIN queue = 1..Len(queue) /\ queue[1] \in Messages
         /\ queue' \in Seq(Messages) /\ Len(queue') = Len(queue) - 1
         /\ DOMAIN queue' = 1..(Len(queue) - 1)
         /\ \A i \in 1..(Len(queue) - 1) : queue'[i] = queue[i + 1]
         /\ Len(wire) \in Nat /\ DOMAIN wire = 1..Len(wire)
         /\ wire' \in Seq(Messages \cup Hellos) /\ Len(wire') = Len(wire) + 1
         /\ DOMAIN wire' = 1..(Len(wire) + 1)
         /\ \A i \in 1..Len(wire) : wire'[i] = wire[i]
         /\ wire'[Len(wire) + 1] = queue[1]
<1>1. PICK M, F : M = Messages /\ F = Messages \cup Hellos
  OBVIOUS
<1>2. queue \in Seq(M) /\ wire \in Seq(F) /\ queue # <<>> /\ M \subseteq F
  BY <1>1 DEF Framed, FramesInv, Send
<1>3. Len(queue) \in Nat \ {0} /\ DOMAIN queue = 1..Len(queue) /\ Head(queue) = queue[1]
  BY <1>2
<1>4. /\ Head(queue) \in M /\ Tail(queue) \in Seq(M) /\ Len(Tail(queue)) = Len(queue) - 1
      /\ \A i \in 1..Len(Tail(queue)) : Tail(queue)[i] = queue[i + 1]
  BY <1>2, HeadTailProperties
<1>5. PICK t, x : t = Tail(queue) /\ x = Head(queue)
  OBVIOUS
<1>6. /\ t \in Seq(M) /\ Len(t) = Len(queue) - 1 /\ DOMAIN t = 1..Len(t) /\ x = queue[1]
      /\ \A i \in 1..Len(t) : t[i] = queue[i + 1] /\ x \in F
  BY <1>2, <1>3, <1>4, <1>5, LenProperties
<1>7. PICK w : w = Append(wire, x)
  OBVIOUS
<1>8. x \in F
  BY <1>2, <1>4, <1>5
<1>9. /\ w \in Seq(F) /\ Len(w) = Len(wire) + 1
      /\ \A i \in 1..Len(wire) : w[i] = wire[i]
      /\ w[Len(wire) + 1] = x
  BY <1>2, <1>7, <1>8, AppendProperties
<1>10. Len(wire) \in Nat /\ DOMAIN wire = 1..Len(wire) /\ DOMAIN w = 1..Len(w)
  BY <1>2, <1>9, LenProperties
<1>11. wire' = w /\ queue' = t
  BY <1>5, <1>7 DEF Send
<1> QED
  BY <1>1, <1>3, <1>4, <1>5, <1>6, <1>9, <1>10, <1>11

LEMMA SendFramed ==
  ASSUME Framed, Send
  PROVE  TypeOK' /\ FramesInv'
<1>1. TypeOK /\ FramesInv
  BY DEF Framed
<1>2. /\ queue' \in Seq(Messages) /\ Len(queue') = Len(queue) - 1 /\ Len(queue) \in Nat \ {0}
      /\ wire' \in Seq(Messages \cup Hellos) /\ Len(wire') = Len(wire) + 1 /\ Len(wire) \in Nat
  BY SendFacts
<1>3. /\ log' = log /\ trimmed' = trimmed /\ faults' = faults /\ UNCHANGED threads
      /\ loop' = loop /\ conn' = conn /\ conn = "open" /\ UNCHANGED handshake
      /\ replaying' = replaying /\ UNCHANGED request /\ UNCHANGED page
  BY DEF Send, database
<1>4. Own' = Own /\ Messages' = Messages /\ Hellos' = Hellos
  BY <1>3 DEF Own, Messages, Hellos
<1>5. \A i \in DOMAIN queue' : queue'[i] \in {TooSlow} \cup {Event(s) : s \in Seqs}
  <2>1. PICK O, M, q : O = Own /\ M = Messages /\ q = queue'
    OBVIOUS
  <2>2. O \subseteq Seqs /\ M = {TooSlow} \cup {Event(s) : s \in O} /\ q \in Seq(M)
    BY <1>1, <1>2, <2>1, LogFacts DEF Messages
  <2>3. \A i \in DOMAIN q : q[i] \in {TooSlow} \cup {Event(s) : s \in Seqs}
    BY <2>2, QueueShape
  <2> QED
    BY <2>1, <2>3
<1>6. \A i \in DOMAIN wire' : wire'[i].type \in {"hello", "event", "resync"}
  <2>1. PICK O, N, M, H, w : /\ O = Own /\ M = Messages /\ H = Hellos /\ w = wire'
                             /\ N = 0..Len(log)
    OBVIOUS
  <2>2. /\ M = {TooSlow} \cup {Event(s) : s \in O}
        /\ H = [type : {"hello"}, seq : N, resync : BOOLEAN] /\ w \in Seq(M \cup H)
    BY <1>2, <2>1 DEF Messages, Hellos
  <2>3. \A i \in DOMAIN w : w[i].type \in {"hello", "event", "resync"}
    BY <2>2, WireShape
  <2> QED
    BY <2>1, <2>3
<1>7. Len(queue') <= Capacity /\ replaying' \in 0..Len(wire')
  <2>1. Len(queue) <= Capacity /\ replaying \in 0..Len(wire)
    BY <1>1 DEF TypeOK
  <2> QED
    BY <1>2, <1>3, <2>1, Sizes
<1>11. HistoryOK'
  <2>1. wanted' = wanted /\ UNCHANGED <<untold, overtaken, losses>>
    BY DEF Send, request
  <2>2. Len(log') \in Nat /\ Len(log) <= Len(log')
    BY <1>1, <1>3, LogFacts
  <2> QED
    BY <1>1, <2>1, <2>2, HistorySame
<1>8. TypeOK'
  BY <1>11, <1>1, <1>3, <1>5, <1>6, <1>7, Zenon
     DEF TypeOK, threads, handshake, request, page, Event, TooSlow, Seqs
<1>9. \A i \in DOMAIN wire' : wire'[i].type = "hello" => i = 1 /\ replaying' > 0
  <2> SUFFICES ASSUME NEW i \in DOMAIN wire', wire'[i].type = "hello"
               PROVE  i = 1 /\ replaying' > 0
    OBVIOUS
  <2>1. i \in 1..(Len(wire) + 1) /\ DOMAIN wire = 1..Len(wire)
    BY SendFacts
  <2>2. i # Len(wire) + 1
    <3>1. wire'[Len(wire) + 1] = queue[1] /\ queue[1] \in Messages
      BY SendFacts
    <3>2. queue[1].type # "hello"
      BY <3>1, EventShape DEF Messages
    <3> QED
      BY <3>1, <3>2
  <2>3. i \in 1..Len(wire) /\ wire'[i] = wire[i]
    <3>1. i \in 1..Len(wire)
      BY <1>2, <2>1, <2>2
    <3> QED
      BY <3>1, SendFacts
  <2> QED
    BY <1>1, <1>3, <2>1, <2>3 DEF FramesInv
<1>10. FramesInv'
  BY <1>1, <1>2, <1>3, <1>4, <1>9 DEF FramesInv, page
<1> QED
  BY <1>8, <1>10 DEF Framed

\* The page reads the first frame on the wire.
LEMMA ReceiveFacts ==
  ASSUME Framed, Receive
  PROVE  /\ Len(wire) \in Nat \ {0} /\ DOMAIN wire = 1..Len(wire)
         /\ wire[1] \in Messages \cup Hellos
         /\ ReceiveHello(wire[1]) \/ ReceiveResync(wire[1]) \/ ReceiveEvent(wire[1])
         /\ wire' \in Seq(Messages \cup Hellos) /\ Len(wire') = Len(wire) - 1
         /\ DOMAIN wire' = 1..(Len(wire) - 1)
         /\ \A i \in 1..(Len(wire) - 1) : wire'[i] = wire[i + 1]
         /\ \A i \in 2..Len(wire) : wire[i].type # "hello"
<1>1. PICK F : F = Messages \cup Hellos
  OBVIOUS
<1>2. wire \in Seq(F) /\ wire # <<>>
  BY <1>1 DEF Framed, FramesInv, Receive
<1>3. Len(wire) \in Nat \ {0} /\ DOMAIN wire = 1..Len(wire) /\ Head(wire) = wire[1]
  BY <1>2
<1>4. /\ Head(wire) \in F /\ Tail(wire) \in Seq(F) /\ Len(Tail(wire)) = Len(wire) - 1
      /\ \A i \in 1..Len(Tail(wire)) : Tail(wire)[i] = wire[i + 1]
  BY <1>2, HeadTailProperties
<1>5. PICK t : t = Tail(wire)
  OBVIOUS
<1>6. /\ t \in Seq(F) /\ Len(t) = Len(wire) - 1 /\ DOMAIN t = 1..Len(t)
      /\ \A i \in 1..Len(t) : t[i] = wire[i + 1]
  BY <1>4, <1>5, LenProperties
<1>7. wire' = t
  BY <1>5 DEF Receive
<1>8. ReceiveHello(wire[1]) \/ ReceiveResync(wire[1]) \/ ReceiveEvent(wire[1])
  BY <1>3 DEF Receive
<1>9. ASSUME NEW i \in 2..Len(wire) PROVE wire[i].type # "hello"
  <2>1. i \in DOMAIN wire /\ i # 1
    BY <1>3
  <2> QED
    BY <2>1 DEF Framed, FramesInv
<1> QED
  BY <1>1, <1>3, <1>4, <1>6, <1>7, <1>8, <1>9

\* What the page keeps after a frame.
LEMMA PageTyped ==
  ASSUME Framed, Receive
  PROVE  /\ cursor' \in {None} \cup (0..Len(log)) /\ base' \in {None} \cup (0..Len(log))
         /\ liveKey' \in 0..Len(log) /\ live' \subseteq Own /\ snap' = snap
         /\ fetch' \in {"none", "asked", "answered"} /\ answer' \in 0..Len(log)
         /\ wanted' \subseteq wanted \cup 1..Len(log)
         /\ untold' \subseteq untold \cup 1..Len(log)
<1>1. PICK f : f = wire[1]
  OBVIOUS
<1>2. /\ f \in Messages \cup Hellos
      /\ ReceiveHello(f) \/ ReceiveResync(f) \/ ReceiveEvent(f)
  BY <1>1, ReceiveFacts
<1>3. /\ f.type = "event" => f.seq \in Own
      /\ f.type = "hello" => f.seq \in 0..Len(log)
  BY <1>2, FrameKinds
<1>4. /\ cursor \in {None} \cup (0..Len(log)) /\ base \in {None} \cup (0..Len(log))
      /\ liveKey \in 0..Len(log) /\ live \subseteq Own
      /\ fetch \in {"none", "asked", "answered"} /\ answer \in 0..Len(log)
      /\ Len(log) \in Nat /\ Own \subseteq 1..Len(log)
  BY LogFacts DEF Framed, FramesInv, TypeOK
<1>5. snap' = snap
  BY DEF Receive
<1>6. ASSUME NEW S, S \subseteq 1..Len(log), UNCHANGED request \/ Bump(S)
      PROVE  /\ fetch' \in {"none", "asked", "answered"} /\ answer' \in 0..Len(log)
             /\ wanted' \subseteq wanted \cup 1..Len(log)
  <2>1. CASE UNCHANGED request
    <3>1. fetch' = fetch /\ answer' = answer /\ wanted' = wanted
      BY <2>1 DEF request
    <3> QED
      BY <1>4, <3>1
  <2>2. CASE Bump(S)
    <3>1. fetch' = "asked" /\ answer' = 0 /\ wanted' = wanted \cup S
      BY <2>2 DEF Bump
    <3>2. 0 \in 0..Len(log)
      BY <1>4
    <3> QED
      BY <1>6, <3>1, <3>2
  <2> QED
    BY <1>6, <2>1, <2>2
<1>10. DOMAIN log \subseteq 1..Len(log)
  BY LogFacts DEF Framed
<1>7. CASE ReceiveHello(f)
  <2>1. f.seq \in 0..Len(log) /\ cursor' = f.seq /\ base' \in {base, f.seq} /\ liveKey' = liveKey
    BY <1>3, <1>7 DEF ReceiveHello
  <2>2. /\ live' \in {live, {}} /\ (UNCHANGED request \/ Bump(DOMAIN log))
        /\ untold' \in {untold, untold \cup DOMAIN log}
    BY <1>7 DEF ReceiveHello, StartAgain
  <2>3. /\ fetch' \in {"none", "asked", "answered"} /\ answer' \in 0..Len(log)
        /\ wanted' \subseteq wanted \cup 1..Len(log)
    BY <1>6, <1>10, <2>2
  <2> QED
    BY <1>4, <1>5, <1>10, <2>1, <2>2, <2>3
<1>8. CASE ReceiveResync(f)
  <2>1. /\ cursor' = cursor /\ base' = base /\ liveKey' = liveKey /\ live' = {}
        /\ Bump(DOMAIN log) /\ untold' = untold \cup DOMAIN log
    BY <1>8 DEF ReceiveResync, StartAgain
  <2>2. /\ fetch' \in {"none", "asked", "answered"} /\ answer' \in 0..Len(log)
        /\ wanted' \subseteq wanted \cup 1..Len(log)
    BY <1>6, <1>10, <2>1
  <2> QED
    BY <1>4, <1>5, <1>10, <2>1, <2>2
<1>9. CASE ReceiveEvent(f)
  <2>1. f.seq \in Own /\ f.seq \in 1..Len(log)
    BY <1>3, <1>4, <1>9 DEF ReceiveEvent
  <2>2. cursor' = f.seq /\ base' = base /\ liveKey' = LiveAfter(f.seq) /\ untold' = untold
    BY <1>9 DEF ReceiveEvent
  <2>3. liveKey' \in 0..Len(log)
    <3>1. PICK k : k = Match(f.seq)
      OBVIOUS
    <3>2. k \in 0..Len(log)
      BY <2>1, <3>1, MatchTyped DEF Framed
    <3>3. LiveAfter(f.seq) \in {k, 0, liveKey}
      BY <3>1 DEF LiveAfter
    <3> QED
      BY <1>4, <2>2, <3>2, <3>3
  <2>4. /\ live' \subseteq Own /\ fetch' \in {"none", "asked", "answered"}
        /\ answer' \in 0..Len(log) /\ wanted' \subseteq wanted \cup 1..Len(log)
    <3>1. live' \in {live, live \cup {f.seq}} /\ (UNCHANGED request \/ Bump({f.seq}))
      BY <1>9 DEF ReceiveEvent, Plotted
    <3>2. {f.seq} \subseteq 1..Len(log)
      BY <2>1
    <3> QED
      BY <1>4, <1>6, <2>1, <3>1, <3>2
  <2> QED
    BY <1>4, <1>5, <2>1, <2>2, <2>3, <2>4
<1> QED
  BY <1>2, <1>7, <1>8, <1>9

LEMMA ReceiveFramed ==
  ASSUME Framed, Receive
  PROVE  TypeOK' /\ FramesInv'
<1>1. TypeOK /\ FramesInv
  BY DEF Framed
<1>2. /\ cursor' \in {None} \cup (0..Len(log)) /\ base' \in {None} \cup (0..Len(log))
      /\ liveKey' \in 0..Len(log) /\ live' \subseteq Own /\ snap' = snap
      /\ fetch' \in {"none", "asked", "answered"} /\ answer' \in 0..Len(log)
      /\ wanted' \subseteq wanted \cup 1..Len(log)
      /\ untold' \subseteq untold \cup 1..Len(log)
  BY PageTyped
<1>3. /\ wire' \in Seq(Messages \cup Hellos) /\ Len(wire') = Len(wire) - 1
      /\ Len(wire) \in Nat \ {0}
  BY ReceiveFacts
<1>4. /\ log' = log /\ trimmed' = trimmed /\ faults' = faults /\ UNCHANGED threads
      /\ loop' = loop /\ conn' = conn /\ conn = "open" /\ UNCHANGED handshake
      /\ queue' = queue /\ replaying' = IF replaying > 0 THEN replaying - 1 ELSE 0
  BY DEF Receive, database
<1>5. Own' = Own /\ Messages' = Messages /\ Hellos' = Hellos
  BY <1>4 DEF Own, Messages, Hellos
<1>6. \A i \in DOMAIN wire' : wire'[i].type \in {"hello", "event", "resync"}
  <2>1. PICK O, N, M, H, w : /\ O = Own /\ M = Messages /\ H = Hellos /\ w = wire'
                             /\ N = 0..Len(log)
    OBVIOUS
  <2>2. /\ M = {TooSlow} \cup {Event(s) : s \in O}
        /\ H = [type : {"hello"}, seq : N, resync : BOOLEAN] /\ w \in Seq(M \cup H)
    BY <1>3, <2>1 DEF Messages, Hellos
  <2>3. \A i \in DOMAIN w : w[i].type \in {"hello", "event", "resync"}
    BY <2>2, WireShape
  <2> QED
    BY <2>1, <2>3
<1>7. replaying' \in 0..Len(wire')
  <2>1. replaying \in 0..Len(wire)
    BY <1>1 DEF TypeOK
  <2> QED
    BY <1>3, <1>4, <2>1
<1>8. live' \subseteq 1..Len(log) /\ snap' \in 0..Len(log)
  BY <1>1, <1>2, LogFacts DEF TypeOK
<1>12. HistoryOK'
  <2>1. overtaken' = overtaken /\ cutOff' = cutOff /\ passedBy' = passedBy /\ failed' = failed
    BY DEF Receive, losses
  <2>2. Len(log') \in Nat /\ Len(log) <= Len(log')
    BY <1>1, <1>4, LogFacts
  <2> QED
    BY <1>1, <1>2, <2>1, <2>2, HistoryGrows
<1>9. TypeOK'
  BY <1>1, <1>2, <1>4, <1>6, <1>7, <1>8, <1>12, Zenon
     DEF TypeOK, threads, handshake, Event, TooSlow, Seqs
<1>10. \A i \in DOMAIN wire' : wire'[i].type # "hello"
  <2> SUFFICES ASSUME NEW i \in DOMAIN wire' PROVE wire'[i].type # "hello"
    OBVIOUS
  <2>1. i \in 1..(Len(wire) - 1) /\ wire'[i] = wire[i + 1]
    BY ReceiveFacts
  <2>2. i + 1 \in 2..Len(wire)
    BY <1>3, <2>1
  <2> QED
    BY <2>1, <2>2, ReceiveFacts
<1>11. FramesInv'
  BY <1>1, <1>2, <1>3, <1>4, <1>5, <1>10 DEF FramesInv
<1> QED
  BY <1>9, <1>11 DEF Framed

\* The request for a snapshot is answered, lands or fails.
LEMMA RequestFramed ==
  ASSUME Framed, Answer \/ Land \/ FetchFail
  PROVE  TypeOK' /\ FramesInv'
<1>1. TypeOK /\ FramesInv
  BY DEF Framed
<1>2. /\ log' = log /\ trimmed' = trimmed /\ UNCHANGED threads /\ loop' = loop
      /\ UNCHANGED socket /\ cursor' = cursor /\ live' = live /\ liveKey' = liveKey
      /\ base' = base
  BY DEF Answer, Land, FetchFail, database, page
<1>3. /\ fetch' \in {"none", "asked", "answered"} /\ answer' \in 0..Len(log)
      /\ snap' \in 0..Len(log) /\ faults' \in 0..MaxFaults
  <2>1. /\ Len(log) \in Nat /\ snap \in 0..Len(log) /\ answer \in 0..Len(log)
        /\ faults \in 0..MaxFaults
    BY <1>1, LogFacts DEF TypeOK
  <2> QED
    BY <2>1, Sizes DEF Answer, Land, FetchFail, page
<1>7. HistoryOK'
  <2>1. /\ wanted' \subseteq wanted /\ untold' = untold /\ overtaken' = overtaken
        /\ cutOff' = cutOff /\ passedBy' = passedBy /\ failed' \subseteq failed \cup wanted
    BY DEF Answer, Land, FetchFail, losses
  <2>2. Len(log') \in Nat /\ Len(log) <= Len(log')
    BY <1>1, <1>2, LogFacts
  <2> QED
    BY <1>1, <2>1, <2>2, HistoryGrows
<1>4. TypeOK'
  BY <1>1, <1>2, <1>3, <1>7, Zenon DEF TypeOK, threads, socket, handshake, Event, TooSlow, Seqs
<1>5. live' \subseteq Own
  BY <1>1, <1>2 DEF FramesInv
<1>6. FramesInv'
  BY <1>1, <1>2, <1>5, SameFrames
<1> QED
  BY <1>4, <1>6 DEF Framed

\* Nothing is left on a connection that is gone.
LEMMA DisconnectedFramed ==
  ASSUME Framed, Drop \/ Restart
  PROVE  TypeOK' /\ FramesInv'
<1>1. TypeOK /\ FramesInv
  BY DEF Framed
<1>2. /\ log' = log /\ trimmed' = trimmed /\ UNCHANGED request /\ UNCHANGED page
      /\ conn' = "closed" /\ current' = 0 /\ oldest' = 0
      /\ queue' = <<>> /\ wire' = <<>> /\ replaying' = 0
  BY DEF Drop, Restart, Disconnected, database
<1>3. /\ loop' \in Seq(Seq(1..Len(log))) /\ sinceTrim' \in Nat /\ faults' \in 0..MaxFaults
      /\ unheard' \in [Publishers -> Seq(1..Len(log))]
      /\ phase' \in [Publishers -> {"idle", "publish", "trim"}]
  <2>1. /\ loop \in Seq(Seq(1..Len(log))) /\ sinceTrim \in Nat /\ faults \in 0..MaxFaults
        /\ unheard \in [Publishers -> Seq(1..Len(log))]
        /\ phase \in [Publishers -> {"idle", "publish", "trim"}]
    BY <1>1 DEF TypeOK
  <2>2. <<>> \in Seq(Seq(1..Len(log))) /\ <<>> \in Seq(1..Len(log))
    BY EmptySeq
  <2>3. faults' \in 0..MaxFaults
    <3>1. faults < MaxFaults /\ faults' = faults + 1
      BY DEF Drop, Restart
    <3> QED
      BY <2>1, <3>1, Sizes
  <2>4. CASE Drop
    BY <2>1, <2>3, <2>4 DEF Drop, threads
  <2>5. CASE Restart
    BY <2>2, <2>3, <2>5 DEF Restart
  <2> QED
    BY <2>4, <2>5
<1>4. /\ \A i \in DOMAIN queue' : queue'[i] \in {TooSlow} \cup {Event(s) : s \in Seqs}
      /\ \A i \in DOMAIN wire' : wire'[i].type \in {"hello", "event", "resync"}
      /\ \A i \in DOMAIN wire' : wire'[i].type = "hello" => i = 1 /\ replaying' > 0
      /\ Len(queue') <= Capacity /\ replaying' \in 0..Len(wire')
      /\ current' \in 0..Len(log) /\ oldest' \in 0..Len(log)
  <2>1. DOMAIN queue' = {} /\ DOMAIN wire' = {} /\ Len(queue') = 0 /\ Len(wire') = 0
    BY <1>2
  <2>2. Len(log) \in Nat
    BY <1>1, LogFacts
  <2> QED
    BY <1>2, <2>1, <2>2, Sizes
<1>9. HistoryOK'
  <2>1. Own \subseteq 1..Len(log) /\ Len(log') \in Nat /\ Len(log) <= Len(log')
    BY <1>1, <1>2, LogFacts
  <2>2. /\ wanted' = wanted /\ untold' = untold /\ overtaken' = overtaken
        /\ cutOff' \subseteq cutOff \cup Own /\ passedBy' \subseteq passedBy \cup Own
        /\ failed' = failed
    BY <1>2 DEF Drop, Restart, Disconnected, request
  <2> QED
    BY <1>1, <2>1, <2>2, HistoryGrows
<1>5. TypeOK'
  BY <1>1, <1>2, <1>3, <1>4, <1>9, Zenon DEF TypeOK, request, page, Event, TooSlow, Seqs
<1>6. Own' = Own
  BY <1>2 DEF Own
<1>7. queue' \in Seq(Messages') /\ wire' \in Seq((Messages \cup Hellos)')
  BY <1>2, EmptySeq
<1>8. FramesInv'
  BY <1>1, <1>2, <1>4, <1>6, <1>7 DEF FramesInv, page
<1> QED
  BY <1>5, <1>8 DEF Framed

LEMMA InitFramed ==
  ASSUME Init
  PROVE  Framed
<1>1. log = <<>> /\ log \in Seq(Kinds) /\ Len(log) = 0 /\ 0..Len(log) = {0}
  BY EmptySeq DEF Init
<1>2. TypeOK
  <2>1. unheard \in [Publishers -> Seq(1..Len(log))] /\ loop \in Seq(Seq(1..Len(log)))
    <3>1. <<>> \in Seq(1..Len(log)) /\ <<>> \in Seq(Seq(1..Len(log)))
      BY EmptySeq
    <3> QED
      BY <3>1 DEF Init
  <2>2. phase \in [Publishers -> {"idle", "publish", "trim"}]
    BY DEF Init
  <2>3. queue = <<>> /\ wire = <<>> /\ Len(queue) = 0 /\ Len(wire) = 0
    BY DEF Init
  <2>4. HistoryOK
    BY DEF Init, HistoryOK
  <2> QED
    BY <1>1, <2>1, <2>2, <2>3, <2>4, Sizes DEF Init, TypeOK
<1>3. FramesInv
  <2>1. queue = <<>> /\ wire = <<>> /\ live = {}
    BY DEF Init
  <2>2. queue \in Seq(Messages) /\ wire \in Seq(Messages \cup Hellos)
    BY <2>1, EmptySeq
  <2> QED
    BY <2>1, <2>2 DEF FramesInv
<1>4. AnnouncedInv
  <2>1. <<>> \in Seq(Lasting) /\ <<>> \in Seq(Seq(Lasting))
    BY EmptySeq
  <2> QED
    BY <2>1 DEF Init, AnnouncedInv
<1> QED
  BY <1>2, <1>3, <1>4 DEF Framed

\* A commit announces what it stored, a rollback nothing.
LEMMA LongerAnnounced ==
  ASSUME Framed, NEW n \in Nat, Longer(n)
  PROVE  /\ Lasting \subseteq Lasting' /\ Seq(Lasting) \subseteq Seq(Lasting')
         /\ Seq(Seq(Lasting)) \subseteq Seq(Seq(Lasting'))
<1>1. TypeOK /\ DOMAIN log = 1..Len(log)
  BY LogFacts DEF Framed
<1>2. DOMAIN log' = 1..Len(log') /\ 1..Len(log) \subseteq 1..Len(log')
  BY <1>1, LongerFacts
<1>3. PICK a, b : a = Lasting /\ b = Lasting'
  OBVIOUS
<1>4. a \subseteq b
  <2> SUFFICES ASSUME NEW s \in Lasting PROVE s \in Lasting'
    BY <1>3
  <2>1. s \in 1..Len(log) /\ log[s] # "void"
    BY <1>1 DEF Lasting
  <2>2. s \in DOMAIN log' /\ log'[s] = log[s]
    BY <1>2, <2>1 DEF Longer
  <2> QED
    BY <2>1, <2>2 DEF Lasting
<1>5. \A e \in Seq(a) : e \in Seq(b)
  BY <1>4, LargerSeq
<1>6. PICK c, d : c = Seq(a) /\ d = Seq(b)
  OBVIOUS
<1>7. \A e \in Seq(c) : e \in Seq(d)
  BY <1>5, <1>6, LargerSeq
<1> QED
  BY <1>3, <1>4, <1>5, <1>6, <1>7

LEMMA CommitAnnounced ==
  ASSUME Framed, NEW p \in Publishers, NEW b \in Seq(Storable), Commit(p, b)
  PROVE  AnnouncedInv'
<1>1. TypeOK /\ loop \in Seq(Seq(Lasting)) /\ unheard \in [Publishers -> Seq(Lasting)]
  BY DEF Framed, AnnouncedInv
<1>2. b \in Seq(Kinds)
  <2>1. Storable \subseteq Kinds
    BY DEF Storable
  <2> QED
    BY <2>1, LargerSeq
<1>3. Len(b) \in Nat /\ Longer(Len(b))
  BY <1>1, <1>2, CommitFacts
<1>4. /\ Seq(Lasting) \subseteq Seq(Lasting')
      /\ Seq(Seq(Lasting)) \subseteq Seq(Seq(Lasting'))
  BY <1>3, LongerAnnounced
<1>5. PICK u : u = [i \in DOMAIN b |-> Len(log) + i]
  OBVIOUS
<1>6. Len(log) \in Nat /\ DOMAIN b = 1..Len(b) /\ log \in Seq(Kinds)
  BY <1>1, LogFacts, LenProperties
<1>7. ASSUME NEW i \in 1..Len(b) PROVE u[i] \in Lasting'
  <2>1. log' = log \o b
    BY DEF Commit
  <2>2. /\ log' \in Seq(Kinds) /\ Len(log') = Len(log) + Len(b)
        /\ \A k \in 1 .. Len(log) + Len(b) : log'[k] =
             IF k <= Len(log) THEN log[k] ELSE b[k - Len(log)]
    BY <1>2, <1>6, <2>1, ConcatProperties
  <2>3. PICK k : k = Len(log) + i
    OBVIOUS
  <2>4. k \in 1 .. Len(log) + Len(b) /\ ~(k <= Len(log)) /\ k - Len(log) = i
    BY <1>3, <1>6, <2>3
  <2>5. log'[k] = b[i] /\ k \in DOMAIN log'
    BY <2>2, <2>4, LenProperties
  <2>6. b[i] \in Storable
    BY ElementOfSeq
  <2>7. u[i] = k
    BY <1>5, <1>6, <2>3
  <2> QED
    BY <2>5, <2>6, <2>7 DEF Lasting, Storable
<1>8. u \in Seq(Lasting')
  <2>1. PICK S : S = Lasting'
    OBVIOUS
  <2>2. DOMAIN u = 1..Len(b) /\ u \in [1..Len(b) -> S]
    BY <1>5, <1>6, <1>7, <2>1
  <2> QED
    BY <1>3, <2>1, <2>2
<1>9. unheard' = [unheard EXCEPT ![p] = u] /\ loop' = loop
  BY <1>5 DEF Commit
<1>10. unheard' \in [Publishers -> Seq(Lasting')]
  <2>1. PICK S, T : S = Seq(Lasting) /\ T = Seq(Lasting')
    OBVIOUS
  <2>2. S \subseteq T /\ unheard \in [Publishers -> S] /\ u \in T
    BY <1>1, <1>4, <1>8, <2>1
  <2>3. unheard' \in [Publishers -> T]
    BY <1>9, <2>2
  <2> QED
    BY <2>1, <2>3
<1> QED
  BY <1>1, <1>4, <1>9, <1>10 DEF AnnouncedInv

LEMMA NextAnnounced ==
  ASSUME Framed, [Next]_vars
  PROVE  AnnouncedInv'
<1>1. TypeOK /\ loop \in Seq(Seq(Lasting)) /\ unheard \in [Publishers -> Seq(Lasting)]
  BY DEF Framed, AnnouncedInv
<1>2. CASE IngestCommits
  <2>1. PICK b \in Batches : Commit("ingest", b)
    BY <1>2 DEF IngestCommits
  <2> QED
    BY <2>1, BatchFacts, CommitAnnounced DEF Publishers
<1>3. CASE OverrideCommits
  <2>1. PICK b : b = <<"other">> /\ Commit("override", b)
    BY <1>3 DEF OverrideCommits
  <2>2. b \in Seq(Storable) /\ "override" \in Publishers
    BY <2>1 DEF Publishers, Storable, Kinds
  <2> QED
    BY <2>1, <2>2, CommitAnnounced
<1>4. CASE Rollback
  <2>1. Longer(1) /\ loop' = loop /\ unheard' = unheard
    BY <1>1, <1>4, RollbackFacts DEF Rollback, threads
  <2>2. /\ Seq(Lasting) \subseteq Seq(Lasting')
        /\ Seq(Seq(Lasting)) \subseteq Seq(Seq(Lasting'))
    BY <2>1, LongerAnnounced
  <2>3. PICK S, T : S = Seq(Lasting) /\ T = Seq(Lasting')
    OBVIOUS
  <2>4. unheard' \in [Publishers -> T]
    <3>1. S \subseteq T /\ unheard \in [Publishers -> S]
      BY <1>1, <2>2, <2>3
    <3> QED
      BY <2>1, <3>1
  <2> QED
    BY <1>1, <2>1, <2>2, <2>3, <2>4 DEF AnnouncedInv
<1>5. CASE log' # log
  BY <1>2, <1>3, <1>4, <1>5, Zenon
     DEF Next, vars, database, Publish, Trim, Fanout, Connect, ReadOldest, Greet, Send,
         Receive, Answer, Land, Drop, Restart, FetchFail
<1>6. CASE log' = log
  <2>1. Lasting' = Lasting
    BY <1>6 DEF Lasting
  <2>2. PICK S : S = Seq(Lasting)
    OBVIOUS
  <2>3. loop \in Seq(S) /\ unheard \in [Publishers -> S] /\ <<>> \in S /\ <<>> \in Seq(S)
    BY <1>1, <2>2, EmptySeq
  <2>4. loop' \in Seq(S) /\ unheard' \in [Publishers -> S]
    <3>1. CASE \E p \in Publishers : Publish(p)
      <4>1. PICK p \in Publishers : Publish(p)
        BY <3>1
      <4>2. PICK u : u = unheard[p]
        OBVIOUS
      <4>3. u \in S
        BY <2>3, <4>2
      <4>4. Append(loop, u) \in Seq(S)
        BY <2>3, <4>3, AppendProperties
      <4>5. loop' = loop \/ loop' = Append(loop, u)
        BY <1>1, <4>1, <4>2, PublishFacts
      <4>6. unheard' = [unheard EXCEPT ![p] = <<>>]
        BY <1>1, <4>1, PublishFacts
      <4> QED
        BY <2>3, <4>4, <4>5, <4>6
    <3>2. CASE Fanout
      <4>1. loop # <<>> /\ loop' = Tail(loop) /\ unheard' = unheard
        BY <3>2 DEF Fanout, threads
      <4>2. Tail(loop) \in Seq(S)
        BY <2>3, <4>1, HeadTailProperties
      <4> QED
        BY <2>3, <4>1, <4>2
    <3>3. CASE Restart
      BY <2>3, <3>3 DEF Restart
    <3>4. CASE IngestCommits \/ OverrideCommits \/ Rollback
      BY <1>2, <1>3, <1>4, <2>1, <2>2, <3>4 DEF AnnouncedInv
    <3>5. CASE loop' = loop /\ unheard' = unheard
      BY <2>3, <3>5
    <3> QED
      BY <3>1, <3>2, <3>3, <3>4, <3>5, Zenon
         DEF Next, vars, threads, Trim, Connect, ReadOldest, Greet, Send,
             Receive, Answer, Land, Drop, FetchFail
  <2> QED
    BY <2>1, <2>2, <2>4 DEF AnnouncedInv
<1> QED
  BY <1>5, <1>6

LEMMA NextFramed ==
  ASSUME Framed, [Next]_vars
  PROVE  Framed'
<1> SUFFICES TypeOK' /\ FramesInv'
  BY NextAnnounced DEF Framed
<1>1. CASE IngestCommits
  <2>1. PICK b \in Batches : Commit("ingest", b)
    BY <1>1 DEF IngestCommits
  <2>2. b \in Seq(Kinds) /\ "ingest" \in Publishers
    BY BatchFacts DEF Publishers
  <2> QED
    BY <2>1, <2>2, CommitFramed
<1>2. CASE OverrideCommits
  <2>1. Commit("override", <<"other">>)
    BY <1>2 DEF OverrideCommits
  <2>2. PICK b : b = <<"other">>
    OBVIOUS
  <2>3. b \in Seq(Kinds) /\ "override" \in Publishers
    BY <2>2 DEF Publishers, Kinds
  <2>4. Commit("override", b)
    BY <2>1, <2>2
  <2> QED
    BY <2>3, <2>4, CommitFramed
<1>3. CASE Rollback
  BY <1>3, RollbackFramed
<1>4. CASE \E p \in Publishers : Publish(p)
  BY <1>4, PublishFramed
<1>5. CASE Trim
  BY <1>5, TrimFramed
<1>6. CASE Fanout
  BY <1>6, FanoutFramed
<1>7. CASE Connect \/ ReadOldest
  BY <1>7, ConnectFramed
<1>8. CASE Greet
  BY <1>8, GreetFramed
<1>9. CASE Send
  BY <1>9, SendFramed
<1>10. CASE Receive
  BY <1>10, ReceiveFramed
<1>11. CASE Answer \/ Land \/ FetchFail
  BY <1>11, RequestFramed
<1>12. CASE Drop \/ Restart
  BY <1>12, DisconnectedFramed
<1>13. CASE UNCHANGED vars
  <2>1. /\ UNCHANGED <<log, trimmed, threads, loop, faults>>
        /\ UNCHANGED socket /\ UNCHANGED request /\ UNCHANGED page
        /\ UNCHANGED <<untold, overtaken, losses>>
    BY <1>13 DEF vars, database
  <2>5. HistoryOK'
    BY <2>1, Zenon DEF Framed, TypeOK, HistoryOK, losses, request
  <2>2. TypeOK'
    BY <2>1, <2>5, Zenon DEF Framed, TypeOK, threads, socket, handshake, request, page,
                       Event, TooSlow, Seqs
  <2>3. live' \subseteq Own
    BY <2>1 DEF Framed, FramesInv, page
  <2>4. FramesInv'
    BY <2>1, <2>3, SameFrames DEF Framed
  <2> QED
    BY <2>2, <2>4 DEF Framed
<1> QED
  BY <1>1, <1>2, <1>3, <1>4, <1>5, <1>6, <1>7, <1>8, <1>9, <1>10, <1>11, <1>12, <1>13,
     Zenon DEF Next

LEMMA FramedHolds == Spec => []Framed
<1>1. Init => Framed
  BY InitFramed
<1>2. Framed /\ [Next]_vars => Framed'
  BY NextFramed
<1> QED
  BY <1>1, <1>2, PTL DEF Spec

\* Every variable stays in its range: the numbers a page, a request and a
\* handshake hold are of the log, and no queue outgrows its bound.
THEOREM TypeCorrect == Spec => []TypeOK
<1>1. Framed => TypeOK
  BY DEF Framed
<1> QED
  BY <1>1, FramedHolds, PTL

\* No page hears of, or shows, an event of somebody else or one rolled back,
\* however threads, trims, slow sockets, broken connections and restarts mix:
\* the filter of Hub._fanout and the replay's WHERE clause are enough.
THEOREM OnlyOwnIsTold == Spec => []OnlyOwnAndStored
<1>1. Framed => OnlyOwnAndStored
  <2> SUFFICES ASSUME Framed PROVE OnlyOwnAndStored
    OBVIOUS
  <2>1. queue \in Seq(Messages) /\ wire \in Seq(Messages \cup Hellos) /\ live \subseteq Own
    BY DEF Framed, FramesInv
  <2>2. \A i \in DOMAIN queue : queue[i] \in Messages \cup Hellos
    BY <2>1, LenProperties, ElementOfSeq
  <2>3. \A i \in DOMAIN wire : wire[i] \in Messages \cup Hellos
    BY <2>1, LenProperties, ElementOfSeq
  <2> QED
    BY <2>1, <2>2, <2>3, FrameKinds DEF OnlyOwnAndStored
<1> QED
  BY <1>1, FramedHolds, PTL

-----------------------------------------------------------------------------
(* What is announced out of its turn is known to be overtaken.               *)

\* The number s was overtaken, and not as one reading by another: the readings
\* are all announced by the same thread.
Late(o, l, s, t) == s \in o /\ ~(l[s] = "sample" /\ l[t] = "sample")

\* It is right to announce t before s.
InTurn(o, l, t, s) == t <= s \/ Late(o, l, s, t)

RiseInv ==
  /\ \A i \in DOMAIN loop : Rising(loop[i])
  /\ \A i, j \in DOMAIN loop : i < j =>
       \A k \in DOMAIN loop[i], l \in DOMAIN loop[j] : InTurn(overtaken, log, loop[i][k], loop[j][l])
  /\ \A p \in Publishers : Rising(unheard[p])
  /\ \A p \in Publishers : phase[p] # "publish" => unheard[p] = <<>>
  /\ \A l \in DOMAIN unheard["override"] : log[unheard["override"][l]] = "other"
  /\ \A p \in Publishers : \A i \in DOMAIN loop :
       \A k \in DOMAIN loop[i], l \in DOMAIN unheard[p] : InTurn(overtaken, log, loop[i][k], unheard[p][l])

LEMMA LoopFacts ==
  ASSUME TypeOK
  PROVE  /\ Len(loop) \in Nat /\ DOMAIN loop = 1..Len(loop)
         /\ \A i \in 1..Len(loop) : /\ loop[i] \in Seq(1..Len(log))
                                    /\ \A k \in DOMAIN loop[i] : loop[i][k] \in 1..Len(log)
         /\ \A p \in Publishers : /\ unheard[p] \in Seq(1..Len(log))
                                  /\ \A k \in DOMAIN unheard[p] : unheard[p][k] \in 1..Len(log)
<1>1. PICK S : S = Seq(1..Len(log))
  OBVIOUS
<1>2. loop \in Seq(S) /\ unheard \in [Publishers -> S]
  BY <1>1 DEF TypeOK
<1>3. \A e \in S : \A k \in DOMAIN e : e[k] \in 1..Len(log)
  BY <1>1, LenProperties, ElementOfSeq
<1>4. Len(loop) \in Nat /\ DOMAIN loop = 1..Len(loop) /\ \A i \in 1..Len(loop) : loop[i] \in S
  BY <1>2, LenProperties, ElementOfSeq
<1>5. \A p \in Publishers : unheard[p] \in S
  BY <1>2
<1> QED
  BY <1>1, <1>3, <1>4, <1>5

\* Turns last: the log only grows, and what is overtaken stays so.
LEMMA TurnsLast ==
  ASSUME NEW s \in 1..Len(log), NEW t \in 1..Len(log), overtaken \subseteq overtaken',
         \A x \in 1..Len(log) : log'[x] = log[x]
  PROVE  /\ Late(overtaken, log, s, t) => Late(overtaken', log', s, t)
         /\ InTurn(overtaken, log, t, s) => InTurn(overtaken', log', t, s)
<1>1. log'[s] = log[s] /\ log'[t] = log[t]
  OBVIOUS
<1> QED
  BY <1>1 DEF Late, InTurn

LEMMA CommitRise ==
  ASSUME Framed, RiseInv, NEW p \in Publishers, NEW b \in Seq(Kinds), Commit(p, b),
         p = "override" => \A k \in DOMAIN b : b[k] = "other"
  PROVE  RiseInv' /\ unheard[p] = <<>>
<1>1. TypeOK
  BY DEF Framed
<1>2. unheard[p] = <<>>
  BY DEF Commit, RiseInv
<1>3. /\ Len(b) \in Nat /\ Len(log) \in Nat /\ Longer(Len(b))
      /\ unheard' \in [Publishers -> Seq(1..Len(log'))] /\ Len(unheard'[p]) = Len(b)
      /\ \A k \in 1..Len(b) : unheard'[p][k] = Len(log) + k
      /\ \A q \in Publishers : q # p => unheard'[q] = unheard[q]
  BY <1>1, CommitFacts, LogFacts
<1>4. PICK u : u = unheard'[p]
  OBVIOUS
<1>5. DOMAIN u = 1..Len(b) /\ \A k \in 1..Len(b) : u[k] = Len(log) + k
  <2>1. u \in Seq(1..Len(log'))
    BY <1>3, <1>4
  <2>2. DOMAIN u = 1..Len(u)
    BY <2>1, LenProperties
  <2> QED
    BY <1>3, <1>4, <2>2
<1>6. /\ loop' = loop /\ overtaken \subseteq overtaken'
      /\ \A x \in 1..Len(log) : log'[x] = log[x]
  BY <1>3 DEF Commit, Longer
<1>7. \A s, t \in 1..Len(log) : InTurn(overtaken, log, t, s) => InTurn(overtaken', log', t, s)
  BY <1>6, TurnsLast
<1>8. Rising(u)
  BY <1>3, <1>5 DEF Rising
<1>9. \A q \in Publishers : Rising(unheard'[q])
  BY <1>3, <1>4, <1>8 DEF RiseInv
<1>10. \A q \in Publishers : phase'[q] # "publish" => unheard'[q] = <<>>
  <2>1. /\ phase' = [phase EXCEPT ![p] = "publish"]
        /\ phase \in [Publishers -> {"idle", "publish", "trim"}]
    BY <1>1 DEF Commit, TypeOK
  <2>2. \A q \in Publishers : phase'[q] # "publish" => q # p /\ phase[q] # "publish"
    BY <2>1
  <2> QED
    BY <1>3, <2>2 DEF RiseInv
<1>11. ASSUME NEW l \in DOMAIN unheard'["override"]
       PROVE  log'[unheard'["override"][l]] = "other"
  <2>1. CASE p = "override"
    <3>1. l \in 1..Len(b) /\ unheard'["override"][l] = Len(log) + l
      BY <1>4, <1>5, <1>11, <2>1
    <3>2. log' = log \o b /\ log \in Seq(Kinds)
      BY <1>1, LogFacts DEF Commit
    <3>3. \A k \in 1 .. Len(log) + Len(b) : log'[k] =
             IF k <= Len(log) THEN log[k] ELSE b[k - Len(log)]
      BY <3>2, ConcatProperties
    <3>4. PICK k : k = Len(log) + l
      OBVIOUS
    <3>5. k \in 1 .. Len(log) + Len(b) /\ ~(k <= Len(log)) /\ k - Len(log) = l
      BY <1>3, <3>1, <3>4
    <3>6. log'[k] = b[l] /\ l \in DOMAIN b
      BY <3>1, <3>3, <3>5, LenProperties
    <3> QED
      BY <2>1, <3>1, <3>4, <3>6
  <2>2. CASE p # "override"
    <3>1. PICK o : o = unheard["override"]
      OBVIOUS
    <3>2. unheard'["override"] = o /\ "override" \in Publishers
      BY <1>3, <2>2, <3>1 DEF Publishers
    <3>3. l \in DOMAIN o /\ log[o[l]] = "other" /\ o[l] \in 1..Len(log)
      BY <1>1, <1>11, <3>1, <3>2, LoopFacts DEF RiseInv
    <3> QED
      BY <1>6, <3>2, <3>3
  <2> QED
    BY <2>1, <2>2
<1>12. ASSUME NEW i \in DOMAIN loop, NEW j \in DOMAIN loop, i < j,
              NEW k \in DOMAIN loop[i], NEW l \in DOMAIN loop[j]
       PROVE  InTurn(overtaken', log', loop[i][k], loop[j][l])
  <2>1. PICK t, s : t = loop[i][k] /\ s = loop[j][l]
    OBVIOUS
  <2>2. t \in 1..Len(log) /\ s \in 1..Len(log)
    BY <1>1, <2>1, LoopFacts
  <2>3. InTurn(overtaken, log, t, s)
    BY <1>12, <2>1 DEF RiseInv
  <2>4. InTurn(overtaken', log', t, s)
    BY <1>7, <2>2, <2>3
  <2> QED
    BY <2>1, <2>4
<1>13. ASSUME NEW q \in Publishers, NEW i \in DOMAIN loop, NEW k \in DOMAIN loop[i],
              NEW l \in DOMAIN unheard'[q]
       PROVE  InTurn(overtaken', log', loop[i][k], unheard'[q][l])
  <2>1. PICK t, s : t = loop[i][k] /\ s = unheard'[q][l]
    OBVIOUS
  <2>2. t \in 1..Len(log)
    BY <1>1, <2>1, LoopFacts
  <2>3. InTurn(overtaken', log', t, s)
    <3>1. CASE q = p
      <4>1. l \in 1..Len(b) /\ s = Len(log) + l
        BY <1>4, <1>5, <1>13, <2>1, <3>1
      <4>2. t <= s
        BY <1>3, <2>2, <4>1
      <4> QED
        BY <4>2 DEF InTurn
    <3>2. CASE q # p
      <4>1. unheard'[q] = unheard[q]
        BY <1>3, <3>2
      <4>2. s \in 1..Len(log) /\ InTurn(overtaken, log, t, s)
        BY <1>1, <1>13, <2>1, <4>1, LoopFacts DEF RiseInv
      <4> QED
        BY <1>7, <2>2, <4>2
    <3> QED
      BY <3>1, <3>2
  <2> QED
    BY <2>1, <2>3
<1>14. \A i \in DOMAIN loop : Rising(loop[i])
  BY DEF RiseInv
<1> QED
  BY <1>2, <1>6, <1>9, <1>10, <1>11, <1>12, <1>13, <1>14 DEF RiseInv

\* One thread is the ingest and the other the overrides: whoever announces
\* first overtakes what the other has waiting below.
LEMMA PublishRise ==
  ASSUME Framed, RiseInv, NEW p \in Publishers, Publish(p)
  PROVE  RiseInv'
<1>1. TypeOK
  BY DEF Framed
<1>2. /\ unheard' = [unheard EXCEPT ![p] = <<>>]
      /\ phase'[p] # "publish" /\ \A q \in Publishers : q # p => phase'[q] = phase[q]
      /\ loop' = loop \/ loop' = Append(loop, unheard[p])
      /\ unheard \in [Publishers -> Seq(1..Len(log))]
  BY <1>1, PublishFacts DEF TypeOK
<1>3. /\ log' = log /\ overtaken' = overtaken \cup LeftBehind(p)
      /\ \A x \in 1..Len(log) : log'[x] = log[x]
  BY DEF Publish, database
<1>4. \A s, t \in 1..Len(log) : InTurn(overtaken, log, t, s) => InTurn(overtaken', log', t, s)
  BY <1>3, TurnsLast
<1>5. unheard'[p] = <<>> /\ \A q \in Publishers : q # p => unheard'[q] = unheard[q]
  BY <1>2
<1>6. DOMAIN <<>> = {} /\ Rising(<<>>)
  BY DEF Rising
<1>7. \A q \in Publishers : Rising(unheard'[q])
  BY <1>5, <1>6 DEF RiseInv
<1>8. \A q \in Publishers : phase'[q] # "publish" => unheard'[q] = <<>>
  BY <1>2, <1>5 DEF RiseInv
<1>9. ASSUME NEW l \in DOMAIN unheard'["override"]
      PROVE  log'[unheard'["override"][l]] = "other"
  <2>1. "override" \in Publishers
    BY DEF Publishers
  <2>2. unheard'["override"] = <<>> \/ unheard'["override"] = unheard["override"]
    BY <1>5, <2>1
  <2> QED
    BY <1>3, <1>6, <1>9, <2>2 DEF RiseInv
\* What the other thread has waiting is overtaken, or above.
<1>10. ASSUME NEW q \in Publishers, q # p, NEW k \in DOMAIN unheard[p], NEW l \in DOMAIN unheard[q]
       PROVE  InTurn(overtaken', log', unheard[p][k], unheard[q][l])
  <2>1. PICK t, s : t = unheard[p][k] /\ s = unheard[q][l]
    OBVIOUS
  <2>2. t \in 1..Len(log) /\ s \in 1..Len(log) /\ DOMAIN log = 1..Len(log) /\ Len(log) \in Nat
    BY <1>1, <2>1, LoopFacts, LogFacts
  <2>3. log[s] = "other" \/ log[t] = "other"
    BY <1>10, <2>1 DEF RiseInv, Publishers
  <2>5. s < t => s \in LeftBehind(p)
    BY <1>10, <2>1, <2>2 DEF LeftBehind
  <2>6. t <= s \/ (s \in overtaken' /\ ~(log'[s] = "sample" /\ log'[t] = "sample"))
    BY <1>3, <2>2, <2>3, <2>5
  <2> QED
    BY <2>1, <2>6 DEF InTurn, Late
<1>11. ASSUME NEW q \in Publishers, NEW i \in DOMAIN loop, NEW k \in DOMAIN loop[i],
              NEW l \in DOMAIN unheard[q]
       PROVE  InTurn(overtaken', log', loop[i][k], unheard[q][l])
  <2>1. PICK t, s : t = loop[i][k] /\ s = unheard[q][l]
    OBVIOUS
  <2>2. t \in 1..Len(log) /\ s \in 1..Len(log) /\ InTurn(overtaken, log, t, s)
    BY <1>1, <1>11, <2>1, LoopFacts DEF RiseInv
  <2>3. InTurn(overtaken', log', t, s)
    BY <1>4, <2>2
  <2> QED
    BY <2>1, <2>3
<1>12. ASSUME NEW i \in DOMAIN loop, NEW j \in DOMAIN loop, i < j,
              NEW k \in DOMAIN loop[i], NEW l \in DOMAIN loop[j]
       PROVE  InTurn(overtaken', log', loop[i][k], loop[j][l])
  <2>1. PICK t, s : t = loop[i][k] /\ s = loop[j][l]
    OBVIOUS
  <2>2. t \in 1..Len(log) /\ s \in 1..Len(log) /\ InTurn(overtaken, log, t, s)
    BY <1>1, <1>12, <2>1, LoopFacts DEF RiseInv
  <2>3. InTurn(overtaken', log', t, s)
    BY <1>4, <2>2
  <2> QED
    BY <2>1, <2>3
<1>13. CASE loop' = loop
  <2>1. ASSUME NEW q \in Publishers, NEW i \in DOMAIN loop, NEW k \in DOMAIN loop[i],
               NEW l \in DOMAIN unheard'[q]
        PROVE  InTurn(overtaken', log', loop[i][k], unheard'[q][l])
    <3>1. unheard'[q] = unheard[q]
      BY <1>5, <1>6, <2>1
    <3> QED
      BY <1>11, <2>1, <3>1
  <2>2. \A i \in DOMAIN loop : Rising(loop[i])
    BY DEF RiseInv
  <2> QED
    BY <1>7, <1>8, <1>9, <1>12, <1>13, <2>1, <2>2 DEF RiseInv
<1>14. CASE loop' = Append(loop, unheard[p])
  <2>1. PICK n, S, u : n = Len(loop) /\ S = Seq(1..Len(log)) /\ u = unheard[p]
    OBVIOUS
  <2>2. loop \in Seq(S) /\ u \in S /\ n \in Nat /\ DOMAIN loop = 1..n
    BY <1>1, <1>2, <2>1, LoopFacts DEF TypeOK
  <2>3. PICK g : g = Append(loop, u)
    OBVIOUS
  <2>4. /\ g \in Seq(S) /\ Len(g) = n + 1 /\ \A i \in 1..n : g[i] = loop[i]
        /\ g[n + 1] = u
    BY <2>1, <2>2, <2>3, AppendProperties
  <2>5. DOMAIN g = 1..(n + 1) /\ \A i \in 1..(n + 1) : i \in 1..n \/ i = n + 1
    BY <2>2, <2>4, LenProperties
  <2>6. \A i \in 1..(n + 1) : Rising(g[i])
    <3>1. Rising(u) /\ \A i \in 1..n : Rising(loop[i])
      BY <2>1, <2>2 DEF RiseInv
    <3> QED
      BY <2>4, <2>5, <3>1
  <2>7. ASSUME NEW i \in 1..(n + 1), NEW j \in 1..(n + 1), i < j,
               NEW k \in DOMAIN g[i], NEW l \in DOMAIN g[j]
        PROVE  InTurn(overtaken', log', g[i][k], g[j][l])
    <3>1. i \in 1..n /\ (j \in 1..n \/ j = n + 1)
      BY <2>2, <2>7
    <3>2. g[i] = loop[i] /\ (j \in 1..n => g[j] = loop[j]) /\ (j = n + 1 => g[j] = u)
      BY <2>4, <3>1
    <3>3. CASE j \in 1..n
      BY <1>12, <2>2, <2>7, <3>1, <3>2, <3>3
    <3>4. CASE j = n + 1
      BY <1>11, <2>1, <2>2, <2>7, <3>1, <3>2, <3>4
    <3> QED
      BY <3>1, <3>3, <3>4
  <2>8. ASSUME NEW q \in Publishers, NEW i \in 1..(n + 1), NEW k \in DOMAIN g[i],
               NEW l \in DOMAIN unheard'[q]
        PROVE  InTurn(overtaken', log', g[i][k], unheard'[q][l])
    <3>1. q # p /\ unheard'[q] = unheard[q]
      BY <1>5, <1>6, <2>8
    <3>2. CASE i \in 1..n
      <4>1. g[i] = loop[i]
        BY <2>4, <3>2
      <4> QED
        BY <1>11, <2>2, <2>8, <3>1, <3>2, <4>1
    <3>3. CASE i = n + 1
      <4>1. g[i] = unheard[p]
        BY <2>1, <2>4, <3>3
      <4> QED
        BY <1>10, <2>8, <3>1, <4>1
    <3> QED
      BY <2>5, <3>2, <3>3
  <2>9. loop' = g
    BY <1>14, <2>1, <2>3
  <2> QED
    BY <1>7, <1>8, <1>9, <2>5, <2>6, <2>7, <2>8, <2>9 DEF RiseInv
<1> QED
  BY <1>2, <1>13, <1>14

LEMMA FanoutRise ==
  ASSUME Framed, RiseInv, Fanout
  PROVE  /\ RiseInv'
         /\ Len(loop) \in Nat \ {0} /\ DOMAIN loop = 1..Len(loop) /\ Head(loop) = loop[1]
         /\ DOMAIN loop' = 1..(Len(loop) - 1)
         /\ \A i \in 1..(Len(loop) - 1) : loop'[i] = loop[i + 1]
<1>1. TypeOK
  BY DEF Framed
<1>2. /\ loop # <<>> /\ loop' = Tail(loop)
      /\ phase' = phase /\ unheard' = unheard /\ log' = log /\ overtaken' = overtaken
  BY DEF Fanout, threads, database
<1>3. PICK S : S = Seq(1..Len(log))
  OBVIOUS
<1>4. loop \in Seq(S)
  BY <1>1, <1>3 DEF TypeOK
<1>5. Len(loop) \in Nat \ {0} /\ DOMAIN loop = 1..Len(loop) /\ Head(loop) = loop[1]
  BY <1>2, <1>4
<1>6. /\ Tail(loop) \in Seq(S) /\ Len(Tail(loop)) = Len(loop) - 1
      /\ \A i \in 1..Len(Tail(loop)) : Tail(loop)[i] = loop[i + 1]
  BY <1>2, <1>4, HeadTailProperties
<1>7. PICK t, n : t = loop' /\ n = Len(loop) - 1
  OBVIOUS
<1>8. /\ t \in Seq(S) /\ Len(t) = n /\ n \in Nat /\ DOMAIN t = 1..n
      /\ \A i \in 1..n : t[i] = loop[i + 1] /\ i + 1 \in DOMAIN loop
  <2>1. t \in Seq(S) /\ Len(t) = n /\ n \in Nat
    BY <1>2, <1>5, <1>6, <1>7
  <2>2. DOMAIN t = 1..n
    BY <2>1, LenProperties
  <2>3. \A i \in 1..n : i + 1 \in 1..Len(loop)
    BY <1>5, <1>7
  <2> QED
    BY <1>2, <1>5, <1>6, <1>7, <2>1, <2>2, <2>3
<1>9. \A i, j \in 1..n : i < j => i + 1 < j + 1
  OBVIOUS
<1>10. /\ \A i \in DOMAIN t : Rising(t[i])
       /\ \A i, j \in DOMAIN t : i < j =>
            \A k \in DOMAIN t[i], l \in DOMAIN t[j] : InTurn(overtaken, log, t[i][k], t[j][l])
       /\ \A p \in Publishers : \A i \in DOMAIN t :
            \A k \in DOMAIN t[i], l \in DOMAIN unheard[p] :
              InTurn(overtaken, log, t[i][k], unheard[p][l])
  BY <1>8, <1>9 DEF RiseInv
<1>11. RiseInv'
  BY <1>2, <1>7, <1>10 DEF RiseInv
<1> QED
  BY <1>5, <1>7, <1>8, <1>11

LEMMA RollbackRise ==
  ASSUME Framed, RiseInv, Rollback
  PROVE  RiseInv'
<1>1. TypeOK
  BY DEF Framed
<1>2. /\ loop' = loop /\ unheard' = unheard /\ phase' = phase /\ overtaken \subseteq overtaken'
      /\ \A x \in 1..Len(log) : log'[x] = log[x]
  BY <1>1, RollbackFacts DEF Rollback, threads, Longer
<1>3. \A s, t \in 1..Len(log) : InTurn(overtaken, log, t, s) => InTurn(overtaken', log', t, s)
  BY <1>2, TurnsLast
<1>4. ASSUME NEW l \in DOMAIN unheard["override"]
      PROVE  log'[unheard["override"][l]] = "other"
  <2>1. "override" \in Publishers
    BY DEF Publishers
  <2>2. unheard["override"][l] \in 1..Len(log) /\ log[unheard["override"][l]] = "other"
    BY <1>1, <1>4, <2>1, LoopFacts DEF RiseInv
  <2> QED
    BY <1>2, <2>2
<1>5. /\ \A i \in DOMAIN loop : \A k \in DOMAIN loop[i] : loop[i][k] \in 1..Len(log)
      /\ \A p \in Publishers : \A k \in DOMAIN unheard[p] : unheard[p][k] \in 1..Len(log)
  BY <1>1, LoopFacts
<1>6. ASSUME NEW i \in DOMAIN loop, NEW j \in DOMAIN loop, i < j,
             NEW k \in DOMAIN loop[i], NEW l \in DOMAIN loop[j]
      PROVE  InTurn(overtaken', log', loop[i][k], loop[j][l])
  <2>1. InTurn(overtaken, log, loop[i][k], loop[j][l])
    BY <1>6 DEF RiseInv
  <2> QED
    BY <1>3, <1>5, <1>6, <2>1
<1>7. ASSUME NEW p \in Publishers, NEW i \in DOMAIN loop, NEW k \in DOMAIN loop[i],
             NEW l \in DOMAIN unheard[p]
      PROVE  InTurn(overtaken', log', loop[i][k], unheard[p][l])
  <2>1. InTurn(overtaken, log, loop[i][k], unheard[p][l])
    BY <1>7 DEF RiseInv
  <2> QED
    BY <1>3, <1>5, <1>7, <2>1
<1> QED
  BY <1>2, <1>4, <1>6, <1>7 DEF RiseInv

LEMMA RestRise ==
  ASSUME Framed, RiseInv, Trim \/ Connect \/ ReadOldest \/ Greet \/ Send \/ Receive
                           \/ Answer \/ Land \/ FetchFail \/ Drop \/ UNCHANGED vars
  PROVE  RiseInv'
<1>1. loop' = loop /\ unheard' = unheard /\ log' = log /\ overtaken' = overtaken
  BY DEF Trim, Connect, ReadOldest, Greet, Send, Receive, Answer, Land, FetchFail,
         Drop, vars, threads, database
<1>2. \A p \in Publishers : phase'[p] = "publish" <=> phase[p] = "publish"
  <2>1. CASE Trim
    BY <2>1 DEF Trim, Framed, TypeOK
  <2>2. CASE ~Trim
    BY <2>2 DEF Connect, ReadOldest, Greet, Send, Receive, Answer, Land, FetchFail,
                Drop, vars, threads
  <2> QED
    BY <2>1, <2>2
<1> QED
  BY <1>1, <1>2 DEF RiseInv

LEMMA RestartRise ==
  ASSUME Restart
  PROVE  RiseInv'
<1>1. /\ loop' = <<>>
      /\ \A p \in Publishers : phase'[p] = "idle" /\ unheard'[p] = <<>>
      /\ unheard'["override"] = <<>>
  BY DEF Restart, Publishers
<1>2. DOMAIN <<>> = {} /\ Rising(<<>>)
  BY DEF Rising
<1> QED
  BY <1>1, <1>2 DEF RiseInv

\* The two threads that commit.
LEMMA WhoCommits ==
  ASSUME IngestCommits \/ OverrideCommits
  PROVE  \E p \in Publishers : \E b \in Seq(Kinds) :
           /\ Commit(p, b) /\ b \in Seq(Storable)
           /\ p = "override" => \A k \in DOMAIN b : b[k] = "other"
<1>1. CASE IngestCommits
  <2>1. PICK b \in Batches : Commit("ingest", b)
    BY <1>1 DEF IngestCommits
  <2>2. b \in Seq(Kinds) /\ b \in Seq(Storable) /\ "ingest" \in Publishers /\ "ingest" # "override"
    BY BatchFacts DEF Publishers
  <2> QED
    BY <2>1, <2>2
<1>2. CASE OverrideCommits
  <2>1. PICK b : b = <<"other">>
    OBVIOUS
  <2>2. /\ Commit("override", b) /\ b \in Seq(Kinds) /\ b \in Seq(Storable)
        /\ "override" \in Publishers /\ \A k \in DOMAIN b : b[k] = "other"
    BY <1>2, <2>1 DEF OverrideCommits, Publishers, Kinds, Storable
  <2> QED
    BY <2>2
<1> QED
  BY <1>1, <1>2

LEMMA NextRise ==
  ASSUME Framed, RiseInv, [Next]_vars
  PROVE  RiseInv'
<1>1. CASE IngestCommits \/ OverrideCommits
  BY <1>1, WhoCommits, CommitRise
<1>2. CASE Rollback
  BY <1>2, RollbackRise
<1>3. CASE \E p \in Publishers : Publish(p)
  BY <1>3, PublishRise
<1>4. CASE Fanout
  BY <1>4, FanoutRise
<1>5. CASE Restart
  BY <1>5, RestartRise
<1>6. CASE Trim \/ Connect \/ ReadOldest \/ Greet \/ Send \/ Receive
           \/ Answer \/ Land \/ FetchFail \/ Drop \/ UNCHANGED vars
  BY <1>6, RestRise
<1> QED
  BY <1>1, <1>2, <1>3, <1>4, <1>5, <1>6, Zenon DEF Next
-----------------------------------------------------------------------------
(* What is deleted is far behind something that is not, and a handshake is not *)
(* far behind what is stored.                                                  *)

RetainedInv ==
  /\ trimmed # 0 => \E s \in Stored : trimmed + Retention <= s
  /\ conn \in {"latest", "oldest"} => \A s \in Stored : s <= current + HandshakeCommits

LEMMA LongerRetained ==
  ASSUME Framed, RetainedInv, NEW n \in Nat, Longer(n), trimmed' = trimmed,
         UNCHANGED socket,
         conn \in {"latest", "oldest"} => Len(log') <= current + HandshakeCommits
  PROVE  RetainedInv'
<1>1. TypeOK /\ conn' = conn /\ current' = current
  BY DEF Framed, socket, handshake
<1>2. Len(log) \in Nat /\ DOMAIN log = 1..Len(log) /\ DOMAIN log' = 1..Len(log')
      /\ Len(log') \in Nat /\ 1..Len(log) \subseteq 1..Len(log')
  BY <1>1, LogFacts, LongerFacts
<1>3. Stored \subseteq Stored'
  BY <1>2 DEF Stored, Longer
<1>4. \A s \in Stored' : s \in Nat /\ s <= Len(log')
  BY <1>2 DEF Stored
<1>5. trimmed' # 0 => \E s \in Stored' : trimmed' + Retention <= s
  BY <1>3 DEF RetainedInv
<1>6. conn' \in {"latest", "oldest"} => \A s \in Stored' : s <= current' + HandshakeCommits
  <2>1. current \in Nat
    BY <1>1, <1>2 DEF TypeOK
  <2> QED
    BY <1>1, <1>2, <1>4, <2>1, Sizes
<1> QED
  BY <1>5, <1>6 DEF RetainedInv

LEMMA TrimRetained ==
  ASSUME Framed, RetainedInv, Trim
  PROVE  RetainedInv'
<1>1. TypeOK
  BY DEF Framed
<1>2. /\ log' = log /\ conn' = conn /\ current' = current
  BY DEF Trim, socket, handshake
<1>3. /\ trimmed' \in 0..Len(log) /\ trimmed <= trimmed'
      /\ trimmed' = trimmed \/ trimmed' = Latest - Retention
  BY <1>1, TrimFacts
<1>4. /\ Len(log) \in Nat /\ DOMAIN log = 1..Len(log) /\ Stored \subseteq 1..Len(log)
      /\ trimmed \in Nat /\ Latest \in 0..Len(log) /\ (Latest = 0 \/ Latest \in Stored)
  BY <1>1, LogFacts, LatestFacts
<1>5. Retention \in Nat /\ Retention > 0
  BY Sizes
<1>6. Stored' \subseteq Stored
  BY <1>2, <1>3, <1>4 DEF Stored
<1>7. trimmed' # 0 => \E s \in Stored' : trimmed' + Retention <= s
  <2>1. CASE trimmed' = trimmed
    <3>1. Stored' = Stored
      BY <1>2, <2>1 DEF Stored
    <3> QED
      BY <2>1, <3>1 DEF RetainedInv
  <2>2. CASE trimmed' = Latest - Retention /\ trimmed' # 0
    <3>1. Latest \in Stored /\ Latest > trimmed' /\ trimmed' + Retention <= Latest
      BY <1>3, <1>4, <1>5, <2>2
    <3>2. Latest \in DOMAIN log /\ log[Latest] # "void"
      BY <3>1 DEF Stored
    <3>3. PICK m : m = Latest
      OBVIOUS
    <3>4. m \in Stored'
      BY <1>2, <3>1, <3>2, <3>3 DEF Stored
    <3> QED
      BY <3>1, <3>3, <3>4
  <2> QED
    BY <1>3, <2>1, <2>2
<1> QED
  BY <1>2, <1>6, <1>7 DEF RetainedInv

LEMMA NextRetained ==
  ASSUME Framed, RetainedInv, [Next]_vars
  PROVE  RetainedInv'
<1>1. TypeOK
  BY DEF Framed
<1>2. ASSUME NEW p \in Publishers, NEW b \in Seq(Kinds), Commit(p, b)
      PROVE  RetainedInv'
  <2>1. Len(b) \in Nat /\ Longer(Len(b))
    BY <1>1, <1>2, CommitFacts
  <2>2. /\ trimmed' = trimmed /\ UNCHANGED socket
        /\ conn \in {"latest", "oldest"} => Len(log) + Len(b) <= current + HandshakeCommits
    BY <1>2 DEF Commit, Room
  <2>3. conn \in {"latest", "oldest"} => Len(log') <= current + HandshakeCommits
    BY <2>1, <2>2 DEF Longer
  <2> QED
    BY <2>1, <2>2, <2>3, LongerRetained
<1>3. CASE IngestCommits
  <2>1. PICK b \in Batches : Commit("ingest", b)
    BY <1>3 DEF IngestCommits
  <2>2. b \in Seq(Kinds) /\ "ingest" \in Publishers
    BY BatchFacts DEF Publishers
  <2> QED
    BY <1>2, <2>1, <2>2
<1>4. CASE OverrideCommits
  <2>1. PICK b : b = <<"other">>
    OBVIOUS
  <2>2. Commit("override", b) /\ b \in Seq(Kinds) /\ "override" \in Publishers
    BY <1>4, <2>1 DEF OverrideCommits, Publishers, Kinds
  <2> QED
    BY <1>2, <2>2
<1>5. CASE Rollback
  <2>1. Longer(1)
    BY <1>1, <1>5, RollbackFacts
  <2>2. /\ trimmed' = trimmed /\ UNCHANGED socket
        /\ conn \in {"latest", "oldest"} => Len(log) + 1 <= current + HandshakeCommits
    BY <1>5 DEF Rollback, Room
  <2>3. conn \in {"latest", "oldest"} => Len(log') <= current + HandshakeCommits
    BY <2>1, <2>2 DEF Longer
  <2> QED
    BY <2>1, <2>2, <2>3, LongerRetained
<1>6. CASE Trim
  BY <1>6, TrimRetained
<1>7. CASE Connect
  <2>1. log' = log /\ trimmed' = trimmed /\ current' = Latest
    BY <1>7 DEF Connect, database
  <2>2. Stored' = Stored
    BY <2>1 DEF Stored
  <2>3. Latest \in Nat /\ \A s \in Stored : s \in Nat /\ s <= Latest
    BY <1>1, LatestFacts, LogFacts
  <2>4. \A s \in Stored : s <= Latest + HandshakeCommits
    BY <2>3, Sizes
  <2> QED
    BY <2>1, <2>2, <2>4 DEF RetainedInv
<1>8. CASE \/ Fanout \/ ReadOldest \/ Greet \/ Send \/ Receive \/ Answer \/ Land \/ FetchFail
           \/ Drop \/ Restart \/ UNCHANGED vars \/ \E p \in Publishers : Publish(p)
  <2>1. /\ log' = log /\ trimmed' = trimmed
        /\ \/ conn' \notin {"latest", "oldest"}
           \/ conn \in {"latest", "oldest"} /\ current' = current
           \/ conn' = conn /\ current' = current
    BY <1>8 DEF Fanout, ReadOldest, Greet, Send, Receive, Answer, Land, FetchFail, Drop,
         Restart, Disconnected, vars, Publish, database, socket, handshake
  <2>2. Stored' = Stored
    BY <2>1 DEF Stored
  <2> QED
    BY <2>1, <2>2 DEF RetainedInv
<1> QED
  BY <1>3, <1>4, <1>5, <1>6, <1>7, <1>8, Zenon DEF Next

\* Nothing that a page or a handshake that is not far behind wants is deleted.
LEMMA KeptForReplay ==
  ASSUME Framed, RetainedInv, conn \in {"latest", "oldest"}, NEW s \in Own,
         s + MaxReplay > current
  PROVE  s \in Stored
<1>1. TypeOK
  BY DEF Framed
<1>2. /\ Len(log) \in Nat /\ s \in 1..Len(log) /\ trimmed \in Nat /\ current \in Nat
      /\ Stored \subseteq 1..Len(log)
  <2>1. Len(log) \in Nat /\ Own \subseteq 1..Len(log) /\ Stored \subseteq 1..Len(log)
    BY <1>1, LogFacts
  <2> QED
    BY <1>1, <2>1 DEF TypeOK
<1>3. s > trimmed
  <2>1. CASE trimmed = 0
    BY <1>2, <2>1
  <2>2. CASE trimmed # 0
    <3>1. PICK t \in Stored : trimmed + Retention <= t
      BY <2>2 DEF RetainedInv
    <3>2. t <= current + HandshakeCommits /\ t \in Nat
      BY <1>2, <3>1 DEF RetainedInv
    <3>3. trimmed + MaxReplay <= current
      BY <1>2, <3>1, <3>2, Sizes
    <3> QED
      BY <1>2, <3>3, Sizes
  <2> QED
    BY <2>1, <2>2
<1>4. s \in DOMAIN log /\ log[s] # "void"
  BY DEF Own, Mine
<1> QED
  BY <1>3, <1>4 DEF Stored

-----------------------------------------------------------------------------
(* What the page holds fits together. *)

CursorInv ==
  /\ base = None <=> cursor = None
  /\ base = None => live = {}
  /\ base = None /\ conn = "open" => wire # <<>> /\ wire[1].type = "hello"
  /\ fetch = "answered" => snap <= answer

LEMMA NextCursor ==
  ASSUME Framed, CursorInv, [Next]_vars
  PROVE  CursorInv'
<1>1. TypeOK
  BY DEF Framed
<1>2. /\ Len(log) \in Nat /\ snap \in 0..Len(log) /\ None \notin Nat
  BY <1>1, LogFacts DEF TypeOK, None
<1>3. CASE Receive
  <2>1. PICK f : f = wire[1]
    OBVIOUS
  <2>2. f \in Messages \cup Hellos /\ (ReceiveHello(f) \/ ReceiveResync(f) \/ ReceiveEvent(f))
    BY <1>3, <2>1, ReceiveFacts
  <2>3. /\ f.type = "event" => f.seq \in Own /\ f.seq \in Nat
        /\ f.type = "hello" => f.seq \in Nat
    <3>1. Own \subseteq 1..Len(log)
      BY <1>1, LogFacts
    <3>2. /\ f.type = "event" => f.seq \in Own
          /\ f.type = "hello" => f.seq \in 0..Len(log)
      BY <2>2, FrameKinds
    <3>3. (\A n \in Own : n \in Nat) /\ (\A n \in 0..Len(log) : n \in Nat)
      BY <1>2, <3>1
    <3> QED
      BY <3>2, <3>3
  <2>4. conn = "open" /\ conn' = "open" /\ snap' = snap
    BY <1>3 DEF Receive
  <2>5. base = None => f.type = "hello"
    BY <2>1, <2>4 DEF CursorInv
  <2>6. base' # None /\ cursor' # None
    <3>1. CASE ReceiveHello(f)
      BY <1>2, <2>3, <3>1 DEF ReceiveHello
    <3>2. CASE ReceiveResync(f)
      BY <2>5, <3>2 DEF ReceiveResync, CursorInv
    <3>3. CASE ReceiveEvent(f)
      BY <1>2, <2>3, <2>5, <3>3 DEF ReceiveEvent
    <3> QED
      BY <2>2, <3>1, <3>2, <3>3
  <2>7. fetch' = "answered" => fetch = "answered" /\ answer' = answer
    BY <2>2 DEF ReceiveHello, ReceiveResync, ReceiveEvent, StartAgain, Bump, request
  <2> QED
    BY <2>4, <2>6, <2>7 DEF CursorInv
<1>4. CASE Greet
  <2>1. wire' # <<>> /\ wire'[1].type = "hello"
    <3>1. /\ wire' \in Seq(Messages \cup Hellos) /\ Len(wire') = Len(Replay) + 1
          /\ Len(Replay) \in Nat /\ wire'[1] \in Hellos
      BY <1>4, GreetFacts
    <3>2. Len(wire') # 0
      BY <3>1
    <3>3. wire' # <<>>
      BY <3>2
    <3> QED
      BY <3>1, <3>3 DEF Hellos
  <2>2. UNCHANGED request /\ UNCHANGED page
    BY <1>4 DEF Greet
  <2> QED
    BY <2>1, <2>2 DEF CursorInv, request, page
<1>5. CASE Send
  <2>1. wire # <<>> => wire' # <<>> /\ wire'[1] = wire[1]
    <3>1. /\ Len(wire) \in Nat /\ Len(wire') = Len(wire) + 1
          /\ \A i \in 1..Len(wire) : wire'[i] = wire[i]
      BY <1>5, SendFacts
    <3>2. Len(wire') # 0
      BY <3>1
    <3>3. wire' # <<>>
      BY <3>2
    <3>4. wire # <<>> => 1 \in 1..Len(wire)
      <4>1. PICK F : F = Messages \cup Hellos
        OBVIOUS
      <4>2. wire \in Seq(F)
        BY <4>1 DEF Framed, FramesInv
      <4> QED
        BY <4>2
    <3> QED
      BY <3>1, <3>3, <3>4
  <2>2. conn' = conn /\ UNCHANGED request /\ UNCHANGED page
    BY <1>5 DEF Send
  <2> QED
    BY <2>1, <2>2 DEF CursorInv, request, page
<1>6. CASE Answer
  <2>1. fetch' = "answered" /\ answer' = Len(log) /\ UNCHANGED socket /\ UNCHANGED page
    BY <1>6 DEF Answer
  <2> QED
    BY <1>2, <2>1 DEF CursorInv, socket, page
<1>7. CASE Land \/ FetchFail
  <2>1. /\ fetch' = "none" /\ UNCHANGED socket /\ cursor' = cursor /\ live' = live
        /\ base' = base
    BY <1>7 DEF Land, FetchFail, page
  <2> QED
    BY <2>1 DEF CursorInv, socket
<1>8. CASE Connect \/ ReadOldest \/ Drop \/ Restart
  <2>1. conn' # "open" /\ UNCHANGED request /\ UNCHANGED page
    BY <1>8 DEF Connect, ReadOldest, Drop, Restart, Disconnected
  <2> QED
    BY <2>1 DEF CursorInv, request, page
<1>9. CASE \/ IngestCommits \/ OverrideCommits \/ Rollback \/ Trim \/ Fanout
           \/ UNCHANGED vars \/ \E p \in Publishers : Publish(p)
  <2>1. conn' = conn /\ wire' = wire /\ UNCHANGED request /\ UNCHANGED page
    BY <1>9 DEF IngestCommits, OverrideCommits, Commit, Rollback, Trim, Fanout, vars, Publish,
         socket
  <2> QED
    BY <2>1 DEF CursorInv, request, page
<1> QED
  BY <1>3, <1>4, <1>5, <1>6, <1>7, <1>8, <1>9, Zenon DEF Next

\* A request brings what it is wanted for, once it is answered.
WantedInv ==
  /\ wanted # {} => fetch # "none"
  /\ fetch = "answered" => \A s \in wanted : s <= answer

LEMMA NextWanted ==
  ASSUME Framed, WantedInv, [Next]_vars
  PROVE  WantedInv'
<1>1. CASE Receive
  <2>1. UNCHANGED request \/ fetch' = "asked"
    BY <1>1 DEF Receive, ReceiveHello, ReceiveResync, ReceiveEvent, StartAgain, Bump
  <2> QED
    BY <2>1 DEF WantedInv, request
<1>2. CASE Answer
  <2>1. fetch' = "answered" /\ answer' = Len(log) /\ wanted' = wanted
    BY <1>2 DEF Answer
  <2>2. Len(log) \in Nat /\ wanted \subseteq 1..Len(log)
    BY LogFacts DEF Framed, TypeOK, HistoryOK
  <2> QED
    BY <2>1, <2>2 DEF WantedInv
<1>3. CASE Land \/ FetchFail
  BY <1>3 DEF Land, FetchFail, WantedInv
<1>4. CASE \/ IngestCommits \/ OverrideCommits \/ Rollback \/ Trim \/ Fanout \/ Connect
           \/ ReadOldest \/ Greet \/ Send \/ Drop \/ Restart \/ UNCHANGED vars
           \/ \E p \in Publishers : Publish(p)
  <2>1. UNCHANGED request
    BY <1>4 DEF IngestCommits, OverrideCommits, Commit, Rollback, Trim, Fanout, Connect,
         ReadOldest, Greet, Send, Drop, Restart, Publish, vars
  <2> QED
    BY <2>1 DEF WantedInv, request
<1> QED
  BY <1>1, <1>2, <1>3, <1>4, Zenon DEF Next

-----------------------------------------------------------------------------
(* Whatever the page is owed it shows, is fetching, or is about to be told;  *)
(* or the loss of it is known.                                               *)

\* The account's events that the page has undertaken to show, or will undertake
\* to show when it reads the hello that is being prepared or sent.
Owed ==
  {s \in Own : \/ base # None /\ s > base
               \/ base = None /\ conn \in {"latest", "oldest"} /\ s > current
               \/ base = None /\ conn = "open" /\ s > wire[1].seq}

\* On the page, or asked for, or known to be lost.
Safe(s) == Shown(s) \/ s \in wanted \/ s \in Lost

Scheduled(s) == \E i \in DOMAIN loop : \E k \in DOMAIN loop[i] : loop[i][k] = s
Unheard(s) == \E p \in Publishers : \E k \in DOMAIN unheard[p] : unheard[p][k] = s
Coming(s) == Scheduled(s) \/ Unheard(s)

\* Frame f tells the page of event s, or to start again.
Tells(f, s) == f = Event(s) \/ f.resync
OnWire(s) == \E i \in DOMAIN wire : Tells(wire[i], s)
OnQueue(s) == \E i \in DOMAIN queue : Tells(queue[i], s)

\* In the part of the replay that the page has not read.
InReplay(s) == \E i \in 1..replaying : wire[i] = Event(s)

\* What lies at or below the cursor is safe, or in the rest of the replay, or
\* was overtaken and is on the connection still.
CursorTold ==
  \A s \in Promised : s <= cursor =>
    Safe(s) \/ InReplay(s) \/ (s \in overtaken /\ conn = "open")

\* Readings are drawn in their order.
DrawnShown ==
  \A t \in live : log[t] = "sample" /\ \A s \in Promised : s <= t /\ log[s] = "sample" => Safe(s)

\* What a handshake has not seen in the log will be fanned out to its socket.
HandshakeHears ==
  conn \in {"latest", "oldest"} => \A s \in Own : s > current => Coming(s)

SocketHears ==
  conn = "open" => \A s \in Owed : Safe(s) \/ OnWire(s) \/ OnQueue(s) \/ Coming(s)

\* No frame comes before one that the page needs first, but for those overtaken.
WireOrder ==
  \A i \in DOMAIN wire : wire[i].type = "event" =>
    \A s \in Owed : s <= wire[i].seq =>
      \/ Safe(s) \/ Late(overtaken, log, s, wire[i].seq)
      \/ \E j \in 1..i : Tells(wire[j], s)
QueueOrder ==
  \A i \in DOMAIN queue : queue[i].type = "event" =>
    \A s \in Owed : s <= queue[i].seq =>
      \/ Safe(s) \/ Late(overtaken, log, s, queue[i].seq)
      \/ OnWire(s) \/ \E j \in 1..i : Tells(queue[j], s)

\* A hello and the replay behind it leave nothing out.
ReplayWhole ==
  wire # <<>> /\ wire[1].type = "hello" /\ ~wire[1].resync =>
    \A s \in Owed : s <= wire[1].seq => Safe(s) \/ InReplay(s)

Told ==
  /\ CursorTold /\ DrawnShown
  /\ HandshakeHears /\ SocketHears
  /\ WireOrder /\ QueueOrder /\ ReplayWhole

Placed == Framed /\ RiseInv /\ RetainedInv /\ CursorInv /\ WantedInv
Followed == Placed /\ Told

LEMMA FrameFacts ==
  ASSUME Framed
  PROVE  /\ Len(log) \in Nat /\ Own \subseteq 1..Len(log)
         /\ Len(wire) \in Nat /\ DOMAIN wire = 1..Len(wire)
         /\ \A i \in DOMAIN wire : wire[i] \in Messages \cup Hellos
         /\ Len(queue) \in Nat /\ DOMAIN queue = 1..Len(queue)
         /\ \A i \in DOMAIN queue : queue[i] \in Messages /\ queue[i] \in Messages \cup Hellos
         /\ replaying \in 0..Len(wire)
         /\ cursor \in {None} \cup (0..Len(log)) /\ base \in {None} \cup (0..Len(log))
         /\ current \in 0..Len(log) /\ live \subseteq Own
         /\ conn # "open" => wire = <<>> /\ queue = <<>> /\ replaying = 0
<1>1. Len(log) \in Nat /\ Own \subseteq 1..Len(log)
  BY LogFacts DEF Framed
<1>2. wire \in Seq(Messages \cup Hellos) /\ queue \in Seq(Messages)
  BY DEF Framed, FramesInv
<1>3. /\ Len(wire) \in Nat /\ DOMAIN wire = 1..Len(wire)
      /\ \A i \in DOMAIN wire : wire[i] \in Messages \cup Hellos
  BY <1>2, LenProperties, ElementOfSeq
<1>4. /\ Len(queue) \in Nat /\ DOMAIN queue = 1..Len(queue)
      /\ \A i \in DOMAIN queue : queue[i] \in Messages
  BY <1>2, LenProperties, ElementOfSeq
<1>5. /\ replaying \in 0..Len(wire) /\ current \in 0..Len(log) /\ live \subseteq Own
      /\ cursor \in {None} \cup (0..Len(log)) /\ base \in {None} \cup (0..Len(log))
  BY DEF Framed, TypeOK, FramesInv
<1>6. conn # "open" => wire = <<>> /\ queue = <<>> /\ replaying = 0
  <2>1. conn # "open" => wire = <<>> /\ queue = <<>>
    BY DEF Framed, FramesInv
  <2>2. Len(<<>>) = 0
    OBVIOUS
  <2> QED
    BY <1>5, <2>1, <2>2
<1> QED
  BY <1>1, <1>3, <1>4, <1>5, <1>6


\* A frame asks for all again, or leaves what the page holds and wants.
LEMMA ReceiveKeeps ==
  ASSUME Framed, Receive
  PROVE  \/ wire[1].resync /\ DOMAIN log \subseteq wanted'
         \/ ~wire[1].resync /\ wanted \subseteq wanted' /\ live \subseteq live'
<1>1. PICK f : f = wire[1]
  OBVIOUS
<1>2. /\ f \in Messages \cup Hellos
      /\ ReceiveHello(f) \/ ReceiveResync(f) \/ ReceiveEvent(f)
  BY <1>1, ReceiveFacts
<1>3. /\ f.type = "event" => f.resync = FALSE
      /\ f.type = "hello" => f.resync \in BOOLEAN
      /\ f.type = "resync" => f.resync = TRUE
  BY <1>2, FrameKinds, EventShape DEF Messages, Hellos
<1>5. CASE ReceiveHello(f)
  <2>1. f.type = "hello" /\ IF f.resync THEN StartAgain ELSE UNCHANGED <<live, untold, request>>
    BY <1>5 DEF ReceiveHello
  <2>2. CASE f.resync
    BY <1>1, <2>1, <2>2 DEF StartAgain, Bump
  <2>3. CASE ~f.resync
    BY <1>1, <2>1, <2>3 DEF request
  <2> QED
    BY <2>2, <2>3
<1>6. CASE ReceiveResync(f)
  BY <1>1, <1>3, <1>6 DEF ReceiveResync, StartAgain, Bump
<1>7. CASE ReceiveEvent(f)
  <2>1. f.type = "event" /\ wanted \subseteq wanted' /\ (live' = live \/ live' = Plotted(f.seq))
    BY <1>7 DEF ReceiveEvent, Bump, request
  <2>2. live \subseteq Plotted(f.seq)
    BY DEF Plotted
  <2> QED
    BY <1>1, <1>3, <2>1, <2>2
<1> QED
  BY <1>2, <1>5, <1>6, <1>7

\* Nothing safe is forgotten.
LEMMA SafeStays ==
  ASSUME Framed, CursorInv, WantedInv, [Next]_vars, NEW s \in Own, Safe(s)
  PROVE  Safe(s)'
<1>1. /\ Len(log) \in Nat /\ s \in DOMAIN log /\ s \in Nat
      /\ snap \in Nat /\ answer \in Nat
  <2>1. TypeOK
    BY DEF Framed
  <2>2. Len(log) \in Nat /\ Own \subseteq 1..Len(log) /\ DOMAIN log = 1..Len(log)
    BY <2>1, LogFacts
  <2>3. snap \in 0..Len(log) /\ answer \in 0..Len(log)
    BY <2>1 DEF TypeOK
  <2> QED
    BY <2>2, <2>3
<1>2. CASE Receive
  <2>1. snap' = snap /\ losses' = losses
    BY <1>2 DEF Receive
  <2>2. s \in Lost => s \in Lost'
    BY <2>1 DEF Lost, losses
  <2> QED
    BY <1>1, <1>2, <2>1, <2>2, ReceiveKeeps DEF Safe, Shown
<1>3. CASE Land
  <2>1. /\ fetch = "answered" /\ snap' = answer /\ live' = live /\ snap <= answer
        /\ losses' = losses
    BY <1>3 DEF Land, CursorInv
  <2>2. s \in wanted => s <= answer
    BY <2>1 DEF WantedInv
  <2>3. s \in Lost => s \in Lost'
    BY <2>1 DEF Lost, losses
  <2>4. s <= snap => s <= answer
    BY <1>1, <2>1
  <2> QED
    BY <2>1, <2>2, <2>3, <2>4 DEF Safe, Shown
<1>4. CASE FetchFail
  <2>1. UNCHANGED page /\ failed' = failed \cup wanted /\ cutOff' = cutOff /\ passedBy' = passedBy
    BY <1>4 DEF FetchFail
  <2> QED
    BY <2>1 DEF Safe, Shown, Lost, page
<1>5. CASE /\ wanted' = wanted /\ UNCHANGED page
           /\ cutOff \subseteq cutOff' /\ passedBy \subseteq passedBy' /\ failed' = failed
  BY <1>5 DEF page, Safe, Shown, Lost
<1>6. CASE \/ IngestCommits \/ OverrideCommits \/ Rollback \/ Trim \/ Fanout \/ Connect
           \/ ReadOldest \/ Greet \/ Send \/ Answer \/ UNCHANGED vars
           \/ \E p \in Publishers : Publish(p)
  <2>1. wanted' = wanted /\ UNCHANGED page /\ UNCHANGED losses
    BY <1>6 DEF IngestCommits, OverrideCommits, Commit, Rollback, Trim, Fanout, Connect,
         ReadOldest, Greet, Send, Answer, Publish, vars, request
  <2> QED
    BY <1>5, <2>1 DEF losses
<1>7. CASE Drop \/ Restart
  <2>1. UNCHANGED page /\ UNCHANGED request /\ Disconnected
    BY <1>7 DEF Drop, Restart
  <2> QED
    BY <1>5, <2>1 DEF Disconnected, request
<1> QED
  BY <1>2, <1>3, <1>4, <1>6, <1>7, Zenon DEF Next
\* What tells a page of an event is on its way to it.
LEMMA ToldIsOnItsWay ==
  ASSUME Framed, conn = "open", NEW s, OnWire(s) \/ OnQueue(s) \/ Coming(s)
  PROVE  OnItsWay(s)
<1>1. CASE OnWire(s)
  BY <1>1 DEF OnWire, Tells, OnItsWay
<1>2. CASE OnQueue(s)
  <2>1. PICK i \in DOMAIN queue : Tells(queue[i], s)
    BY <1>2 DEF OnQueue
  <2>2. queue[i] \in Messages
    BY FrameFacts
  <2>3. queue[i] = TooSlow \/ \E t \in Own : queue[i] = Event(t)
    BY <2>2 DEF Messages
  <2>4. queue[i] \in {Event(s), TooSlow}
    BY <2>1, <2>3, EventShape DEF Tells
  <2> QED
    BY <2>4 DEF OnItsWay
<1>3. CASE Coming(s)
  BY <1>3 DEF Coming, Scheduled, Unheard, OnItsWay
<1> QED
  BY <1>1, <1>2, <1>3

LEMMA FirstFrame ==
  ASSUME Framed, wire # <<>>
  PROVE  1 \in DOMAIN wire
<1>1. PICK F : F = Messages \cup Hellos
  OBVIOUS
<1>2. wire \in Seq(F)
  BY <1>1 DEF Framed, FramesInv
<1> QED
  BY <1>2

\* A step that leaves the socket and the page's readings alone.
LEMMA QuietTold ==
  ASSUME Framed, Told, UNCHANGED socket, cursor' = cursor, base' = base, live' = live,
         overtaken \subseteq overtaken', \A x \in 1..Len(log) : log'[x] = log[x],
         \A s \in Own : Safe(s) => Safe(s)',
         \A s \in Own' : s \in Own \/ (s \in Nat /\ s > Len(log) /\ Unheard(s)'),
         conn # "closed" => \A s \in Own : Coming(s) => Coming(s)'
  PROVE  Told'
<1>1. /\ conn' = conn /\ current' = current /\ wire' = wire /\ queue' = queue
      /\ replaying' = replaying
  BY DEF socket, handshake
<1>2. \A s \in Owed' : s \in Own' /\ (s \in Own => s \in Owed)
  BY <1>1 DEF Owed
<1>3. \A s \in Promised' : s \in Own' /\ (s \in Own => s \in Promised)
  BY DEF Promised
<1>4. /\ Len(log) \in Nat /\ Own \subseteq 1..Len(log) /\ live \subseteq Own
      /\ cursor \in {None} \cup (0..Len(log)) /\ current \in 0..Len(log)
      /\ \A i \in DOMAIN wire : wire[i] \in Messages \cup Hellos
      /\ \A i \in DOMAIN queue : queue[i] \in Messages \cup Hellos
  BY FrameFacts
<1>5. \A s \in Own : log'[s] = log[s]
  BY <1>4
<1>6. \A s : (OnWire(s)' <=> OnWire(s)) /\ (OnQueue(s)' <=> OnQueue(s)) /\ (InReplay(s)' <=> InReplay(s))
  BY <1>1 DEF OnWire, OnQueue, InReplay, Tells, Event
<1>7. \A s \in Own' : \A n \in Int : s <= n /\ n <= Len(log) => s \in Own
  <2> SUFFICES ASSUME NEW s \in Own', NEW n \in Int, s <= n, n <= Len(log), s \notin Own
               PROVE  FALSE
    OBVIOUS
  <2>1. s \in Nat /\ s > Len(log)
    OBVIOUS
  <2> QED
    BY <1>4, <2>1
<1>8. CursorTold'
  <2> SUFFICES ASSUME NEW s \in Promised', s <= cursor
               PROVE  Safe(s)' \/ InReplay(s)' \/ (s \in overtaken' /\ conn = "open")
    BY <1>1 DEF CursorTold
  <2>1. s \in Own
    <3>1. cursor \in Int /\ cursor <= Len(log)
      BY <1>4 DEF None
    <3> QED
      BY <1>3, <1>7, <3>1
  <2> QED
    BY <1>3, <1>6, <2>1 DEF Told, CursorTold
<1>9. DrawnShown'
  <2>1. ASSUME NEW t \in live PROVE log'[t] = "sample"
    <3>1. log[t] = "sample" /\ t \in Own
      BY <1>4 DEF Told, DrawnShown
    <3> QED
      BY <1>5, <3>1
  <2>2. ASSUME NEW t \in live, NEW s \in Promised', s <= t, log'[s] = "sample" PROVE Safe(s)'
    <3>1. t \in Int /\ t <= Len(log)
      BY <1>4
    <3>2. s \in Own
      BY <1>3, <1>7, <2>2, <3>1
    <3>3. log[s] = "sample" /\ s \in Promised
      BY <1>3, <1>5, <2>2, <3>2
    <3> QED
      BY <2>2, <3>2, <3>3 DEF Told, DrawnShown
  <2> QED
    BY <2>1, <2>2 DEF DrawnShown
<1>10. HandshakeHears'
  <2> SUFFICES ASSUME conn \in {"latest", "oldest"}, NEW s \in Own', s > current
               PROVE  Coming(s)'
    BY <1>1 DEF HandshakeHears
  <2>1. CASE s \in Own
    BY <2>1 DEF Told, HandshakeHears
  <2>2. CASE s \notin Own
    BY <2>2 DEF Coming
  <2> QED
    BY <2>1, <2>2
<1>11. SocketHears'
  <2> SUFFICES ASSUME conn = "open", NEW s \in Owed'
               PROVE  (Safe(s) \/ OnWire(s) \/ OnQueue(s) \/ Coming(s))'
    BY <1>1 DEF SocketHears
  <2>1. CASE s \in Own
    <3>1. Safe(s) \/ OnWire(s) \/ OnQueue(s) \/ Coming(s)
      BY <1>2, <2>1 DEF Told, SocketHears
    <3>2. Coming(s) => Coming(s)'
      BY <2>1
    <3> QED
      BY <1>6, <2>1, <3>1, <3>2
  <2>2. CASE s \notin Own
    BY <1>2, <2>2 DEF Coming
  <2> QED
    BY <2>1, <2>2
<1>12. \A f \in Messages \cup Hellos : \A s \in Own' :
         f.type \in {"event", "hello"} /\ s <= f.seq => s \in Own /\ f.seq \in 0..Len(log)
  <2> SUFFICES ASSUME NEW f \in Messages \cup Hellos, NEW s \in Own',
                      f.type \in {"event", "hello"}, s <= f.seq
               PROVE  s \in Own /\ f.seq \in 0..Len(log)
    OBVIOUS
  <2>1. f.seq \in Own \/ f.seq \in 0..Len(log)
    BY FrameKinds
  <2>2. f.seq \in 0..Len(log)
    <3>1. \A n \in Own : n \in 0..Len(log)
      BY <1>4
    <3> QED
      BY <2>1, <3>1
  <2>3. PICK n : n = f.seq
    OBVIOUS
  <2>4. n \in Int /\ n <= Len(log) /\ s <= n
    BY <1>4, <2>2, <2>3
  <2> QED
    BY <1>7, <2>2, <2>4
\* What is late stays late.
<1>13. ASSUME NEW f \in Messages \cup Hellos, f.type = "event", NEW s \in Own,
              Late(overtaken, log, s, f.seq)
       PROVE  Late(overtaken', log', s, f.seq)
  <2>1. f.seq \in 1..Len(log) /\ s \in 1..Len(log)
    <3>1. f.seq \in Own
      BY <1>13, FrameKinds
    <3> QED
      BY <1>4, <3>1
  <2> QED
    BY <1>13, <2>1, TurnsLast
<1>14. WireOrder'
  <2> SUFFICES ASSUME NEW i \in DOMAIN wire, wire[i].type = "event",
                      NEW s \in Owed', s <= wire[i].seq
               PROVE  \/ Safe(s)' \/ Late(overtaken', log', s, wire[i].seq)
                      \/ \E j \in 1..i : Tells(wire[j], s)
    BY <1>1 DEF WireOrder, Tells, Event
  <2>1. s \in Own /\ s \in Owed
    BY <1>2, <1>4, <1>12
  <2> QED
    BY <1>4, <1>13, <2>1 DEF Told, WireOrder
<1>15. QueueOrder'
  <2> SUFFICES ASSUME NEW i \in DOMAIN queue, queue[i].type = "event",
                      NEW s \in Owed', s <= queue[i].seq
               PROVE  \/ Safe(s)' \/ Late(overtaken', log', s, queue[i].seq)
                      \/ OnWire(s) \/ \E j \in 1..i : Tells(queue[j], s)
    BY <1>1, <1>6 DEF QueueOrder, Tells, Event
  <2>1. s \in Own /\ s \in Owed
    BY <1>2, <1>4, <1>12
  <2> QED
    BY <1>4, <1>13, <2>1 DEF Told, QueueOrder
<1>16. ReplayWhole'
  <2> SUFFICES ASSUME wire # <<>>, wire[1].type = "hello", ~wire[1].resync,
                      NEW s \in Owed', s <= wire[1].seq
               PROVE  Safe(s)' \/ InReplay(s)'
    BY <1>1 DEF ReplayWhole
  <2>1. 1 \in DOMAIN wire
    BY FirstFrame
  <2>2. s \in Own /\ s \in Owed
    BY <1>2, <1>4, <1>12, <2>1
  <2> QED
    BY <1>6, <2>2 DEF Told, ReplayWhole
<1> QED
  BY <1>8, <1>9, <1>10, <1>11, <1>14, <1>15, <1>16 DEF Told

\* A commit: what it stored is yet to be announced.
LEMMA CommitTold ==
  ASSUME Placed, Told, NEW p \in Publishers, NEW b \in Seq(Kinds), Commit(p, b), Next,
         p = "override" => \A k \in DOMAIN b : b[k] = "other"
  PROVE  Told'
<1>1. TypeOK /\ Framed /\ RiseInv /\ CursorInv /\ WantedInv
  BY DEF Placed, Framed
<1>2. /\ Len(b) \in Nat /\ Longer(Len(b)) /\ Len(unheard'[p]) = Len(b)
      /\ unheard' \in [Publishers -> Seq(1..Len(log'))]
      /\ \A k \in 1..Len(b) : unheard'[p][k] = Len(log) + k
  BY <1>1, CommitFacts
<1>3. unheard[p] = <<>> /\ \A q \in Publishers : q # p => unheard'[q] = unheard[q]
  <2>1. unheard[p] = <<>>
    BY <1>1, CommitRise
  <2> QED
    BY <1>1, <2>1 DEF Commit, TypeOK
<1>4. /\ UNCHANGED socket /\ cursor' = cursor /\ base' = base /\ live' = live /\ loop' = loop
      /\ overtaken \subseteq overtaken'
  BY DEF Commit, page
<1>5. \A s \in Own : Safe(s) => Safe(s)'
  BY <1>1, SafeStays
<1>6. \A s \in Own' : s \in Own \/ (s \in Nat /\ s > Len(log) /\ Unheard(s)')
  <2> SUFFICES ASSUME NEW s \in Own', s \notin Own
               PROVE  s \in Nat /\ s > Len(log) /\ Unheard(s)'
    OBVIOUS
  <2>1. /\ DOMAIN log' = 1..Len(log') /\ Len(log') \in Nat
        /\ \A x \in Own' : x <= Len(log) => x \in Own
    BY <1>1, <1>2, LongerFacts
  <2>2. s \in 1..Len(log') /\ ~(s <= Len(log)) /\ Len(log) \in Nat
    BY <1>1, <2>1, LogFacts DEF Own
  <2>3. Len(log') = Len(log) + Len(b)
    BY <1>2 DEF Longer
  <2>4. PICK k : k = s - Len(log)
    OBVIOUS
  <2>5. k \in 1..Len(b) /\ s = Len(log) + k
    BY <1>2, <2>2, <2>3, <2>4
  <2>6. PICK u : u = unheard'[p]
    OBVIOUS
  <2>7. u \in Seq(1..Len(log')) /\ Len(u) = Len(b) /\ u[k] = s
    BY <1>2, <2>5, <2>6
  <2>8. k \in DOMAIN u
    BY <2>5, <2>7, LenProperties
  <2>9. k \in DOMAIN unheard'[p] /\ unheard'[p][k] = s
    BY <2>6, <2>7, <2>8
  <2> QED
    BY <2>2, <2>9 DEF Unheard
<1>7. \A s \in Own : Coming(s) => Coming(s)'
  <2>1. DOMAIN <<>> = {}
    OBVIOUS
  <2>2. \A s : Unheard(s) => Unheard(s)'
    BY <1>3, <2>1 DEF Unheard
  <2> QED
    BY <1>4, <2>2 DEF Coming, Scheduled
<1>8. \A x \in 1..Len(log) : log'[x] = log[x]
  BY <1>2 DEF Longer
<1> QED
  BY <1>1, <1>4, <1>5, <1>6, <1>7, <1>8, QuietTold

LEMMA RollbackTold ==
  ASSUME Placed, Told, Rollback, Next
  PROVE  Told'
<1>1. TypeOK /\ Framed /\ CursorInv /\ WantedInv
  BY DEF Placed, Framed
<1>2. Longer(1) /\ log'[Len(log) + 1] = "void"
  BY <1>1, RollbackFacts
<1>3. /\ UNCHANGED socket /\ cursor' = cursor /\ base' = base /\ live' = live /\ loop' = loop
      /\ unheard' = unheard /\ overtaken \subseteq overtaken'
  BY DEF Rollback, page, threads
<1>4. \A s \in Own : Safe(s) => Safe(s)'
  BY <1>1, SafeStays
<1>5. \A s \in Own' : s \in Own
  <2> SUFFICES ASSUME NEW s \in Own', s \notin Own PROVE FALSE
    OBVIOUS
  <2>1. /\ DOMAIN log' = 1..Len(log') /\ Len(log') \in Nat
        /\ \A x \in Own' : x <= Len(log) => x \in Own
    BY <1>1, <1>2, LongerFacts
  <2>2. s \in 1..Len(log') /\ ~(s <= Len(log)) /\ Len(log) \in Nat /\ Len(log') = Len(log) + 1
    BY <1>1, <1>2, <2>1, LogFacts DEF Own, Longer
  <2>3. s = Len(log) + 1
    BY <2>2
  <2> QED
    BY <1>2, <2>3 DEF Own, Mine
<1>6. \A s \in Own : Coming(s) => Coming(s)'
  BY <1>3 DEF Coming, Scheduled, Unheard
<1>7. \A x \in 1..Len(log) : log'[x] = log[x]
  BY <1>2 DEF Longer
<1> QED
  BY <1>1, <1>3, <1>4, <1>5, <1>6, <1>7, QuietTold

LEMMA PublishTold ==
  ASSUME Placed, Told, NEW p \in Publishers, Publish(p), Next
  PROVE  Told'
<1>1. TypeOK /\ Framed /\ CursorInv /\ WantedInv
  BY DEF Placed, Framed
<1>2. /\ UNCHANGED socket /\ cursor' = cursor /\ base' = base /\ live' = live /\ log' = log
      /\ unheard' = [unheard EXCEPT ![p] = <<>>] /\ overtaken \subseteq overtaken'
      /\ conn # "closed" => loop' = Append(loop, unheard[p])
  BY DEF Publish, Schedule, page, database
<1>3. \A s \in Own : Safe(s) => Safe(s)'
  BY <1>1, SafeStays
<1>4. Own' = Own
  BY <1>2 DEF Own
<1>5. ASSUME conn # "closed", NEW s \in Own, Coming(s) PROVE Coming(s)'
  <2>1. PICK n, S, u : n = Len(loop) /\ S = Seq(1..Len(log)) /\ u = unheard[p]
    OBVIOUS
  <2>2. loop \in Seq(S) /\ u \in S /\ n \in Nat /\ DOMAIN loop = 1..n
    BY <1>1, <2>1, LoopFacts DEF TypeOK
  <2>3. PICK g : g = Append(loop, u)
    OBVIOUS
  <2>4. g \in Seq(S) /\ Len(g) = n + 1 /\ (\A i \in 1..n : g[i] = loop[i]) /\ g[n + 1] = u
    BY <2>1, <2>2, <2>3, AppendProperties
  <2>5. DOMAIN g = 1..(n + 1) /\ n + 1 \in 1..(n + 1) /\ 1..n \subseteq 1..(n + 1)
    BY <2>2, <2>4, LenProperties
  <2>6. loop' = g
    BY <1>2, <1>5, <2>1, <2>3
  <2>7. CASE Scheduled(s)
    <3>1. PICK i \in 1..n : \E k \in DOMAIN loop[i] : loop[i][k] = s
      BY <2>2, <2>7 DEF Scheduled
    <3>2. i \in DOMAIN g /\ g[i] = loop[i]
      BY <2>4, <2>5
    <3>3. Scheduled(s)'
      BY <2>6, <3>1, <3>2 DEF Scheduled
    <3> QED
      BY <3>3 DEF Coming
  <2>8. CASE Unheard(s)
    <3>1. PICK q \in Publishers : \E k \in DOMAIN unheard[q] : unheard[q][k] = s
      BY <2>8 DEF Unheard
    <3>2. CASE q = p
      <4>1. \E k \in DOMAIN g[n + 1] : g[n + 1][k] = s
        BY <2>1, <2>4, <3>1, <3>2
      <4>2. Scheduled(s)'
        BY <2>5, <2>6, <4>1 DEF Scheduled
      <4> QED
        BY <4>2 DEF Coming
    <3>3. CASE q # p
      <4>1. unheard \in [Publishers -> Seq(1..Len(log))]
        BY <1>1 DEF TypeOK
      <4>2. unheard'[q] = unheard[q]
        BY <1>2, <3>3, <4>1
      <4>3. Unheard(s)'
        BY <3>1, <4>2 DEF Unheard
      <4> QED
        BY <4>3 DEF Coming
    <3> QED
      BY <3>2, <3>3
  <2> QED
    BY <1>5, <2>7, <2>8 DEF Coming
<1> QED
  BY <1>1, <1>2, <1>3, <1>4, <1>5, QuietTold

LEMMA StillTold ==
  ASSUME Placed, Told, Trim \/ Answer \/ Land \/ FetchFail \/ UNCHANGED vars, [Next]_vars
  PROVE  Told'
<1>1. Framed /\ CursorInv /\ WantedInv
  BY DEF Placed
<1>2. /\ UNCHANGED socket /\ cursor' = cursor /\ base' = base /\ live' = live /\ log' = log
      /\ unheard' = unheard /\ loop' = loop /\ overtaken \subseteq overtaken'
  BY DEF Trim, Answer, Land, FetchFail, vars, page, database, threads
<1>3. \A s \in Own : Safe(s) => Safe(s)'
  BY <1>1, SafeStays
<1>4. Own' = Own
  BY <1>2 DEF Own
<1>5. \A s \in Own : Coming(s) => Coming(s)'
  BY <1>2 DEF Coming, Scheduled, Unheard
<1> QED
  BY <1>1, <1>2, <1>3, <1>4, <1>5, QuietTold

\* The account's newest event is not deleted.
LEMMA NewestIsKept ==
  ASSUME Framed, RetainedInv, NEW s \in Own
  PROVE  s <= Latest
<1>1. TypeOK
  BY DEF Framed
<1>2. /\ Len(log) \in Nat /\ s \in 1..Len(log) /\ trimmed \in Nat
      /\ Stored \subseteq 1..Len(log) /\ Latest \in Nat
      /\ \A t \in Stored : t <= Latest
  <2>1. /\ Len(log) \in Nat /\ Own \subseteq 1..Len(log) /\ Stored \subseteq 1..Len(log)
        /\ trimmed \in 0..Len(log)
    BY <1>1, LogFacts
  <2>2. Latest \in 0..Len(log) /\ \A t \in Stored : t <= Latest
    BY <1>1, LatestFacts
  <2> QED
    BY <2>1, <2>2
<1>3. CASE s > trimmed
  <2>1. s \in DOMAIN log /\ log[s] # "void"
    BY DEF Own, Mine
  <2>2. s \in Stored
    BY <1>3, <2>1 DEF Stored
  <2> QED
    BY <1>2, <2>2
<1>4. CASE ~(s > trimmed)
  <2>1. trimmed # 0
    BY <1>2, <1>4
  <2>2. PICK t \in Stored : trimmed + Retention <= t
    BY <2>1 DEF RetainedInv
  <2>3. t <= Latest /\ t \in Nat
    BY <1>2
  <2> QED
    BY <1>2, <1>4, <2>2, <2>3, Sizes
<1> QED
  BY <1>3, <1>4

\* Connecting.
LEMMA ConnectTold ==
  ASSUME Placed, Told, Connect \/ ReadOldest, Next
  PROVE  Told'
<1>1. Framed /\ RetainedInv /\ CursorInv /\ WantedInv
  BY DEF Placed
<1>2. /\ log' = log /\ conn # "open" /\ conn' # "open" /\ UNCHANGED request /\ UNCHANGED page
      /\ wire' = wire /\ queue' = queue /\ wire = <<>> /\ queue = <<>>
      /\ replaying' = replaying /\ overtaken' = overtaken
  <2>1. /\ conn # "open" /\ log' = log /\ conn' # "open" /\ UNCHANGED request /\ UNCHANGED page
        /\ wire' = wire /\ queue' = queue /\ replaying' = replaying /\ overtaken' = overtaken
    BY DEF Connect, ReadOldest, database
  <2>2. wire = <<>> /\ queue = <<>>
    BY <1>1, <2>1, FrameFacts
  <2> QED
    BY <2>1, <2>2
<1>3. DOMAIN <<>> = {}
  OBVIOUS
<1>4. Own' = Own /\ Promised' = Promised
  BY <1>2 DEF Own, Promised, page
<1>5. \A s \in Own : Safe(s) => Safe(s)'
  BY <1>1, SafeStays
<1>6. Promised \subseteq Own
  BY DEF Promised
<1>7. CursorTold' /\ DrawnShown'
  <2>1. \A s : InReplay(s)' <=> InReplay(s)
    BY <1>2 DEF InReplay, Event
  <2>2. cursor' = cursor /\ live' = live
    BY <1>2 DEF page
  <2> QED
    BY <1>2, <1>4, <1>5, <1>6, <2>1, <2>2 DEF Told, CursorTold, DrawnShown
<1>8. HandshakeHears'
  <2>1. CASE Connect
    <3>1. current' = Latest
      BY <2>1 DEF Connect
    <3>2. \A s \in Own : ~(s > Latest)
      <4>1. \A s \in Own : s <= Latest
        BY <1>1, NewestIsKept
      <4>2. Latest \in Int /\ \A s \in Own : s \in Int
        BY <1>1, LatestFacts, LogFacts DEF Framed
      <4> QED
        BY <4>1, <4>2
    <3> QED
      BY <1>4, <3>1, <3>2 DEF HandshakeHears
  <2>2. CASE ReadOldest
    <3>1. conn \in {"latest", "oldest"} /\ current' = current /\ loop' = loop /\ unheard' = unheard
      BY <2>2 DEF ReadOldest, threads
    <3> QED
      BY <1>4, <3>1 DEF Told, HandshakeHears, Coming, Scheduled, Unheard
  <2> QED
    BY <2>1, <2>2
<1>9. SocketHears' /\ WireOrder' /\ QueueOrder' /\ ReplayWhole'
  BY <1>2, <1>3 DEF SocketHears, WireOrder, QueueOrder, ReplayWhole
<1> QED
  BY <1>7, <1>8, <1>9 DEF Told

\* A connection that breaks: what it owed is sent again, or is known to be lost.
LEMMA DisconnectTold ==
  ASSUME Placed, Told, Drop \/ Restart, Next
  PROVE  Told'
<1>1. Framed /\ CursorInv /\ WantedInv
  BY DEF Placed
<1>2. /\ log' = log /\ conn' = "closed" /\ UNCHANGED request /\ UNCHANGED page
      /\ wire' = <<>> /\ queue' = <<>> /\ Disconnected
  BY DEF Drop, Restart, Disconnected, database
<1>3. DOMAIN <<>> = {}
  OBVIOUS
<1>4. Own' = Own /\ Promised' = Promised /\ Promised \subseteq Own
  BY <1>2 DEF Own, Promised, page
<1>5. \A s \in Own : Safe(s) => Safe(s)'
  BY <1>1, SafeStays
<1>6. cursor' = cursor /\ live' = live
  BY <1>2 DEF page
<1>7. CursorTold'
  <2> SUFFICES ASSUME NEW s \in Promised, s <= cursor PROVE Safe(s)'
    BY <1>4, <1>6 DEF CursorTold
  <2>1. s \in Own
    BY <1>4
  <2>2. CASE Safe(s)
    BY <1>5, <2>1, <2>2
  <2>3. CASE InReplay(s)
    <3>1. s \in cutOff'
      BY <1>2, <2>1, <2>3 DEF Disconnected, InReplay
    <3> QED
      BY <3>1 DEF Safe, Lost
  <2>4. CASE s \in overtaken /\ conn = "open"
    <3>1. s \in Owed
      BY <2>4 DEF Owed, Promised
    <3>2. Safe(s) \/ OnWire(s) \/ OnQueue(s) \/ Coming(s)
      BY <2>4, <3>1 DEF Told, SocketHears
    <3>3. CASE OnWire(s) \/ OnQueue(s) \/ Coming(s)
      <4>1. OnItsWay(s)
        BY <1>1, <2>4, <3>3, ToldIsOnItsWay
      <4>2. s \in passedBy'
        BY <1>2, <2>1, <2>4, <4>1 DEF Disconnected
      <4> QED
        BY <4>2 DEF Safe, Lost
    <3> QED
      BY <2>2, <3>2, <3>3
  <2> QED
    BY <2>2, <2>3, <2>4 DEF Told, CursorTold
<1>8. DrawnShown'
  BY <1>2, <1>4, <1>5, <1>6 DEF Told, DrawnShown
<1>9. HandshakeHears' /\ SocketHears' /\ WireOrder' /\ QueueOrder' /\ ReplayWhole'
  BY <1>2, <1>3 DEF HandshakeHears, SocketHears, WireOrder, QueueOrder, ReplayWhole
<1> QED
  BY <1>7, <1>8, <1>9 DEF Told
\* Whatever is still owed was owed before, by a step that leaves what the page
\* has undertaken alone.
LEMMA SameOwed ==
  ASSUME log' = log, base' = base, conn = "open", conn' = "open",
         base = None => wire'[1].seq = wire[1].seq
  PROVE  Owed' = Owed /\ Promised' = Promised /\ Own' = Own
<1>1. Own' = Own
  BY DEF Own
<1> QED
  BY <1>1 DEF Owed, Promised

LEMMA FanoutTold ==
  ASSUME Placed, Told, Fanout
  PROVE  Told'
<1>1. TypeOK /\ Framed /\ RiseInv /\ CursorInv
  BY DEF Placed, Framed
<1>2. /\ log' = log /\ unheard' = unheard /\ conn' = conn /\ conn \in {"closed", "open"}
      /\ wire' = wire /\ replaying' = replaying /\ UNCHANGED request /\ UNCHANGED page
      /\ overtaken' = overtaken /\ UNCHANGED losses
  BY DEF Fanout, database, threads
<1>3. /\ Own' = Own /\ Promised' = Promised
      /\ \A s : /\ (Safe(s)' <=> Safe(s)) /\ (OnWire(s)' <=> OnWire(s))
               /\ (InReplay(s)' <=> InReplay(s))
  BY <1>2 DEF Own, Promised, Safe, Shown, Lost, OnWire, InReplay, Tells, Event, request, page, losses
<1>4. Owed' = Owed
  <2>1. conn' = conn /\ base' = base /\ wire' = wire /\ conn \notin {"latest", "oldest"}
    BY <1>2 DEF page
  <2> QED
    BY <1>3, <2>1 DEF Owed
<1>5. CursorTold' /\ DrawnShown' /\ ReplayWhole' /\ HandshakeHears'
  BY <1>2, <1>3, <1>4 DEF Told, CursorTold, DrawnShown, ReplayWhole, HandshakeHears, page
<1>6. WireOrder'
  BY <1>2, <1>3, <1>4 DEF Told, WireOrder, Tells, Event
<1>7. CASE conn # "open"
  <2>1. queue' = <<>> /\ conn' # "open"
    BY <1>1, <1>2, <1>7, FanoutFacts, FrameFacts
  <2>2. DOMAIN <<>> = {}
    OBVIOUS
  <2>3. SocketHears' /\ QueueOrder'
    BY <2>1, <2>2 DEF SocketHears, QueueOrder
  <2> QED
    BY <1>5, <1>6, <2>3 DEF Told
<1>8. CASE conn = "open" /\ queue' = <<TooSlow>>
  <2>1. 1 \in DOMAIN queue' /\ DOMAIN queue' = {1} /\ queue'[1] = TooSlow
    BY <1>8
  <2>2. \A s : OnQueue(s)'
    BY <2>1, EventShape DEF OnQueue, Tells
  <2>3. QueueOrder'
    BY <2>1, EventShape DEF QueueOrder
  <2> QED
    BY <1>5, <1>6, <2>2, <2>3 DEF Told, SocketHears
<1>9. CASE conn = "open" /\ queue' # <<TooSlow>>
  <2>1. PICK h, m : h = Head(loop) /\ m = MineOf(h)
    OBVIOUS
  <2>2. /\ h \in Seq(1..Len(log)) /\ Len(loop) \in Nat \ {0} /\ DOMAIN loop = 1..Len(loop)
        /\ h = loop[1] /\ DOMAIN loop' = 1..(Len(loop) - 1)
        /\ \A i \in 1..(Len(loop) - 1) : loop'[i] = loop[i + 1]
    BY <1>1, <2>1, FanoutFacts, FanoutRise
  <2>3. PICK w \in Seq(Messages) : /\ queue' = queue \o w /\ DOMAIN w = DOMAIN m
                                   /\ \A i \in DOMAIN w : w[i] = Event(m[i])
    <3>1. \E w \in Seq(Messages) :
                   /\ queue' = queue \o w /\ Len(queue) + Len(w) <= Capacity
                   /\ DOMAIN w = DOMAIN MineOf(Head(loop))
                   /\ \A i \in DOMAIN w : w[i] = Event(MineOf(Head(loop))[i])
      BY <1>1, <1>9, FanoutFacts
    <3> QED
      BY <2>1, <3>1
  <2>4. /\ m \in Seq(Own)
        /\ \A i \in DOMAIN m : \E k \in DOMAIN h : m[i] = h[k]
        /\ \A k \in DOMAIN h : h[k] \in Own => \E i \in DOMAIN m : m[i] = h[k]
        /\ Rising(h) => Rising(m)
    <3>1. /\ MineOf(h) \in Seq(Own)
          /\ \A i \in DOMAIN MineOf(h) : \E k \in DOMAIN h : MineOf(h)[i] = h[k]
          /\ \A k \in DOMAIN h : h[k] \in Own => \E i \in DOMAIN MineOf(h) : MineOf(h)[i] = h[k]
          /\ Rising(h) => Rising(MineOf(h))
      <4>1. PICK S : S = Seq(Lasting)
        OBVIOUS
      <4>2. loop \in Seq(S)
        BY <1>1, <4>1 DEF Framed, AnnouncedInv
      <4>3. 1 \in 1..Len(loop)
        BY <2>2
      <4>4. h \in S
        BY <2>2, <4>2, <4>3, ElementOfSeq
      <4> QED
        BY <1>1, <4>1, <4>4, MineOfFacts
    <3> QED
      BY <2>1, <3>1, Zenon
  <2>5. 1 \in DOMAIN loop
    BY <2>2
  <2>6. Rising(m)
    BY <1>1, <2>2, <2>4, <2>5 DEF RiseInv
  <2>7. PICK n, l : n = Len(queue) /\ l = Len(w)
    OBVIOUS
  <2>8. /\ n \in Nat /\ DOMAIN queue = 1..n /\ l \in Nat /\ DOMAIN w = 1..l
        /\ queue' \in Seq(Messages) /\ Len(queue') = n + l /\ DOMAIN queue' = 1..(n + l)
        /\ \A i \in 1..n : queue'[i] = queue[i]
        /\ \A i \in 1..l : queue'[n + i] = w[i]
    <3>1. PICK M : M = Messages
      OBVIOUS
    <3>2. queue \in Seq(M) /\ w \in Seq(M)
      BY <1>1, <3>1 DEF Framed, FramesInv
    <3>3. n \in Nat /\ DOMAIN queue = 1..n /\ l \in Nat /\ DOMAIN w = 1..l
      BY <2>7, <3>2, LenProperties
    <3>4. PICK g : g = queue \o w
      OBVIOUS
    <3>5. /\ g \in Seq(M) /\ Len(g) = Len(queue) + Len(w)
          /\ \A i \in 1 .. Len(queue) + Len(w) : g[i] =
               IF i <= Len(queue) THEN queue[i] ELSE w[i - Len(queue)]
      BY <3>2, <3>4, ConcatProperties
    <3>6. g \in Seq(M) /\ Len(g) = n + l /\ DOMAIN g = 1..(n + l)
      BY <2>7, <3>5, LenProperties
    <3>7. \A i \in 1..n : g[i] = queue[i]
      <4>1. \A i \in 1..n : i \in 1..(n + l) /\ i <= n
        BY <3>3
      <4> QED
        BY <2>7, <3>5, <4>1
    <3>8. ASSUME NEW i \in 1..l PROVE g[n + i] = w[i]
      <4>1. PICK x : x = n + i
        OBVIOUS
      <4>2. x \in 1 .. Len(queue) + Len(w) /\ ~(x <= Len(queue)) /\ x - Len(queue) = i
        BY <2>7, <3>3, <4>1
      <4>3. g[x] = w[x - Len(queue)]
        BY <3>5, <4>2
      <4> QED
        BY <4>1, <4>2, <4>3
    <3> QED
      BY <2>3, <3>1, <3>3, <3>4, <3>6, <3>7, <3>8
  <2>9. ASSUME NEW s \in Own, NEW k \in DOMAIN h, h[k] = s
        PROVE  \E i \in 1..l : m[i] = s /\ queue'[n + i] = Event(s)
    <3>1. PICK i \in DOMAIN m : m[i] = s
      BY <2>4, <2>9
    <3>2. i \in 1..l /\ i \in DOMAIN w
      BY <2>3, <2>8, <3>1
    <3>3. queue'[n + i] = Event(s)
      BY <2>3, <2>8, <3>1, <3>2
    <3> QED
      BY <3>1, <3>2, <3>3
  <2>10. ASSUME NEW s, OnQueue(s) PROVE OnQueue(s)'
    <3>1. PICK i \in 1..n : Tells(queue[i], s)
      BY <2>8, <2>10 DEF OnQueue
    <3>2. i \in 1..(n + l) /\ queue'[i] = queue[i]
      BY <2>8
    <3> QED
      BY <2>8, <3>1, <3>2 DEF OnQueue, Tells, Event
  <2>11. SocketHears'
    <3> SUFFICES ASSUME NEW s \in Owed
                 PROVE  (Safe(s) \/ OnWire(s) \/ OnQueue(s) \/ Coming(s))'
      BY <1>4 DEF SocketHears
    <3>1. s \in Own
      BY DEF Owed
    <3>2. Safe(s) \/ OnWire(s) \/ OnQueue(s) \/ Scheduled(s) \/ Unheard(s)
      BY <1>9 DEF Told, SocketHears, Coming
    <3>3. Unheard(s) => Unheard(s)'
      BY <1>2 DEF Unheard
    <3>4. CASE Scheduled(s)
      <4>1. PICK i \in 1..Len(loop) : \E k \in DOMAIN loop[i] : loop[i][k] = s
        BY <2>2, <3>4 DEF Scheduled
      <4>2. CASE i = 1
        <5>1. \E k \in DOMAIN h : h[k] = s
          BY <2>2, <4>1, <4>2
        <5>2. PICK j \in 1..l : queue'[n + j] = Event(s)
          BY <2>9, <3>1, <5>1
        <5>3. n + j \in DOMAIN queue'
          BY <2>8
        <5>4. OnQueue(s)'
          BY <5>2, <5>3 DEF OnQueue, Tells, Event
        <5> QED
          BY <5>4
      <4>3. CASE i # 1
        <5>1. i - 1 \in 1..(Len(loop) - 1) /\ i = (i - 1) + 1
          BY <2>2, <4>3
        <5>2. i - 1 \in DOMAIN loop' /\ loop'[i - 1] = loop[i]
          BY <2>2, <5>1
        <5>3. Scheduled(s)'
          BY <4>1, <5>2 DEF Scheduled
        <5> QED
          BY <5>3 DEF Coming
      <4> QED
        BY <4>2, <4>3
    <3> QED
      BY <1>3, <2>10, <3>2, <3>3, <3>4 DEF Coming
  <2>12. QueueOrder'
    <3> SUFFICES ASSUME NEW i \in 1..(n + l), queue'[i].type = "event",
                        NEW s \in Owed, s <= queue'[i].seq
                 PROVE  \/ Safe(s) \/ Late(overtaken, log, s, queue'[i].seq)
                        \/ OnWire(s) \/ \E j \in 1..i : Tells(queue'[j], s)
      BY <1>2, <1>3, <1>4, <2>8 DEF QueueOrder, Tells, Event
    <3>1. CASE i \in 1..n
      <4>1. queue'[i] = queue[i] /\ i \in DOMAIN queue
        BY <2>8, <3>1
      <4>2. \/ Safe(s) \/ Late(overtaken, log, s, queue[i].seq)
            \/ OnWire(s) \/ \E j \in 1..i : Tells(queue[j], s)
        BY <4>1 DEF Told, QueueOrder
      <4>3. \A j \in 1..i : queue'[j] = queue[j]
        <5>1. \A j \in 1..i : j \in 1..n
          BY <2>8, <3>1
        <5> QED
          BY <2>8, <5>1
      <4> QED
        BY <4>1, <4>2, <4>3
    <3>2. CASE i \notin 1..n
      <4>1. PICK a : a = i - n
        OBVIOUS
      <4>2. a \in 1..l /\ i = n + a
        BY <2>8, <3>2, <4>1
      <4>3. queue'[i] = Event(m[a]) /\ a \in DOMAIN m
        BY <2>3, <2>8, <4>2
      <4>4. queue'[i].seq = m[a] /\ s <= m[a]
        BY <4>3, EventShape
      <4>5. PICK c \in DOMAIN h : m[a] = h[c]
        BY <2>4, <4>3
      <4>6. /\ s \in Own /\ s \in Int /\ m[a] \in Int
        <5>1. Own \subseteq 1..Len(log) /\ Len(log) \in Nat
          BY <1>1, LogFacts
        <5>2. m[a] \in Own
          BY <2>4, <4>3, ElementOfSeq, LenProperties
        <5>3. (\A x \in Own : x \in Int) /\ s \in Own
          BY <5>1 DEF Owed
        <5> QED
          BY <5>2, <5>3
      <4>7. Safe(s) \/ OnWire(s) \/ OnQueue(s) \/ Scheduled(s) \/ Unheard(s)
        BY <1>9 DEF Told, SocketHears, Coming
      <4>11. i \in 1..i
        BY <2>8, <4>2
      <4>12. s = m[a] => Tells(queue'[i], s)
        BY <4>3 DEF Tells
      \* Either it is this one, or what is announced later is late.
      <4>13. ASSUME InTurn(overtaken, log, h[c], s)
             PROVE  s = m[a] \/ Late(overtaken, log, s, queue'[i].seq)
        BY <4>4, <4>5, <4>6, <4>13 DEF InTurn
      <4>8. CASE Unheard(s)
        <5>1. PICK p \in Publishers : \E k \in DOMAIN unheard[p] : unheard[p][k] = s
          BY <4>8 DEF Unheard
        <5>2. PICK k \in DOMAIN unheard[p] : unheard[p][k] = s
          BY <5>1
        <5>3. h[c] = loop[1][c] /\ c \in DOMAIN loop[1]
          BY <2>2
        <5>4. InTurn(overtaken, log, loop[1][c], unheard[p][k])
          BY <1>1, <2>5, <5>2, <5>3 DEF RiseInv
        <5> QED
          BY <4>11, <4>12, <4>13, <5>2, <5>3, <5>4
      <4>9. CASE OnQueue(s)
        <5>1. PICK j \in 1..n : Tells(queue[j], s)
          BY <2>8, <4>9 DEF OnQueue
        <5>2. j \in 1..i /\ queue'[j] = queue[j]
          BY <2>8, <4>2
        <5> QED
          BY <5>1, <5>2
      <4>10. CASE Scheduled(s)
        <5>1. PICK x \in 1..Len(loop) : \E k \in DOMAIN loop[x] : loop[x][k] = s
          BY <2>2, <4>10 DEF Scheduled
        <5>7. CASE x # 1
          <6>1. PICK k \in DOMAIN loop[x] : loop[x][k] = s
            BY <5>1
          <6>2. 1 < x /\ x \in DOMAIN loop
            BY <2>2, <5>7
          <6>3. c \in DOMAIN loop[1] /\ loop[1][c] = h[c]
            BY <2>2
          <6>4. InTurn(overtaken, log, loop[1][c], loop[x][k])
            BY <1>1, <2>5, <6>1, <6>2, <6>3 DEF RiseInv
          <6> QED
            BY <4>11, <4>12, <4>13, <6>1, <6>3, <6>4
        <5>2. CASE x = 1
          <6>3. \E k \in DOMAIN h : h[k] = s
            BY <2>2, <5>1, <5>2
          <6>4. PICK j \in 1..l : m[j] = s /\ queue'[n + j] = Event(s)
            BY <2>9, <4>6, <6>3
          <6>5. ~(a < j)
            <7>1. a < j => m[a] < m[j]
              BY <2>3, <2>6, <2>8, <4>3, <6>4 DEF Rising
            <7> QED
              BY <4>4, <4>6, <6>4, <7>1
          <6>6. n + j \in 1..i
            BY <2>8, <4>2, <6>4, <6>5
          <6> QED
            BY <6>4, <6>6 DEF Tells
        <5> QED
          BY <5>2, <5>7
      <4> QED
        BY <4>7, <4>8, <4>9, <4>10
    <3> QED
      BY <3>1, <3>2
  <2> QED
    BY <1>5, <1>6, <2>11, <2>12 DEF Told
<1> QED
  BY <1>7, <1>8, <1>9
\* The hello and its replay say all that the page does not have.
LEMMA GreetTold ==
  ASSUME Placed, Told, Greet
  PROVE  Told'
<1>1. TypeOK /\ Framed /\ RetainedInv /\ CursorInv
  BY DEF Placed, Framed
<1>2. /\ log' = log /\ unheard' = unheard /\ loop' = loop /\ conn = "oldest" /\ conn' = "open"
      /\ queue' = queue /\ UNCHANGED request /\ UNCHANGED page
      /\ overtaken' = overtaken /\ UNCHANGED losses
  BY DEF Greet, database, threads
<1>3. wire = <<>> /\ queue = <<>> /\ replaying = 0
  BY <1>1, <1>2, FrameFacts
<1>4. PICK r, n : r = Replay /\ n = Len(r)
  OBVIOUS
<1>5. /\ wire' \in Seq(Messages \cup Hellos) /\ Len(wire') = n + 1
      /\ wire'[1] = Hello(current, Behind) /\ n \in Nat /\ DOMAIN r = 1..n
      /\ \A i \in 1..n : wire'[i + 1] = Event(r[i]) /\ r[i] \in Own
      /\ DOMAIN wire' = 1..(n + 1) /\ replaying' = n + 1
  <2>1. /\ wire' \in Seq(Messages \cup Hellos) /\ Len(wire') = Len(Replay) + 1
        /\ wire'[1] = Hello(current, Behind)
        /\ Len(Replay) \in Nat /\ DOMAIN Replay = 1..Len(Replay)
        /\ \A i \in 1..Len(Replay) : wire'[i + 1] = Event(Replay[i]) /\ Replay[i] \in Own
    BY <1>1, GreetFacts
  <2>2. replaying' = Len(Replay) + 1
    BY DEF Greet
  <2>3. wire' \in Seq(Messages \cup Hellos) /\ Len(wire') = n + 1
    BY <1>4, <2>1
  <2>4. DOMAIN wire' = 1..(n + 1)
    BY <2>3, LenProperties
  <2> QED
    BY <1>4, <2>1, <2>2, <2>4
<1>6. wire'[1].type = "hello" /\ wire'[1].seq = current /\ wire'[1].resync = Behind
  BY <1>5 DEF Hello
<1>7. Own' = Own /\ Promised' = Promised
      /\ \A s : (Safe(s)' <=> Safe(s)) /\ (Coming(s)' <=> Coming(s))
  BY <1>2 DEF Own, Promised, Safe, Shown, Lost, Coming, Scheduled, Unheard, request, page, losses
<1>8. Owed' = Owed
  <2>1. base' = base
    BY <1>2 DEF page
  <2> QED
    BY <1>2, <1>6, <1>7, <2>1 DEF Owed
<1>9. /\ Len(log) \in Nat /\ Own \subseteq 1..Len(log) /\ current \in Nat
      /\ cursor \in {None} \cup (0..Len(log)) /\ base \in {None} \cup (0..Len(log))
      /\ MaxReplay \in Nat
  BY <1>1, FrameFacts, Sizes
<1>10. \A s \in Owed : s \in Own /\ s \in Nat
  BY <1>9 DEF Owed
\* What the replay is asked for and has.
<1>11. ASSUME cursor # None, ~Behind
       PROVE  /\ cursor \in Nat /\ current <= cursor + MaxReplay
              /\ \A s \in Own : s > cursor => s \in Stored
  <2>1. cursor \in Nat /\ cursor <= current /\ current - cursor <= MaxReplay
    BY <1>9, <1>11 DEF Behind, None
  <2>2. ASSUME NEW s \in Own, s > cursor PROVE s \in Stored
    <3>1. s \in Nat
      BY <1>9
    <3>2. s + MaxReplay > current
      BY <1>9, <2>1, <2>2, <3>1
    <3>3. conn \in {"latest", "oldest"}
      BY <1>2
    <3> QED
      BY <1>1, <3>2, <3>3, KeptForReplay
  <2> QED
    BY <1>9, <2>1, <2>2
<1>21. \A s \in Promised : s <= cursor => Safe(s)
  <2>1. \A s : ~InReplay(s)
    BY <1>3 DEF InReplay
  <2> QED
    BY <1>2, <2>1 DEF Told, CursorTold
<1>12. ASSUME NEW s \in Owed
       PROVE  \/ Safe(s) \/ s > current
              \/ cursor # None /\ (Behind \/ s > cursor)
  <2>1. CASE base = None
    <3>1. s > current
      BY <1>2, <2>1 DEF Owed
    <3> QED
      BY <3>1
  <2>2. CASE base # None
    <3>1. cursor # None /\ s \in Promised
      BY <1>1, <2>2 DEF CursorInv, Owed, Promised
    <3>2. CASE s <= cursor
      BY <1>21, <3>1, <3>2
    <3>3. CASE ~(s <= cursor)
      <4>1. s > cursor
        BY <1>9, <1>10, <3>1, <3>3
      <4> QED
        BY <3>1, <4>1
    <3> QED
      BY <3>2, <3>3
  <2> QED
    BY <2>1, <2>2
<1>13. /\ cursor = None \/ Behind => n = 0
       /\ cursor # None /\ ~Behind =>
            /\ \A i \in 1..n : \A s \in Stored \cap Own :
                 s > cursor /\ s <= r[i] => \E j \in 1..i : r[j] = s
            /\ \A s \in Stored \cap Own :
                 s > cursor /\ s <= cursor + MaxReplay => \E j \in 1..n : r[j] = s
  <2>1. /\ cursor = None \/ Behind => Replay = <<>>
        /\ cursor # None /\ ~Behind =>
              /\ \A i \in DOMAIN Replay : \A s \in Stored \cap Own :
                   s > cursor /\ s <= Replay[i] => \E j \in 1..i : Replay[j] = s
              /\ \A s \in Stored \cap Own :
                   s > cursor /\ s <= cursor + MaxReplay => \E j \in DOMAIN Replay : Replay[j] = s
    BY <1>1, ReplayFacts
  <2>2. /\ cursor = None \/ Behind => r = <<>>
        /\ cursor # None /\ ~Behind =>
              /\ \A i \in DOMAIN r : \A s \in Stored \cap Own :
                   s > cursor /\ s <= r[i] => \E j \in 1..i : r[j] = s
              /\ \A s \in Stored \cap Own :
                   s > cursor /\ s <= cursor + MaxReplay => \E j \in DOMAIN r : r[j] = s
    BY <1>4, <2>1, Zenon
  <2>3. DOMAIN r = 1..n /\ (r = <<>> => n = 0)
    BY <1>4, <1>5
  <2>4. CASE cursor = None \/ Behind
    BY <2>2, <2>3, <2>4
  <2>5. CASE cursor # None /\ ~Behind
    BY <2>2, <2>3, <2>5, Zenon
  <2> QED
    BY <2>4, <2>5
<1>14. CursorTold' /\ HandshakeHears'
  BY <1>2, <1>7, <1>21 DEF CursorTold, HandshakeHears, page
<1>15. DrawnShown'
  BY <1>2, <1>7 DEF Told, DrawnShown, page
<1>16. ASSUME NEW s \in Owed, s <= current, ~Safe(s), ~Behind
       PROVE  \E j \in 1..n : r[j] = s
  <2>1. cursor # None /\ s > cursor
    BY <1>9, <1>10, <1>12, <1>16
  <2>2. s \in Stored /\ s <= cursor + MaxReplay
    <3>1. cursor \in Nat /\ current <= cursor + MaxReplay
      BY <1>11, <1>16, <2>1
    <3>2. s \in Stored
      BY <1>10, <1>11, <1>16, <2>1
    <3> QED
      BY <1>9, <1>10, <1>16, <3>1, <3>2
  <2> QED
    BY <1>10, <1>13, <1>16, <2>1, <2>2
<1>17. SocketHears'
  <2> SUFFICES ASSUME NEW s \in Owed PROVE (Safe(s) \/ OnWire(s) \/ OnQueue(s) \/ Coming(s))'
    BY <1>8 DEF SocketHears
  <2>1. CASE s > current
    <3>1. Coming(s)
      BY <1>2, <1>10, <2>1 DEF Told, HandshakeHears
    <3> QED
      BY <1>7, <3>1
  <2>2. CASE s <= current /\ Behind
    <3>1. 1 \in DOMAIN wire' /\ wire'[1].resync
      BY <1>5, <1>6, <2>2
    <3>2. OnWire(s)'
      BY <3>1 DEF OnWire, Tells
    <3> QED
      BY <3>2
  <2>3. CASE s <= current /\ ~Behind /\ ~Safe(s)
    <3>1. PICK j \in 1..n : r[j] = s
      BY <1>16, <2>3
    <3>2. j + 1 \in DOMAIN wire' /\ wire'[j + 1] = Event(s)
      BY <1>5, <3>1
    <3>3. OnWire(s)'
      BY <3>2 DEF OnWire, Tells, Event
    <3> QED
      BY <3>3
  <2>4. s > current \/ s <= current
    BY <1>9, <1>10
  <2> QED
    BY <1>7, <2>1, <2>2, <2>3, <2>4
<1>18. WireOrder'
  <2> SUFFICES ASSUME NEW i \in 1..(n + 1), wire'[i].type = "event",
                      NEW s \in Owed, s <= wire'[i].seq
               PROVE  Safe(s) \/ \E j \in 1..i : Tells(wire'[j], s)
    BY <1>5, <1>7, <1>8 DEF WireOrder, Tells, Event
  <2>1. i # 1
    BY <1>6
  <2>2. PICK k : k = i - 1
    OBVIOUS
  <2>3. k \in 1..n /\ i = k + 1
    BY <1>5, <2>1, <2>2
  <2>4. wire'[i] = Event(r[k]) /\ s <= r[k] /\ r[k] \in Own
    BY <1>5, <2>3, EventShape
  <2>5. cursor # None /\ ~Behind
    BY <1>5, <1>13, <2>3
  <2>6. CASE s <= cursor
    <3>1. base # None /\ s \in Promised
      BY <1>1, <1>2, <2>5 DEF CursorInv, Owed, Promised
    <3> QED
      BY <1>21, <2>6, <3>1
  <2>7. CASE ~(s <= cursor)
    <3>1. s > cursor
      BY <1>10, <1>11, <2>5, <2>7
    <3>2. s \in Stored \cap Own
      BY <1>10, <1>11, <2>5, <3>1
    <3>3. PICK j \in 1..k : r[j] = s
      BY <1>13, <2>3, <2>4, <2>5, <3>1, <3>2
    <3>4. j \in 1..n /\ j + 1 \in 1..i
      BY <2>3, <1>5
    <3>5. wire'[j + 1] = Event(s)
      BY <1>5, <3>3, <3>4
    <3> QED
      BY <3>4, <3>5 DEF Tells
  <2> QED
    BY <2>6, <2>7
<1>19. QueueOrder'
  <2>1. DOMAIN <<>> = {}
    OBVIOUS
  <2> QED
    BY <1>2, <1>3, <2>1 DEF QueueOrder
<1>20. ReplayWhole'
  <2> SUFFICES ASSUME ~Behind, NEW s \in Owed, s <= current, ~Safe(s)
               PROVE  InReplay(s)'
    BY <1>6, <1>7, <1>8 DEF ReplayWhole
  <2>1. PICK j \in 1..n : r[j] = s
    BY <1>16
  <2>2. j + 1 \in 1..replaying' /\ wire'[j + 1] = Event(s)
    BY <1>5, <2>1
  <2> QED
    BY <2>2 DEF InReplay, Event
<1> QED
  BY <1>14, <1>15, <1>17, <1>18, <1>19, <1>20 DEF Told


\* A frame is sent: nothing changes its place.
LEMMA SendTold ==
  ASSUME Placed, Told, Send
  PROVE  Told'
<1>1. Framed /\ CursorInv
  BY DEF Placed
<1>2. /\ log' = log /\ unheard' = unheard /\ loop' = loop /\ conn = "open" /\ conn' = "open"
      /\ replaying' = replaying /\ UNCHANGED request /\ UNCHANGED page
      /\ overtaken' = overtaken /\ UNCHANGED losses
  BY DEF Send, database, threads
<1>3. PICK m, n, q : m = Len(wire) /\ n = Len(queue) /\ q = queue[1]
  OBVIOUS
<1>4. /\ m \in Nat /\ DOMAIN wire = 1..m /\ DOMAIN wire' = 1..(m + 1)
      /\ \A i \in 1..m : wire'[i] = wire[i]
      /\ wire'[m + 1] = q
      /\ n \in Nat \ {0} /\ DOMAIN queue = 1..n /\ DOMAIN queue' = 1..(n - 1)
      /\ \A i \in 1..(n - 1) : queue'[i] = queue[i + 1]
  BY <1>1, <1>3, SendFacts
<1>5. base = None => wire'[1] = wire[1]
  <2>1. base = None => wire # <<>>
    BY <1>1, <1>2 DEF CursorInv
  <2>2. wire # <<>> => m # 0
    <3>1. PICK F : F = Messages \cup Hellos
      OBVIOUS
    <3>2. wire \in Seq(F)
      BY <1>1, <3>1 DEF Framed, FramesInv
    <3> QED
      BY <1>3, <3>2
  <2>3. m # 0 => 1 \in 1..m
    BY <1>4
  <2> QED
    BY <1>4, <2>1, <2>2, <2>3
<1>6. Owed' = Owed /\ Promised' = Promised /\ Own' = Own
  <2>1. base' = base
    BY <1>2 DEF page
  <2> QED
    BY <1>2, <1>5, <2>1, SameOwed
<1>7. \A s : (Safe(s)' <=> Safe(s)) /\ (Coming(s)' <=> Coming(s))
  BY <1>2 DEF Safe, Shown, Lost, Coming, Scheduled, Unheard, request, page, losses
<1>16. \A s : InReplay(s)' <=> InReplay(s)
  <2>1. \A i \in 1..replaying : wire'[i] = wire[i]
    <3>1. replaying \in 0..Len(wire)
      BY <1>1, FrameFacts
    <3> QED
      BY <1>3, <1>4, <3>1
  <2> QED
    BY <1>2, <2>1 DEF InReplay, Event
<1>8. CursorTold' /\ DrawnShown' /\ HandshakeHears'
  BY <1>2, <1>6, <1>7, <1>16 DEF Told, CursorTold, DrawnShown, HandshakeHears, page
<1>9. ASSUME NEW s, Tells(q, s) PROVE OnWire(s)'
  <2>1. m + 1 \in DOMAIN wire'
    BY <1>4
  <2> QED
    BY <1>4, <1>9, <2>1 DEF OnWire, Tells, Event
<1>10. ASSUME NEW s, OnWire(s) PROVE OnWire(s)'
  <2>1. PICK i \in 1..m : Tells(wire[i], s)
    BY <1>4, <1>10 DEF OnWire
  <2>2. i \in DOMAIN wire' /\ wire'[i] = wire[i]
    BY <1>4
  <2> QED
    BY <2>1, <2>2 DEF OnWire, Tells, Event
<1>11. ASSUME NEW s, OnQueue(s) PROVE OnWire(s)' \/ OnQueue(s)'
  <2>1. PICK i \in 1..n : Tells(queue[i], s)
    BY <1>4, <1>11 DEF OnQueue
  <2>2. CASE i = 1
    BY <1>3, <1>9, <2>1, <2>2
  <2>3. CASE i # 1
    <3>1. PICK k : k = i - 1
      OBVIOUS
    <3>2. k \in 1..(n - 1) /\ i = k + 1
      BY <1>4, <2>3, <3>1
    <3>3. k \in DOMAIN queue' /\ queue'[k] = queue[i]
      BY <1>4, <3>2
    <3> QED
      BY <2>1, <3>3 DEF OnQueue, Tells, Event
  <2> QED
    BY <2>2, <2>3
<1>12. SocketHears'
  <2> SUFFICES ASSUME NEW s \in Owed PROVE (Safe(s) \/ OnWire(s) \/ OnQueue(s) \/ Coming(s))'
    BY <1>6 DEF SocketHears
  <2>1. Safe(s) \/ OnWire(s) \/ OnQueue(s) \/ Coming(s)
    BY <1>2 DEF Told, SocketHears
  <2> QED
    BY <1>7, <1>10, <1>11, <2>1
<1>13. WireOrder'
  <2> SUFFICES ASSUME NEW i \in 1..(m + 1), wire'[i].type = "event",
                      NEW s \in Owed, s <= wire'[i].seq
               PROVE  \/ Safe(s) \/ Late(overtaken, log, s, wire'[i].seq)
                      \/ \E j \in 1..i : Tells(wire'[j], s)
    BY <1>2, <1>4, <1>6, <1>7 DEF WireOrder, Tells, Event
  <2>1. CASE i \in 1..m
    <3>1. wire'[i] = wire[i] /\ i \in DOMAIN wire
      BY <1>4, <2>1
    <3>2. Safe(s) \/ Late(overtaken, log, s, wire[i].seq) \/ \E j \in 1..i : Tells(wire[j], s)
      BY <3>1 DEF Told, WireOrder
    <3>3. \A j \in 1..i : wire'[j] = wire[j]
      <4>1. \A j \in 1..i : j \in 1..m
        BY <1>4, <2>1
      <4> QED
        BY <1>4, <4>1
    <3> QED
      BY <3>1, <3>2, <3>3
  <2>2. CASE i \notin 1..m
    <3>1. i = m + 1 /\ wire'[i] = queue[1] /\ 1 \in DOMAIN queue
      BY <1>3, <1>4, <2>2
    <3>2. \/ Safe(s) \/ Late(overtaken, log, s, wire'[i].seq)
          \/ OnWire(s) \/ \E j \in 1..1 : Tells(queue[j], s)
      BY <3>1 DEF Told, QueueOrder
    <3>3. CASE OnWire(s)
      <4>1. PICK j \in 1..m : Tells(wire[j], s)
        BY <1>4, <3>3 DEF OnWire
      <4>2. j \in 1..i /\ wire'[j] = wire[j]
        BY <1>4, <3>1
      <4> QED
        BY <4>1, <4>2
    <3>4. CASE \E j \in 1..1 : Tells(queue[j], s)
      <4>1. Tells(wire'[i], s) /\ i \in 1..i
        BY <1>4, <3>1, <3>4
      <4> QED
        BY <4>1
    <3> QED
      BY <3>2, <3>3, <3>4
  <2> QED
    BY <2>1, <2>2
<1>14. QueueOrder'
  <2> SUFFICES ASSUME NEW i \in 1..(n - 1), queue'[i].type = "event",
                      NEW s \in Owed, s <= queue'[i].seq
               PROVE  \/ Safe(s) \/ Late(overtaken, log, s, queue'[i].seq)
                      \/ OnWire(s)' \/ \E j \in 1..i : Tells(queue'[j], s)
    BY <1>2, <1>4, <1>6, <1>7 DEF QueueOrder, Tells, Event
  <2>1. i + 1 \in DOMAIN queue /\ queue'[i] = queue[i + 1] /\ i \in Nat
    BY <1>4
  <2>2. \/ Safe(s) \/ Late(overtaken, log, s, queue'[i].seq)
        \/ OnWire(s) \/ \E j \in 1..(i + 1) : Tells(queue[j], s)
    BY <2>1 DEF Told, QueueOrder
  <2>3. CASE \E j \in 1..(i + 1) : Tells(queue[j], s)
    <3>1. PICK j \in 1..(i + 1) : Tells(queue[j], s)
      BY <2>3
    <3>2. CASE j = 1
      BY <1>3, <1>9, <3>1, <3>2
    <3>3. CASE j # 1
      <4>1. PICK k : k = j - 1
        OBVIOUS
      <4>2. k \in 1..i /\ k \in 1..(n - 1) /\ j = k + 1
        BY <1>4, <2>1, <3>3, <4>1
      <4>3. queue'[k] = queue[j]
        BY <1>4, <4>2
      <4> QED
        BY <3>1, <4>2, <4>3
    <3> QED
      BY <3>2, <3>3
  <2> QED
    BY <1>10, <2>2, <2>3
<1>15. ReplayWhole'
  <2>1. CASE wire # <<>>
    <3>1. 1 \in 1..m
      BY <1>1, <1>4, <2>1, FirstFrame
    <3>2. wire'[1] = wire[1]
      BY <1>4, <3>1
    <3> QED
      BY <1>6, <1>7, <1>16, <2>1, <3>2 DEF Told, ReplayWhole
  <2>2. CASE wire = <<>>
    <3>1. m = 0 /\ wire'[1] = queue[1] /\ 1 \in DOMAIN queue
      BY <1>3, <1>4, <2>2
    <3>2. wire'[1] \in Messages
      BY <1>1, <3>1, FrameFacts
    <3>3. wire'[1].type # "hello"
      BY <3>2, EventShape DEF Messages
    <3> QED
      BY <3>3 DEF ReplayWhole
  <2> QED
    BY <2>1, <2>2
<1> QED
  BY <1>8, <1>12, <1>13, <1>14, <1>15 DEF Told
\* What the page reads it shows or asks for, and so it does with what came
\* before, but for what was overtaken.
LEMMA ReceiveTold ==
  ASSUME Placed, Told, Receive, Next
  PROVE  Told'
<1>1. TypeOK /\ Framed /\ CursorInv /\ WantedInv
  BY DEF Placed, Framed
<1>2. /\ log' = log /\ unheard' = unheard /\ loop' = loop /\ conn = "open" /\ conn' = "open"
      /\ queue' = queue /\ overtaken' = overtaken
      /\ replaying' = IF replaying > 0 THEN replaying - 1 ELSE 0
  BY DEF Receive, database, threads
<1>3. PICK f, n : f = wire[1] /\ n = Len(wire)
  OBVIOUS
<1>4. /\ n \in Nat \ {0} /\ DOMAIN wire = 1..n /\ f \in Messages \cup Hellos
      /\ ReceiveHello(f) \/ ReceiveResync(f) \/ ReceiveEvent(f)
      /\ DOMAIN wire' = 1..(n - 1)
      /\ \A i \in 1..(n - 1) : wire'[i] = wire[i + 1]
      /\ \A i \in 2..n : wire[i].type # "hello"
  BY <1>1, <1>3, ReceiveFacts
<1>5. /\ f.type = "event" => f.seq \in Own /\ f = Event(f.seq) /\ f.resync = FALSE
      /\ f.type = "hello" => f.seq \in 0..Len(log)
      /\ f.type = "resync" => f.resync = TRUE
  BY <1>4, FrameKinds
<1>6. /\ Len(log) \in Nat /\ Own \subseteq 1..Len(log) /\ replaying \in 0..n
      /\ cursor \in {None} \cup (0..Len(log)) /\ base \in {None} \cup (0..Len(log))
      /\ DOMAIN log = 1..Len(log)
  BY <1>1, <1>3, FrameFacts, LogFacts
<1>7. base = None => f.type = "hello"
  BY <1>1, <1>2, <1>3 DEF CursorInv
<1>8. Own' = Own /\ \A s : Coming(s)' <=> Coming(s)
  BY <1>2 DEF Own, Coming, Scheduled, Unheard
<1>9. Owed' = Owed /\ Promised' = Owed
  <2>1. base' # None /\ (base # None => base' = base) /\ (base = None => base' = f.seq)
    <3>1. CASE ReceiveHello(f)
      BY <1>5, <3>1 DEF ReceiveHello, None
    <3>2. CASE ReceiveResync(f)
      BY <1>7, <3>2 DEF ReceiveResync
    <3>3. CASE ReceiveEvent(f)
      BY <1>7, <3>3 DEF ReceiveEvent
    <3> QED
      BY <1>4, <3>1, <3>2, <3>3
  <2> QED
    BY <1>2, <1>3, <1>8, <2>1 DEF Owed, Promised
<1>10. \A s \in Own : Safe(s) => Safe(s)'
  BY <1>1, SafeStays
<1>11. \A s \in Owed : s \in Own /\ s \in Nat
  BY <1>6 DEF Owed
<1>12. HandshakeHears'
  BY <1>2 DEF HandshakeHears
<1>13. CASE f.resync
  <2>1. \A s \in Owed : Safe(s)'
    <3>1. DOMAIN log \subseteq wanted'
      BY <1>1, <1>3, <1>13, ReceiveKeeps
    <3> QED
      BY <1>6, <1>11, <3>1 DEF Safe
  <2>2. live' = {}
    <3>1. f.type # "event"
      BY <1>5, <1>13
    <3> QED
      BY <1>4, <1>13, <3>1 DEF ReceiveHello, ReceiveResync, ReceiveEvent, StartAgain
  <2>3. CursorTold' /\ DrawnShown' /\ SocketHears' /\ WireOrder' /\ QueueOrder' /\ ReplayWhole'
    BY <1>9, <2>1, <2>2 DEF CursorTold, DrawnShown, SocketHears, WireOrder, QueueOrder, ReplayWhole
  <2> QED
    BY <1>12, <2>3 DEF Told
<1>14. CASE ~f.resync
  <2>2. \A s : Tells(f, s) => f = Event(s)
    BY <1>14 DEF Tells
  <2>11. \A s : InReplay(s) => f = Event(s) \/ InReplay(s)'
    <3> SUFFICES ASSUME NEW s, InReplay(s), f # Event(s) PROVE InReplay(s)'
      OBVIOUS
    <3>1. PICK i \in 1..replaying : wire[i] = Event(s)
      BY DEF InReplay
    <3>2. PICK j : j = i - 1
      OBVIOUS
    <3>3. i # 1
      BY <1>3, <3>1
    <3>6. i \in 1..replaying /\ i \in Nat /\ replaying \in Nat
      BY <1>4, <1>6, <3>1
    <3>7. replaying > 0 /\ replaying' = replaying - 1
      BY <1>2, <3>6
    <3>4. j \in 1..replaying' /\ j \in 1..(n - 1) /\ i = j + 1
      BY <1>4, <1>6, <3>2, <3>3, <3>6, <3>7
    <3>5. wire'[j] = Event(s)
      BY <1>4, <3>1, <3>4
    <3> QED
      BY <3>4, <3>5 DEF InReplay, Event
  \* What the page is told it shows, and what came before it too.
  <2>3. /\ \A s \in Owed : Tells(f, s) => Safe(s)'
        /\ \A s \in Owed : s <= cursor' => Safe(s)' \/ InReplay(s)' \/ s \in overtaken
        /\ \A t \in live' : /\ log[t] = "sample"
                            /\ \A s \in Owed : s <= t /\ log[s] = "sample" => Safe(s)'
    <3>1. CASE ReceiveHello(f)
      <4>1. cursor' = f.seq /\ live' = live /\ f.type = "hello"
        BY <1>14, <3>1 DEF ReceiveHello
      <4>2. \A s : f # Event(s)
        BY <4>1, EventShape
      <4>3. \A s \in Owed : ~Tells(f, s)
        BY <2>2, <4>2
      <4>4. ASSUME NEW s \in Owed, s <= f.seq PROVE Safe(s)' \/ InReplay(s)'
        <5>1. wire # <<>>
          BY DEF Receive
        <5>2. Safe(s) \/ InReplay(s)
          BY <1>3, <1>14, <4>1, <4>4, <5>1 DEF Told, ReplayWhole
        <5> QED
          BY <1>10, <1>11, <2>11, <4>2, <5>2
      <4>5. ASSUME NEW t \in live
            PROVE  /\ log[t] = "sample"
                   /\ \A s \in Owed : s <= t /\ log[s] = "sample" => Safe(s)'
        <5>1. base # None
          BY <1>1, <4>5 DEF CursorInv
        <5>2. \A s \in Owed : s \in Promised
          BY <5>1 DEF Owed, Promised
        <5> QED
          BY <1>10, <1>11, <4>5, <5>2 DEF Told, DrawnShown
      <4> QED
        BY <4>1, <4>3, <4>4, <4>5
    <3>2. CASE ReceiveResync(f)
      BY <1>5, <1>14, <3>2 DEF ReceiveResync
    <3>3. CASE ReceiveEvent(f)
      <4>1. PICK x : x = f.seq
        OBVIOUS
      <4>2. /\ f.type = "event" /\ cursor' = x /\ x \in Own /\ f = Event(x)
            /\ log[x] = "sample" => live' = Plotted(x)
            /\ log[x] # "sample" => live' = live /\ x \in wanted'
        BY <1>5, <3>3, <4>1 DEF ReceiveEvent, Bump
      <4>3. base # None
        BY <1>7, <4>2
      <4>4. x \in Int /\ \A s \in Owed : s \in Promised /\ s \in Int
        BY <1>6, <1>11, <4>2, <4>3 DEF Owed, Promised
      <4>5. x \in Owed => Safe(x)'
        <5> SUFFICES ASSUME x \in Owed PROVE Safe(x)'
          OBVIOUS
        <5>1. CASE log[x] # "sample"
          BY <4>2, <5>1 DEF Safe
        <5>2. CASE log[x] = "sample" /\ \E t \in live : Match(t) = Match(x) /\ t >= x
          <6>1. PICK t \in live : t >= x
            BY <5>2
          <6>2. t \in Int
            <7>1. live \subseteq Own
              BY <1>1, FrameFacts
            <7>2. \A r \in Own : r \in Int
              BY <1>6
            <7> QED
              BY <7>1, <7>2
          <6>3. Safe(x)
            BY <4>4, <5>2, <6>1, <6>2 DEF Told, DrawnShown
          <6> QED
            BY <1>10, <4>2, <6>3
        <5>3. CASE log[x] = "sample" /\ ~(\E t \in live : Match(t) = Match(x) /\ t >= x)
          <6>1. x \in live'
            BY <4>2, <5>3 DEF Plotted
          <6> QED
            BY <6>1 DEF Safe, Shown
        <5> QED
          BY <5>1, <5>2, <5>3
      <4>6. ASSUME NEW s \in Owed, s <= x PROVE Safe(s)' \/ Late(overtaken, log, s, x)
        <5>1. 1 \in DOMAIN wire /\ wire[1].type = "event" /\ wire[1].seq = x
          BY <1>3, <1>4, <4>1, <4>2
        <5>2. Safe(s) \/ Late(overtaken, log, s, x) \/ \E j \in 1..1 : Tells(wire[j], s)
          BY <4>6, <5>1 DEF Told, WireOrder
        <5>3. CASE \E j \in 1..1 : Tells(wire[j], s)
          <6>1. Tells(f, s)
            BY <1>3, <5>3
          <6>2. s = x
            <7>1. f = Event(s) /\ f = Event(x)
              BY <2>2, <4>2, <6>1
            <7> QED
              BY <7>1 DEF Event
          <6> QED
            BY <4>5, <6>2
        <5> QED
          BY <1>10, <1>11, <5>2, <5>3
      <4>7. ASSUME NEW s \in Owed, Tells(f, s) PROVE Safe(s)'
        <5>1. s = x
          <6>1. f = Event(s) /\ f = Event(x)
            BY <2>2, <4>2, <4>7
          <6> QED
            BY <6>1 DEF Event
        <5> QED
          BY <4>5, <5>1
      <4>8. ASSUME NEW t \in live'
            PROVE  /\ log[t] = "sample"
                   /\ \A s \in Owed : s <= t /\ log[s] = "sample" => Safe(s)'
        <5>1. t \in live \/ (t = x /\ log[x] = "sample")
          BY <4>2 DEF Plotted
        <5>2. CASE t \in live
          BY <1>10, <1>11, <4>4, <5>2 DEF Told, DrawnShown
        <5>3. CASE t = x /\ log[x] = "sample"
          <6>1. \A s : log[s] = "sample" => ~Late(overtaken, log, s, x)
            BY <5>3 DEF Late
          <6> QED
            BY <4>6, <5>3, <6>1
        <5> QED
          BY <5>1, <5>2, <5>3
      <4>9. \A s : Late(overtaken, log, s, x) => s \in overtaken
        BY DEF Late
      <4> QED
        BY <4>2, <4>6, <4>7, <4>8, <4>9
    <3> QED
      BY <1>4, <3>1, <3>2, <3>3
  <2>4. CursorTold' /\ DrawnShown'
    BY <1>2, <1>9, <2>3 DEF CursorTold, DrawnShown
  \* The rest of the wire moves up.
  <2>5. ASSUME NEW s \in Owed, NEW i \in 1..n, Tells(wire[i], s)
        PROVE  Safe(s)' \/ \E j \in 1..(n - 1) : j = i - 1 /\ Tells(wire'[j], s)
    <3>1. CASE i = 1
      BY <1>3, <2>3, <2>5, <3>1
    <3>2. CASE i # 1
      <4>1. PICK j : j = i - 1
        OBVIOUS
      <4>2. j \in 1..(n - 1) /\ i = j + 1
        BY <1>4, <3>2, <4>1
      <4>3. wire'[j] = wire[i]
        BY <1>4, <4>2
      <4> QED
        BY <2>5, <4>1, <4>2, <4>3
    <3> QED
      BY <3>1, <3>2
  <2>6. ASSUME NEW s \in Owed, OnWire(s) PROVE Safe(s)' \/ OnWire(s)'
    <3>1. PICK i \in 1..n : Tells(wire[i], s)
      BY <1>4, <2>6 DEF OnWire
    <3>2. Safe(s)' \/ \E j \in 1..(n - 1) : j = i - 1 /\ Tells(wire'[j], s)
      BY <2>5, <3>1
    <3> QED
      BY <1>4, <3>2 DEF OnWire, Tells, Event
  <2>7. SocketHears'
    <3> SUFFICES ASSUME NEW s \in Owed PROVE (Safe(s) \/ OnWire(s) \/ OnQueue(s) \/ Coming(s))'
      BY <1>9 DEF SocketHears
    <3>1. Safe(s) \/ OnWire(s) \/ OnQueue(s) \/ Coming(s)
      BY <1>2 DEF Told, SocketHears
    <3>2. OnQueue(s) => OnQueue(s)'
      BY <1>2 DEF OnQueue, Tells, Event
    <3> QED
      BY <1>8, <1>10, <1>11, <2>6, <3>1, <3>2
  <2>8. WireOrder'
    <3> SUFFICES ASSUME NEW i \in 1..(n - 1), wire'[i].type = "event",
                        NEW s \in Owed, s <= wire'[i].seq
                 PROVE  \/ Safe(s)' \/ Late(overtaken, log, s, wire'[i].seq)
                        \/ \E j \in 1..i : Tells(wire'[j], s)
      BY <1>2, <1>4, <1>9 DEF WireOrder, Tells, Event
    <3>1. i \in Nat /\ i + 1 \in DOMAIN wire /\ wire'[i] = wire[i + 1]
      BY <1>4
    <3>2. \/ Safe(s) \/ Late(overtaken, log, s, wire'[i].seq)
          \/ \E j \in 1..(i + 1) : Tells(wire[j], s)
      BY <3>1 DEF Told, WireOrder
    <3>3. CASE \E j \in 1..(i + 1) : Tells(wire[j], s)
      <4>1. PICK j \in 1..(i + 1) : Tells(wire[j], s)
        BY <3>3
      <4>2. j \in 1..n /\ (j # 1 => j - 1 \in 1..i) /\ j - 1 <= i
        BY <1>4, <3>1
      <4>3. Safe(s)' \/ \E k \in 1..(n - 1) : k = j - 1 /\ Tells(wire'[k], s)
        BY <2>5, <4>1, <4>2
      <4>4. \A k \in 1..(n - 1) : k = j - 1 => k \in 1..i
        BY <1>4, <3>1, <4>2
      <4> QED
        BY <4>3, <4>4
    <3> QED
      BY <1>10, <1>11, <3>2, <3>3
  <2>9. QueueOrder'
    <3> SUFFICES ASSUME NEW i \in DOMAIN queue, queue[i].type = "event",
                        NEW s \in Owed, s <= queue[i].seq
                 PROVE  \/ Safe(s)' \/ Late(overtaken, log, s, queue[i].seq)
                        \/ OnWire(s)' \/ \E j \in 1..i : Tells(queue[j], s)
      BY <1>2, <1>9 DEF QueueOrder, Tells, Event
    <3>1. \/ Safe(s) \/ Late(overtaken, log, s, queue[i].seq)
          \/ OnWire(s) \/ \E j \in 1..i : Tells(queue[j], s)
      BY DEF Told, QueueOrder
    <3> QED
      BY <1>10, <1>11, <2>6, <3>1
  <2>10. ReplayWhole'
    <3> SUFFICES ASSUME wire' # <<>>, wire'[1].type = "hello" PROVE FALSE
      BY DEF ReplayWhole
    <3>1. 1 \in DOMAIN wire'
      <4>1. Framed'
        BY <1>1, NextFramed
      <4>2. PICK F : F = (Messages \cup Hellos)'
        OBVIOUS
      <4>3. wire' \in Seq(F)
        BY <4>1, <4>2 DEF Framed, FramesInv
      <4> QED
        BY <4>3
    <3>2. wire'[1] = wire[2] /\ 2 \in 2..n
      BY <1>4, <3>1
    <3> QED
      BY <1>4, <3>2
  <2> QED
    BY <1>12, <2>4, <2>7, <2>8, <2>9, <2>10 DEF Told
<1> QED
  BY <1>13, <1>14

LEMMA InitFollowed ==
  ASSUME Init
  PROVE  Followed
<1>1. Framed
  BY InitFramed
<1>2. DOMAIN <<>> = {} /\ Rising(<<>>)
  BY DEF Rising
<1>3. RiseInv
  BY <1>2 DEF Init, RiseInv, Publishers
<1>4. RetainedInv /\ CursorInv /\ WantedInv
  BY DEF Init, RetainedInv, CursorInv, WantedInv
<1>5. Told
  <2>1. base = None /\ conn = "closed" /\ wire = <<>> /\ queue = <<>> /\ live = {} /\ replaying = 0
    BY DEF Init
  <2> QED
    BY <1>2, <2>1 DEF Told, CursorTold, DrawnShown, HandshakeHears, SocketHears, WireOrder,
                      QueueOrder, ReplayWhole, Promised
<1> QED
  BY <1>1, <1>3, <1>4, <1>5 DEF Followed, Placed

LEMMA NextFollowed ==
  ASSUME Followed, [Next]_vars
  PROVE  Followed'
<1>1. Placed /\ Told /\ Framed /\ RiseInv /\ RetainedInv /\ CursorInv /\ WantedInv
  BY DEF Followed, Placed
<1>2. Placed'
  BY <1>1, NextFramed, NextRise, NextRetained, NextCursor, NextWanted DEF Placed
<1>3. CASE UNCHANGED vars
  <2>1. Told'
    BY <1>1, <1>3, StillTold
  <2> QED
    BY <1>2, <2>1 DEF Followed
<1>4. CASE Next
  <2> SUFFICES Told'
    BY <1>2 DEF Followed
  <2>1. CASE IngestCommits \/ OverrideCommits
    <3>1. PICK p \in Publishers, b \in Seq(Kinds) :
            Commit(p, b) /\ (p = "override" => \A k \in DOMAIN b : b[k] = "other")
      BY <2>1, WhoCommits
    <3> QED
      BY <1>1, <1>4, <3>1, CommitTold
  <2>2. CASE Rollback
    BY <1>1, <1>4, <2>2, RollbackTold
  <2>3. CASE \E p \in Publishers : Publish(p)
    BY <1>1, <1>4, <2>3, PublishTold
  <2>4. CASE Trim \/ Answer \/ Land \/ FetchFail
    BY <1>1, <2>4, StillTold
  <2>5. CASE Fanout
    BY <1>1, <2>5, FanoutTold
  <2>6. CASE Connect \/ ReadOldest
    BY <1>1, <1>4, <2>6, ConnectTold
  <2>7. CASE Drop \/ Restart
    BY <1>1, <1>4, <2>7, DisconnectTold
  <2>8. CASE Greet
    BY <1>1, <2>8, GreetTold
  <2>9. CASE Send
    BY <1>1, <2>9, SendTold
  <2>10. CASE Receive
    BY <1>1, <1>4, <2>10, ReceiveTold
  <2> QED
    BY <1>4, <2>1, <2>2, <2>3, <2>4, <2>5, <2>6, <2>7, <2>8, <2>9, <2>10, Zenon DEF Next
<1> QED
  BY <1>3, <1>4

LEMMA FollowedHolds == Spec => []Followed
<1>1. Init => Followed
  BY InitFollowed
<1>2. Followed /\ [Next]_vars => Followed'
  BY NextFollowed
<1> QED
  BY <1>1, <1>2, PTL DEF Spec

\* What is wanted of a request that is under way is being fetched.
LEMMA WantedIsFetched ==
  ASSUME Framed, WantedInv, NEW s, s \in wanted
  PROVE  BeingFetched(s)
BY DEF Framed, TypeOK, WantedInv, BeingFetched

\* Whatever the server and the page do, and whenever a connection breaks, the
\* server ends or a request fails: the events of its account up to the page's
\* cursor are on the page, being fetched or on the connection, but for those of
\* a replay that broke behind its hello, those overtaken when the connection
\* broke, and those wanted of a request that failed (live.ts goes on from its
\* cursor instead of from a snapshot).
THEOREM NothingIsSkipped == Spec => []NothingSkipped
<1>1. Followed => NothingSkipped
  <2> SUFFICES ASSUME Followed, NEW s \in Promised, s \notin Lost, s <= cursor
               PROVE  Cared(s)
    BY DEF NothingSkipped
  <2>1. Framed /\ WantedInv /\ Told
    BY DEF Followed, Placed
  <2>2. Safe(s) => Cared(s)
    BY <2>1, WantedIsFetched DEF Safe, Cared
  <2>3. CASE conn = "open"
    <3>1. s \in Owed
      BY DEF Owed, Promised
    <3>2. Safe(s) \/ OnWire(s) \/ OnQueue(s) \/ Coming(s)
      BY <2>1, <2>3, <3>1 DEF Told, SocketHears
    <3> QED
      BY <2>1, <2>2, <2>3, <3>2, ToldIsOnItsWay DEF Cared
  <2>4. CASE conn # "open"
    <3>1. ~InReplay(s)
      <4>1. replaying = 0
        BY <2>1, <2>4, FrameFacts
      <4> QED
        BY <4>1 DEF InReplay
    <3> QED
      BY <2>1, <2>2, <2>4, <3>1 DEF Told, CursorTold
  <2> QED
    BY <2>3, <2>4
<1> QED
  BY <1>1, FollowedHolds, PTL

\* On an open connection that goes for all of its account's events, those
\* committed while the handshake read the log included: the socket subscribes
\* before the handshake reads, and the replay overlaps what is fanned out.
THEOREM NothingIsMissedLive == Spec => []NothingMissedLive
<1>1. Followed => NothingMissedLive
  <2> SUFFICES ASSUME Followed, conn = "open", NEW s \in Promised, s \notin Lost
               PROVE  Cared(s)
    BY DEF NothingMissedLive
  <2>1. Framed /\ WantedInv /\ Told
    BY DEF Followed, Placed
  <2>2. s \in Owed
    BY DEF Owed, Promised
  <2>3. Safe(s) \/ OnWire(s) \/ OnQueue(s) \/ Coming(s)
    BY <2>1, <2>2 DEF Told, SocketHears
  <2>4. Safe(s) => Cared(s)
    BY <2>1, WantedIsFetched DEF Safe, Cared
  <2> QED
    BY <2>1, <2>3, <2>4, ToldIsOnItsWay DEF Cared
<1> QED
  BY <1>1, FollowedHolds, PTL
=============================================================================
