------------------------------ MODULE SumProofs ------------------------------
(***************************************************************************)
(* What the sums of the ledger and of the pages obey, for every finite set *)
(* and every function: they are the library's folds, which pick the next   *)
(* element with CHOOSE, so that even the order must be shown not to matter.*)
(***************************************************************************)
EXTENDS Integers, Functions, FiniteSetTheorems, WellFoundedInduction, TLAPS

\* A set of numbers that is not empty has a least one.
LEMMA LeastMember ==
  ASSUME NEW S, S \subseteq Nat, S # {}
  PROVE  \E m \in S : \A s \in S : m <= s
<1>1. PICK m \in S : \A s \in S : <<s, m>> \notin OpToRel(<, Nat)
  BY WFMin, NatLessThanWellFounded
<1>2. ASSUME NEW s \in S PROVE m <= s
  <2>1. s < m => <<s, m>> \in OpToRel(<, Nat)
    BY DEF OpToRel
  <2>2. ~(s < m)
    BY <1>1, <2>1, Zenon
  <2> QED
    BY <2>2
<1> QED
  BY <1>2

Taken(s) == CHOOSE x \in s : TRUE

LEMMA AnyMember ==
  ASSUME NEW s, s # {}
  PROVE  Taken(s) \in s
BY Zenon DEF Taken

\* One turn of the fold that adds f up.
Turn(f, it, s) == IF s = {} THEN 0 ELSE f[Taken(s)] + it[s \ {Taken(s)}]

\* The subsets of S with at most n elements.
Small(S, n) == {s \in SUBSET S : Cardinality(s) <= n}

LEMMA Smaller ==
  ASSUME NEW S, IsFiniteSet(S), NEW x \in S
  PROVE  /\ IsFiniteSet(S \ {x}) /\ Cardinality(S) \in Nat /\ Cardinality(S \ {x}) \in Nat
         /\ Cardinality(S \ {x}) = Cardinality(S) - 1
<1>1. IsFiniteSet(S \ {x}) /\ Cardinality(S \ {x}) = Cardinality(S) - 1
  BY FS_RemoveElement
<1> QED
  BY <1>1, FS_CardinalityType

LEMMA FoldBuilt ==
  ASSUME NEW S, IsFiniteSet(S), NEW f
  PROVE  \E it : it = [s \in SUBSET S |-> Turn(f, it, s)]
<1> DEFINE Built(n) == \E g : g = [s \in Small(S, n) |-> Turn(f, g, s)]
<1> DEFINE B == {n \in Nat : ~Built(n)}
<1>1. \A s \in SUBSET S : IsFiniteSet(s) /\ Cardinality(s) \in Nat /\ Cardinality(s) <= Cardinality(S)
  BY FS_Subset, FS_CardinalityType
<1>2. B = {}
  <2> SUFFICES ASSUME B # {} PROVE FALSE
    OBVIOUS
  <2>1. PICK m \in B : \A n \in B : m <= n
    <3>1. B \subseteq Nat
      OBVIOUS
    <3> HIDE DEF B
    <3> QED
      BY <3>1, LeastMember
  <2>2. m \in Nat /\ ~Built(m)
    OBVIOUS
  <2>3. CASE m = 0
    <3>1. PICK g : g = [s \in Small(S, 0) |-> 0]
      OBVIOUS
    <3>2. \A s \in Small(S, 0) : s = {}
      BY <1>1, FS_EmptySet DEF Small
    <3>3. g = [s \in Small(S, 0) |-> Turn(f, g, s)]
      BY <3>1, <3>2 DEF Turn
    <3> QED
      BY <2>2, <2>3, <3>3
  <2>4. CASE m # 0
    <3>1. m - 1 \in Nat /\ m - 1 \notin B
      <4>1. m - 1 \in Nat /\ ~(m <= m - 1)
        BY <2>2, <2>4
      <4> HIDE DEF B
      <4> QED
        BY <2>1, <4>1
    <3>2. PICK h : h = [s \in Small(S, m - 1) |-> Turn(f, h, s)]
      BY <3>1
    <3>3. PICK g : g = [s \in Small(S, m) |-> Turn(f, h, s)]
      OBVIOUS
    <3>4. \A s \in Small(S, m - 1) : s \in Small(S, m) /\ g[s] = h[s]
      <4>1. \A s \in Small(S, m - 1) : s \in Small(S, m)
        BY <1>1, <2>2 DEF Small
      <4> QED
        BY <3>2, <3>3, <4>1
    <3>5. ASSUME NEW s \in Small(S, m) PROVE g[s] = Turn(f, g, s)
      <4>1. CASE s = {}
        BY <3>3, <4>1 DEF Turn
      <4>2. CASE s # {}
        <5>1. Taken(s) \in s /\ s \in SUBSET S /\ IsFiniteSet(s) /\ Cardinality(s) <= m
          BY <1>1, <4>2, AnyMember DEF Small
        <5>2. s \ {Taken(s)} \in Small(S, m - 1)
          <6>1. Cardinality(s \ {Taken(s)}) = Cardinality(s) - 1
            BY <5>1, Smaller
          <6> QED
            BY <1>1, <2>2, <5>1, <6>1 DEF Small
        <5> QED
          BY <3>3, <3>4, <4>2, <5>2 DEF Turn
      <4> QED
        BY <4>1, <4>2
    <3>6. g = [s \in Small(S, m) |-> Turn(f, g, s)]
      BY <3>3, <3>5
    <3> QED
      BY <2>2, <3>6
  <2> QED
    BY <2>3, <2>4
<1>3. Built(Cardinality(S))
  BY <1>2, FS_CardinalityType
<1>4. Small(S, Cardinality(S)) = SUBSET S
  BY <1>1 DEF Small
<1> QED
  BY <1>3, <1>4

\* The sum is where that fold arrives.
LEMMA SumIsFold ==
  ASSUME NEW S, IsFiniteSet(S), NEW f
  PROVE  \E it : /\ \A s \in SUBSET S : it[s] = Turn(f, it, s)
                 /\ SumFunctionOnSet(f, S) = it[S]
<1> DEFINE Eq(g) == g = [s \in SUBSET S |-> Turn(f, g, s)]
<1>1. \E g : Eq(g)
  BY FoldBuilt
<1>2. PICK it : it = CHOOSE g : Eq(g)
  OBVIOUS
<1>3. SumFunctionOnSet(f, S) = (CHOOSE g : Eq(g))[S]
  BY Zenon DEF SumFunctionOnSet, FoldFunctionOnSet, MapThenFoldSet, Turn, Taken
<1>4. Eq(it)
  <2> HIDE DEF Eq
  <2> QED
    BY <1>1, <1>2, Zenon
<1>5. \A s \in SUBSET S : it[s] = Turn(f, it, s)
  BY <1>4, Zenon
<1> QED
  BY <1>2, <1>3, <1>5, Zenon

\* Two such folds, of functions that agree, agree.
LEMMA FoldUnique ==
  ASSUME NEW S, IsFiniteSet(S), NEW f, NEW g, \A x \in S : f[x] = g[x],
         NEW it, \A s \in SUBSET S : it[s] = Turn(f, it, s),
         NEW jt, \A s \in SUBSET S : jt[s] = Turn(g, jt, s)
  PROVE  \A s \in SUBSET S : it[s] = jt[s]
<1> DEFINE B == {n \in Nat : \E s \in SUBSET S : Cardinality(s) = n /\ it[s] # jt[s]}
<1>1. \A s \in SUBSET S : IsFiniteSet(s) /\ Cardinality(s) \in Nat
  BY FS_Subset, FS_CardinalityType
<1>2. B = {}
  <2> SUFFICES ASSUME B # {} PROVE FALSE
    OBVIOUS
  <2>1. PICK m \in B : \A n \in B : m <= n
    <3>1. B \subseteq Nat
      OBVIOUS
    <3> HIDE DEF B
    <3> QED
      BY <3>1, LeastMember
  <2>2. PICK s \in SUBSET S : Cardinality(s) = m /\ it[s] # jt[s]
    OBVIOUS
  <2>3. s # {}
    BY <2>2 DEF Turn
  <2>4. PICK r : r = s \ {Taken(s)}
    OBVIOUS
  <2>5. Taken(s) \in s /\ Taken(s) \in S /\ r \in SUBSET S
    BY <2>3, <2>4, AnyMember
  <2>6. Cardinality(r) = m - 1 /\ m - 1 \in Nat /\ ~(m <= m - 1)
    <3>1. IsFiniteSet(s) /\ m = Cardinality(s)
      BY <1>1, <2>2
    <3>2. /\ Cardinality(s) \in Nat /\ Cardinality(s \ {Taken(s)}) \in Nat
          /\ Cardinality(s \ {Taken(s)}) = Cardinality(s) - 1
      BY <2>5, <3>1, Smaller
    <3> QED
      BY <2>4, <3>1, <3>2
  <2>7. it[r] = jt[r]
    <3>1. m - 1 \notin B
      <4> HIDE DEF B
      <4> QED
        BY <2>1, <2>6
    <3> QED
      BY <2>5, <2>6, <3>1
  <2>8. it[s] = f[Taken(s)] + it[r] /\ jt[s] = g[Taken(s)] + jt[r]
    BY <2>3, <2>4 DEF Turn
  <2> QED
    BY <2>2, <2>5, <2>7, <2>8
<1> QED
  BY <1>1, <1>2

-----------------------------------------------------------------------------
\* A sum depends on nothing but what is added up.
LEMMA SumSame ==
  ASSUME NEW S, IsFiniteSet(S), NEW f, NEW g, \A x \in S : f[x] = g[x]
  PROVE  SumFunctionOnSet(f, S) = SumFunctionOnSet(g, S)
<1>1. PICK it : /\ \A s \in SUBSET S : it[s] = Turn(f, it, s)
                /\ SumFunctionOnSet(f, S) = it[S]
  BY SumIsFold
<1>2. PICK jt : /\ \A s \in SUBSET S : jt[s] = Turn(g, jt, s)
                /\ SumFunctionOnSet(g, S) = jt[S]
  BY SumIsFold
<1>3. \A s \in SUBSET S : it[s] = jt[s]
  BY <1>1, <1>2, FoldUnique
<1> QED
  BY <1>1, <1>2, <1>3

LEMMA SumEmpty == \A f : SumFunctionOnSet(f, {}) = 0
<1> SUFFICES ASSUME NEW f PROVE SumFunctionOnSet(f, {}) = 0
  OBVIOUS
<1>1. PICK it : /\ \A s \in SUBSET {} : it[s] = Turn(f, it, s)
                /\ SumFunctionOnSet(f, {}) = it[{}]
  BY SumIsFold, FS_EmptySet
<1> QED
  BY <1>1 DEF Turn

\* The element that CHOOSE picks is added to the sum of the others.
LEMMA SumTurn ==
  ASSUME NEW S, IsFiniteSet(S), S # {}, NEW f
  PROVE  SumFunctionOnSet(f, S) = f[Taken(S)] + SumFunctionOnSet(f, S \ {Taken(S)})
<1> DEFINE T == S \ {Taken(S)}
<1>1. IsFiniteSet(T) /\ SUBSET T \subseteq SUBSET S
  BY FS_RemoveElement
<1>2. PICK it : /\ \A s \in SUBSET S : it[s] = Turn(f, it, s)
                /\ SumFunctionOnSet(f, S) = it[S]
  BY SumIsFold
<1>3. PICK jt : /\ \A s \in SUBSET T : jt[s] = Turn(f, jt, s)
                /\ SumFunctionOnSet(f, T) = jt[T]
  BY <1>1, SumIsFold
<1>4. \A s \in SUBSET T : it[s] = jt[s]
  <2>1. \A s \in SUBSET T : it[s] = Turn(f, it, s)
    BY <1>1, <1>2
  <2> HIDE DEF T
  <2> QED
    BY <1>1, <1>3, <2>1, FoldUnique
<1>5. it[S] = f[Taken(S)] + it[T]
  BY <1>2 DEF Turn
<1> QED
  BY <1>2, <1>3, <1>4, <1>5

LEMMA SumTyped ==
  ASSUME NEW S, IsFiniteSet(S), NEW f, \A x \in S : f[x] \in Int
  PROVE  SumFunctionOnSet(f, S) \in Int
<1> DEFINE B == {n \in Nat : \E s \in SUBSET S : Cardinality(s) = n
                                                 /\ SumFunctionOnSet(f, s) \notin Int}
<1>1. \A s \in SUBSET S : IsFiniteSet(s) /\ Cardinality(s) \in Nat
  BY FS_Subset, FS_CardinalityType
<1>2. B = {}
  <2> SUFFICES ASSUME B # {} PROVE FALSE
    OBVIOUS
  <2>1. PICK m \in B : \A n \in B : m <= n
    <3>1. B \subseteq Nat
      OBVIOUS
    <3> HIDE DEF B
    <3> QED
      BY <3>1, LeastMember
  <2>2. PICK s \in SUBSET S : Cardinality(s) = m /\ SumFunctionOnSet(f, s) \notin Int
    OBVIOUS
  <2>3. s # {}
    BY <2>2, SumEmpty
  <2>4. PICK r : r = s \ {Taken(s)}
    OBVIOUS
  <2>5. Taken(s) \in s /\ Taken(s) \in S /\ r \in SUBSET S
    BY <2>3, <2>4, AnyMember
  <2>6. Cardinality(r) = m - 1 /\ m - 1 \in Nat /\ ~(m <= m - 1)
    <3>1. IsFiniteSet(s) /\ m = Cardinality(s)
      BY <1>1, <2>2
    <3>2. /\ Cardinality(s) \in Nat /\ Cardinality(s \ {Taken(s)}) \in Nat
          /\ Cardinality(s \ {Taken(s)}) = Cardinality(s) - 1
      BY <2>5, <3>1, Smaller
    <3> QED
      BY <2>4, <3>1, <3>2
  <2>7. SumFunctionOnSet(f, r) \in Int
    <3>1. m - 1 \notin B
      <4> HIDE DEF B
      <4> QED
        BY <2>1, <2>6
    <3> QED
      BY <2>5, <2>6, <3>1
  <2>8. SumFunctionOnSet(f, s) = f[Taken(s)] + SumFunctionOnSet(f, r)
    BY <1>1, <2>3, <2>4, SumTurn
  <2> QED
    BY <2>2, <2>5, <2>7, <2>8
<1> QED
  BY <1>1, <1>2

\* Any element at all can be taken out of a sum: the order does not matter.
LEMMA SumWithout ==
  ASSUME NEW S, IsFiniteSet(S), NEW f, \A x \in S : f[x] \in Int, NEW y \in S
  PROVE  SumFunctionOnSet(f, S) = f[y] + SumFunctionOnSet(f, S \ {y})
<1> DEFINE Out(s, x) == SumFunctionOnSet(f, s) = f[x] + SumFunctionOnSet(f, s \ {x})
<1> DEFINE B == {n \in Nat : \E s \in SUBSET S : Cardinality(s) = n /\ \E x \in s : ~Out(s, x)}
<1>1. \A s \in SUBSET S : IsFiniteSet(s) /\ Cardinality(s) \in Nat
  BY FS_Subset, FS_CardinalityType
<1>2. B = {}
  <2> SUFFICES ASSUME B # {} PROVE FALSE
    OBVIOUS
  <2>1. PICK m \in B : \A n \in B : m <= n
    <3>1. B \subseteq Nat
      OBVIOUS
    <3> HIDE DEF B
    <3> QED
      BY <3>1, LeastMember
  <2>2. PICK s \in SUBSET S : Cardinality(s) = m /\ \E x \in s : ~Out(s, x)
    OBVIOUS
  <2>3. PICK x \in s : ~Out(s, x)
    BY <2>2
  <2> HIDE DEF Out
  <2>4. PICK a : a = Taken(s)
    OBVIOUS
  <2>5. a \in s /\ a \in S /\ x \in S /\ IsFiniteSet(s)
    BY <1>1, <2>3, <2>4, AnyMember
  <2>6. SumFunctionOnSet(f, s) = f[a] + SumFunctionOnSet(f, s \ {a})
    BY <2>3, <2>4, <2>5, SumTurn
  <2>7. x # a
    BY <2>3, <2>6 DEF Out
  <2>8. PICK r : r = s \ {a}
    OBVIOUS
  <2>9. PICK q : q = s \ {x}
    OBVIOUS
  <2>10. /\ r \in SUBSET S /\ x \in r /\ q \in SUBSET S /\ a \in q
         /\ r \ {x} = q \ {a} /\ r \ {x} \in SUBSET S
    BY <2>2, <2>5, <2>7, <2>8, <2>9
  <2>11. Cardinality(r) = m - 1 /\ m - 1 \in Nat /\ ~(m <= m - 1) /\ Cardinality(q) = m - 1
    <3>1. m = Cardinality(s)
      BY <2>2
    <3>2. /\ Cardinality(s) \in Nat /\ Cardinality(s \ {a}) \in Nat
          /\ Cardinality(s \ {a}) = Cardinality(s) - 1
      BY <2>5, Smaller
    <3>3. /\ Cardinality(s \ {x}) \in Nat
          /\ Cardinality(s \ {x}) = Cardinality(s) - 1
      BY <2>3, <2>5, Smaller
    <3> QED
      BY <2>8, <2>9, <3>1, <3>2, <3>3
  <2>12. Out(r, x) /\ Out(q, a)
    <3>1. m - 1 \notin B
      <4> HIDE DEF B
      <4> QED
        BY <2>1, <2>11
    <3> QED
      BY <2>10, <2>11, <3>1
  <2>13. /\ f[x] \in Int /\ f[a] \in Int /\ SumFunctionOnSet(f, r \ {x}) \in Int
    <3>1. \A z \in r \ {x} : f[z] \in Int
      BY <2>10
    <3>2. IsFiniteSet(r \ {x})
      BY <1>1, <2>10
    <3>3. SumFunctionOnSet(f, r \ {x}) \in Int
      BY <3>1, <3>2, SumTyped
    <3> QED
      BY <2>5, <3>3
  <2>14. /\ SumFunctionOnSet(f, r) = f[x] + SumFunctionOnSet(f, r \ {x})
         /\ SumFunctionOnSet(f, q) = f[a] + SumFunctionOnSet(f, r \ {x})
    BY <2>10, <2>12 DEF Out
  <2>15. SumFunctionOnSet(f, s) = f[x] + SumFunctionOnSet(f, q)
    BY <2>6, <2>8, <2>13, <2>14
  <2> QED
    BY <2>3, <2>9, <2>15 DEF Out
<1> HIDE DEF Out
<1>3. Out(S, y)
  BY <1>1, <1>2
<1> QED
  BY <1>3 DEF Out

\* A sum with one more element.
LEMMA SumAdd ==
  ASSUME NEW S, IsFiniteSet(S), NEW y, y \notin S, NEW f,
         \A x \in S \cup {y} : f[x] \in Int
  PROVE  SumFunctionOnSet(f, S \cup {y}) = SumFunctionOnSet(f, S) + f[y]
<1>1. IsFiniteSet(S \cup {y})
  BY FS_AddElement
<1>2. SumFunctionOnSet(f, S \cup {y}) = f[y] + SumFunctionOnSet(f, (S \cup {y}) \ {y})
  BY <1>1, SumWithout
<1>3. (S \cup {y}) \ {y} = S
  OBVIOUS
<1>4. \A x \in S : f[x] \in Int
  OBVIOUS
<1>5. SumFunctionOnSet(f, S) \in Int
  BY <1>4, SumTyped
<1>6. f[y] \in Int
  OBVIOUS
<1>7. SumFunctionOnSet(f, (S \cup {y}) \ {y}) = SumFunctionOnSet(f, S)
  BY <1>3, Zenon
<1> QED
  BY <1>2, <1>5, <1>6, <1>7

-----------------------------------------------------------------------------
\* Induction over the subsets of a finite set, P being those that have what is
\* to be shown.
LEMMA SubsetInduction ==
  ASSUME NEW S, IsFiniteSet(S), NEW P, {} \in P,
         \A T \in SUBSET S : \A x \in S \ T : T \in P => T \cup {x} \in P
  PROVE  S \in P
<1> DEFINE B == {n \in Nat : \E s \in SUBSET S : Cardinality(s) = n /\ s \notin P}
<1>1. \A s \in SUBSET S : IsFiniteSet(s) /\ Cardinality(s) \in Nat
  BY FS_Subset, FS_CardinalityType
<1>2. B = {}
  <2> SUFFICES ASSUME B # {} PROVE FALSE
    OBVIOUS
  <2>1. PICK m \in B : \A n \in B : m <= n
    <3>1. B \subseteq Nat
      OBVIOUS
    <3> HIDE DEF B
    <3> QED
      BY <3>1, LeastMember
  <2>2. PICK s \in SUBSET S : Cardinality(s) = m /\ s \notin P
    OBVIOUS
  <2>3. PICK x \in s : TRUE
    <3>1. s # {}
      BY <2>2
    <3> QED
      BY <3>1
  <2>4. PICK r : r = s \ {x}
    OBVIOUS
  <2>5. r \in SUBSET S /\ x \in S \ r /\ s = r \cup {x}
    BY <2>3, <2>4
  <2>6. Cardinality(r) = m - 1 /\ m - 1 \in Nat /\ ~(m <= m - 1)
    <3>1. IsFiniteSet(s) /\ m = Cardinality(s)
      BY <1>1, <2>2
    <3>2. /\ Cardinality(s) \in Nat /\ Cardinality(s \ {x}) \in Nat
          /\ Cardinality(s \ {x}) = Cardinality(s) - 1
      BY <2>3, <3>1, Smaller
    <3> QED
      BY <2>4, <3>1, <3>2
  <2>7. r \in P
    <3>1. m - 1 \notin B
      <4> HIDE DEF B
      <4> QED
        BY <2>1, <2>6
    <3> QED
      BY <2>5, <2>6, <3>1
  <2> QED
    BY <2>2, <2>5, <2>7
<1> QED
  BY <1>1, <1>2

\* Induction along an interval.
LEMMA IntervalInduction ==
  ASSUME NEW lo \in Int, NEW hi \in Int, NEW P, lo \in P,
         \A n \in lo..hi : n \in P /\ n < hi => n + 1 \in P
  PROVE  \A n \in lo..hi : n \in P
<1> SUFFICES ASSUME NEW k \in lo..hi, k \notin P PROVE FALSE
  OBVIOUS
<1> DEFINE B == {n \in Nat : lo + n <= hi /\ lo + n \notin P}
<1>1. k - lo \in B
  <2>1. k - lo \in Nat /\ lo + (k - lo) = k
    OBVIOUS
  <2> QED
    BY <2>1
<1>2. PICK m \in B : \A n \in B : m <= n
  <2>1. B \subseteq Nat /\ B # {}
    BY <1>1
  <2> HIDE DEF B
  <2> QED
    BY <2>1, LeastMember
<1>3. m \in Nat /\ lo + m <= hi /\ lo + m \notin P
  OBVIOUS
<1>4. m # 0
  BY <1>3
<1>5. m - 1 \in Nat /\ ~(m <= m - 1) /\ lo + (m - 1) \in lo..hi /\ lo + (m - 1) < hi
  BY <1>3, <1>4
<1>6. m - 1 \notin B
  <2> HIDE DEF B
  <2> QED
    BY <1>2, <1>5
<1>7. lo + (m - 1) \in P
  BY <1>5, <1>6
<1>8. (lo + (m - 1)) + 1 \in P
  BY <1>5, <1>7
<1>9. (lo + (m - 1)) + 1 = lo + m
  BY <1>3
<1> QED
  BY <1>3, <1>8, <1>9

-----------------------------------------------------------------------------
\* The sum of sums.
LEMMA SumPlus ==
  ASSUME NEW S, IsFiniteSet(S), NEW f, NEW g, NEW h,
         \A x \in S : f[x] \in Int /\ g[x] \in Int /\ h[x] = f[x] + g[x]
  PROVE  SumFunctionOnSet(h, S) = SumFunctionOnSet(f, S) + SumFunctionOnSet(g, S)
<1> DEFINE P == {T \in SUBSET S : SumFunctionOnSet(h, T)
                                   = SumFunctionOnSet(f, T) + SumFunctionOnSet(g, T)}
<1>1. {} \in P
  BY SumEmpty
<1>2. ASSUME NEW T \in SUBSET S, NEW x \in S \ T, T \in P
      PROVE  T \cup {x} \in P
  <2>1. IsFiniteSet(T)
    BY FS_Subset
  <2>2. /\ \A y \in T \cup {x} : f[y] \in Int
        /\ \A y \in T \cup {x} : g[y] \in Int
        /\ \A y \in T \cup {x} : h[y] \in Int
        /\ x \notin T
    OBVIOUS
  <2>3. /\ SumFunctionOnSet(f, T \cup {x}) = SumFunctionOnSet(f, T) + f[x]
        /\ SumFunctionOnSet(g, T \cup {x}) = SumFunctionOnSet(g, T) + g[x]
        /\ SumFunctionOnSet(h, T \cup {x}) = SumFunctionOnSet(h, T) + h[x]
    BY <2>1, <2>2, SumAdd
  <2>4. SumFunctionOnSet(f, T) \in Int /\ SumFunctionOnSet(g, T) \in Int
    BY <2>1, <2>2, SumTyped
  <2>5. f[x] \in Int /\ g[x] \in Int /\ h[x] = f[x] + g[x]
    OBVIOUS
  <2>6. SumFunctionOnSet(h, T) = SumFunctionOnSet(f, T) + SumFunctionOnSet(g, T)
    BY <1>2
  <2>7. SumFunctionOnSet(h, T \cup {x}) = SumFunctionOnSet(f, T \cup {x}) + SumFunctionOnSet(g, T \cup {x})
    BY <2>3, <2>4, <2>5, <2>6
  <2> QED
    BY <2>7
<1>3. S \in P
  <2> HIDE DEF P
  <2> QED
    BY <1>1, <1>2, SubsetInduction
<1> QED
  BY <1>3

\* A sum over the values of a function that takes none of them twice.
LEMMA SumImage ==
  ASSUME NEW S, IsFiniteSet(S), NEW e, NEW f, NEW g,
         \A x \in S : f[e[x]] \in Int /\ g[x] = f[e[x]],
         \A x, y \in S : e[x] = e[y] => x = y
  PROVE  /\ IsFiniteSet({e[x] : x \in S})
         /\ SumFunctionOnSet(f, {e[x] : x \in S}) = SumFunctionOnSet(g, S)
<1> DEFINE Im(T) == {e[x] : x \in T}
<1> DEFINE P == {T \in SUBSET S : /\ IsFiniteSet(Im(T))
                                  /\ SumFunctionOnSet(f, Im(T)) = SumFunctionOnSet(g, T)}
<1>1. {} \in P
  <2>1. Im({}) = {}
    OBVIOUS
  <2> QED
    BY <2>1, SumEmpty, FS_EmptySet
<1>2. ASSUME NEW T \in SUBSET S, NEW x \in S \ T, T \in P
      PROVE  T \cup {x} \in P
  <2>1. IsFiniteSet(T)
    BY FS_Subset
  <2>2. PICK I : I = Im(T)
    OBVIOUS
  <2>3. /\ Im(T \cup {x}) = I \cup {e[x]}
        /\ e[x] \notin I
        /\ \A y \in I \cup {e[x]} : f[y] \in Int
        /\ \A y \in T \cup {x} : g[y] \in Int
        /\ x \notin T
    BY <2>2
  <2>4. IsFiniteSet(I) /\ SumFunctionOnSet(f, I) = SumFunctionOnSet(g, T)
    BY <1>2, <2>2
  <2>5. /\ SumFunctionOnSet(f, I \cup {e[x]}) = SumFunctionOnSet(f, I) + f[e[x]]
        /\ SumFunctionOnSet(g, T \cup {x}) = SumFunctionOnSet(g, T) + g[x]
        /\ IsFiniteSet(I \cup {e[x]})
    <3>1. PICK z : z = e[x]
      OBVIOUS
    <3>2. z \notin I /\ \A y \in I \cup {z} : f[y] \in Int
      BY <2>3, <3>1
    <3> HIDE DEF Im, P
    <3>3. SumFunctionOnSet(f, I \cup {z}) = SumFunctionOnSet(f, I) + f[z]
      BY <2>4, <3>2, SumAdd
    <3>4. SumFunctionOnSet(g, T \cup {x}) = SumFunctionOnSet(g, T) + g[x]
      BY <2>1, <2>3, SumAdd
    <3>5. IsFiniteSet(I \cup {z})
      BY <2>4, FS_AddElement
    <3> QED
      BY <3>1, <3>3, <3>4, <3>5
  <2>6. SumFunctionOnSet(f, I \cup {e[x]}) = SumFunctionOnSet(g, T \cup {x})
    BY <2>4, <2>5
  <2>7. /\ SumFunctionOnSet(f, Im(T \cup {x})) = SumFunctionOnSet(g, T \cup {x})
        /\ IsFiniteSet(Im(T \cup {x}))
    <3> HIDE DEF Im
    <3> QED
      BY <2>3, <2>5, <2>6, Zenon
  <2> QED
    BY <2>7
<1>3. S \in P
  <2> HIDE DEF P
  <2> QED
    BY <1>1, <1>2, SubsetInduction
<1> QED
  BY <1>3

\* A sum of what is not negative is not negative.
LEMMA SumNonneg ==
  ASSUME NEW S, IsFiniteSet(S), NEW f, \A x \in S : f[x] \in Nat
  PROVE  SumFunctionOnSet(f, S) \in Nat
<1> DEFINE P == {T \in SUBSET S : SumFunctionOnSet(f, T) \in Nat}
<1>1. {} \in P
  BY SumEmpty
<1>2. ASSUME NEW T \in SUBSET S, NEW x \in S \ T, T \in P
      PROVE  T \cup {x} \in P
  <2>1. IsFiniteSet(T)
    BY FS_Subset
  <2>2. (\A y \in T \cup {x} : f[y] \in Int) /\ x \notin T
    OBVIOUS
  <2>3. SumFunctionOnSet(f, T \cup {x}) = SumFunctionOnSet(f, T) + f[x]
    BY <2>1, <2>2, SumAdd
  <2> QED
    BY <1>2, <2>3
<1>3. S \in P
  <2> HIDE DEF P
  <2> QED
    BY <1>1, <1>2, SubsetInduction
<1> QED
  BY <1>3

\* The sum over two sets that share nothing.
LEMMA SumSplit ==
  ASSUME NEW S, IsFiniteSet(S), NEW U, IsFiniteSet(U), S \cap U = {},
         NEW f, \A x \in S \cup U : f[x] \in Int
  PROVE  SumFunctionOnSet(f, S \cup U) = SumFunctionOnSet(f, S) + SumFunctionOnSet(f, U)
<1> DEFINE P == {T \in SUBSET U : SumFunctionOnSet(f, S \cup T)
                                   = SumFunctionOnSet(f, S) + SumFunctionOnSet(f, T)}
<1>1. {} \in P
  <2>1. \A x \in S : f[x] \in Int
    OBVIOUS
  <2>2. SumFunctionOnSet(f, S) \in Int
    BY <2>1, SumTyped
  <2>3. SumFunctionOnSet(f, S \cup {}) = SumFunctionOnSet(f, S)
    <3>1. S \cup {} = S
      OBVIOUS
    <3> QED
      BY <3>1, Zenon
  <2>4. SumFunctionOnSet(f, {}) = 0
    BY SumEmpty, Zenon
  <2>5. SumFunctionOnSet(f, S \cup {}) = SumFunctionOnSet(f, S) + SumFunctionOnSet(f, {})
    BY <2>2, <2>3, <2>4
  <2> QED
    BY <2>5
<1>2. ASSUME NEW T \in SUBSET U, NEW x \in U \ T, T \in P
      PROVE  T \cup {x} \in P
  <2>1. IsFiniteSet(T)
    BY FS_Subset
  <2>2. IsFiniteSet(S \cup T)
    BY <2>1, FS_Union
  <2>3. /\ \A y \in T \cup {x} : f[y] \in Int
        /\ \A y \in (S \cup T) \cup {x} : f[y] \in Int
        /\ \A y \in S : f[y] \in Int
        /\ x \notin T /\ x \notin S \cup T
    OBVIOUS
  <2>4. SumFunctionOnSet(f, T \cup {x}) = SumFunctionOnSet(f, T) + f[x]
    BY <2>1, <2>3, SumAdd
  <2>5. SumFunctionOnSet(f, (S \cup T) \cup {x}) = SumFunctionOnSet(f, S \cup T) + f[x]
    BY <2>2, <2>3, SumAdd
  <2>6. SumFunctionOnSet(f, S) \in Int /\ SumFunctionOnSet(f, T) \in Int /\ f[x] \in Int
    BY <2>1, <2>3, SumTyped
  <2>7. SumFunctionOnSet(f, S \cup T) = SumFunctionOnSet(f, S) + SumFunctionOnSet(f, T)
    BY <1>2
  <2>8. SumFunctionOnSet(f, S \cup (T \cup {x})) = SumFunctionOnSet(f, (S \cup T) \cup {x})
    <3>1. S \cup (T \cup {x}) = (S \cup T) \cup {x}
      OBVIOUS
    <3> QED
      BY <3>1, Zenon
  <2>9. SumFunctionOnSet(f, S \cup (T \cup {x}))
          = SumFunctionOnSet(f, S) + SumFunctionOnSet(f, T \cup {x})
    BY <2>4, <2>5, <2>6, <2>7, <2>8
  <2> QED
    BY <2>9
<1>3. U \in P
  <2> HIDE DEF P
  <2> QED
    BY <1>1, <1>2, SubsetInduction
<1> QED
  BY <1>3

\* A function that is nothing on some of a set adds up to what it is on the rest.
LEMMA SumSupport ==
  ASSUME NEW S, IsFiniteSet(S), NEW T, T \subseteq S, NEW f,
         \A x \in S : f[x] \in Int, \A x \in S \ T : f[x] = 0
  PROVE  SumFunctionOnSet(f, S) = SumFunctionOnSet(f, T)
<1> DEFINE R == S \ T
<1> DEFINE P == {U \in SUBSET R : SumFunctionOnSet(f, U) = 0}
<1>1. R \subseteq S /\ IsFiniteSet(R) /\ IsFiniteSet(T)
  BY FS_Subset
<1>2. {} \in P
  BY SumEmpty
<1>3. ASSUME NEW U \in SUBSET R, NEW x \in R \ U, U \in P
      PROVE  U \cup {x} \in P
  <2>1. IsFiniteSet(U)
    BY <1>1, FS_Subset
  <2>2. (\A y \in U \cup {x} : f[y] \in Int) /\ x \notin U /\ f[x] = 0
    OBVIOUS
  <2>3. SumFunctionOnSet(f, U \cup {x}) = SumFunctionOnSet(f, U) + f[x]
    BY <2>1, <2>2, SumAdd
  <2> QED
    BY <1>3, <2>2, <2>3
<1>4. R \in P
  <2> HIDE DEF P, R
  <2> QED
    BY <1>1, <1>2, <1>3, SubsetInduction
<1>5. T \cap R = {} /\ T \cup R = S /\ \A x \in T \cup R : f[x] \in Int
  OBVIOUS
<1>6. SumFunctionOnSet(f, T \cup R) = SumFunctionOnSet(f, T) + SumFunctionOnSet(f, R)
  <2> HIDE DEF R
  <2> QED
    BY <1>1, <1>5, SumSplit
<1>7. SumFunctionOnSet(f, T) \in Int
  <2>1. \A x \in T : f[x] \in Int
    BY <1>5
  <2> QED
    BY <1>1, <2>1, SumTyped
<1>8. SumFunctionOnSet(f, T \cup R) = SumFunctionOnSet(f, S)
  BY <1>5, Zenon
<1>9. SumFunctionOnSet(f, R) = 0
  BY <1>4
<1> HIDE DEF R
<1> QED
  BY <1>6, <1>7, <1>8, <1>9

\* The sum of a function, as that of another that it agrees with.
LEMMA SumOver ==
  ASSUME NEW h, IsFiniteSet(DOMAIN h), NEW f, \A x \in DOMAIN h : h[x] = f[x]
  PROVE  SumFunction(h) = SumFunctionOnSet(f, DOMAIN h)
<1>1. SumFunctionOnSet(h, DOMAIN h) = SumFunctionOnSet(f, DOMAIN h)
  BY SumSame
<1> QED
  BY <1>1, Zenon DEF SumFunction
=============================================================================
