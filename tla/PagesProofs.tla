---------------------------- MODULE PagesProofs ----------------------------
(***************************************************************************)
(* What the pages show adds up, of every history.                          *)
(***************************************************************************)
EXTENDS PagesMC, SumProofs, SequenceTheorems

-----------------------------------------------------------------------------
(* Analysis. *)

Reasons == {"no-kit-price", "not-recovered", "no-length"}

\* A life view, whatever its amounts.
LifeView == [hasKit : BOOLEAN, kit : Int, other : Int, earned : Int, length : Int,
             breakEven : Int \cup {None}]

\* A metric is a number, or one of the three reasons.
Measured(m, l) ==
  \/ \E v \in Int : Read(m, l) = Value(v)
  \/ \E r \in Reasons : Read(m, l) = Absent(r)

LEMMA PerMinuteIs ==
  ASSUME NEW a \in Int, NEW len \in Int
  PROVE  (\E v \in Int : PerMinute(a, len) = Value(v)) \/ PerMinute(a, len) = Absent("no-length")
<1>1. CASE len <= 0
  BY <1>1 DEF PerMinute
<1>2. CASE ~(len <= 0)
  <2>1. a \div len \in Int
    BY <1>2
  <2>2. PerMinute(a, len) = Value(a \div len)
    BY <1>2 DEF PerMinute
  <2> QED
    BY <2>1, <2>2
<1> QED
  BY <1>1, <1>2

LEMMA Measures ==
  ASSUME NEW l \in LifeView, NEW m \in Metrics
  PROVE  Measured(m, l)
<1>1. PICK kit, other, earned, len : /\ kit = l.kit /\ other = l.other
                                     /\ earned = l.earned /\ len = l.length
  OBVIOUS
<1>2. kit \in Int /\ other \in Int /\ earned \in Int /\ len \in Int
  BY <1>1 DEF LifeView
<1>3. l.breakEven = None \/ l.breakEven \in Int
  BY DEF LifeView
<1>4. kit + other \in Int /\ earned - kit - other \in Int
  BY <1>2
<1>5. CASE m = "kitCost"
  <2>1. Read(m, l) = IF l.hasKit THEN Value(kit) ELSE Absent("no-kit-price")
    BY <1>1, <1>5 DEF Read
  <2> QED
    BY <1>2, <2>1, Zenon DEF Measured, Reasons
<1>6. CASE m = "spent"
  <2>1. Read(m, l) = Value(kit + other)
    BY <1>1, <1>6 DEF Read
  <2> QED
    BY <1>4, <2>1, Zenon DEF Measured, Reasons
<1>7. CASE m = "earned"
  <2>1. Read(m, l) = Value(earned)
    BY <1>1, <1>7 DEF Read
  <2> QED
    BY <1>2, <2>1, Zenon DEF Measured, Reasons
<1>8. CASE m = "profit"
  <2>1. Read(m, l) = Value(earned - kit - other)
    BY <1>1, <1>8 DEF Read
  <2> QED
    BY <1>4, <2>1, Zenon DEF Measured, Reasons
<1>9. CASE m = "lifeLength"
  <2>1. Read(m, l) = Value(len)
    BY <1>1, <1>9 DEF Read
  <2> QED
    BY <1>2, <2>1, Zenon DEF Measured, Reasons
<1>10. CASE m = "breakEven"
  <2>1. Read(m, l) = IF ~l.hasKit THEN Absent("no-kit-price")
                     ELSE IF l.breakEven = None THEN Absent("not-recovered")
                     ELSE Value(l.breakEven)
    BY <1>10 DEF Read
  <2> QED
    BY <1>3, <2>1, Zenon DEF Measured, Reasons
<1>11. CASE m = "earnedPerMin"
  <2>1. Read(m, l) = PerMinute(earned, len)
    BY <1>1, <1>11 DEF Read
  <2>2. (\E v \in Int : PerMinute(earned, len) = Value(v))
        \/ PerMinute(earned, len) = Absent("no-length")
    BY <1>2, PerMinuteIs
  <2> QED
    BY <2>1, <2>2, Zenon DEF Measured, Reasons
<1>12. CASE m = "profitPerMin"
  <2>1. Read(m, l) = PerMinute(earned - kit - other, len)
    BY <1>1, <1>12 DEF Read
  <2>2. (\E v \in Int : PerMinute(earned - kit - other, len) = Value(v))
        \/ PerMinute(earned - kit - other, len) = Absent("no-length")
    BY <1>2, <1>4, PerMinuteIs
  <2> QED
    BY <2>1, <2>2, Zenon DEF Measured, Reasons
<1>13. CASE m = "otherOutflow"
  <2>1. Read(m, l) = Value(other)
    BY <1>1, <1>13 DEF Read
  <2> QED
    BY <1>2, <2>1, Zenon DEF Measured, Reasons
<1> QED
  BY <1>5, <1>6, <1>7, <1>8, <1>9, <1>10, <1>11, <1>12, <1>13 DEF Metrics

\* What is read is a number and has no reason, or has one of the three.
LEMMA ReadIs ==
  ASSUME NEW l \in LifeView, NEW m \in Metrics
  PROVE  /\ Read(m, l).value \in Int
         /\ Read(m, l).ok => Read(m, l).reason = None
         /\ ~Read(m, l).ok => Read(m, l).reason \in Reasons
<1>1. Measured(m, l)
  BY Measures
<1>2. CASE \E v \in Int : Read(m, l) = Value(v)
  <2>1. PICK v \in Int : Read(m, l) = Value(v)
    BY <1>2
  <2>2. Value(v).value = v /\ Value(v).ok /\ Value(v).reason = None
    BY DEF Value
  <2> QED
    BY <2>1, <2>2, Zenon
<1>3. CASE \E r \in Reasons : Read(m, l) = Absent(r)
  <2>1. PICK r \in Reasons : Read(m, l) = Absent(r)
    BY <1>3
  <2>2. Absent(r).value = 0 /\ ~Absent(r).ok /\ Absent(r).reason = r /\ 0 \in Int
    BY DEF Absent
  <2> QED
    BY <2>1, <2>2, Zenon
<1> QED
  BY <1>1, <1>2, <1>3, Zenon DEF Measured

\* The axes exchanged: the same lives are drawn and left out.
LEMMA Exchanged ==
  ASSUME NEW ls \in Seq(LifeView), NEW x \in Metrics, NEW y \in Metrics
  PROVE  Plotted(ls, x, y) = Plotted(ls, y, x)
  BY Zenon DEF Plotted

LEMMA DirectionStays ==
  ASSUME NEW c, NEW d, c.n = d.n, c.n \in Nat, c.sxy \in Int, c.sxx \in Int, c.syy \in Int,
         d.sxy = c.sxy, d.sxx = c.syy, d.syy = c.sxx
  PROVE  /\ Describe(c).direction = Describe(d).direction
         /\ \/ Describe(c).flat = Swapped(Describe(d).flat)
            \/ Describe(c).flat = "x" /\ Describe(d).flat = "x"
<1>1. Flat(c) = Flat(d)
  <2>1. PICK p, q, r : p = c.sxy /\ q = c.sxx /\ r = c.syy
    OBVIOUS
  <2>2. p \in Int /\ q \in Int /\ r \in Int
    BY <2>1
  <2>3. q * r = r * q
    BY <2>2
  <2>4. Flat(c) = (25 * p * p < q * r)
    BY <2>1 DEF Flat
  <2>5. Flat(d) = (25 * p * p < r * q)
    BY <2>1 DEF Flat
  <2> QED
    BY <2>3, <2>4, <2>5, Zenon
<1>2. None # "x" /\ None # "y"
  BY NoneAssumption
<1>3. Swapped(None) = None /\ Swapped("x") = "y" /\ Swapped("y") = "x"
  BY <1>2 DEF Swapped
<1>4. /\ \A f : Unknown(f).direction = "unknown" /\ Unknown(f).flat = f
  BY DEF Unknown
<1>5. CASE c.n < MinPoints
  <2>1. Describe(c) = Unknown(None) /\ Describe(d) = Unknown(None)
    BY <1>5, Zenon DEF Describe
  <2> QED
    BY <1>3, <1>4, <2>1, Zenon
<1>6. CASE ~(c.n < MinPoints) /\ c.sxx = 0 /\ c.syy = 0
  <2>1. Describe(c) = Unknown("x") /\ Describe(d) = Unknown("x")
    BY <1>6, Zenon DEF Describe
  <2> QED
    BY <1>4, <2>1, Zenon
<1>7. CASE ~(c.n < MinPoints) /\ c.sxx = 0 /\ c.syy # 0
  <2>1. Describe(c) = Unknown("x") /\ Describe(d) = Unknown("y")
    BY <1>7, Zenon DEF Describe
  <2> QED
    BY <1>3, <1>4, <2>1, Zenon
<1>8. CASE ~(c.n < MinPoints) /\ c.sxx # 0 /\ c.syy = 0
  <2>1. Describe(c) = Unknown("y") /\ Describe(d) = Unknown("x")
    BY <1>8, Zenon DEF Describe
  <2> QED
    BY <1>3, <1>4, <2>1, Zenon
<1>9. CASE ~(c.n < MinPoints) /\ c.sxx # 0 /\ c.syy # 0
  <2>1. PICK way : way = IF Flat(c) THEN "flat" ELSE IF c.sxy > 0 THEN "up" ELSE "down"
    OBVIOUS
  <2>2. Describe(c) = [direction |-> way, flat |-> None]
    BY <1>9, <2>1, Zenon DEF Describe
  <2>3. way = IF Flat(d) THEN "flat" ELSE IF d.sxy > 0 THEN "up" ELSE "down"
    BY <1>1, <2>1, Zenon
  <2>4. Describe(d) = [direction |-> way, flat |-> None]
    BY <1>9, <2>3, Zenon DEF Describe
  <2>5. Describe(c).direction = way /\ Describe(d).direction = way
        /\ Describe(c).flat = None /\ Describe(d).flat = None
    BY <2>2, <2>4
  <2> QED
    BY <1>3, <2>5, Zenon
<1> QED
  BY <1>5, <1>6, <1>7, <1>8, <1>9, Zenon

\* The moments of the same lives, the axes exchanged.
LEMMA MomentsExchanged ==
  ASSUME NEW ls \in Seq(LifeView), NEW x \in Metrics, NEW y \in Metrics,
         NEW S \in SUBSET DOMAIN ls,
         NEW c, c = Correlate(ls, x, y, S), NEW d, d = Correlate(ls, y, x, S)
  PROVE  /\ c.n = d.n /\ c.n \in Nat /\ c.sxy \in Int /\ c.sxx \in Int /\ c.syy \in Int
         /\ d.sxy = c.sxy /\ d.sxx = c.syy /\ d.syy = c.sxx
<1>1. Len(ls) \in Nat /\ DOMAIN ls = 1..Len(ls) /\ \A i \in DOMAIN ls : ls[i] \in LifeView
  BY LenProperties, ElementOfSeq
<1>2. IsFiniteSet(S)
  <2>1. IsFiniteSet(DOMAIN ls)
    BY <1>1, FS_Interval
  <2> QED
    BY <2>1, FS_Subset
<1>3. PICK n : n = Cardinality(S)
  OBVIOUS
<1>4. n \in Nat
  BY <1>2, <1>3, FS_CardinalityType
<1>5. PICK X, Y : /\ X = [i \in S |-> Read(x, ls[i]).value]
                  /\ Y = [i \in S |-> Read(y, ls[i]).value]
  OBVIOUS
<1>6. \A i \in S : X[i] \in Int /\ Y[i] \in Int
  BY <1>1, <1>5, ReadIs
<1>7. PICK xy, xx, yy, yx : /\ xy = [i \in S |-> X[i] * Y[i]] /\ xx = [i \in S |-> X[i] * X[i]]
                            /\ yy = [i \in S |-> Y[i] * Y[i]] /\ yx = [i \in S |-> Y[i] * X[i]]
  OBVIOUS
<1>8. \A i \in S : xy[i] \in Int /\ xx[i] \in Int /\ yy[i] \in Int /\ yx[i] \in Int
                   /\ xy[i] = yx[i]
  <2> SUFFICES ASSUME NEW i \in S
               PROVE  xy[i] \in Int /\ xx[i] \in Int /\ yy[i] \in Int /\ yx[i] \in Int
                      /\ xy[i] = yx[i]
    OBVIOUS
  <2>1. PICK a, b : a = X[i] /\ b = Y[i]
    OBVIOUS
  <2>2. a \in Int /\ b \in Int
    BY <1>6, <2>1
  <2>3. xy[i] = a * b /\ xx[i] = a * a /\ yy[i] = b * b /\ yx[i] = b * a
    BY <1>7, <2>1
  <2>4. a * b \in Int /\ a * a \in Int /\ b * b \in Int /\ b * a \in Int /\ a * b = b * a
    BY <2>2
  <2> QED
    BY <2>3, <2>4
<1>9. xy = yx
  BY <1>7, <1>8
<1>10. PICK sx, sy, txy, txx, tyy :
          /\ sx = Total(S, X) /\ sy = Total(S, Y)
          /\ txy = Total(S, xy) /\ txx = Total(S, xx) /\ tyy = Total(S, yy)
  OBVIOUS
<1>11. sx \in Int /\ sy \in Int /\ txy \in Int /\ txx \in Int /\ tyy \in Int
  <2>1. /\ \A i \in S : X[i] \in Int
        /\ \A i \in S : Y[i] \in Int
        /\ \A i \in S : xy[i] \in Int
        /\ \A i \in S : xx[i] \in Int
        /\ \A i \in S : yy[i] \in Int
    BY <1>6, <1>8
  <2>2. SumFunctionOnSet(X, S) \in Int
    BY <1>2, <2>1, SumTyped
  <2>3. SumFunctionOnSet(Y, S) \in Int
    BY <1>2, <2>1, SumTyped
  <2>4. SumFunctionOnSet(xy, S) \in Int
    BY <1>2, <2>1, SumTyped
  <2>5. SumFunctionOnSet(xx, S) \in Int
    BY <1>2, <2>1, SumTyped
  <2>6. SumFunctionOnSet(yy, S) \in Int
    BY <1>2, <2>1, SumTyped
  <2> QED
    BY <1>10, <2>2, <2>3, <2>4, <2>5, <2>6 DEF Total
<1>12. c = [n |-> n, sxy |-> n * txy - sx * sy, sxx |-> n * txx - sx * sx,
            syy |-> n * tyy - sy * sy]
  <2>1. c = [n |-> n, sxy |-> n * Total(S, [i \in S |-> X[i] * Y[i]]) - Total(S, X) * Total(S, Y),
             sxx |-> n * Total(S, [i \in S |-> X[i] * X[i]]) - Total(S, X) * Total(S, X),
             syy |-> n * Total(S, [i \in S |-> Y[i] * Y[i]]) - Total(S, Y) * Total(S, Y)]
    BY <1>3, <1>5, Zenon DEF Correlate
  <2> QED
    BY <1>7, <1>10, <2>1, Zenon
<1>13. d = [n |-> n, sxy |-> n * txy - sy * sx, sxx |-> n * tyy - sy * sy,
            syy |-> n * txx - sx * sx]
  <2>1. d = [n |-> n, sxy |-> n * Total(S, [i \in S |-> Y[i] * X[i]]) - Total(S, Y) * Total(S, X),
             sxx |-> n * Total(S, [i \in S |-> Y[i] * Y[i]]) - Total(S, Y) * Total(S, Y),
             syy |-> n * Total(S, [i \in S |-> X[i] * X[i]]) - Total(S, X) * Total(S, X)]
    BY <1>3, <1>5, Zenon DEF Correlate
  <2> QED
    BY <1>7, <1>9, <1>10, <2>1, Zenon
<1>14. /\ n * txy - sx * sy \in Int /\ n * txx - sx * sx \in Int /\ n * tyy - sy * sy \in Int
       /\ n * txy - sx * sy = n * txy - sy * sx
  <2>1. /\ n * txy \in Int /\ n * txx \in Int /\ n * tyy \in Int
        /\ sx * sy \in Int /\ sx * sx \in Int /\ sy * sy \in Int /\ sx * sy = sy * sx
    BY <1>4, <1>11
  <2> QED
    BY <2>1
<1> QED
  BY <1>4, <1>12, <1>13, <1>14

LEMMA DisjointUnion ==
  ASSUME NEW S, NEW T, IsFiniteSet(S), IsFiniteSet(T), S \cap T = {}
  PROVE  IsFiniteSet(S \cup T) /\ Cardinality(S \cup T) = Cardinality(S) + Cardinality(T)
<1>1. /\ IsFiniteSet(S \cup T)
      /\ Cardinality(S \cup T) = Cardinality(S) + Cardinality(T) - Cardinality(S \cap T)
  BY FS_Union
<1>2. Cardinality(S \cap T) = 0
  BY FS_EmptySet
<1>3. Cardinality(S) \in Nat /\ Cardinality(T) \in Nat
  BY FS_CardinalityType
<1> QED
  BY <1>1, <1>2, <1>3

\* Each life is drawn, or counted under one reason.
LEMMA EachLifeOnce ==
  ASSUME NEW ls \in Seq(LifeView), NEW x \in Metrics, NEW y \in Metrics
  PROVE  Cardinality(Plotted(ls, x, y)) + Total(Reasons, Excluded(ls, x, y)) = Len(ls)
<1>1. Len(ls) \in Nat /\ DOMAIN ls = 1..Len(ls) /\ \A i \in DOMAIN ls : ls[i] \in LifeView
  BY LenProperties, ElementOfSeq
<1>2. PICK D : D = DOMAIN ls
  OBVIOUS
<1>3. IsFiniteSet(D) /\ Cardinality(D) = Len(ls)
  <2>1. IsFiniteSet(1..Len(ls)) /\ Cardinality(1..Len(ls)) = IF 1 > Len(ls) THEN 0 ELSE Len(ls) - 1 + 1
    BY <1>1, FS_Interval
  <2> QED
    BY <1>1, <1>2, <2>1
<1>4. PICK P, K, R, L : /\ P = Plotted(ls, x, y)
                        /\ K = {i \in D : Reason(x, y, ls[i]) = "no-kit-price"}
                        /\ R = {i \in D : Reason(x, y, ls[i]) = "not-recovered"}
                        /\ L = {i \in D : Reason(x, y, ls[i]) = "no-length"}
  OBVIOUS
<1>5. \A i \in D : /\ i \in P <=> Reason(x, y, ls[i]) = None
                   /\ Reason(x, y, ls[i]) \in Reasons \cup {None}
  <2> SUFFICES ASSUME NEW i \in D
               PROVE  /\ i \in P <=> Reason(x, y, ls[i]) = None
                      /\ Reason(x, y, ls[i]) \in Reasons \cup {None}
    OBVIOUS
  <2>1. PICK a, b : a = Read(x, ls[i]) /\ b = Read(y, ls[i])
    OBVIOUS
  <2>2. /\ a.ok => a.reason = None
        /\ ~a.ok => a.reason \in Reasons
        /\ b.ok => b.reason = None
        /\ ~b.ok => b.reason \in Reasons
    BY <1>1, <1>2, <2>1, ReadIs
  <2>3. Reason(x, y, ls[i]) = IF a.ok THEN b.reason ELSE a.reason
    BY <2>1, Zenon DEF Reason
  <2>4. i \in P <=> a.ok /\ b.ok
    BY <1>2, <1>4, <2>1, Zenon DEF Plotted
  <2>5. None \notin Reasons
    BY NoneAssumption DEF Reasons
  <2> QED
    BY <2>2, <2>3, <2>4, <2>5, Zenon
<1>6. /\ P \cup K \cup R \cup L = D
      /\ P \cap K = {} /\ (P \cup K) \cap R = {} /\ (P \cup K \cup R) \cap L = {}
  <2>1. None \notin Reasons
    BY NoneAssumption DEF Reasons
  <2>2. P \subseteq D
    BY <1>2, <1>4 DEF Plotted
  <2> QED
    BY <1>4, <1>5, <2>1, <2>2 DEF Reasons
<1>7. IsFiniteSet(P) /\ IsFiniteSet(K) /\ IsFiniteSet(R) /\ IsFiniteSet(L)
  <2>1. P \subseteq D /\ K \subseteq D /\ R \subseteq D /\ L \subseteq D
    BY <1>6
  <2> QED
    BY <1>3, <2>1, FS_Subset
<1>8. /\ Cardinality(P) \in Nat /\ Cardinality(K) \in Nat /\ Cardinality(R) \in Nat
      /\ Cardinality(L) \in Nat
  BY <1>7, FS_CardinalityType
<1>9. Cardinality(P) + Cardinality(K) + Cardinality(R) + Cardinality(L) = Len(ls)
  <2>1. IsFiniteSet(P \cup K) /\ Cardinality(P \cup K) = Cardinality(P) + Cardinality(K)
    <3>1. P \cap K = {}
      BY <1>6
    <3> QED
      BY <1>7, <1>8, <3>1, DisjointUnion
  <2>2. /\ IsFiniteSet(P \cup K \cup R)
        /\ Cardinality(P \cup K \cup R) = Cardinality(P) + Cardinality(K) + Cardinality(R)
    <3>1. (P \cup K) \cap R = {}
      BY <1>6
    <3> QED
      BY <1>7, <1>8, <2>1, <3>1, DisjointUnion
  <2>3. Cardinality(P \cup K \cup R \cup L)
          = Cardinality(P) + Cardinality(K) + Cardinality(R) + Cardinality(L)
    <3>1. (P \cup K \cup R) \cap L = {}
      BY <1>6
    <3> QED
      BY <1>7, <1>8, <2>2, <3>1, DisjointUnion
  <2> QED
    BY <1>3, <1>6, <2>3
<1>10. PICK e : e = Excluded(ls, x, y)
  OBVIOUS
<1>11. /\ e["no-kit-price"] = Cardinality(K) /\ e["not-recovered"] = Cardinality(R)
       /\ e["no-length"] = Cardinality(L)
  BY <1>2, <1>4, <1>10 DEF Excluded
<1>12. SumFunctionOnSet(e, Reasons) = Cardinality(K) + Cardinality(R) + Cardinality(L)
  <2>1. PICK a, b, c : a = "no-kit-price" /\ b = "not-recovered" /\ c = "no-length"
    OBVIOUS
  <2>2. e[a] \in Int /\ e[b] \in Int /\ e[c] \in Int /\ a # b /\ a # c /\ b # c
    BY <1>8, <1>11, <2>1
  <2>3. /\ IsFiniteSet({}) /\ IsFiniteSet({} \cup {a}) /\ IsFiniteSet({} \cup {a} \cup {b})
    BY FS_EmptySet, FS_AddElement
  <2>4. SumFunctionOnSet(e, {}) = 0
    BY SumEmpty
  <2>5. SumFunctionOnSet(e, {} \cup {a}) = SumFunctionOnSet(e, {}) + e[a]
    BY <2>2, <2>3, SumAdd
  <2>6. SumFunctionOnSet(e, ({} \cup {a}) \cup {b}) = SumFunctionOnSet(e, {} \cup {a}) + e[b]
    BY <2>2, <2>3, SumAdd
  <2>7. SumFunctionOnSet(e, (({} \cup {a}) \cup {b}) \cup {c})
          = SumFunctionOnSet(e, ({} \cup {a}) \cup {b}) + e[c]
    BY <2>2, <2>3, SumAdd
  <2>8. Reasons = ({} \cup {a} \cup {b}) \cup {c}
    BY <2>1 DEF Reasons
  <2>9. SumFunctionOnSet(e, Reasons) = e[a] + e[b] + e[c]
    <3>1. SumFunctionOnSet(e, Reasons)
            = SumFunctionOnSet(e, ({} \cup {a}) \cup {b}) + e[c]
      BY <2>7, <2>8, Zenon
    <3>2. SumFunctionOnSet(e, ({} \cup {a}) \cup {b}) = (0 + e[a]) + e[b]
      BY <2>4, <2>5, <2>6, Zenon
    <3>3. (0 + e[a]) + e[b] = e[a] + e[b]
      BY <2>2
    <3> QED
      BY <3>1, <3>2, <3>3, Zenon
  <2> QED
    BY <1>11, <2>1, <2>9
<1>13. Total(Reasons, Excluded(ls, x, y)) = Cardinality(K) + Cardinality(R) + Cardinality(L)
  BY <1>10, <1>12 DEF Total
<1>14. PICK p, k, r, l : /\ p = Cardinality(P) /\ k = Cardinality(K)
                         /\ r = Cardinality(R) /\ l = Cardinality(L)
  OBVIOUS
<1>15. /\ p \in Nat /\ k \in Nat /\ r \in Nat /\ l \in Nat
       /\ p + k + r + l = Len(ls)
  BY <1>8, <1>9, <1>14
<1>16. p + (k + r + l) = Len(ls)
  BY <1>15
<1> QED
  BY <1>4, <1>13, <1>14, <1>16, Zenon

LEMMA AnalysisHolds ==
  ASSUME lives \in Seq(LifeView)
  PROVE  AnalysisAddsUp
<1> SUFFICES ASSUME NEW x \in Metrics, NEW y \in Metrics
             PROVE  /\ Analyse(lives, x, y).direction = Analyse(lives, y, x).direction
                    /\ \/ Analyse(lives, x, y).flat = Swapped(Analyse(lives, y, x).flat)
                       \/ Analyse(lives, x, y).flat = "x" /\ Analyse(lives, y, x).flat = "x"
                    /\ Cardinality(Plotted(lives, x, y))
                       + Total(Reasons, Excluded(lives, x, y)) = Len(lives)
  BY Zenon DEF AnalysisAddsUp, Reasons
<1>1. PICK S : S = Plotted(lives, x, y)
  OBVIOUS
<1>2. S \in SUBSET DOMAIN lives /\ S = Plotted(lives, y, x)
  BY <1>1, Exchanged DEF Plotted
<1>3. PICK p, q : p = Correlate(lives, x, y, S) /\ q = Correlate(lives, y, x, S)
  OBVIOUS
<1>4. /\ p.n = q.n /\ p.n \in Nat /\ p.sxy \in Int /\ p.sxx \in Int /\ p.syy \in Int
      /\ q.sxy = p.sxy /\ q.sxx = p.syy /\ q.syy = p.sxx
  BY <1>2, <1>3, MomentsExchanged
<1>5. Analyse(lives, x, y) = Describe(p) /\ Analyse(lives, y, x) = Describe(q)
  BY <1>1, <1>2, <1>3, Zenon DEF Analyse
<1>6. /\ Describe(p).direction = Describe(q).direction
      /\ \/ Describe(p).flat = Swapped(Describe(q).flat)
         \/ Describe(p).flat = "x" /\ Describe(q).flat = "x"
  BY <1>4, DirectionStays
<1> QED
  BY <1>5, <1>6, EachLifeOnce, Zenon

-----------------------------------------------------------------------------
(* The markers of the builds. *)

\* What the loop of build_markers knows after each bucket.
MarkedBy(buckets, n, f) ==
  /\ BuildMarkers(buckets) = f[n].at
  /\ f[0] = [known |-> None, at |-> {}]
  /\ \A i \in 1..n : f[i] = Mark(f[i - 1], buckets[i].build, i)

\* build_markers goes through the buckets one by one.
LEMMA MarksBuilt ==
  ASSUME NEW buckets, NEW n, n = Len(buckets), n \in Nat
  PROVE  \E f : MarkedBy(buckets, n, f)
<1> DEFINE Step(g, i) == IF i = 0 THEN [known |-> None, at |-> {}] ELSE Mark(g[i - 1], buckets[i].build, i)
<1> DEFINE Eq(g, k) == g = [i \in 0..k |-> Step(g, i)]
<1> DEFINE P == {k \in 0..n : \E g : Eq(g, k)}
<1>1. 0 \in P
  <2>1. PICK g : g = [i \in 0..0 |-> [known |-> None, at |-> {}]]
    OBVIOUS
  <2>2. Eq(g, 0)
    BY <2>1
  <2> QED
    BY <2>2
<1>2. ASSUME NEW k \in 0..n, k \in P, k < n
      PROVE  k + 1 \in P
  <2>1. PICK f : Eq(f, k)
    BY <1>2
  <2>2. PICK x : x = Step(f, k + 1)
    OBVIOUS
  <2>3. PICK g : g = [i \in 0..(k + 1) |-> IF i = k + 1 THEN x ELSE f[i]]
    OBVIOUS
  <2>4. ASSUME NEW i \in 0..(k + 1) PROVE g[i] = Step(g, i)
    <3>1. CASE i = 0
      <4>1. i # k + 1 /\ i \in 0..k
        BY <3>1
      <4> QED
        BY <2>1, <2>3, <3>1, <4>1
    <3>2. CASE i # 0
      <4>1. i - 1 \in 0..k /\ i - 1 \in 0..(k + 1) /\ i - 1 # k + 1
        BY <3>2
      <4>2. g[i - 1] = f[i - 1]
        BY <2>3, <4>1
      <4>3. Step(g, i) = Step(f, i)
        BY <3>2, <4>2, Zenon
      <4>4. CASE i = k + 1
        <5>1. g[i] = x
          BY <2>3, <4>4
        <5> QED
          BY <2>2, <4>3, <4>4, <5>1, Zenon
      <4>5. CASE i # k + 1
        <5>1. i \in 0..k
          BY <4>5
        <5>2. f[i] = Step(f, i)
          <6> HIDE DEF Step
          <6> QED
            BY <2>1, <5>1
        <5>3. g[i] = f[i]
          BY <2>3, <4>5
        <5> QED
          BY <4>3, <5>2, <5>3, Zenon
      <4> QED
        BY <4>4, <4>5
    <3> QED
      BY <3>1, <3>2
  <2>5. Eq(g, k + 1)
    <3>1. g = [i \in 0..(k + 1) |-> g[i]]
      BY <2>3
    <3> HIDE DEF Step
    <3> QED
      BY <2>4, <3>1
  <2>6. k + 1 \in 0..n
    BY <1>2
  <2> HIDE DEF Eq, Step
  <2> QED
    BY <2>5, <2>6
<1>3. n \in 0..n /\ \A k \in 0..n : k \in P
  <2>1. n \in 0..n /\ n \in Int /\ 0 \in Int
    OBVIOUS
  <2> HIDE DEF P
  <2>2. \A k \in 0..n : k \in P
    BY <1>1, <1>2, <2>1, IntervalInduction
  <2> QED
    BY <2>1, <2>2, Zenon
<1>4. \E g : Eq(g, n)
  BY <1>3
<1>5. PICK g : g = CHOOSE h : Eq(h, n)
  OBVIOUS
<1>6. BuildMarkers(buckets) = (CHOOSE h : Eq(h, n))[n].at
  BY Zenon DEF BuildMarkers
<1>7. Eq(g, n)
  <2> HIDE DEF Eq
  <2> QED
    BY <1>4, <1>5, Zenon
<1>8. \A i \in 0..n : g[i] = Step(g, i)
  <2> HIDE DEF Step
  <2> QED
    BY <1>7
<1>9. g[0] = [known |-> None, at |-> {}]
  <2>1. 0 \in 0..n
    OBVIOUS
  <2> QED
    BY <1>8, <2>1, Zenon
<1>10. ASSUME NEW i \in 1..n PROVE g[i] = Mark(g[i - 1], buckets[i].build, i)
  <2>1. i \in 0..n /\ i # 0
    OBVIOUS
  <2> QED
    BY <1>8, <2>1, Zenon
<1> HIDE DEF Eq, P, Step
<1>11. MarkedBy(buckets, n, g)
  BY <1>5, <1>6, <1>9, <1>10, Zenon DEF MarkedBy
<1> QED
  BY <1>11

\* The last known build before the end of buckets 1..n, if there is one.
LastKnown(buckets, n, known) ==
  \/ known = None /\ \A k \in 1..n : buckets[k].build = None
  \/ /\ known # None
     /\ \E j \in 1..n : /\ buckets[j].build = known
                        /\ \A k \in (j + 1)..n : buckets[k].build = None

\* Bucket i is at the first build after another.
Changes(buckets, i) ==
  \E j \in 1..(i - 1) :
    /\ None \notin {buckets[i].build, buckets[j].build}
    /\ buckets[i].build # buckets[j].build
    /\ \A k \in (j + 1)..(i - 1) : buckets[k].build = None

\* A bucket is at a change if its build and the last known one differ.
LEMMA ChangeIs ==
  ASSUME NEW buckets, NEW i \in Nat \ {0}, NEW known, LastKnown(buckets, i - 1, known)
  PROVE  Changes(buckets, i) <=>
           /\ buckets[i].build # None
           /\ known \notin {None, buckets[i].build}
<1>1. PICK b : b = buckets[i].build
  OBVIOUS
<1>2. CASE known = None /\ \A k \in 1..(i - 1) : buckets[k].build = None
  BY <1>2, Zenon DEF Changes
<1>3. CASE /\ known # None
           /\ \E j \in 1..(i - 1) : /\ buckets[j].build = known
                                    /\ \A k \in (j + 1)..(i - 1) : buckets[k].build = None
  <2>1. PICK j \in 1..(i - 1) : /\ buckets[j].build = known
                                /\ \A k \in (j + 1)..(i - 1) : buckets[k].build = None
    BY <1>3
  <2>2. ASSUME b # None, known # b
        PROVE  Changes(buckets, i)
    <3>1. None \notin {b, known}
      BY <1>3, <2>2, Zenon
    <3> QED
      BY <1>1, <2>1, <2>2, <3>1, Zenon DEF Changes
  <2>3. ASSUME NEW t \in 1..(i - 1), None \notin {b, buckets[t].build}, b # buckets[t].build,
               \A k \in (t + 1)..(i - 1) : buckets[k].build = None
        PROVE  b # None /\ known # b
    <3>1. ~(t < j)
      <4> SUFFICES ASSUME t < j PROVE FALSE
        OBVIOUS
      <4>1. j \in (t + 1)..(i - 1)
        OBVIOUS
      <4> QED
        BY <1>3, <2>1, <2>3, <4>1, Zenon
    <3>2. ~(j < t)
      <4> SUFFICES ASSUME j < t PROVE FALSE
        OBVIOUS
      <4>1. t \in (j + 1)..(i - 1)
        OBVIOUS
      <4> QED
        BY <2>1, <2>3, <4>1, Zenon
    <3>3. t = j
      BY <3>1, <3>2
    <3> QED
      BY <2>1, <2>3, <3>3, Zenon
  <2>4. Changes(buckets, i) => b # None /\ known # b
    BY <1>1, <2>3, Zenon DEF Changes
  <2> QED
    BY <1>1, <1>3, <2>2, <2>4, Zenon
<1> QED
  BY <1>2, <1>3, Zenon DEF LastKnown

\* The last known build after one bucket more.
LEMMA KnownNext ==
  ASSUME NEW buckets, NEW i \in Nat \ {0}, NEW known, LastKnown(buckets, i - 1, known)
  PROVE  LastKnown(buckets, i, IF buckets[i].build = None THEN known ELSE buckets[i].build)
<1>1. CASE buckets[i].build = None
  <2>1. CASE known = None /\ \A k \in 1..(i - 1) : buckets[k].build = None
    <3>1. \A k \in 1..i : k \in 1..(i - 1) \/ k = i
      OBVIOUS
    <3> QED
      BY <1>1, <2>1, <3>1, Zenon DEF LastKnown
  <2>2. CASE /\ known # None
             /\ \E j \in 1..(i - 1) : /\ buckets[j].build = known
                                      /\ \A k \in (j + 1)..(i - 1) : buckets[k].build = None
    <3>1. PICK j \in 1..(i - 1) : /\ buckets[j].build = known
                                  /\ \A k \in (j + 1)..(i - 1) : buckets[k].build = None
      BY <2>2
    <3>2. j \in 1..i /\ \A k \in (j + 1)..i : k \in (j + 1)..(i - 1) \/ k = i
      OBVIOUS
    <3>3. \A k \in (j + 1)..i : buckets[k].build = None
      BY <1>1, <3>1, <3>2, Zenon
    <3> QED
      BY <1>1, <2>2, <3>1, <3>2, <3>3, Zenon DEF LastKnown
  <2> QED
    BY <2>1, <2>2, Zenon DEF LastKnown
<1>2. CASE buckets[i].build # None
  <2>1. i \in 1..i /\ (i + 1)..i = {}
    OBVIOUS
  <2> QED
    BY <1>2, <2>1, Zenon DEF LastKnown
<1> QED
  BY <1>1, <1>2

\* The loop marks the changes.
LEMMA MarksAre ==
  ASSUME NEW buckets, Len(buckets) \in Nat
  PROVE  BuildMarkers(buckets) = {i \in 1..Len(buckets) : Changes(buckets, i)}
<1>1. PICK n : n = Len(buckets) /\ n \in Nat
  OBVIOUS
<1>2. PICK f : MarkedBy(buckets, n, f)
  BY <1>1, MarksBuilt
<1>7. /\ BuildMarkers(buckets) = f[n].at
       /\ f[0] = [known |-> None, at |-> {}]
       /\ \A i \in 1..n : f[i] = Mark(f[i - 1], buckets[i].build, i)
  BY <1>2, Zenon DEF MarkedBy
<1> DEFINE P == {k \in 0..n : /\ LastKnown(buckets, k, f[k].known)
                              /\ f[k].at = {i \in 1..k : Changes(buckets, i)}}
<1>3. 0 \in P
  <2>1. f[0].known = None /\ f[0].at = {} /\ 1..0 = {} /\ 0 \in 0..n
    BY <1>1, <1>7
  <2> QED
    BY <2>1, Zenon DEF LastKnown
<1>4. ASSUME NEW k \in 0..n, k \in P, k < n
      PROVE  k + 1 \in P
  <2>1. PICK i : i = k + 1
    OBVIOUS
  <2>2. i \in 1..n /\ i \in 0..n /\ i \in Nat \ {0} /\ i - 1 = k /\ k \in Nat
    BY <1>1, <1>4, <2>1
  <2>3. PICK known, at, build : known = f[k].known /\ at = f[k].at /\ build = buckets[i].build
    OBVIOUS
  <2>4. LastKnown(buckets, i - 1, known) /\ at = {j \in 1..k : Changes(buckets, j)}
    BY <1>4, <2>2, <2>3
  <2>5. f[i] = Mark(f[k], build, i)
    BY <1>7, <2>2, <2>3
  <2>6. /\ f[i].known = IF build = None THEN known ELSE build
        /\ f[i].at = IF build # None /\ known \notin {None, build} THEN at \cup {i} ELSE at
    <3>1. CASE build = None
      <4>1. f[i] = f[k]
        BY <2>5, <3>1, Zenon DEF Mark
      <4> QED
        BY <2>3, <3>1, <4>1, Zenon
    <3>2. CASE build # None
      <4>1. f[i] = [known |-> build, at |-> IF known \notin {None, build} THEN at \cup {i} ELSE at]
        BY <2>3, <2>5, <3>2, Zenon DEF Mark
      <4>2. f[i].known = build /\ f[i].at = IF known \notin {None, build} THEN at \cup {i} ELSE at
        BY <4>1
      <4> QED
        BY <3>2, <4>2, Zenon
    <3> QED
      BY <3>1, <3>2
  <2>7. LastKnown(buckets, i, f[i].known)
    <3>1. LastKnown(buckets, i, IF build = None THEN known ELSE build)
      BY <2>2, <2>3, <2>4, KnownNext
    <3> QED
      BY <2>6, <3>1, Zenon
  <2>8. Changes(buckets, i) <=> build # None /\ known \notin {None, build}
    BY <2>2, <2>3, <2>4, ChangeIs
  <2>9. \A j : j \in 1..i <=> j \in 1..k \/ j = i
    BY <2>1, <2>2
  <2>10. f[i].at = {j \in 1..i : Changes(buckets, j)}
    <3>1. CASE Changes(buckets, i)
      <4>1. f[i].at = at \cup {i}
        BY <2>6, <2>8, <3>1, Zenon
      <4> QED
        BY <2>4, <2>9, <3>1, <4>1
    <3>2. CASE ~Changes(buckets, i)
      <4>1. f[i].at = at
        BY <2>6, <2>8, <3>2, Zenon
      <4> QED
        BY <2>4, <2>9, <3>2, <4>1
    <3> QED
      BY <3>1, <3>2
  <2> QED
    BY <2>1, <2>2, <2>7, <2>10
<1>5. n \in 0..n /\ \A k \in 0..n : k \in P
  <2>1. n \in 0..n /\ n \in Int /\ 0 \in Int
    BY <1>1
  <2> HIDE DEF P
  <2>2. \A k \in 0..n : k \in P
    BY <1>1, <1>3, <1>4, <2>1, IntervalInduction
  <2> QED
    BY <2>1, <2>2, Zenon
<1>6. f[n].at = {i \in 1..n : Changes(buckets, i)}
  BY <1>5
<1> QED
  BY <1>1, <1>7, <1>6, Zenon

-----------------------------------------------------------------------------
(* History. *)

\* A match view, whatever its day and its amounts.
MatchView == [day : Int, build : {"b1", "b2", None}, lives : Int, map : {"m1", "m2"},
              kit : Int, earned : Int, other : Int, between : Int, profit : Int]

\* What filter_matches has kept after each match.
FilteredBy(rs, filter, today, n, f) ==
  /\ FilterMatches(rs, filter, today) = f[n]
  /\ f[0] = <<>>
  /\ \A i \in 1..n : f[i] = IF Keep(rs[i], filter, today) THEN Append(f[i - 1], rs[i]) ELSE f[i - 1]

\* filter_matches goes through the matches one by one.
LEMMA FilterBuilt ==
  ASSUME NEW rs, NEW filter, NEW today, NEW n, n = Len(rs), n \in Nat
  PROVE  \E f : FilteredBy(rs, filter, today, n, f)
<1> DEFINE Step(g, i) == IF i = 0 THEN <<>> ELSE IF Keep(rs[i], filter, today) THEN Append(g[i - 1], rs[i]) ELSE g[i - 1]
<1> DEFINE Eq(g, k) == g = [i \in 0..k |-> Step(g, i)]
<1> DEFINE P == {k \in 0..n : \E g : Eq(g, k)}
<1>1. 0 \in P
  <2>1. PICK g : g = [i \in 0..0 |-> <<>>]
    OBVIOUS
  <2>2. Eq(g, 0)
    BY <2>1
  <2> QED
    BY <2>2
<1>2. ASSUME NEW k \in 0..n, k \in P, k < n
      PROVE  k + 1 \in P
  <2>1. PICK f : Eq(f, k)
    BY <1>2
  <2>2. PICK x : x = Step(f, k + 1)
    OBVIOUS
  <2>3. PICK g : g = [i \in 0..(k + 1) |-> IF i = k + 1 THEN x ELSE f[i]]
    OBVIOUS
  <2>4. ASSUME NEW i \in 0..(k + 1) PROVE g[i] = Step(g, i)
    <3>1. CASE i = 0
      <4>1. i # k + 1 /\ i \in 0..k
        BY <3>1
      <4> QED
        BY <2>1, <2>3, <3>1, <4>1
    <3>2. CASE i # 0
      <4>1. i - 1 \in 0..k /\ i - 1 \in 0..(k + 1) /\ i - 1 # k + 1
        BY <3>2
      <4>2. g[i - 1] = f[i - 1]
        BY <2>3, <4>1
      <4>3. Step(g, i) = Step(f, i)
        BY <3>2, <4>2, Zenon
      <4>4. CASE i = k + 1
        <5>1. g[i] = x
          BY <2>3, <4>4
        <5> QED
          BY <2>2, <4>3, <4>4, <5>1, Zenon
      <4>5. CASE i # k + 1
        <5>1. i \in 0..k
          BY <4>5
        <5>2. f[i] = Step(f, i)
          <6> HIDE DEF Step
          <6> QED
            BY <2>1, <5>1
        <5>3. g[i] = f[i]
          BY <2>3, <4>5
        <5> QED
          BY <4>3, <5>2, <5>3, Zenon
      <4> QED
        BY <4>4, <4>5
    <3> QED
      BY <3>1, <3>2
  <2>5. Eq(g, k + 1)
    <3>1. g = [i \in 0..(k + 1) |-> g[i]]
      BY <2>3
    <3> HIDE DEF Step
    <3> QED
      BY <2>4, <3>1
  <2>6. k + 1 \in 0..n
    BY <1>2
  <2> HIDE DEF Eq, Step
  <2> QED
    BY <2>5, <2>6
<1>3. n \in 0..n /\ \A k \in 0..n : k \in P
  <2>1. n \in 0..n /\ n \in Int /\ 0 \in Int
    OBVIOUS
  <2> HIDE DEF P
  <2>2. \A k \in 0..n : k \in P
    BY <1>1, <1>2, <2>1, IntervalInduction
  <2> QED
    BY <2>1, <2>2, Zenon
<1>4. \E g : Eq(g, n)
  BY <1>3
<1>5. PICK g : g = CHOOSE h : Eq(h, n)
  OBVIOUS
<1>6. FilterMatches(rs, filter, today) = (CHOOSE h : Eq(h, n))[n]
  BY Zenon DEF FilterMatches
<1>7. Eq(g, n)
  <2> HIDE DEF Eq
  <2> QED
    BY <1>4, <1>5, Zenon
<1>8. \A i \in 0..n : g[i] = Step(g, i)
  <2> HIDE DEF Step
  <2> QED
    BY <1>7
<1>9. g[0] = <<>>
  <2>1. 0 \in 0..n
    OBVIOUS
  <2> QED
    BY <1>8, <2>1, Zenon
<1>10. ASSUME NEW i \in 1..n PROVE g[i] = IF Keep(rs[i], filter, today) THEN Append(g[i - 1], rs[i]) ELSE g[i - 1]
  <2>1. i \in 0..n /\ i # 0
    OBVIOUS
  <2> QED
    BY <1>8, <2>1, Zenon
<1> HIDE DEF Eq, P, Step
<1>11. FilteredBy(rs, filter, today, n, g)
  BY <1>5, <1>6, <1>9, <1>10, Zenon DEF FilteredBy
<1> QED
  BY <1>11

LEMMA FilterTyped ==
  ASSUME NEW rs \in Seq(MatchView), NEW filter, NEW today
  PROVE  FilterMatches(rs, filter, today) \in Seq(MatchView)
<1>1. PICK n : n = Len(rs) /\ n \in Nat
  BY LenProperties
<1>2. \A i \in 1..n : rs[i] \in MatchView
  BY <1>1, ElementOfSeq
<1>3. PICK f : FilteredBy(rs, filter, today, n, f)
  BY <1>1, FilterBuilt
<1>4. /\ FilterMatches(rs, filter, today) = f[n]
      /\ f[0] = <<>>
      /\ \A i \in 1..n : f[i] = IF Keep(rs[i], filter, today) THEN Append(f[i - 1], rs[i])
                                ELSE f[i - 1]
  BY <1>3, Zenon DEF FilteredBy
<1> DEFINE P == {k \in 0..n : f[k] \in Seq(MatchView)}
<1>5. 0 \in P
  <2>1. <<>> \in Seq(MatchView) /\ 0 \in 0..n
    BY <1>1, EmptySeq
  <2> QED
    BY <1>4, <2>1
<1>6. ASSUME NEW k \in 0..n, k \in P, k < n
      PROVE  k + 1 \in P
  <2>1. PICK i : i = k + 1
    OBVIOUS
  <2>2. i \in 1..n /\ i \in 0..n /\ i - 1 = k
    BY <1>1, <1>6, <2>1
  <2>3. f[k] \in Seq(MatchView) /\ rs[i] \in MatchView
    BY <1>2, <1>6, <2>2
  <2>4. Append(f[k], rs[i]) \in Seq(MatchView)
    BY <2>3, AppendProperties
  <2>5. f[i] = Append(f[k], rs[i]) \/ f[i] = f[k]
    BY <1>4, <2>2, Zenon
  <2>6. f[i] \in Seq(MatchView)
    BY <2>3, <2>4, <2>5, Zenon
  <2> QED
    BY <2>1, <2>2, <2>6
<1>7. n \in 0..n /\ n \in Int /\ 0 \in Int
  BY <1>1
<1>8. \A k \in 0..n : k \in P
  <2> HIDE DEF P
  <2> QED
    BY <1>5, <1>6, <1>7, IntervalInduction
<1> QED
  BY <1>4, <1>7, <1>8

-----------------------------------------------------------------------------
(* What adds up over the buckets. *)

\* A number for every set of matches, such that separate sets add up.
Additive(mu, D) ==
  /\ \A S \in SUBSET D : mu[S] \in Int
  /\ mu[{}] = 0
  /\ \A S, T \in SUBSET D : S \cap T = {} => mu[S \cup T] = mu[S] + mu[T]

\* What the first n sets are together.
Together(m, n) == UNION {m[b] : b \in 1..n}

\* Separate sets that are numbered, and what they are together.
LEMMA SeparateSum ==
  ASSUME NEW n \in Nat, NEW D, NEW mu, Additive(mu, D),
         NEW m, \A b \in 1..n : m[b] \in SUBSET D,
         \A b, c \in 1..n : b # c => m[b] \cap m[c] = {},
         NEW h, \A b \in 1..n : h[b] = mu[m[b]]
  PROVE  SumFunctionOnSet(h, 1..n) = mu[Together(m, n)]
<1> DEFINE U(k) == UNION {m[b] : b \in 1..k}
<1> DEFINE P == {k \in 0..n : SumFunctionOnSet(h, 1..k) = mu[U(k)]}
<1>1. 0 \in P
  <2>1. U(0) = {} /\ 1..0 = {} /\ 0 \in 0..n
    OBVIOUS
  <2>2. SumFunctionOnSet(h, {}) = 0 /\ mu[{}] = 0
    BY SumEmpty, Zenon DEF Additive
  <2> QED
    BY <2>1, <2>2
<1>2. ASSUME NEW k \in 0..n, k \in P, k < n
      PROVE  k + 1 \in P
  <2>1. PICK i : i = k + 1
    OBVIOUS
  <2>2. i \in 1..n /\ i \in 0..n /\ i \notin 1..k /\ 1..i = (1..k) \cup {i} /\ 1..k \subseteq 1..n
    BY <1>2, <2>1
  <2>3. U(i) = U(k) \cup m[i]
    BY <2>2
  <2>4. U(k) \in SUBSET D /\ m[i] \in SUBSET D
    BY <2>2
  <2>5. U(k) \cap m[i] = {}
    <3> SUFFICES ASSUME NEW x, x \in U(k), x \in m[i] PROVE FALSE
      OBVIOUS
    <3>1. PICK b \in 1..k : x \in m[b]
      OBVIOUS
    <3>2. b \in 1..n /\ b # i
      BY <2>2
    <3>3. x \in m[b] \cap m[i]
      BY <3>1
    <3>4. m[b] \cap m[i] = {}
      BY <2>2, <3>2
    <3> QED
      BY <3>3, <3>4
  <2>6. SumFunctionOnSet(h, 1..k) = mu[U(k)]
    BY <1>2
  <2> HIDE DEF U, P
  <2>7. mu[U(k) \cup m[i]] = mu[U(k)] + mu[m[i]]
    BY <2>4, <2>5, Zenon DEF Additive
  <2>8. SumFunctionOnSet(h, (1..k) \cup {i}) = SumFunctionOnSet(h, 1..k) + h[i]
    <3>1. IsFiniteSet(1..k)
      BY <1>2, FS_Interval
    <3>2. ASSUME NEW b \in (1..k) \cup {i} PROVE h[b] \in Int
      <4>1. b \in 1..n
        BY <2>2
      <4>2. h[b] = mu[m[b]] /\ m[b] \in SUBSET D
        BY <4>1
      <4> QED
        BY <4>2, Zenon DEF Additive
    <3> QED
      BY <2>2, <3>1, <3>2, SumAdd
  <2>9. h[i] = mu[m[i]]
    BY <2>2
  <2>10. SumFunctionOnSet(h, 1..i) = mu[U(i)]
    BY <2>2, <2>3, <2>6, <2>7, <2>8, <2>9, Zenon
  <2> QED
    BY <2>1, <2>2, <2>10 DEF P
<1>3. n \in 0..n /\ n \in Int /\ 0 \in Int
  OBVIOUS
<1>4. \A k \in 0..n : k \in P
  <2> HIDE DEF P
  <2> QED
    BY <1>1, <1>2, <1>3, IntervalInduction
<1>5. Together(m, n) = U(n)
  BY DEF Together
<1> QED
  BY <1>3, <1>4, <1>5

LEMMA SumIsAdditive ==
  ASSUME NEW D, IsFiniteSet(D), NEW f, \A i \in D : f[i] \in Int,
         NEW mu, mu = [S \in SUBSET D |-> SumFunctionOnSet(f, S)]
  PROVE  Additive(mu, D)
<1>1. ASSUME NEW S \in SUBSET D PROVE mu[S] = SumFunctionOnSet(f, S) /\ mu[S] \in Int
  <2>1. IsFiniteSet(S)
    BY FS_Subset
  <2>2. \A i \in S : f[i] \in Int
    OBVIOUS
  <2>3. SumFunctionOnSet(f, S) \in Int
    BY <2>1, <2>2, SumTyped
  <2> QED
    BY <2>3
<1>2. mu[{}] = 0
  BY SumEmpty
<1>3. ASSUME NEW S \in SUBSET D, NEW T \in SUBSET D, S \cap T = {}
      PROVE  mu[S \cup T] = mu[S] + mu[T]
  <2>1. IsFiniteSet(S) /\ IsFiniteSet(T) /\ S \cup T \in SUBSET D
    BY FS_Subset
  <2>2. \A i \in S \cup T : f[i] \in Int
    OBVIOUS
  <2>3. SumFunctionOnSet(f, S \cup T) = SumFunctionOnSet(f, S) + SumFunctionOnSet(f, T)
    BY <1>3, <2>1, <2>2, SumSplit
  <2> QED
    BY <1>1, <2>1, <2>3
<1> QED
  BY <1>1, <1>2, <1>3 DEF Additive

\* The fields of the totals that are shown beside the buckets.
Shown == {"matches", "lives", "spent", "profit"}

LEMMA TotalsAdditive ==
  ASSUME NEW rs \in Seq(MatchView), NEW D, D = DOMAIN rs, NEW field \in Shown,
         NEW mu, mu = [S \in SUBSET D |-> TotalsOf(rs, S)[field]]
  PROVE  Additive(mu, D)
<1>1. Len(rs) \in Nat /\ D = 1..Len(rs) /\ \A i \in D : rs[i] \in MatchView
  BY LenProperties, ElementOfSeq
<1>2. IsFiniteSet(D)
  BY <1>1, FS_Interval
<1>3. PICK fl, fk, fo, fp : /\ fl = [i \in D |-> rs[i].lives] /\ fk = [i \in D |-> rs[i].kit]
                            /\ fo = [i \in D |-> rs[i].other] /\ fp = [i \in D |-> rs[i].profit]
  OBVIOUS
<1>4. /\ \A i \in D : fl[i] \in Int
      /\ \A i \in D : fk[i] \in Int
      /\ \A i \in D : fo[i] \in Int
      /\ \A i \in D : fp[i] \in Int
  BY <1>1, <1>3 DEF MatchView
<1>5. ASSUME NEW S \in SUBSET D
      PROVE  /\ TotalsOf(rs, S)["matches"] = Cardinality(S)
             /\ TotalsOf(rs, S)["lives"] = SumFunctionOnSet(fl, S)
             /\ TotalsOf(rs, S)["spent"] = SumFunctionOnSet(fk, S) + SumFunctionOnSet(fo, S)
             /\ TotalsOf(rs, S)["profit"] = SumFunctionOnSet(fp, S)
  <2>1. IsFiniteSet(S)
    BY <1>2, FS_Subset
  <2>2. PICK gl, gk, go, gp :
          /\ gl = [i \in S |-> rs[i]["lives"]] /\ gk = [i \in S |-> rs[i]["kit"]]
          /\ go = [i \in S |-> rs[i]["other"]] /\ gp = [i \in S |-> rs[i]["profit"]]
    OBVIOUS
  <2>3. /\ SumFunctionOnSet(gl, S) = SumFunctionOnSet(fl, S)
        /\ SumFunctionOnSet(gk, S) = SumFunctionOnSet(fk, S)
        /\ SumFunctionOnSet(go, S) = SumFunctionOnSet(fo, S)
        /\ SumFunctionOnSet(gp, S) = SumFunctionOnSet(fp, S)
    <3>1. /\ \A i \in S : gl[i] = fl[i]
          /\ \A i \in S : gk[i] = fk[i]
          /\ \A i \in S : go[i] = fo[i]
          /\ \A i \in S : gp[i] = fp[i]
      BY <1>3, <2>2
    <3>2. SumFunctionOnSet(gl, S) = SumFunctionOnSet(fl, S)
      BY <2>1, <3>1, SumSame
    <3>3. SumFunctionOnSet(gk, S) = SumFunctionOnSet(fk, S)
      BY <2>1, <3>1, SumSame
    <3>4. SumFunctionOnSet(go, S) = SumFunctionOnSet(fo, S)
      BY <2>1, <3>1, SumSame
    <3>5. SumFunctionOnSet(gp, S) = SumFunctionOnSet(fp, S)
      BY <2>1, <3>1, SumSame
    <3> QED
      BY <3>2, <3>3, <3>4, <3>5
  <2>4. PICK t : t = TotalsOf(rs, S)
    OBVIOUS
  <2>5. PICK earned, between, spent :
          t = [matches |-> Cardinality(S), lives |-> SumFunctionOnSet(gl, S),
               kit |-> SumFunctionOnSet(gk, S), earned |-> earned,
               other |-> SumFunctionOnSet(go, S), spent |-> spent,
               between |-> between, profit |-> SumFunctionOnSet(gp, S)]
          /\ spent = SumFunctionOnSet(gk, S) + SumFunctionOnSet(go, S)
    BY <2>2, <2>4, Zenon DEF TotalsOf, Total
  <2>6. /\ t["matches"] = Cardinality(S) /\ t["lives"] = SumFunctionOnSet(gl, S)
        /\ t["spent"] = spent /\ t["profit"] = SumFunctionOnSet(gp, S)
    BY <2>5
  <2> QED
    BY <2>3, <2>4, <2>5, <2>6, Zenon
<1>6. PICK ml, mk, mo, mp : /\ ml = [S \in SUBSET D |-> SumFunctionOnSet(fl, S)]
                            /\ mk = [S \in SUBSET D |-> SumFunctionOnSet(fk, S)]
                            /\ mo = [S \in SUBSET D |-> SumFunctionOnSet(fo, S)]
                            /\ mp = [S \in SUBSET D |-> SumFunctionOnSet(fp, S)]
  OBVIOUS
<1>7. Additive(ml, D)
  BY <1>2, <1>4, <1>6, SumIsAdditive
<1>8. Additive(mk, D)
  BY <1>2, <1>4, <1>6, SumIsAdditive
<1>9. Additive(mo, D)
  BY <1>2, <1>4, <1>6, SumIsAdditive
<1>10. Additive(mp, D)
  BY <1>2, <1>4, <1>6, SumIsAdditive
<1>11. CASE field = "matches"
  <2>1. \A S \in SUBSET D : mu[S] = Cardinality(S) /\ IsFiniteSet(S)
    BY <1>2, <1>5, <1>11, FS_Subset
  <2>2. ASSUME NEW S \in SUBSET D PROVE mu[S] \in Int
    <3>1. PICK c : c = mu[S]
      OBVIOUS
    <3>2. c \in Nat
      BY <2>1, <3>1, FS_CardinalityType
    <3> QED
      BY <3>1, <3>2
  <2>3. mu[{}] = 0
    BY <2>1, FS_EmptySet
  <2>4. ASSUME NEW S \in SUBSET D, NEW T \in SUBSET D, S \cap T = {}
        PROVE  mu[S \cup T] = mu[S] + mu[T]
    <3>1. S \cup T \in SUBSET D
      OBVIOUS
    <3>2. Cardinality(S \cup T) = Cardinality(S) + Cardinality(T)
      BY <2>1, <2>4, DisjointUnion
    <3> QED
      BY <2>1, <3>1, <3>2
  <2> QED
    BY <2>2, <2>3, <2>4 DEF Additive
<1>12. CASE field = "lives"
  <2>1. mu = ml
    BY <1>5, <1>6, <1>12
  <2> QED
    BY <1>7, <2>1, Zenon
<1>13. CASE field = "profit"
  <2>1. mu = mp
    BY <1>5, <1>6, <1>13
  <2> QED
    BY <1>10, <2>1, Zenon
<1>14. CASE field = "spent"
  <2>1. \A S \in SUBSET D : mu[S] = mk[S] + mo[S]
    BY <1>5, <1>6, <1>14
  <2>2. /\ \A S \in SUBSET D : mk[S] \in Int /\ mo[S] \in Int
        /\ mk[{}] = 0 /\ mo[{}] = 0
        /\ \A S, T \in SUBSET D : S \cap T = {} => mk[S \cup T] = mk[S] + mk[T]
        /\ \A S, T \in SUBSET D : S \cap T = {} => mo[S \cup T] = mo[S] + mo[T]
    BY <1>8, <1>9, Zenon DEF Additive
  <2>3. mu[{}] = 0
    <3>1. mu[{}] = 0 + 0
      BY <2>1, <2>2
    <3> QED
      BY <3>1
  <2>5. ASSUME NEW S \in SUBSET D PROVE mu[S] \in Int
    <3>1. PICK a, b : a = mk[S] /\ b = mo[S]
      OBVIOUS
    <3>2. a \in Int /\ b \in Int /\ mu[S] = a + b
      BY <2>1, <2>2, <3>1
    <3> QED
      BY <3>2
  <2>4. ASSUME NEW S \in SUBSET D, NEW T \in SUBSET D, S \cap T = {}
        PROVE  mu[S \cup T] = mu[S] + mu[T]
    <3>1. S \cup T \in SUBSET D
      OBVIOUS
    <3>2. mu[S \cup T] = (mk[S] + mk[T]) + (mo[S] + mo[T])
      BY <2>1, <2>2, <2>4, <3>1
    <3>3. mu[S] = mk[S] + mo[S] /\ mu[T] = mk[T] + mo[T]
      BY <2>1
    <3>4. mk[S] \in Int /\ mk[T] \in Int /\ mo[S] \in Int /\ mo[T] \in Int
      BY <2>2
    <3> QED
      BY <3>2, <3>3, <3>4
  <2> QED
    BY <2>3, <2>5, <2>4 DEF Additive
<1> QED
  BY <1>11, <1>12, <1>13, <1>14 DEF Shown

\* The buckets after each match.
GroupedBy(rs, grouping, n, f) ==
  /\ BuildBuckets(rs, grouping) = f[n]
  /\ f[0] = <<>>
  /\ \A i \in 1..n : f[i] = Group(rs, grouping, f[i - 1], i)

\* build_buckets goes through the matches one by one.
LEMMA BucketsBuilt ==
  ASSUME NEW rs, NEW grouping, NEW n, n = Len(rs), n \in Nat
  PROVE  \E f : GroupedBy(rs, grouping, n, f)
<1> DEFINE Step(g, i) == IF i = 0 THEN <<>> ELSE Group(rs, grouping, g[i - 1], i)
<1> DEFINE Eq(g, k) == g = [i \in 0..k |-> Step(g, i)]
<1> DEFINE P == {k \in 0..n : \E g : Eq(g, k)}
<1>1. 0 \in P
  <2>1. PICK g : g = [i \in 0..0 |-> <<>>]
    OBVIOUS
  <2>2. Eq(g, 0)
    BY <2>1
  <2> QED
    BY <2>2
<1>2. ASSUME NEW k \in 0..n, k \in P, k < n
      PROVE  k + 1 \in P
  <2>1. PICK f : Eq(f, k)
    BY <1>2
  <2>2. PICK x : x = Step(f, k + 1)
    OBVIOUS
  <2>3. PICK g : g = [i \in 0..(k + 1) |-> IF i = k + 1 THEN x ELSE f[i]]
    OBVIOUS
  <2>4. ASSUME NEW i \in 0..(k + 1) PROVE g[i] = Step(g, i)
    <3>1. CASE i = 0
      <4>1. i # k + 1 /\ i \in 0..k
        BY <3>1
      <4> QED
        BY <2>1, <2>3, <3>1, <4>1
    <3>2. CASE i # 0
      <4>1. i - 1 \in 0..k /\ i - 1 \in 0..(k + 1) /\ i - 1 # k + 1
        BY <3>2
      <4>2. g[i - 1] = f[i - 1]
        BY <2>3, <4>1
      <4>3. Step(g, i) = Step(f, i)
        BY <3>2, <4>2, Zenon
      <4>4. CASE i = k + 1
        <5>1. g[i] = x
          BY <2>3, <4>4
        <5> QED
          BY <2>2, <4>3, <4>4, <5>1, Zenon
      <4>5. CASE i # k + 1
        <5>1. i \in 0..k
          BY <4>5
        <5>2. f[i] = Step(f, i)
          <6> HIDE DEF Step
          <6> QED
            BY <2>1, <5>1
        <5>3. g[i] = f[i]
          BY <2>3, <4>5
        <5> QED
          BY <4>3, <5>2, <5>3, Zenon
      <4> QED
        BY <4>4, <4>5
    <3> QED
      BY <3>1, <3>2
  <2>5. Eq(g, k + 1)
    <3>1. g = [i \in 0..(k + 1) |-> g[i]]
      BY <2>3
    <3> HIDE DEF Step
    <3> QED
      BY <2>4, <3>1
  <2>6. k + 1 \in 0..n
    BY <1>2
  <2> HIDE DEF Eq, Step
  <2> QED
    BY <2>5, <2>6
<1>3. n \in 0..n /\ \A k \in 0..n : k \in P
  <2>1. n \in 0..n /\ n \in Int /\ 0 \in Int
    OBVIOUS
  <2> HIDE DEF P
  <2>2. \A k \in 0..n : k \in P
    BY <1>1, <1>2, <2>1, IntervalInduction
  <2> QED
    BY <2>1, <2>2, Zenon
<1>4. \E g : Eq(g, n)
  BY <1>3
<1>5. PICK g : g = CHOOSE h : Eq(h, n)
  OBVIOUS
<1>6. BuildBuckets(rs, grouping) = (CHOOSE h : Eq(h, n))[n]
  BY Zenon DEF BuildBuckets
<1>7. Eq(g, n)
  <2> HIDE DEF Eq
  <2> QED
    BY <1>4, <1>5, Zenon
<1>8. \A i \in 0..n : g[i] = Step(g, i)
  <2> HIDE DEF Step
  <2> QED
    BY <1>7
<1>9. g[0] = <<>>
  <2>1. 0 \in 0..n
    OBVIOUS
  <2> QED
    BY <1>8, <2>1, Zenon
<1>10. ASSUME NEW i \in 1..n PROVE g[i] = Group(rs, grouping, g[i - 1], i)
  <2>1. i \in 0..n /\ i # 0
    OBVIOUS
  <2> QED
    BY <1>8, <2>1, Zenon
<1> HIDE DEF Eq, P, Step
<1>11. GroupedBy(rs, grouping, n, g)
  BY <1>5, <1>6, <1>9, <1>10, Zenon DEF GroupedBy
<1> QED
  BY <1>11

\* The matches that have a bucket when the first k were looked at: later ones
\* of the same day or week are in it as well.
Covered(rs, grouping, k) ==
  {i \in DOMAIN rs : \E j \in 1..k : Anchor(rs, grouping, j) = Anchor(rs, grouping, i)}

BucketsOf(rs) == {Bucket(rs, S, p) : S \in SUBSET DOMAIN rs, p \in Int}

\* The buckets are separate, hold what is covered, and have their totals; the
\* last knows what they come to together.
Grown(rs, grouping, k, bs) ==
  /\ bs \in Seq(BucketsOf(rs))
  /\ \A b \in 1..Len(bs) : /\ bs[b].members \in SUBSET DOMAIN rs
                           /\ bs[b].totals = TotalsOf(rs, bs[b].members)
  /\ \A b, c \in 1..Len(bs) : b # c => bs[b].members \cap bs[c].members = {}
  /\ UNION {bs[b].members : b \in 1..Len(bs)} = Covered(rs, grouping, k)
  /\ Len(bs) # 0 => bs[Len(bs)].cumulative = TotalsOf(rs, Covered(rs, grouping, k))["profit"]

\* A match whose key is new opens a bucket with all matches of that key.
LEMMA GroupGrows ==
  ASSUME NEW rs \in Seq(MatchView), NEW grouping, NEW i \in 1..Len(rs),
         NEW bs, Grown(rs, grouping, i - 1, bs)
  PROVE  Grown(rs, grouping, i, Group(rs, grouping, bs, i))
<1>1. PICK D : D = DOMAIN rs
  OBVIOUS
<1>2. Len(rs) \in Nat /\ D = 1..Len(rs) /\ \A j \in D : rs[j] \in MatchView
  BY <1>1, LenProperties, ElementOfSeq
<1>3. PICK M : M = Members(rs, grouping, Anchor(rs, grouping, i))
  OBVIOUS
<1>4. M = {j \in D : Anchor(rs, grouping, j) = Anchor(rs, grouping, i)}
  BY <1>1, <1>3 DEF Members
<1>5. PICK C, E : C = Covered(rs, grouping, i - 1) /\ E = Covered(rs, grouping, i)
  OBVIOUS
<1>6. C \in SUBSET D /\ E \in SUBSET D /\ M \in SUBSET D
  BY <1>1, <1>4, <1>5 DEF Covered
<1>7. E = C \cup M
  <2>1. \A j : j \in 1..i <=> j \in 1..(i - 1) \/ j = i
    BY <1>2
  <2>2. \A x \in D : x \in E <=> \E j \in 1..i : Anchor(rs, grouping, j) = Anchor(rs, grouping, x)
    BY <1>1, <1>5 DEF Covered
  <2>3. \A x \in D : x \in C <=> \E j \in 1..(i - 1) : Anchor(rs, grouping, j) = Anchor(rs, grouping, x)
    BY <1>1, <1>5 DEF Covered
  <2>4. \A x \in D : x \in M <=> Anchor(rs, grouping, i) = Anchor(rs, grouping, x)
    BY <1>4
  <2>5. \A x \in D : x \in E <=> x \in C \/ x \in M
    BY <2>1, <2>2, <2>3, <2>4, Zenon
  <2> QED
    BY <1>6, <2>5
<1>8. /\ bs \in Seq(BucketsOf(rs))
      /\ \A b \in 1..Len(bs) : /\ bs[b].members \in SUBSET D
                               /\ bs[b].totals = TotalsOf(rs, bs[b].members)
      /\ \A b, c \in 1..Len(bs) : b # c => bs[b].members \cap bs[c].members = {}
      /\ UNION {bs[b].members : b \in 1..Len(bs)} = C
      /\ Len(bs) # 0 => bs[Len(bs)].cumulative = TotalsOf(rs, C)["profit"]
  BY <1>1, <1>5, Zenon DEF Grown
<1>9. CASE Joins(rs, grouping, i)
  <2>1. Group(rs, grouping, bs, i) = bs
    BY <1>9, Zenon DEF Group
  <2>2. PICK j \in 1..(i - 1) : Anchor(rs, grouping, j) = Anchor(rs, grouping, i)
    BY <1>9 DEF Joins
  <2>3. M \subseteq C
    BY <1>1, <1>4, <1>5, <2>2 DEF Covered
  <2>4. E = C
    BY <1>7, <2>3
  <2> QED
    BY <1>1, <1>5, <1>8, <2>1, <2>4, Zenon DEF Grown
<1>10. CASE ~Joins(rs, grouping, i)
  <2>1. M \cap C = {}
    <3> SUFFICES ASSUME NEW x \in M, x \in C PROVE FALSE
      OBVIOUS
    <3>1. PICK j \in 1..(i - 1) : Anchor(rs, grouping, j) = Anchor(rs, grouping, x)
      BY <1>5 DEF Covered
    <3>2. Anchor(rs, grouping, x) = Anchor(rs, grouping, i)
      BY <1>4
    <3> QED
      BY <1>10, <3>1, <3>2, Zenon DEF Joins
  <2>2. PICK before : before = IF bs = <<>> THEN 0 ELSE bs[Len(bs)].cumulative
    OBVIOUS
  <2>3. PICK B : B = Bucket(rs, M, before)
    OBVIOUS
  <2>4. PICK new : new = Group(rs, grouping, bs, i)
    OBVIOUS
  <2>5. new = Append(bs, B)
    BY <1>3, <1>10, <2>2, <2>3, <2>4, Zenon DEF Group
  <2>6. Len(bs) \in Nat /\ (Len(bs) = 0 <=> bs = <<>>)
    BY <1>8, EmptySeq, LenProperties
  <2>7. PICK mu : mu = [S \in SUBSET D |-> TotalsOf(rs, S)["profit"]]
    OBVIOUS
  <2>8. Additive(mu, D)
    <3>1. PICK field : field = "profit"
      OBVIOUS
    <3>2. field \in Shown
      BY <3>1 DEF Shown
    <3>3. mu = [S \in SUBSET D |-> TotalsOf(rs, S)[field]]
      BY <2>7, <3>1
    <3> QED
      BY <1>1, <3>2, <3>3, TotalsAdditive
  <2>9. /\ \A S \in SUBSET D : mu[S] \in Int
        /\ mu[{}] = 0
        /\ \A S, T \in SUBSET D : S \cap T = {} => mu[S \cup T] = mu[S] + mu[T]
    BY <2>8, Zenon DEF Additive
  <2>10. before = mu[C]
    <3>1. CASE bs = <<>>
      <4>1. Len(bs) = 0
        BY <2>6, <3>1
      <4>2. 1..Len(bs) = {}
        BY <4>1
      <4>3. C = {}
        BY <1>8, <4>2
      <4> QED
        BY <2>2, <2>9, <3>1, <4>3
    <3>2. CASE bs # <<>>
      <4>1. before = TotalsOf(rs, C)["profit"]
        BY <1>8, <2>2, <2>6, <3>2, Zenon
      <4> QED
        BY <1>6, <2>7, <4>1
    <3> QED
      BY <3>1, <3>2
  <2>11. before \in Int
    BY <1>6, <2>9, <2>10
  <2>12. /\ B.members = M /\ B.totals = TotalsOf(rs, M)
         /\ B.cumulative = before + TotalsOf(rs, M).profit
    BY <2>3 DEF Bucket
  <2>13. B.cumulative = TotalsOf(rs, E)["profit"]
    <3>1. mu[C \cup M] = mu[C] + mu[M]
      <4>1. C \cap M = {}
        BY <2>1
      <4> QED
        BY <1>6, <2>9, <4>1
    <3>2. mu[E] = TotalsOf(rs, E)["profit"] /\ mu[M] = TotalsOf(rs, M)["profit"]
      BY <1>6, <2>7
    <3> QED
      BY <1>7, <2>10, <2>12, <3>1, <3>2
  <2>14. B \in BucketsOf(rs)
    BY <1>1, <1>6, <2>3, <2>11 DEF BucketsOf
  <2>15. /\ new \in Seq(BucketsOf(rs)) /\ Len(new) = Len(bs) + 1
         /\ \A b \in 1..Len(bs) : new[b] = bs[b]
         /\ new[Len(bs) + 1] = B
    BY <1>8, <2>5, <2>14, AppendProperties
  <2>16. \A b : b \in 1..Len(new) <=> b \in 1..Len(bs) \/ b = Len(new)
    BY <2>6, <2>15
  <2>17. /\ \A b \in 1..Len(bs) : new[b].members = bs[b].members /\ new[b].totals = bs[b].totals
         /\ new[Len(new)] = B
    BY <2>15
  <2>18. \A b \in 1..Len(new) : /\ new[b].members \in SUBSET D
                                /\ new[b].totals = TotalsOf(rs, new[b].members)
    BY <1>6, <1>8, <2>12, <2>16, <2>17, Zenon
  <2>19. \A b \in 1..Len(bs) : new[b].members \subseteq C
    BY <1>8, <2>17
  <2>20. \A b, c \in 1..Len(new) : b # c => new[b].members \cap new[c].members = {}
    <3> SUFFICES ASSUME NEW b \in 1..Len(new), NEW c \in 1..Len(new), b # c
                 PROVE  new[b].members \cap new[c].members = {}
      OBVIOUS
    <3>1. CASE b \in 1..Len(bs) /\ c \in 1..Len(bs)
      BY <1>8, <2>17, <3>1, Zenon
    <3>2. CASE b \in 1..Len(bs) /\ c = Len(new)
      <4>1. new[b].members \subseteq C /\ new[c].members = M
        BY <2>12, <2>17, <2>19, <3>2
      <4> QED
        BY <2>1, <4>1
    <3>3. CASE b = Len(new) /\ c \in 1..Len(bs)
      <4>1. new[c].members \subseteq C /\ new[b].members = M
        BY <2>12, <2>17, <2>19, <3>3
      <4> QED
        BY <2>1, <4>1
    <3> QED
      BY <2>16, <3>1, <3>2, <3>3, Zenon
  <2>21. UNION {new[b].members : b \in 1..Len(new)} = E
    <3>1. ASSUME NEW x \in E PROVE \E b \in 1..Len(new) : x \in new[b].members
      <4>1. CASE x \in M
        <5>1. x \in new[Len(new)].members /\ Len(new) \in 1..Len(new)
          BY <2>6, <2>12, <2>15, <2>17, <4>1
        <5> QED
          BY <5>1
      <4>2. CASE x \in C
        <5>1. PICK b \in 1..Len(bs) : x \in bs[b].members
          BY <1>8, <4>2
        <5>2. b \in 1..Len(new) /\ x \in new[b].members
          BY <2>16, <2>17, <5>1
        <5> QED
          BY <5>2
      <4> QED
        BY <1>7, <4>1, <4>2
    <3>2. ASSUME NEW b \in 1..Len(new) PROVE new[b].members \subseteq E
      <4>1. CASE b \in 1..Len(bs)
        BY <1>7, <2>19, <4>1
      <4>2. CASE b = Len(new)
        <5>1. new[b].members = M
          BY <2>12, <2>17, <4>2
        <5> QED
          BY <1>7, <5>1
      <4> QED
        BY <2>16, <4>1, <4>2
    <3> QED
      BY <3>1, <3>2
  <2>22. new[Len(new)].cumulative = TotalsOf(rs, E)["profit"]
    BY <2>13, <2>17
  <2>23. Grown(rs, grouping, i, new)
    <3>1. new \in Seq(BucketsOf(rs))
      BY <2>15
    <3>2. \A b \in 1..Len(new) : /\ new[b].members \in SUBSET DOMAIN rs
                                 /\ new[b].totals = TotalsOf(rs, new[b].members)
      BY <1>1, <2>18, Zenon
    <3>3. UNION {new[b].members : b \in 1..Len(new)} = Covered(rs, grouping, i)
      BY <1>5, <2>21
    <3>4. new[Len(new)].cumulative = TotalsOf(rs, Covered(rs, grouping, i))["profit"]
      BY <1>5, <2>22
    <3> QED
      BY <2>20, <3>1, <3>2, <3>3, <3>4, Zenon DEF Grown
  <2> QED
    BY <2>4, <2>23
<1> QED
  BY <1>9, <1>10

LEMMA BucketsGrown ==
  ASSUME NEW rs \in Seq(MatchView), NEW grouping
  PROVE  Grown(rs, grouping, Len(rs), BuildBuckets(rs, grouping))
<1>1. PICK n : n = Len(rs) /\ n \in Nat
  BY LenProperties
<1>2. PICK f : GroupedBy(rs, grouping, n, f)
  BY <1>1, BucketsBuilt
<1>3. /\ BuildBuckets(rs, grouping) = f[n]
      /\ f[0] = <<>>
      /\ \A i \in 1..n : f[i] = Group(rs, grouping, f[i - 1], i)
  BY <1>2, Zenon DEF GroupedBy
<1> DEFINE P == {k \in 0..n : Grown(rs, grouping, k, f[k])}
<1>4. 0 \in P
  <2>1. <<>> \in Seq(BucketsOf(rs)) /\ 0 \in 0..n /\ Len(<<>>) = 0
    BY <1>1, EmptySeq
  <2>2. 1..0 = {}
    OBVIOUS
  <2>3. Covered(rs, grouping, 0) = {}
    BY <2>2 DEF Covered
  <2>4. PICK e : e = f[0]
    OBVIOUS
  <2>5. e \in Seq(BucketsOf(rs)) /\ Len(e) = 0
    BY <1>3, <2>1, <2>4
  <2>6. UNION {e[b].members : b \in 1..Len(e)} = {}
    BY <2>2, <2>5
  <2>7. Grown(rs, grouping, 0, e)
    BY <2>2, <2>3, <2>5, <2>6, Zenon DEF Grown
  <2> QED
    BY <2>1, <2>4, <2>7
<1>5. ASSUME NEW k \in 0..n, k \in P, k < n
      PROVE  k + 1 \in P
  <2>1. PICK i : i = k + 1
    OBVIOUS
  <2>2. i \in 1..n /\ i \in 0..n /\ i - 1 = k /\ i \in 1..Len(rs)
    BY <1>1, <1>5, <2>1
  <2>3. Grown(rs, grouping, i - 1, f[i - 1])
    BY <1>5, <2>2
  <2>4. Grown(rs, grouping, i, Group(rs, grouping, f[i - 1], i))
    BY <2>2, <2>3, GroupGrows
  <2>5. Grown(rs, grouping, i, f[i])
    BY <1>3, <2>2, <2>4, Zenon
  <2> QED
    BY <2>1, <2>2, <2>5
<1>6. n \in 0..n /\ n \in Int /\ 0 \in Int
  BY <1>1
<1>7. \A k \in 0..n : k \in P
  <2> HIDE DEF P
  <2> QED
    BY <1>4, <1>5, <1>6, IntervalInduction
<1>8. Grown(rs, grouping, n, f[n])
  BY <1>6, <1>7
<1> QED
  BY <1>1, <1>3, <1>8, Zenon

\* Whatever is shown, and however it is grouped.
LEMMA BucketsAgree ==
  ASSUME NEW rs \in Seq(MatchView), NEW grouping,
         NEW bs, bs = BuildBuckets(rs, grouping)
  PROVE  /\ \A i \in DOMAIN rs : Cardinality({b \in DOMAIN bs : i \in bs[b].members}) = 1
         /\ \A field \in Shown :
              Total(DOMAIN bs, [b \in DOMAIN bs |-> bs[b].totals[field]])
              = TotalsOf(rs, DOMAIN rs)[field]
         /\ bs # <<>> => Last(bs).cumulative = TotalsOf(rs, DOMAIN rs)["profit"]
         /\ Len(bs) \in Nat /\ DOMAIN bs = 1..Len(bs)
<1>1. PICK D : D = DOMAIN rs
  OBVIOUS
<1>2. Len(rs) \in Nat /\ D = 1..Len(rs)
  BY <1>1, LenProperties
<1>3. Covered(rs, grouping, Len(rs)) = D
  BY <1>1, <1>2 DEF Covered
<1>4. Grown(rs, grouping, Len(rs), bs)
  BY BucketsGrown
<1>5. /\ bs \in Seq(BucketsOf(rs))
      /\ \A b \in 1..Len(bs) : /\ bs[b].members \in SUBSET D
                               /\ bs[b].totals = TotalsOf(rs, bs[b].members)
      /\ \A b, c \in 1..Len(bs) : b # c => bs[b].members \cap bs[c].members = {}
      /\ UNION {bs[b].members : b \in 1..Len(bs)} = D
      /\ Len(bs) # 0 => bs[Len(bs)].cumulative = TotalsOf(rs, D)["profit"]
  BY <1>1, <1>3, <1>4, Zenon DEF Grown
<1>6. PICK n : n = Len(bs) /\ n \in Nat /\ DOMAIN bs = 1..n /\ (n = 0 <=> bs = <<>>)
  BY <1>5, LenProperties, EmptySeq
<1>7. ASSUME NEW i \in D PROVE Cardinality({b \in 1..n : i \in bs[b].members}) = 1
  <2>1. PICK b \in 1..n : i \in bs[b].members
    BY <1>5, <1>6
  <2>2. \A c \in 1..n : i \in bs[c].members <=> c = b
    <3> SUFFICES ASSUME NEW c \in 1..n, i \in bs[c].members, c # b PROVE FALSE
      BY <2>1
    <3>1. bs[b].members \cap bs[c].members = {}
      BY <1>5, <1>6
    <3> QED
      BY <2>1, <3>1
  <2>3. {c \in 1..n : i \in bs[c].members} = {b}
    BY <2>2
  <2> QED
    BY <2>3, FS_Singleton
<1>8. ASSUME NEW field \in Shown
      PROVE  Total(1..n, [b \in 1..n |-> bs[b].totals[field]]) = TotalsOf(rs, D)[field]
  <2>1. PICK mu : mu = [S \in SUBSET D |-> TotalsOf(rs, S)[field]]
    OBVIOUS
  <2>2. Additive(mu, D)
    BY <1>1, <2>1, TotalsAdditive
  <2>3. PICK m, h : m = [b \in 1..n |-> bs[b].members] /\ h = [b \in 1..n |-> bs[b].totals[field]]
    OBVIOUS
  <2>4. \A b \in 1..n : m[b] \in SUBSET D
    BY <1>5, <1>6, <2>3
  <2>5. \A b, c \in 1..n : b # c => m[b] \cap m[c] = {}
    BY <1>5, <1>6, <2>3
  <2>6. \A b \in 1..n : h[b] = mu[m[b]]
    BY <1>5, <1>6, <2>1, <2>3
  <2>7. SumFunctionOnSet(h, 1..n) = mu[Together(m, n)]
    <3>1. n \in Nat
      BY <1>6
    <3> QED
      BY <2>2, <2>4, <2>5, <2>6, <3>1, SeparateSum
  <2>8. Together(m, n) = D
    BY <1>5, <1>6, <2>3 DEF Together
  <2>9. mu[D] = TotalsOf(rs, D)[field]
    BY <2>1
  <2> QED
    BY <2>3, <2>7, <2>8, <2>9, Zenon DEF Total
<1>9. bs # <<>> => Last(bs).cumulative = TotalsOf(rs, D)["profit"]
  BY <1>5, <1>6, Zenon DEF Last
<1> QED
  BY <1>1, <1>6, <1>7, <1>8, <1>9, Zenon

LEMMA HistoryHolds ==
  ASSUME matches \in Seq(MatchView)
  PROVE  HistoryAddsUp
<1> SUFFICES ASSUME NEW f \in Filters, NEW g \in Groupings,
                    NEW h, h = History(matches, f, g, Today)
             PROVE  /\ \A i \in DOMAIN h.rows :
                         Cardinality({b \in DOMAIN h.buckets : i \in h.buckets[b].members}) = 1
                    /\ \A field \in Shown :
                         Total(DOMAIN h.buckets,
                               [b \in DOMAIN h.buckets |-> h.buckets[b].totals[field]])
                         = h.totals[field]
                    /\ h.buckets # <<>> => Last(h.buckets).cumulative = h.totals.profit
  BY Zenon DEF HistoryAddsUp, Shown
<1>1. PICK rs : rs = FilterMatches(matches, f, Today)
  OBVIOUS
<1>2. rs \in Seq(MatchView)
  BY <1>1, FilterTyped
<1>3. PICK bs : bs = BuildBuckets(rs, g)
  OBVIOUS
<1>4. h = [rows |-> rs, buckets |-> bs, markers |-> BuildMarkers(bs),
           totals |-> TotalsOf(rs, DOMAIN rs)]
  BY <1>1, <1>3, Zenon DEF History
<1>5. h.rows = rs /\ h.buckets = bs /\ h.totals = TotalsOf(rs, DOMAIN rs)
  BY <1>4
<1>6. /\ \A i \in DOMAIN rs : Cardinality({b \in DOMAIN bs : i \in bs[b].members}) = 1
      /\ \A field \in Shown :
           Total(DOMAIN bs, [b \in DOMAIN bs |-> bs[b].totals[field]])
           = TotalsOf(rs, DOMAIN rs)[field]
      /\ bs # <<>> => Last(bs).cumulative = TotalsOf(rs, DOMAIN rs)["profit"]
  BY <1>2, <1>3, BucketsAgree
<1>7. PICK t : t = TotalsOf(rs, DOMAIN rs)
  OBVIOUS
<1>8. h.rows = rs /\ h.buckets = bs /\ h.totals = t
  BY <1>5, <1>7
<1>9. /\ \A i \in DOMAIN rs : Cardinality({b \in DOMAIN bs : i \in bs[b].members}) = 1
      /\ \A field \in Shown :
           Total(DOMAIN bs, [b \in DOMAIN bs |-> bs[b].totals[field]]) = t[field]
      /\ bs # <<>> => Last(bs).cumulative = t.profit
  BY <1>6, <1>7
<1> QED
  BY <1>8, <1>9

LEMMA MarkersHold ==
  ASSUME matches \in Seq(MatchView)
  PROVE  MarkersAreChanges
<1> SUFFICES ASSUME NEW g \in Groupings, NEW bs, bs = BuildBuckets(matches, g)
             PROVE  BuildMarkers(bs) = {i \in DOMAIN bs : Changes(bs, i)}
  BY Zenon DEF MarkersAreChanges, Changes
<1>1. Len(bs) \in Nat /\ DOMAIN bs = 1..Len(bs)
  BY BucketsAgree
<1> QED
  BY <1>1, MarksAre, Zenon

-----------------------------------------------------------------------------
(* The XP. *)

LEMMA MaxIs ==
  ASSUME NEW S, S \subseteq Int, NEW x \in S, \A y \in S : y <= x
  PROVE  Max(S) = x
<1>1. PICK m : m = CHOOSE z \in S : \A y \in S : z >= y
  OBVIOUS
<1>2. \A y \in S : x >= y
  OBVIOUS
<1>3. m \in S /\ \A y \in S : m >= y
  BY <1>1, <1>2, Zenon
<1>4. m = x
  BY <1>2, <1>3
<1> QED
  BY <1>1, <1>4, Zenon DEF Max

LEMMA MinIs ==
  ASSUME NEW S, S \subseteq Int, NEW x \in S, \A y \in S : x <= y
  PROVE  Min(S) = x
<1>1. PICK m : m = CHOOSE z \in S : \A y \in S : z =< y
  OBVIOUS
<1>2. m \in S /\ \A y \in S : m =< y
  BY <1>1, Zenon
<1>3. m = x
  BY <1>2
<1> QED
  BY <1>1, <1>3, Zenon DEF Min

\* A set of positions that is not empty has a last and a first.
LEMMA MaxThere ==
  ASSUME NEW n \in Nat, NEW S, S \subseteq 1..n, S # {}
  PROVE  Max(S) \in S /\ \A y \in S : y <= Max(S)
<1> DEFINE T == {n - s : s \in S}
<1>1. T \subseteq Nat /\ T # {}
  OBVIOUS
<1>2. PICK t \in T : \A u \in T : t <= u
  <2> HIDE DEF T
  <2> QED
    BY <1>1, LeastMember
<1>3. PICK s \in S : t = n - s
  OBVIOUS
<1>4. ASSUME NEW y \in S PROVE y <= s
  <2>1. n - y \in T
    OBVIOUS
  <2>2. n - s <= n - y
    BY <1>2, <1>3, <2>1
  <2> QED
    BY <1>3, <2>2
<1>5. S \subseteq Int
  OBVIOUS
<1>6. Max(S) = s
  BY <1>3, <1>4, <1>5, MaxIs
<1> QED
  BY <1>3, <1>4, <1>6

LEMMA MinThere ==
  ASSUME NEW n \in Nat, NEW S, S \subseteq 1..n, S # {}
  PROVE  Min(S) \in S /\ \A y \in S : Min(S) <= y
<1>1. S \subseteq Nat
  OBVIOUS
<1>2. PICK s \in S : \A y \in S : s <= y
  BY <1>1, LeastMember
<1>3. S \subseteq Int
  OBVIOUS
<1>4. Min(S) = s
  BY <1>2, <1>3, MinIs
<1> QED
  BY <1>2, <1>4

\* An XP row, whatever its numbers.
XpRow == [total : Nat \cup {None}, delta : Nat, match : {"m", None}]

Totals(rows) == {i \in DOMAIN rows : rows[i].total # None}
Gains(rows) == [i \in DOMAIN rows |-> Gain(Previous(rows, i), rows[i])]

\* The first k rows that have a total, and what the totals grew by.
TotalsTo(rows, k) == {i \in 1..k : rows[i].total # None}
GrownBy(rows, S) == IF S = {} THEN 0 ELSE rows[Max(S)].total - rows[Min(S)].total

\* A row with a total gains what it exceeds the last total before it by.
LEMMA GainWithTotal ==
  ASSUME NEW rows \in Seq(XpRow), NEW i \in 1..Len(rows), rows[i].total # None,
         NEW S, S = TotalsTo(rows, i - 1)
  PROVE  /\ S = {} => Gains(rows)[i] = 0
         /\ S # {} => Gains(rows)[i] = rows[i].total - rows[Max(S)].total
<1>1. DOMAIN rows = 1..Len(rows) /\ Len(rows) \in Nat
  BY LenProperties
<1>2. Gains(rows)[i] = Gain(Previous(rows, i), rows[i])
  BY <1>1 DEF Gains
<1>3. Previous(rows, i) = IF S = {} THEN None ELSE rows[Max(S)].total
  BY Zenon DEF Previous, TotalsTo
<1>4. S # {} => rows[Max(S)].total # None
  <2>1. i - 1 \in Nat /\ S \subseteq 1..(i - 1)
    BY <1>1 DEF TotalsTo
  <2>2. S # {} => Max(S) \in S
    BY <2>1, MaxThere
  <2> QED
    BY <2>2 DEF TotalsTo
<1> QED
  BY <1>2, <1>3, <1>4 DEF Gain

LEMMA GainWithout ==
  ASSUME NEW rows \in Seq(XpRow), NEW i \in 1..Len(rows), rows[i].total = None
  PROVE  Gains(rows)[i] = rows[i].delta
<1>1. DOMAIN rows = 1..Len(rows) /\ Len(rows) \in Nat
  BY LenProperties
<1> QED
  BY <1>1 DEF Gains, Gain

LEMMA RowTyped ==
  ASSUME NEW rows \in Seq(XpRow), NEW i \in 1..Len(rows)
  PROVE  /\ rows[i].delta \in Nat /\ rows[i].match \in {"m", None}
         /\ rows[i].total # None => rows[i].total \in Nat
<1>1. rows[i] \in XpRow
  BY ElementOfSeq
<1> QED
  BY <1>1 DEF XpRow

LEMMA GainsTyped ==
  ASSUME NEW rows \in Seq(XpRow), NEW i \in 1..Len(rows)
  PROVE  Gains(rows)[i] \in Int
<1>1. Len(rows) \in Nat
  BY LenProperties
<1>2. rows[i].delta \in Nat /\ (rows[i].total # None => rows[i].total \in Nat)
  BY RowTyped
<1>3. CASE rows[i].total = None
  BY <1>2, <1>3, GainWithout
<1>4. CASE rows[i].total # None
  <2>1. PICK S : S = TotalsTo(rows, i - 1)
    OBVIOUS
  <2>2. i - 1 \in Nat /\ S \subseteq 1..(i - 1)
    BY <1>1, <2>1 DEF TotalsTo
  <2>3. CASE S = {}
    BY <1>4, <2>1, <2>3, GainWithTotal
  <2>4. CASE S # {}
    <3>1. PICK j : j = Max(S) /\ j \in S
      BY <2>2, <2>4, MaxThere
    <3>2. j \in 1..Len(rows) /\ rows[j].total # None
      BY <1>1, <2>1, <3>1 DEF TotalsTo
    <3>3. rows[j].total \in Nat
      BY <3>2, RowTyped
    <3>4. Gains(rows)[i] = rows[i].total - rows[j].total
      BY <1>4, <2>1, <2>4, <3>1, GainWithTotal
    <3> QED
      BY <1>2, <1>4, <3>3, <3>4
  <2> QED
    BY <2>3, <2>4
<1> QED
  BY <1>3, <1>4

\* The gains of the rows with totals come to what the totals grew by.
LEMMA GainsTelescope ==
  ASSUME NEW rows \in Seq(XpRow), NEW n, n = Len(rows)
  PROVE  SumFunctionOnSet(Gains(rows), Totals(rows)) = GrownBy(rows, Totals(rows))
<1>1. n \in Nat /\ DOMAIN rows = 1..n
  BY LenProperties
<1> DEFINE g == Gains(rows)
<1> DEFINE P == {k \in 0..n : SumFunctionOnSet(g, TotalsTo(rows, k))
                              = GrownBy(rows, TotalsTo(rows, k))}
<1>2. 0 \in P
  <2>1. TotalsTo(rows, 0) = {} /\ 0 \in 0..n
    BY <1>1 DEF TotalsTo
  <2>2. SumFunctionOnSet(g, {}) = 0 /\ GrownBy(rows, {}) = 0
    BY SumEmpty DEF GrownBy
  <2> QED
    BY <2>1, <2>2
<1>3. ASSUME NEW k \in 0..n, k \in P, k < n
      PROVE  k + 1 \in P
  <2>1. PICK i : i = k + 1
    OBVIOUS
  <2>2. i \in 1..n /\ i \in 0..n /\ i - 1 = k /\ i \in 1..Len(rows) /\ k \in Nat
    BY <1>1, <1>3, <2>1
  <2>3. PICK S, T : S = TotalsTo(rows, k) /\ T = TotalsTo(rows, i)
    OBVIOUS
  <2>4. SumFunctionOnSet(g, S) = GrownBy(rows, S)
    BY <1>3, <2>3
  <2>5. S \subseteq 1..k /\ S \subseteq 1..n /\ i \notin S
    BY <2>1, <2>2, <2>3 DEF TotalsTo
  <2>6. CASE rows[i].total = None
    <3>1. T = S
      BY <2>1, <2>2, <2>3, <2>6 DEF TotalsTo
    <3> QED
      BY <2>1, <2>2, <2>3, <2>4, <3>1
  <2>7. CASE rows[i].total # None
    <3>1. T = S \cup {i}
      BY <2>1, <2>2, <2>3, <2>7 DEF TotalsTo
    <3>2. IsFiniteSet(S)
      <4>1. IsFiniteSet(1..k)
        BY <2>2, FS_Interval
      <4> QED
        BY <2>5, <4>1, FS_Subset
    <3>3. \A x \in S \cup {i} : g[x] \in Int
      <4>1. \A x \in S \cup {i} : x \in 1..Len(rows)
        BY <1>1, <2>2, <2>5
      <4> HIDE DEF g
      <4>2. \A x \in 1..Len(rows) : g[x] \in Int
        BY GainsTyped DEF g
      <4> QED
        BY <4>1, <4>2
    <3>4. SumFunctionOnSet(g, T) = SumFunctionOnSet(g, S) + g[i]
      <4> HIDE DEF g
      <4> QED
        BY <2>5, <3>1, <3>2, <3>3, SumAdd
    <3>5. Max(T) = i
      <4>1. T \subseteq Int /\ i \in T /\ \A y \in T : y <= i
        BY <2>1, <2>2, <2>5, <3>1
      <4> QED
        BY <4>1, MaxIs
    <3>6. rows[i].total \in Nat
      BY <2>2, <2>7, RowTyped
    <3>7. T # {}
      BY <3>1
    <3>8. CASE S = {}
      <4>1. T = {i} /\ i \in Int
        BY <2>2, <3>1, <3>8
      <4>2. Min(T) = i
        BY <4>1, MinIs
      <4>3. GrownBy(rows, T) = 0
        BY <3>5, <3>6, <3>7, <4>2 DEF GrownBy
      <4>4. g[i] = 0
        BY <2>2, <2>3, <2>7, <3>8, GainWithTotal
      <4>5. GrownBy(rows, S) = 0
        BY <3>8 DEF GrownBy
      <4>6. SumFunctionOnSet(g, T) = GrownBy(rows, T)
        <5> HIDE DEF g
        <5> QED
          BY <2>4, <3>4, <4>3, <4>4, <4>5
      <4> QED
        BY <2>1, <2>2, <2>3, <4>6
    <3>9. CASE S # {}
      <4>1. PICK lo, hi : lo = Min(S) /\ hi = Max(S)
        OBVIOUS
      <4>2. lo \in S /\ \A y \in S : lo <= y
        BY <2>2, <2>5, <3>9, <4>1, MinThere
      <4>3. hi \in S
        BY <2>2, <2>5, <3>9, <4>1, MaxThere
      <4>4. Min(T) = lo
        <5>1. T \subseteq Int /\ lo \in T /\ \A y \in T : lo <= y
          BY <2>1, <2>2, <2>5, <3>1, <4>2
        <5> QED
          BY <5>1, MinIs
      <4>5. \A j \in S : rows[j].total \in Nat
        <5>1. \A j \in S : j \in 1..Len(rows) /\ rows[j].total # None
          BY <1>1, <2>3, <2>5 DEF TotalsTo
        <5> QED
          BY <5>1, RowTyped
      <4>6. PICK a, b, c : a = rows[lo].total /\ b = rows[hi].total /\ c = rows[i].total
        OBVIOUS
      <4>7. a \in Int /\ b \in Int /\ c \in Int
        BY <3>6, <4>2, <4>3, <4>5, <4>6
      <4>8. GrownBy(rows, T) = c - a /\ GrownBy(rows, S) = b - a
        BY <3>5, <3>7, <3>9, <4>1, <4>4, <4>6 DEF GrownBy
      <4>9. g[i] = c - b
        BY <2>2, <2>3, <2>7, <3>9, <4>1, <4>6, GainWithTotal
      <4>10. SumFunctionOnSet(g, T) = GrownBy(rows, T)
        <5> HIDE DEF g
        <5> QED
          BY <2>4, <3>4, <4>7, <4>8, <4>9
      <4> QED
        BY <2>1, <2>2, <2>3, <4>10
    <3> QED
      BY <3>8, <3>9
  <2> QED
    BY <2>6, <2>7
<1>4. n \in 0..n /\ n \in Int /\ 0 \in Int
  BY <1>1
<1>5. \A k \in 0..n : k \in P
  <2> HIDE DEF P
  <2> QED
    BY <1>2, <1>3, <1>4, IntervalInduction
<1>6. TotalsTo(rows, n) = Totals(rows)
  BY <1>1 DEF TotalsTo, Totals
<1> QED
  BY <1>4, <1>5, <1>6

\* A save file that was not set back loses nothing.
LEMMA GainsNonneg ==
  ASSUME NEW rows \in Seq(XpRow), NEW i \in 1..Len(rows),
         \A j, k \in Totals(rows) : j < k => rows[j].total <= rows[k].total
  PROVE  Gains(rows)[i] \in Nat
<1>1. Len(rows) \in Nat /\ DOMAIN rows = 1..Len(rows)
  BY LenProperties
<1>2. rows[i].delta \in Nat /\ (rows[i].total # None => rows[i].total \in Nat)
  BY RowTyped
<1>3. CASE rows[i].total = None
  BY <1>2, <1>3, GainWithout
<1>4. CASE rows[i].total # None
  <2>1. PICK S : S = TotalsTo(rows, i - 1)
    OBVIOUS
  <2>2. i - 1 \in Nat /\ S \subseteq 1..(i - 1)
    BY <1>1, <2>1 DEF TotalsTo
  <2>3. CASE S = {}
    BY <1>4, <2>1, <2>3, GainWithTotal
  <2>4. CASE S # {}
    <3>1. PICK j : j = Max(S) /\ j \in S
      BY <2>2, <2>4, MaxThere
    <3>2. j \in 1..Len(rows) /\ rows[j].total # None /\ j < i
      BY <1>1, <2>1, <2>2, <3>1 DEF TotalsTo
    <3>3. rows[j].total \in Nat
      BY <3>2, RowTyped
    <3>4. Gains(rows)[i] = rows[i].total - rows[j].total
      BY <1>4, <2>1, <2>4, <3>1, GainWithTotal
    <3>5. j \in Totals(rows) /\ i \in Totals(rows)
      BY <1>1, <1>4, <3>2 DEF Totals
    <3>6. rows[j].total <= rows[i].total
      BY <3>2, <3>5
    <3>7. PICK a, b : a = rows[j].total /\ b = rows[i].total
      OBVIOUS
    <3>8. a \in Nat /\ b \in Nat /\ a <= b /\ Gains(rows)[i] = b - a
      BY <1>2, <1>4, <3>3, <3>4, <3>6, <3>7
    <3> QED
      BY <3>8
  <2> QED
    BY <2>3, <2>4
<1> QED
  BY <1>3, <1>4

\* What a match is given are all gains of its rows: the others are 0.
LEMMA XpGainsAre ==
  ASSUME NEW rows \in Seq(XpRow), NEW match,
         \A i \in 1..Len(rows) : Gains(rows)[i] \in Nat
  PROVE  XpGains(rows, match)
         = SumFunctionOnSet(Gains(rows), {i \in DOMAIN rows : rows[i].match = match})
<1>1. Len(rows) \in Nat /\ DOMAIN rows = 1..Len(rows)
  BY LenProperties
<1>2. PICK g, S, T : /\ g = Gains(rows)
                     /\ S = {i \in DOMAIN rows : rows[i].match = match}
                     /\ T = {i \in DOMAIN rows : rows[i].match = match /\ g[i] > 0}
  OBVIOUS
<1>3. XpGains(rows, match) = SumFunctionOnSet(g, T)
  BY <1>2, Zenon DEF XpGains, Gains, Total
<1>4. IsFiniteSet(S)
  <2>1. IsFiniteSet(1..Len(rows)) /\ S \subseteq 1..Len(rows)
    BY <1>1, <1>2, FS_Interval
  <2> QED
    BY <2>1, FS_Subset
<1>5. T \subseteq S /\ (\A x \in S : g[x] \in Int) /\ \A x \in S \ T : g[x] = 0
  <2>1. \A x \in DOMAIN rows : g[x] \in Nat
    BY <1>1, <1>2
  <2> QED
    BY <1>2, <2>1
<1>6. SumFunctionOnSet(g, S) = SumFunctionOnSet(g, T)
  BY <1>4, <1>5, SumSupport
<1> QED
  BY <1>2, <1>3, <1>6, Zenon

LEMMA XpHolds ==
  ASSUME xp \in Seq(XpRow)
  PROVE  XpAddsUp
<1> SUFFICES ASSUME \A i, j \in Totals(xp) : i < j => xp[i].total <= xp[j].total
             PROVE  XpGains(xp, "m") + XpGains(xp, None)
                    = GrownBy(xp, Totals(xp))
                      + Total(DOMAIN xp \ Totals(xp), [i \in DOMAIN xp |-> xp[i].delta])
  BY Zenon DEF XpAddsUp, Totals, GrownBy
<1>1. PICK D, T, g : D = DOMAIN xp /\ T = Totals(xp) /\ g = Gains(xp)
  OBVIOUS
<1>2. Len(xp) \in Nat /\ D = 1..Len(xp)
  BY <1>1, LenProperties
<1>3. IsFiniteSet(D)
  BY <1>2, FS_Interval
<1>4. \A i \in D : g[i] \in Nat
  BY <1>1, <1>2, GainsNonneg
<1>5. \A i \in D : g[i] \in Int
  BY <1>4
<1>6. PICK M, N : M = {i \in D : xp[i].match = "m"} /\ N = {i \in D : xp[i].match = None}
  OBVIOUS
<1>7. M \cap N = {} /\ M \cup N = D
  <2>1. \A i \in D : xp[i].match \in {"m", None}
    BY <1>2, RowTyped
  <2>2. None # "m"
    BY NoneAssumption
  <2> QED
    BY <1>6, <2>1, <2>2
<1>8. IsFiniteSet(M) /\ IsFiniteSet(N)
  BY <1>3, <1>6, FS_Subset
<1>9. XpGains(xp, "m") = SumFunctionOnSet(g, M) /\ XpGains(xp, None) = SumFunctionOnSet(g, N)
  BY <1>1, <1>2, <1>4, <1>6, XpGainsAre
<1>10. SumFunctionOnSet(g, D) = SumFunctionOnSet(g, M) + SumFunctionOnSet(g, N)
  <2>1. \A i \in M \cup N : g[i] \in Int
    BY <1>5, <1>7
  <2>2. SumFunctionOnSet(g, M \cup N) = SumFunctionOnSet(g, M) + SumFunctionOnSet(g, N)
    BY <1>7, <1>8, <2>1, SumSplit
  <2> QED
    BY <1>7, <2>2
<1>11. PICK U : U = D \ T
  OBVIOUS
<1>12. T \subseteq D /\ T \cap U = {} /\ T \cup U = D /\ IsFiniteSet(T) /\ IsFiniteSet(U)
  <2>1. T \subseteq D /\ U \subseteq D
    BY <1>1, <1>11 DEF Totals
  <2> QED
    BY <1>3, <1>11, <2>1, FS_Subset
<1>13. SumFunctionOnSet(g, D) = SumFunctionOnSet(g, T) + SumFunctionOnSet(g, U)
  <2>1. \A i \in T \cup U : g[i] \in Int
    BY <1>5, <1>12
  <2>2. SumFunctionOnSet(g, T \cup U) = SumFunctionOnSet(g, T) + SumFunctionOnSet(g, U)
    BY <1>12, <2>1, SumSplit
  <2> QED
    BY <1>12, <2>2
<1>14. SumFunctionOnSet(g, T) = GrownBy(xp, T)
  BY <1>1, GainsTelescope
<1>15. PICK d : d = [i \in D |-> xp[i].delta]
  OBVIOUS
<1>16. SumFunctionOnSet(g, U) = SumFunctionOnSet(d, U)
  <2>1. \A i \in U : i \in 1..Len(xp) /\ xp[i].total = None /\ d[i] = xp[i].delta
    BY <1>1, <1>2, <1>11, <1>15 DEF Totals
  <2>2. \A i \in U : g[i] = d[i]
    BY <1>1, <2>1, GainWithout
  <2> QED
    BY <1>12, <2>2, SumSame
<1>17. Total(DOMAIN xp \ Totals(xp), [i \in DOMAIN xp |-> xp[i].delta]) = SumFunctionOnSet(d, U)
  BY <1>1, <1>11, <1>15, Zenon DEF Total
<1> QED
  BY <1>1, <1>9, <1>10, <1>13, <1>14, <1>16, <1>17

-----------------------------------------------------------------------------
(* The curve that is drawn. *)

LEMMA UnionAtMost ==
  ASSUME NEW S, IsFiniteSet(S), NEW T, IsFiniteSet(T)
  PROVE  /\ IsFiniteSet(S \cup T) /\ Cardinality(S \cup T) \in Nat
         /\ Cardinality(S \cup T) <= Cardinality(S) + Cardinality(T)
<1>1. /\ IsFiniteSet(S \cup T)
      /\ Cardinality(S \cup T) = Cardinality(S) + Cardinality(T) - Cardinality(S \cap T)
  BY FS_Union
<1>2. IsFiniteSet(S \cap T)
  BY FS_Intersection
<1>3. /\ Cardinality(S) \in Nat /\ Cardinality(T) \in Nat
      /\ Cardinality(S \cap T) \in Nat /\ Cardinality(S \cup T) \in Nat
  BY <1>1, <1>2, FS_CardinalityType
<1> QED
  BY <1>1, <1>3

LEMMA PairAtMost ==
  ASSUME NEW a, NEW b
  PROVE  IsFiniteSet({a, b}) /\ Cardinality({a, b}) \in Nat /\ Cardinality({a, b}) <= 2
<1>1. /\ IsFiniteSet({a}) /\ Cardinality({a}) = 1
      /\ IsFiniteSet({b}) /\ Cardinality({b}) = 1
  BY FS_Singleton
<1>2. {a, b} = {a} \cup {b}
  OBVIOUS
<1>3. PICK c : c = Cardinality({a} \cup {b})
  OBVIOUS
<1>4. IsFiniteSet({a} \cup {b}) /\ c \in Nat /\ c <= Cardinality({a}) + Cardinality({b})
  BY <1>1, <1>3, UnionAtMost
<1> QED
  BY <1>1, <1>2, <1>3, <1>4

\* Some pairs, one after the other.
LEMMA PairsAtMost ==
  ASSUME NEW n \in Nat, NEW m,
         \A b \in 1..n : /\ IsFiniteSet(m[b]) /\ Cardinality(m[b]) \in Nat
                         /\ Cardinality(m[b]) <= 2
  PROVE  /\ IsFiniteSet(Together(m, n)) /\ Cardinality(Together(m, n)) \in Nat
         /\ Cardinality(Together(m, n)) <= 2 * n
<1> DEFINE P == {k \in 0..n : /\ IsFiniteSet(Together(m, k))
                              /\ Cardinality(Together(m, k)) \in Nat
                              /\ Cardinality(Together(m, k)) <= 2 * k}
<1>1. 0 \in P
  <2>1. Together(m, 0) = {} /\ 0 \in 0..n
    BY DEF Together
  <2>2. IsFiniteSet({}) /\ Cardinality({}) = 0
    BY FS_EmptySet
  <2> QED
    BY <2>1, <2>2
<1>2. ASSUME NEW k \in 0..n, k \in P, k < n
      PROVE  k + 1 \in P
  <2>1. PICK i : i = k + 1
    OBVIOUS
  <2>2. i \in 1..n /\ i \in 0..n /\ k \in Nat /\ \A b : b \in 1..i <=> b \in 1..k \/ b = i
    BY <1>2, <2>1
  <2>3. Together(m, i) = Together(m, k) \cup m[i]
    BY <2>2 DEF Together
  <2>4. PICK A : A = Together(m, k)
    OBVIOUS
  <2>5. IsFiniteSet(A) /\ Cardinality(A) \in Nat /\ Cardinality(A) <= 2 * k
    BY <1>2, <2>4
  <2>6. IsFiniteSet(m[i]) /\ Cardinality(m[i]) \in Nat /\ Cardinality(m[i]) <= 2
    BY <2>2
  <2>7. /\ IsFiniteSet(A \cup m[i]) /\ Cardinality(A \cup m[i]) \in Nat
        /\ Cardinality(A \cup m[i]) <= Cardinality(A) + Cardinality(m[i])
    BY <2>5, <2>6, UnionAtMost
  <2>8. Cardinality(A \cup m[i]) <= 2 * i
    BY <2>1, <2>2, <2>5, <2>6, <2>7
  <2> QED
    BY <2>1, <2>2, <2>3, <2>4, <2>7, <2>8
<1>3. n \in 0..n /\ n \in Int /\ 0 \in Int
  OBVIOUS
<1>4. \A k \in 0..n : k \in P
  <2> HIDE DEF P
  <2> QED
    BY <1>1, <1>2, <1>3, IntervalInduction
<1> QED
  BY <1>3, <1>4

\* Somewhere it is lowest.
LEMMA LowestThere ==
  ASSUME NEW S, IsFiniteSet(S), S # {}, NEW v, \A j \in S : v[j] \in Int
  PROVE  \E i \in S : \A j \in S : v[i] <= v[j]
<1> DEFINE P == {T \in SUBSET S : T = {} \/ \E i \in T : \A j \in T : v[i] <= v[j]}
<1>1. {} \in P
  OBVIOUS
<1>2. ASSUME NEW T \in SUBSET S, NEW x \in S \ T, T \in P
      PROVE  T \cup {x} \in P
  <2>1. CASE T = {}
    BY <2>1
  <2>2. CASE T # {}
    <3>1. PICK i \in T : \A j \in T : v[i] <= v[j]
      BY <1>2, <2>2
    <3>2. v[i] \in Int /\ v[x] \in Int /\ \A j \in T : v[j] \in Int
      OBVIOUS
    <3>3. CASE v[i] <= v[x]
      BY <3>1, <3>3
    <3>4. CASE ~(v[i] <= v[x])
      <4>1. \A j \in T : v[x] <= v[j]
        BY <3>1, <3>2, <3>4
      <4>2. \A j \in T \cup {x} : v[x] <= v[j]
        BY <3>2, <4>1
      <4> QED
        BY <4>2
    <3> QED
      BY <3>3, <3>4
  <2> QED
    BY <2>1, <2>2
<1>3. S \in P
  <2> HIDE DEF P
  <2> QED
    BY <1>1, <1>2, SubsetInduction
<1> QED
  BY <1>3

\* Readings in time, from the start of the curve.
Reading == [t : Nat, c : Int]
InTime(rows) ==
  /\ rows \in Seq(Reading)
  /\ rows # <<>> => rows[1].t = 0
  /\ \A i, j \in 1..Len(rows) : i < j => rows[i].t < rows[j].t

LEMMA ReadingTyped ==
  ASSUME NEW rows \in Seq(Reading), NEW i \in 1..Len(rows)
  PROVE  rows[i].t \in Nat /\ rows[i].c \in Int
<1>1. rows[i] \in Reading
  BY ElementOfSeq
<1> QED
  BY <1>1 DEF Reading

\* A bucket gives at most two of its readings, and none is lower or higher.
LEMMA ExtremesAre ==
  ASSUME NEW rows \in Seq(Reading), NEW S, S \subseteq 1..Len(rows)
  PROVE  /\ Extremes(rows, S) \subseteq S
         /\ IsFiniteSet(Extremes(rows, S)) /\ Cardinality(Extremes(rows, S)) \in Nat
         /\ Cardinality(Extremes(rows, S)) <= 2
         /\ \A i \in S : /\ \E d \in Extremes(rows, S) : rows[d].c <= rows[i].c
                         /\ \E d \in Extremes(rows, S) : rows[d].c >= rows[i].c
<1>1. Len(rows) \in Nat
  BY LenProperties
<1>2. CASE S = {}
  <2>1. Extremes(rows, S) = {}
    BY <1>2 DEF Extremes
  <2>2. IsFiniteSet({}) /\ Cardinality({}) = 0
    BY FS_EmptySet
  <2>3. /\ IsFiniteSet(Extremes(rows, S)) /\ Cardinality(Extremes(rows, S)) \in Nat
        /\ Cardinality(Extremes(rows, S)) <= 2
    <3>1. PICK c : c = Cardinality({})
      OBVIOUS
    <3>2. c \in Nat /\ c <= 2
      BY <2>2, <3>1
    <3> QED
      BY <2>1, <2>2, <3>1, <3>2, Zenon
  <2>4. Extremes(rows, S) \subseteq S
    BY <2>1
  <2> QED
    BY <1>2, <2>3, <2>4, Zenon
<1>3. CASE S # {}
  <2>1. IsFiniteSet(S)
    <3>1. IsFiniteSet(1..Len(rows))
      BY <1>1, FS_Interval
    <3> QED
      BY <3>1, FS_Subset
  <2>2. \A j \in S : rows[j].c \in Int
    BY ReadingTyped
  <2>3. PICK L, H : /\ L = {i \in S : \A j \in S : rows[i].c <= rows[j].c}
                    /\ H = {i \in S : \A j \in S : rows[i].c >= rows[j].c}
    OBVIOUS
  <2>4. L # {}
    <3>1. PICK v : v = [j \in S |-> rows[j].c]
      OBVIOUS
    <3>2. \A j \in S : v[j] \in Int
      BY <2>2, <3>1
    <3>3. PICK i \in S : \A j \in S : v[i] <= v[j]
      BY <1>3, <2>1, <3>2, LowestThere
    <3>4. \A j \in S : rows[i].c <= rows[j].c
      BY <3>1, <3>3
    <3> QED
      BY <2>3, <3>4
  <2>5. H # {}
    <3>1. PICK v : v = [j \in S |-> -rows[j].c]
      OBVIOUS
    <3>2. \A j \in S : v[j] \in Int
      BY <2>2, <3>1
    <3>3. PICK i \in S : \A j \in S : v[i] <= v[j]
      BY <1>3, <2>1, <3>2, LowestThere
    <3>4. ASSUME NEW j \in S PROVE rows[i].c >= rows[j].c
      <4>1. PICK a, b : a = rows[i].c /\ b = rows[j].c
        OBVIOUS
      <4>2. a \in Int /\ b \in Int /\ -a <= -b
        BY <2>2, <3>1, <3>3, <4>1
      <4> QED
        BY <4>1, <4>2
    <3> QED
      BY <2>3, <3>4
  <2>6. PICK lo, hi : lo = Lowest(rows, S) /\ hi = Highest(rows, S)
    OBVIOUS
  <2>7. lo = Min(L) /\ hi = Min(H)
    BY <2>3, <2>6, Zenon DEF Lowest, Highest
  <2>8. lo \in L
    <3>1. L \subseteq 1..Len(rows)
      BY <2>3
    <3> QED
      BY <1>1, <2>4, <2>7, <3>1, MinThere
  <2>9. hi \in H
    <3>1. H \subseteq 1..Len(rows)
      BY <2>3
    <3> QED
      BY <1>1, <2>5, <2>7, <3>1, MinThere
  <2>10. Extremes(rows, S) = {lo, hi}
    BY <1>3, <2>6, Zenon DEF Extremes
  <2>11. IsFiniteSet({lo, hi}) /\ Cardinality({lo, hi}) \in Nat /\ Cardinality({lo, hi}) <= 2
    BY PairAtMost
  <2>12. lo \in S /\ hi \in S /\ \A i \in S : rows[lo].c <= rows[i].c /\ rows[hi].c >= rows[i].c
    BY <2>3, <2>8, <2>9
  <2>13. \A i \in S : /\ \E d \in {lo, hi} : rows[d].c <= rows[i].c
                      /\ \E d \in {lo, hi} : rows[d].c >= rows[i].c
    BY <2>12, Zenon
  <2>14. {lo, hi} \subseteq S
    BY <2>12
  <2> QED
    BY <2>10, <2>11, <2>13, <2>14
<1> QED
  BY <1>2, <1>3

LEMMA GreaterIs ==
  ASSUME NEW a \in Int, NEW b \in Int
  PROVE  Max({a, b}) = IF b <= a THEN a ELSE b
<1>1. PICK S : S = {a, b}
  OBVIOUS
<1>2. CASE b <= a
  <2>1. S \subseteq Int /\ a \in S /\ \A y \in S : y <= a
    BY <1>1, <1>2
  <2>2. Max(S) = a
    BY <2>1, MaxIs
  <2> QED
    BY <1>1, <1>2, <2>2
<1>3. CASE ~(b <= a)
  <2>1. S \subseteq Int /\ b \in S /\ \A y \in S : y <= b
    BY <1>1, <1>3
  <2>2. Max(S) = b
    BY <2>1, MaxIs
  <2> QED
    BY <1>1, <1>3, <2>2
<1> QED
  BY <1>2, <1>3

\* Two readings of every bucket and the two ends are within the limit.
LEMMA BucketsFit ==
  ASSUME NEW limit \in Nat, limit >= 2
  PROVE  Buckets(limit) \in Nat \ {0} /\ (Buckets(limit) = 1 \/ 2 * Buckets(limit) <= limit - 2)
<1>1. PICK q : q = (limit - 2) \div 2
  OBVIOUS
<1>2. q \in Nat /\ 2 * q <= limit - 2
  BY <1>1
<1>3. Max({q, 1}) = IF 1 <= q THEN q ELSE 1
  <2>1. q \in Int /\ 1 \in Int
    BY <1>2
  <2> QED
    BY <2>1, GreaterIs
<1>4. Buckets(limit) = IF 1 <= q THEN q ELSE 1
  BY <1>1, <1>3, Zenon DEF Buckets
<1> QED
  BY <1>2, <1>4

\* How far reading i is into the curve, in steps of its span.
Into(rows, n, i) == (rows[i].t - rows[1].t) * n

LEMMA BucketIs ==
  ASSUME NEW rows, NEW limit, NEW b, NEW n, n = Buckets(limit), NEW i,
         NEW span, span = rows[Len(rows)].t - rows[1].t
  PROVE  i \in InBucket(rows, limit, b) <=>
           /\ i \in 2..(Len(rows) - 1)
           /\ Into(rows, n, i) < b * span /\ Into(rows, n, i) >= (b - 1) * span
BY DEF InBucket, Into

\* What lies before the end of n steps lies in one of them.
LEMMA StepThere ==
  ASSUME NEW n \in Nat, NEW span \in Nat \ {0}, NEW x \in Nat, x < n * span
  PROVE  \E b \in 1..n : x < b * span /\ x >= (b - 1) * span
<1> DEFINE S == {b \in Nat : x < b * span}
<1>1. n \in S /\ S \subseteq Nat /\ S # {}
  OBVIOUS
<1>2. PICK b \in S : \A s \in S : b <= s
  <2> HIDE DEF S
  <2> QED
    BY <1>1, LeastMember
<1>3. b \in Nat /\ x < b * span /\ b <= n
  BY <1>1, <1>2
<1>4. b # 0
  <2>1. 0 * span = 0
    OBVIOUS
  <2> QED
    BY <1>3, <2>1
<1>5. PICK a : a = b - 1
  OBVIOUS
<1>6. a \in Nat /\ a < b /\ a \notin S
  <2>1. a \in Nat /\ a < b
    BY <1>3, <1>4, <1>5
  <2>2. ~(b <= a)
    BY <1>3, <2>1
  <2> QED
    BY <1>2, <2>1, <2>2
<1>7. ~(x < a * span) /\ a * span \in Int
  BY <1>6
<1>8. x >= a * span
  BY <1>7
<1> QED
  BY <1>3, <1>4, <1>5, <1>8

\* Two in the same step are no further apart than it is wide.
LEMMA Apart ==
  ASSUME NEW n \in Nat, NEW span \in Nat, NEW b \in Nat,
         NEW r \in Int, NEW s \in Int,
         r * n < b * span, r * n >= (b - 1) * span,
         s * n < b * span, s * n >= (b - 1) * span
  PROVE  Max({s - r, -(s - r)}) * n <= span
<1>1. PICK x, y, u, w : x = r * n /\ y = s * n /\ u = b * span /\ w = (b - 1) * span
  OBVIOUS
<1>2. x \in Int /\ y \in Int /\ u \in Int /\ w \in Int
  BY <1>1
<1>3. u - w = span
  <2>1. (b - 1) * span = b * span - span
    OBVIOUS
  <2> QED
    BY <1>1, <2>1
<1>4. x < u /\ x >= w /\ y < u /\ y >= w
  BY <1>1
<1>5. y - x <= span /\ x - y <= span
  BY <1>2, <1>3, <1>4
<1>6. (s - r) * n = y - x /\ (-(s - r)) * n = x - y
  <2>1. (s - r) * n = s * n - r * n
    OBVIOUS
  <2>2. (-(s - r)) * n = r * n - s * n
    OBVIOUS
  <2> QED
    BY <1>1, <2>1, <2>2
<1>7. PICK d, e, m : d = s - r /\ e = -(s - r) /\ m = Max({s - r, -(s - r)})
  OBVIOUS
<1>8. m = d \/ m = e
  <2>1. d \in Int /\ e \in Int
    BY <1>7
  <2>2. m = IF e <= d THEN d ELSE e
    BY <1>7, <2>1, GreaterIs
  <2> QED
    BY <2>2
<1>9. m * n <= span
  BY <1>5, <1>6, <1>7, <1>8
<1> QED
  BY <1>7, <1>9

\* Reading d is within a bucket's width of reading i.
NearBy(rows, n, i, d) ==
  Max({rows[d].t - rows[i].t, -(rows[d].t - rows[i].t)}) * n <= Last(rows).t

\* What is drawn has the ends and the shape, and is within a limit of four or more.
ShapeOf(rows, limit, n, D) ==
  /\ {1, Len(rows)} \subseteq D
  /\ limit >= 4 => Cardinality(D) <= limit
  /\ \A i \in DOMAIN rows :
       /\ \E d \in D : NearBy(rows, n, i, d) /\ rows[d].c <= rows[i].c
       /\ \E d \in D : NearBy(rows, n, i, d) /\ rows[d].c >= rows[i].c

LEMMA ShapeStays ==
  ASSUME NEW rows, InTime(rows), rows # <<>>, NEW limit \in Nat, limit >= 2
  PROVE  ShapeOf(rows, limit, Buckets(limit), Downsample(rows, limit))
<1>1. rows \in Seq(Reading) /\ rows[1].t = 0
  BY Zenon DEF InTime
<1>2. PICK len : len = Len(rows)
  OBVIOUS
<1>3. len \in Nat /\ len >= 1 /\ DOMAIN rows = 1..len
  <2>1. len \in Nat /\ DOMAIN rows = 1..len /\ (len = 0 => rows = <<>>)
    BY <1>1, <1>2, LenProperties, EmptySeq
  <2> QED
    BY <2>1
<1>4. \A i \in 1..len : rows[i].t \in Nat /\ rows[i].c \in Int
  BY <1>1, <1>2, ReadingTyped
<1>5. PICK last : last = rows[len].t /\ last \in Nat
  <2>1. len \in 1..len
    BY <1>3
  <2> QED
    BY <1>4, <2>1
<1>6. Last(rows).t = last
  BY <1>2, <1>5, Zenon DEF Last
<1>7. PICK n : n = Buckets(limit) /\ n \in Nat \ {0} /\ (n = 1 \/ 2 * n <= limit - 2)
  BY BucketsFit
<1>8. PICK top : /\ top = Max({limit, 4}) /\ top \in Int /\ limit <= top /\ 4 <= top
                 /\ limit >= 4 => top = limit
  <2>1. Max({limit, 4}) = IF 4 <= limit THEN limit ELSE 4
    <3>1. limit \in Int /\ 4 \in Int
      OBVIOUS
    <3> QED
      BY <3>1, GreaterIs
  <2> QED
    BY <2>1
<1>9. PICK D : D = Downsample(rows, limit)
  OBVIOUS
<1>10. ASSUME NEW i \in 1..len PROVE NearBy(rows, n, i, i)
  <2>1. rows[i].t - rows[i].t = 0 /\ -(rows[i].t - rows[i].t) = 0
    BY <1>4
  <2>2. Max({0, 0}) = 0
    BY GreaterIs
  <2>3. 0 * n <= last
    BY <1>5, <1>7
  <2> QED
    BY <1>6, <2>1, <2>2, <2>3 DEF NearBy
<1>11. CASE len <= limit
  <2>1. D = 1..len
    BY <1>2, <1>3, <1>9, <1>11 DEF Downsample
  <2>2. Cardinality(D) = len
    BY <1>3, <2>1, FS_Interval
  <2>3. Cardinality(D) <= top
    BY <1>3, <1>8, <1>11, <2>2
  <2>4. 1 \in D /\ len \in D
    BY <1>3, <2>1
  <2>5. \A i \in 1..len : i \in D /\ NearBy(rows, n, i, i) /\ rows[i].c <= rows[i].c
                          /\ rows[i].c >= rows[i].c
    BY <1>4, <1>10, <2>1
  <2>6. {1, Len(rows)} \subseteq D
    BY <1>2, <2>4
  <2>7. \A i \in DOMAIN rows :
          /\ \E d \in D : NearBy(rows, n, i, d) /\ rows[d].c <= rows[i].c
          /\ \E d \in D : NearBy(rows, n, i, d) /\ rows[d].c >= rows[i].c
    BY <1>3, <2>5, Zenon
  <2>8. limit >= 4 => Cardinality(D) <= limit
    BY <1>8, <2>3
  <2> QED
    BY <1>7, <1>9, <2>6, <2>7, <2>8, Zenon DEF ShapeOf
<1>12. CASE ~(len <= limit)
  <2>1. len >= 3
    BY <1>3, <1>12
  <2>2. 1 \in 1..len /\ len \in 1..len
    BY <1>3
  <2>3. \A i, j \in 1..len : i < j => rows[i].t < rows[j].t
    BY <1>2, Zenon DEF InTime
  <2>4. last > 0 /\ last \in Nat \ {0}
    <3>1. rows[1].t < rows[len].t
      BY <2>1, <2>2, <2>3
    <3> QED
      BY <1>1, <1>5, <3>1
  <2>5. last - rows[1].t = last /\ rows[len].t # rows[1].t
    BY <1>1, <1>5, <2>4
  <2>6. PICK m : m = [b \in 1..n |-> Extremes(rows, InBucket(rows, limit, b))]
    OBVIOUS
  <2>7. D = {1, len} \cup Together(m, n)
    <3>1. D = {1, len} \cup UNION {Extremes(rows, InBucket(rows, limit, b)) : b \in 1..n}
      BY <1>2, <1>7, <1>9, <1>12, <2>5, Zenon DEF Downsample
    <3>2. Together(m, n) = UNION {Extremes(rows, InBucket(rows, limit, b)) : b \in 1..n}
      BY <2>6 DEF Together
    <3> QED
      BY <3>1, <3>2
  <2>8. \A b \in 1..n : \A i :
          i \in InBucket(rows, limit, b) <=>
            /\ i \in 2..(len - 1)
            /\ Into(rows, n, i) < b * last /\ Into(rows, n, i) >= (b - 1) * last
    <3>1. last = rows[Len(rows)].t - rows[1].t
      BY <1>2, <1>5, <2>5
    <3> QED
      BY <1>2, <1>7, <3>1, BucketIs
  <2>9. \A b \in 1..n : InBucket(rows, limit, b) \subseteq 1..len
    <3>1. \A i \in 2..(len - 1) : i \in 1..len
      BY <1>3
    <3> QED
      BY <2>8, <3>1, Zenon
  <2>10. ASSUME NEW b \in 1..n, NEW S, S = InBucket(rows, limit, b)
         PROVE  /\ m[b] \subseteq S /\ IsFiniteSet(m[b])
                /\ Cardinality(m[b]) \in Nat /\ Cardinality(m[b]) <= 2
                /\ \A i \in S : /\ \E d \in m[b] : rows[d].c <= rows[i].c
                                /\ \E d \in m[b] : rows[d].c >= rows[i].c
    <3>1. S \subseteq 1..Len(rows)
      BY <1>2, <2>9, <2>10
    <3>2. m[b] = Extremes(rows, S)
      BY <2>6, <2>10
    <3>3. PICK E : E = Extremes(rows, S)
      OBVIOUS
    <3>4. /\ E \subseteq S /\ IsFiniteSet(E)
          /\ Cardinality(E) \in Nat /\ Cardinality(E) <= 2
          /\ \A i \in S : /\ \E d \in E : rows[d].c <= rows[i].c
                          /\ \E d \in E : rows[d].c >= rows[i].c
      <4>1. rows \in Seq(Reading)
        BY <1>1
      <4> QED
        BY <3>1, <3>3, <4>1, ExtremesAre, Zenon
    <3> QED
      BY <3>2, <3>3, <3>4, Zenon
  <2>11. Cardinality(D) <= top
    <3>1. /\ IsFiniteSet(Together(m, n)) /\ Cardinality(Together(m, n)) \in Nat
          /\ Cardinality(Together(m, n)) <= 2 * n
      BY <1>7, <2>10, PairsAtMost
    <3>2. /\ IsFiniteSet({1, len}) /\ Cardinality({1, len}) \in Nat
          /\ Cardinality({1, len}) <= 2
      BY PairAtMost
    <3>3. /\ Cardinality(D) \in Nat
          /\ Cardinality(D) <= Cardinality({1, len}) + Cardinality(Together(m, n))
      BY <2>7, <3>1, <3>2, UnionAtMost
    <3>4. PICK x, y, z : /\ x = Cardinality({1, len}) /\ y = Cardinality(Together(m, n))
                         /\ z = Cardinality(D)
      OBVIOUS
    <3>5. x \in Nat /\ y \in Nat /\ z \in Nat /\ x <= 2 /\ y <= 2 * n /\ z <= x + y
      BY <3>1, <3>2, <3>3, <3>4
    <3>6. z <= top
      BY <1>7, <1>8, <3>5
    <3> QED
      BY <3>4, <3>6
  <2>12. ASSUME NEW i \in 1..len
         PROVE  /\ \E d \in D : NearBy(rows, n, i, d) /\ rows[d].c <= rows[i].c
                /\ \E d \in D : NearBy(rows, n, i, d) /\ rows[d].c >= rows[i].c
    <3>1. CASE i \in {1, len}
      <4>1. i \in D
        BY <2>7, <3>1
      <4>2. rows[i].c <= rows[i].c /\ rows[i].c >= rows[i].c
        BY <1>4
      <4> QED
        BY <1>10, <4>1, <4>2, Zenon
    <3>2. CASE i \notin {1, len}
      <4>1. i \in 2..(len - 1) /\ i < len
        BY <1>3, <3>2
      <4>2. PICK r : r = rows[i].t - rows[1].t /\ r = rows[i].t /\ r \in Nat /\ r < last
        <5>1. rows[i].t < rows[len].t
          BY <2>2, <2>3, <4>1
        <5>2. rows[i].t \in Nat
          BY <1>4
        <5>3. rows[i].t - rows[1].t = rows[i].t
          BY <1>1, <5>2
        <5> QED
          BY <1>5, <5>1, <5>2, <5>3
      <4>3. r * n \in Nat /\ r * n < n * last
        BY <1>7, <2>4, <4>2
      <4>4. PICK b \in 1..n : r * n < b * last /\ r * n >= (b - 1) * last
        BY <1>7, <2>4, <4>3, StepThere
      <4>5. Into(rows, n, i) = r * n
        BY <4>2 DEF Into
      <4>6. PICK S : S = InBucket(rows, limit, b)
        OBVIOUS
      <4>7. i \in S
        BY <2>8, <4>1, <4>4, <4>5, <4>6
      <4>8. ASSUME NEW d \in m[b] PROVE d \in D /\ NearBy(rows, n, i, d)
        <5>1. d \in D
          BY <2>7, <4>4 DEF Together
        <5>2. d \in S
          BY <2>10, <4>6
        <5>3. d \in 1..len /\ Into(rows, n, d) < b * last /\ Into(rows, n, d) >= (b - 1) * last
          BY <2>8, <2>9, <4>6, <5>2
        <5>4. PICK s : s = rows[d].t /\ s \in Nat
          BY <1>4, <5>3
        <5>5. Into(rows, n, d) = s * n
          BY <1>1, <5>4 DEF Into
        <5>6. /\ n \in Nat /\ last \in Nat /\ b \in Nat /\ r \in Int /\ s \in Int
              /\ s * n < b * last /\ s * n >= (b - 1) * last
              /\ r * n < b * last /\ r * n >= (b - 1) * last
          BY <1>5, <1>7, <4>2, <4>4, <5>3, <5>4, <5>5
        <5>7. Max({s - r, -(s - r)}) * n <= last
          BY <5>6, Apart
        <5> QED
          BY <1>6, <4>2, <5>1, <5>4, <5>7 DEF NearBy
      <4>9. /\ \E d \in m[b] : rows[d].c <= rows[i].c
            /\ \E d \in m[b] : rows[d].c >= rows[i].c
        BY <2>10, <4>6, <4>7
      <4> QED
        BY <4>8, <4>9, Zenon
    <3> QED
      BY <3>1, <3>2
  <2>13. {1, Len(rows)} \subseteq D
    BY <1>2, <2>7
  <2>14. \A i \in DOMAIN rows :
          /\ \E d \in D : NearBy(rows, n, i, d) /\ rows[d].c <= rows[i].c
          /\ \E d \in D : NearBy(rows, n, i, d) /\ rows[d].c >= rows[i].c
    BY <1>3, <2>12, Zenon
  <2>15. limit >= 4 => Cardinality(D) <= limit
    BY <1>8, <2>11
  <2> QED
    BY <1>7, <1>9, <2>13, <2>14, <2>15, Zenon DEF ShapeOf
<1> QED
  BY <1>11, <1>12

LEMMA ShapeHolds ==
  ASSUME InTime(curve)
  PROVE  ShapeSurvives
<1> SUFFICES ASSUME curve # <<>>, NEW limit \in 2..6
             PROVE  ShapeOf(curve, limit, Buckets(limit), Downsample(curve, limit))
  BY Zenon DEF ShapeSurvives, ShapeOf, NearBy
<1>1. limit \in Nat /\ limit >= 2
  OBVIOUS
<1> QED
  BY <1>1, ShapeStays

-----------------------------------------------------------------------------
(* The rules. *)

\* Where position i goes when one is inserted at p.
Moved(p, i) == IF i < p THEN i ELSE i + 1

\* s with e at position p.
Placed(s, p, e, new) ==
  /\ Len(new) = Len(s) + 1
  /\ new[p] = e
  /\ \A i \in 1..Len(s) : new[Moved(p, i)] = s[i]

LEMMA InsertIs ==
  ASSUME NEW T, NEW s \in Seq(T), NEW e \in T, NEW p \in 1..(Len(s) + 1)
  PROVE  InsertAt(s, p, e) \in Seq(T) /\ Placed(s, p, e, InsertAt(s, p, e))
<1>1. PICK n : n = Len(s) /\ n \in Nat
  BY LenProperties
<1>2. p \in Int /\ p - 1 \in Int /\ 1 \in Int /\ n \in Int /\ p \in 1..(n + 1)
  BY <1>1
<1>3. PICK A, E, B : A = SubSeq(s, 1, p - 1) /\ E = <<e>> /\ B = SubSeq(s, p, n)
  OBVIOUS
<1>4. /\ A \in Seq(T) /\ Len(A) = p - 1
      /\ \A i \in 1..(p - 1) : A[i] = s[i]
  <2>1. \A i \in 1..(p - 1) : s[i] \in T
    <3>1. \A i \in 1..(p - 1) : i \in 1..Len(s)
      BY <1>1, <1>2
    <3> QED
      BY <3>1, ElementOfSeq
  <2>2. /\ SubSeq(s, 1, p - 1) \in Seq(T)
        /\ Len(SubSeq(s, 1, p - 1)) = IF 1 <= p - 1 THEN p - 1 - 1 + 1 ELSE 0
        /\ \A i \in 1..(p - 1 - 1 + 1) : SubSeq(s, 1, p - 1)[i] = s[1 + i - 1]
    BY <1>2, <2>1, SubSeqProperties
  <2> QED
    BY <1>2, <1>3, <2>2
<1>5. /\ B \in Seq(T) /\ Len(B) = n + 1 - p
      /\ \A i \in 1..(n + 1 - p) : B[i] = s[p + i - 1]
  <2>1. \A i \in p..n : s[i] \in T
    <3>1. \A i \in p..n : i \in 1..Len(s)
      BY <1>1, <1>2
    <3> QED
      BY <3>1, ElementOfSeq
  <2>2. /\ SubSeq(s, p, n) \in Seq(T)
        /\ Len(SubSeq(s, p, n)) = IF p <= n THEN n - p + 1 ELSE 0
        /\ \A i \in 1..(n - p + 1) : SubSeq(s, p, n)[i] = s[p + i - 1]
    BY <1>2, <2>1, SubSeqProperties
  <2> QED
    BY <1>2, <1>3, <2>2
<1>6. E \in Seq(T) /\ Len(E) = 1 /\ E[1] = e
  BY <1>3
<1>7. PICK C : C = A \o E
  OBVIOUS
<1>8. /\ C \in Seq(T) /\ Len(C) = p
      /\ (\A i \in 1..(p - 1) : C[i] = s[i]) /\ C[p] = e
  <2>1. /\ C \in Seq(T) /\ Len(C) = Len(A) + Len(E)
        /\ \A i \in 1..(Len(A) + Len(E)) : C[i] = IF i <= Len(A) THEN A[i] ELSE E[i - Len(A)]
    BY <1>4, <1>6, <1>7, ConcatProperties
  <2> QED
    BY <1>2, <1>4, <1>6, <2>1
<1>9. PICK x : x = C \o B
  OBVIOUS
<1>10. /\ x \in Seq(T) /\ Len(x) = n + 1
       /\ (\A i \in 1..(p - 1) : x[i] = s[i]) /\ x[p] = e
       /\ \A i \in p..n : x[i + 1] = s[i]
  <2>1. /\ x \in Seq(T) /\ Len(x) = Len(C) + Len(B)
        /\ \A i \in 1..(Len(C) + Len(B)) : x[i] = IF i <= Len(C) THEN C[i] ELSE B[i - Len(C)]
    BY <1>5, <1>8, <1>9, ConcatProperties
  <2>2. Len(x) = n + 1
    BY <1>2, <1>5, <1>8, <2>1
  <2>3. \A i \in 1..(n + 1) : x[i] = IF i <= p THEN C[i] ELSE B[i - p]
    BY <1>2, <1>5, <1>8, <2>1
  <2>4. (\A i \in 1..(p - 1) : x[i] = s[i]) /\ x[p] = e
    BY <1>2, <1>8, <2>3
  <2>5. ASSUME NEW i \in p..n PROVE x[i + 1] = s[i]
    <3>1. i + 1 \in 1..(n + 1) /\ ~(i + 1 <= p) /\ i + 1 - p \in 1..(n + 1 - p)
          /\ p + (i + 1 - p) - 1 = i
      BY <1>2
    <3>2. x[i + 1] = B[i + 1 - p]
      BY <2>3, <3>1
    <3> QED
      BY <1>5, <3>1, <3>2
  <2> QED
    BY <2>1, <2>2, <2>4, <2>5
<1>11. x = InsertAt(s, p, e)
  BY <1>1, <1>3, <1>7, <1>9, Zenon DEF InsertAt
<1>12. \A i \in 1..n : x[Moved(p, i)] = s[i]
  <2>1. \A i \in 1..n : i < p => i \in 1..(p - 1)
    BY <1>2
  <2>2. \A i \in 1..n : ~(i < p) => i \in p..n
    BY <1>2
  <2> QED
    BY <1>10, <2>1, <2>2 DEF Moved
<1> QED
  BY <1>1, <1>10, <1>11, <1>12 DEF Placed

LEMMA MinMoved ==
  ASSUME NEW n \in Nat, NEW p \in Int, NEW S, S \subseteq 1..n, S # {},
         NEW T, T = {Moved(p, i) : i \in S}
  PROVE  Min(T) = Moved(p, Min(S)) /\ Min(S) \in S
<1>1. PICK m : m = Min(S)
  OBVIOUS
<1>2. m \in S /\ \A y \in S : m <= y
  BY <1>1, MinThere
<1>3. T \subseteq Int /\ Moved(p, m) \in T
  BY <1>2 DEF Moved
<1>4. \A y \in S : Moved(p, m) <= Moved(p, y)
  BY <1>2 DEF Moved
<1>5. \A y \in T : Moved(p, m) <= y
  BY <1>4
<1>6. Min(T) = Moved(p, m)
  BY <1>3, <1>5, MinIs
<1> QED
  BY <1>1, <1>2, <1>6

LEMMA MaxMoved ==
  ASSUME NEW n \in Nat, NEW p \in Int, NEW S, S \subseteq 1..n, S # {},
         NEW T, T = {Moved(p, i) : i \in S}
  PROVE  Max(T) = Moved(p, Max(S)) /\ Max(S) \in S
<1>1. PICK m : m = Max(S)
  OBVIOUS
<1>2. m \in S /\ \A y \in S : y <= m
  BY <1>1, MaxThere
<1>3. T \subseteq Int /\ Moved(p, m) \in T
  BY <1>2 DEF Moved
<1>4. \A y \in S : Moved(p, y) <= Moved(p, m)
  BY <1>2 DEF Moved
<1>5. \A y \in T : y <= Moved(p, m)
  BY <1>4
<1>6. Max(T) = Moved(p, m)
  BY <1>3, <1>5, MaxIs
<1> QED
  BY <1>1, <1>2, <1>6

\* Rules of any version and date, of which some took effect first.
Rule == [version : Nat, builds : SUBSET {"b1", "b2"}, from : Nat]
SomeFirst(reg) == \E i \in 1..Len(reg) : reg[i].from = 0

Claims(reg, build) == {i \in DOMAIN reg : build \in reg[i].builds}
InForce(reg, start) == {i \in DOMAIN reg : reg[i].from <= start}

\* The positions that have a property move with the rules that have it.
LEMMA PositionsMoved ==
  ASSUME NEW n \in Nat, NEW p \in 1..(n + 1),
         NEW S, S \subseteq 1..n, NEW T, T \subseteq 1..(n + 1), p \notin T,
         \A i \in 1..n : Moved(p, i) \in T <=> i \in S
  PROVE  T = {Moved(p, i) : i \in S}
<1>1. ASSUME NEW y \in T PROVE \E i \in S : y = Moved(p, i)
  <2>1. y \in 1..(n + 1) /\ y # p
    OBVIOUS
  <2>2. CASE y < p
    <3>1. y \in 1..n /\ Moved(p, y) = y
      BY <2>1, <2>2 DEF Moved
    <3>2. y \in S
      BY <3>1
    <3> QED
      BY <3>1, <3>2
  <2>3. CASE ~(y < p)
    <3>1. y - 1 \in 1..n /\ Moved(p, y - 1) = y
      BY <2>1, <2>3 DEF Moved
    <3>2. y - 1 \in S
      BY <3>1
    <3> QED
      BY <3>1, <3>2
  <2> QED
    BY <2>2, <2>3
<1>2. \A i \in S : Moved(p, i) \in T
  OBVIOUS
<1> QED
  BY <1>1, <1>2

\* Rules that neither claim the build nor had taken effect are not selected, and
\* the others keep their order.
LEMMA SelectStays ==
  ASSUME NEW reg \in Seq(Rule), SomeFirst(reg), NEW new \in Seq(Rule), NEW e,
         NEW p \in 1..(Len(reg) + 1), Placed(reg, p, e, new),
         NEW build, NEW start \in Nat, build \notin e.builds, ~(e.from <= start)
  PROVE  Select(new, build, start) = Select(reg, build, start)
<1>1. PICK n : n = Len(reg) /\ n \in Nat /\ DOMAIN reg = 1..n
  BY LenProperties
<1>2. DOMAIN new = 1..(n + 1) /\ Len(new) = n + 1
  <2>1. Len(new) = n + 1
    BY <1>1 DEF Placed
  <2>2. DOMAIN new = 1..Len(new)
    BY LenProperties
  <2> QED
    BY <2>1, <2>2
<1>3. p \in 1..(n + 1) /\ p \in Int
  BY <1>1
<1>4. new[p] = e /\ \A i \in 1..n : new[Moved(p, i)] = reg[i]
  BY <1>1 DEF Placed
<1>5. \A i \in 1..n : Moved(p, i) \in 1..(n + 1)
  BY <1>1, <1>3 DEF Moved
<1>6. PICK A, B, C, D : /\ A = Claims(reg, build) /\ B = Claims(new, build)
                        /\ C = InForce(reg, start) /\ D = InForce(new, start)
  OBVIOUS
<1>7. B = {Moved(p, i) : i \in A}
  <2>1. A \subseteq 1..n /\ B \subseteq 1..(n + 1) /\ p \notin B
    BY <1>1, <1>2, <1>4, <1>6 DEF Claims
  <2>2. \A i \in 1..n : Moved(p, i) \in B <=> i \in A
    BY <1>1, <1>2, <1>4, <1>5, <1>6 DEF Claims
  <2> QED
    BY <1>1, <1>3, <2>1, <2>2, PositionsMoved
<1>8. D = {Moved(p, i) : i \in C}
  <2>1. C \subseteq 1..n /\ D \subseteq 1..(n + 1) /\ p \notin D
    BY <1>1, <1>2, <1>4, <1>6 DEF InForce
  <2>2. \A i \in 1..n : Moved(p, i) \in D <=> i \in C
    BY <1>1, <1>2, <1>4, <1>5, <1>6 DEF InForce
  <2> QED
    BY <1>1, <1>3, <2>1, <2>2, PositionsMoved
<1>9. A \subseteq 1..n /\ C \subseteq 1..n
  BY <1>1, <1>6 DEF Claims, InForce
<1>10. C # {}
  <2>1. PICK i \in 1..n : reg[i].from = 0
    BY <1>1 DEF SomeFirst
  <2>2. 0 <= start
    OBVIOUS
  <2>3. i \in C
    BY <1>1, <1>6, <2>1, <2>2 DEF InForce
  <2> QED
    BY <2>3
<1>11. D # {}
  BY <1>8, <1>10
<1>12. /\ Select(reg, build, start) = reg[IF A # {} THEN Min(A) ELSE Max(C)].version
       /\ Select(new, build, start) = new[IF B # {} THEN Min(B) ELSE Max(D)].version
  BY <1>6, <1>10, <1>11, Zenon DEF Select, Claims, InForce
<1>13. CASE A # {}
  <2>1. Min(B) = Moved(p, Min(A)) /\ Min(A) \in A
    BY <1>1, <1>3, <1>7, <1>9, <1>13, MinMoved
  <2>2. B # {}
    BY <1>7, <1>13
  <2>3. new[Min(B)] = reg[Min(A)]
    BY <1>4, <1>9, <2>1
  <2> QED
    BY <1>12, <1>13, <2>2, <2>3
<1>14. CASE A = {}
  <2>1. B = {}
    BY <1>7, <1>14
  <2>2. Max(D) = Moved(p, Max(C)) /\ Max(C) \in C
    BY <1>1, <1>3, <1>8, <1>9, <1>10, MaxMoved
  <2>3. new[Max(D)] = reg[Max(C)]
    BY <1>4, <1>9, <2>2
  <2> QED
    BY <1>12, <1>14, <2>1, <2>3
<1> QED
  BY <1>13, <1>14

\* Registering puts the rules somewhere among the others.
LEMMA RegisterIs ==
  ASSUME NEW reg \in Seq(Rule), SomeFirst(reg), NEW e \in Rule
  PROVE  /\ Register(reg, e) \in Seq(Rule) /\ SomeFirst(Register(reg, e))
         /\ \E p \in 1..(Len(reg) + 1) : Placed(reg, p, e, Register(reg, e))
<1>1. PICK n : n = Len(reg) /\ n \in Nat /\ DOMAIN reg = 1..n
  BY LenProperties
<1>2. PICK A : A = {i \in DOMAIN reg : ~Earlier(e, reg[i])}
  OBVIOUS
<1>3. PICK p : p = Cardinality(A) + 1 /\ p \in 1..(n + 1)
  <2>1. IsFiniteSet(1..n) /\ Cardinality(1..n) = n
    <3>1. 1 \in Int /\ n \in Int
      BY <1>1
    <3>2. IsFiniteSet(1..n) /\ Cardinality(1..n) = IF 1 > n THEN 0 ELSE n - 1 + 1
      BY <3>1, FS_Interval
    <3> QED
      BY <1>1, <3>2
  <2>2. A \subseteq 1..n
    BY <1>1, <1>2
  <2>3. IsFiniteSet(A) /\ Cardinality(A) <= n
    BY <2>1, <2>2, FS_Subset
  <2>4. Cardinality(A) \in Nat
    BY <2>3, FS_CardinalityType
  <2> QED
    BY <1>1, <2>3, <2>4
<1>4. PICK new : new = Register(reg, e)
  OBVIOUS
<1>5. new = InsertAt(reg, p, e)
  BY <1>2, <1>3, <1>4, Zenon DEF Register
<1>6. p \in 1..(Len(reg) + 1)
  BY <1>1, <1>3
<1>7. new \in Seq(Rule) /\ Placed(reg, p, e, new)
  BY <1>5, <1>6, InsertIs
<1>8. SomeFirst(new)
  <2>1. PICK i \in 1..n : reg[i].from = 0
    BY <1>1 DEF SomeFirst
  <2>2. Moved(p, i) \in 1..(n + 1)
    BY <1>1, <1>3 DEF Moved
  <2>3. Len(new) = n + 1 /\ new[Moved(p, i)] = reg[i]
    BY <1>1, <1>7 DEF Placed
  <2> QED
    BY <2>1, <2>2, <2>3 DEF SomeFirst
<1> QED
  BY <1>4, <1>6, <1>7, <1>8

-----------------------------------------------------------------------------
(* The stores. *)

\* Matches, lives, XP, readings and rules of any number, each of any amounts.
PagesTyped ==
  /\ matches \in Seq(MatchView)
  /\ lives \in Seq(LifeView)
  /\ xp \in Seq(XpRow)
  /\ InTime(curve)
  /\ registry \in Seq(Rule) /\ SomeFirst(registry)

LEMMA TypedInit == Init => PagesTyped
<1> SUFFICES ASSUME Init PROVE PagesTyped
  OBVIOUS
<1>1. /\ matches = <<>> /\ lives = <<>> /\ xp = <<>> /\ curve = <<>>
      /\ registry = <<[version |-> 1, builds |-> {}, from |-> 0]>>
  BY DEF Init, V1
<1>2. /\ matches \in Seq(MatchView) /\ lives \in Seq(LifeView) /\ xp \in Seq(XpRow)
      /\ curve \in Seq(Reading) /\ Len(curve) = 0
  BY <1>1, EmptySeq
<1>3. InTime(curve)
  BY <1>1, <1>2 DEF InTime
<1>4. [version |-> 1, builds |-> {}, from |-> 0] \in Rule
  BY DEF Rule
<1>5. registry \in Seq(Rule) /\ Len(registry) = 1 /\ registry[1].from = 0
  BY <1>1, <1>4
<1>6. SomeFirst(registry)
  BY <1>5 DEF SomeFirst
<1> QED
  BY <1>2, <1>3, <1>5, <1>6 DEF PagesTyped

LEMMA PlayTyped == PagesTyped /\ Play => matches' \in Seq(MatchView)
<1> SUFFICES ASSUME PagesTyped, Play PROVE matches' \in Seq(MatchView)
  OBVIOUS
<1>1. PICK m \in Played : matches' = Append(matches, m)
  BY DEF Play
<1>2. m \in MatchView
  BY DEF Played, MatchView, Days
<1> QED
  BY <1>1, <1>2, AppendProperties DEF PagesTyped

LEMMA LiveTyped == PagesTyped /\ Live => lives' \in Seq(LifeView)
<1> SUFFICES ASSUME PagesTyped, Live PROVE lives' \in Seq(LifeView)
  OBVIOUS
<1>1. PICK l \in Lived : lives' = Append(lives, l)
  BY DEF Live
<1>2. l \in LifeView
  <2>1. \/ l = [hasKit |-> TRUE, kit |-> 2, other |-> 0, earned |-> 4, length |-> 2,
                breakEven |-> 1]
        \/ l = [hasKit |-> TRUE, kit |-> 3, other |-> 1, earned |-> 2, length |-> 2,
                breakEven |-> None]
        \/ l = [hasKit |-> TRUE, kit |-> 1, other |-> 2, earned |-> 0, length |-> 0,
                breakEven |-> None]
        \/ l = [hasKit |-> FALSE, kit |-> 0, other |-> 1, earned |-> 2, length |-> 1,
                breakEven |-> None]
    BY Zenon DEF Lived
  <2>2. PICK Amount : Amount = Int \cup {None}
    OBVIOUS
  <2>3. None \in Amount /\ 1 \in Amount
    BY <2>2
  <2>4. LifeView = [hasKit : BOOLEAN, kit : Int, other : Int, earned : Int, length : Int,
                    breakEven : Amount]
    BY <2>2 DEF LifeView
  <2>5. CASE l = [hasKit |-> TRUE, kit |-> 2, other |-> 0, earned |-> 4, length |-> 2,
                  breakEven |-> 1]
    BY <2>3, <2>4, <2>5
  <2>6. CASE l = [hasKit |-> TRUE, kit |-> 3, other |-> 1, earned |-> 2, length |-> 2,
                  breakEven |-> None]
    BY <2>3, <2>4, <2>6
  <2>7. CASE l = [hasKit |-> TRUE, kit |-> 1, other |-> 2, earned |-> 0, length |-> 0,
                  breakEven |-> None]
    BY <2>3, <2>4, <2>7
  <2>8. CASE l = [hasKit |-> FALSE, kit |-> 0, other |-> 1, earned |-> 2, length |-> 1,
                  breakEven |-> None]
    BY <2>3, <2>4, <2>8
  <2> QED
    BY <2>1, <2>5, <2>6, <2>7, <2>8, Zenon
<1> QED
  BY <1>1, <1>2, AppendProperties DEF PagesTyped

LEMMA ReadXpTyped == PagesTyped /\ ReadXp => xp' \in Seq(XpRow)
<1> SUFFICES ASSUME PagesTyped, ReadXp PROVE xp' \in Seq(XpRow)
  OBVIOUS
<1>1. PICK row \in XpRows : xp' = Append(xp, row)
  BY DEF ReadXp
<1>2. row \in XpRow
  BY DEF XpRows, XpRow
<1> QED
  BY <1>1, <1>2, AppendProperties DEF PagesTyped

\* A poll is later than those before it.
LEMMA PollTyped == PagesTyped /\ Poll => InTime(curve')
<1> SUFFICES ASSUME PagesTyped, Poll PROVE InTime(curve')
  OBVIOUS
<1>1. /\ curve \in Seq(Reading)
      /\ curve # <<>> => curve[1].t = 0
      /\ \A i, j \in 1..Len(curve) : i < j => curve[i].t < curve[j].t
  BY Zenon DEF PagesTyped, InTime
<1>2. PICK n : n = Len(curve) /\ n \in Nat /\ (curve # <<>> => n \in Nat \ {0})
               /\ (curve = <<>> => n = 0)
  BY <1>1, LenProperties, EmptySeq
<1>3. PICK gap \in IF curve = <<>> THEN {0} ELSE 1..2, c \in 0..2 :
        curve' = Append(curve, [t |-> gap + (IF gap = 0 THEN 0 ELSE Last(curve).t), c |-> c])
  BY DEF Poll
<1>4. PICK t : t = gap + (IF gap = 0 THEN 0 ELSE Last(curve).t)
  OBVIOUS
<1>5. \A i \in 1..n : curve[i].t \in Nat
  BY <1>1, <1>2, ReadingTyped
<1>6. t \in Nat /\ (curve = <<>> => t = 0) /\ \A i \in 1..n : curve[i].t < t
  <2>1. CASE curve = <<>>
    BY <1>2, <1>3, <1>4, <2>1
  <2>2. CASE curve # <<>>
    <3>1. gap \in 1..2 /\ n \in 1..n
      BY <1>2, <1>3, <2>2
    <3>2. PICK last : last = curve[n].t /\ last \in Nat
      BY <1>5, <3>1
    <3>3. t = gap + last /\ last < t /\ t \in Nat
      BY <1>2, <1>4, <3>1, <3>2 DEF Last
    <3>4. ASSUME NEW i \in 1..n PROVE curve[i].t < t
      <4>1. curve[i].t = last \/ curve[i].t < last
        <5>1. CASE i = n
          BY <3>2, <5>1
        <5>2. CASE i # n
          <6>1. i < n
            BY <1>2, <5>2
          <6> QED
            BY <1>1, <1>2, <3>1, <3>2, <6>1
        <5> QED
          BY <5>1, <5>2
      <4>2. PICK u : u = curve[i].t /\ u \in Nat
        BY <1>5
      <4>3. u < t
        BY <3>2, <3>3, <4>1, <4>2
      <4> QED
        BY <4>2, <4>3
    <3> QED
      BY <2>2, <3>3, <3>4
  <2> QED
    BY <2>1, <2>2
<1>7. PICK r : r = [t |-> t, c |-> c]
  OBVIOUS
<1>8. r \in Reading /\ r.t = t
  BY <1>3, <1>6, <1>7 DEF Reading
<1>9. curve' = Append(curve, r)
  BY <1>3, <1>4, <1>7
<1>10. /\ curve' \in Seq(Reading) /\ Len(curve') = n + 1
       /\ \A i \in 1..n : curve'[i] = curve[i]
       /\ curve'[n + 1] = r
  BY <1>1, <1>2, <1>8, <1>9, AppendProperties
<1>11. curve'[1].t = 0
  <2>1. CASE curve = <<>>
    <3>1. n + 1 = 1
      BY <1>2, <2>1
    <3>2. curve'[1] = r
      BY <1>10, <3>1
    <3> QED
      BY <1>6, <1>8, <2>1, <3>2
  <2>2. CASE curve # <<>>
    <3>1. 1 \in 1..n
      BY <1>2, <2>2
    <3> QED
      BY <1>1, <1>10, <2>2, <3>1
  <2> QED
    BY <2>1, <2>2
<1>12. ASSUME NEW i \in 1..(n + 1), NEW j \in 1..(n + 1), i < j
       PROVE  curve'[i].t < curve'[j].t
  <2>1. i \in 1..n
    BY <1>2, <1>12
  <2>2. CASE j \in 1..n
    BY <1>1, <1>2, <1>10, <1>12, <2>1, <2>2
  <2>3. CASE j = n + 1
    BY <1>6, <1>8, <1>10, <2>1, <2>3
  <2>4. j \in 1..n \/ j = n + 1
    BY <1>2
  <2> QED
    BY <2>2, <2>3, <2>4
<1>13. \A i, j \in 1..Len(curve') : i < j => curve'[i].t < curve'[j].t
  BY <1>10, <1>12
<1> QED
  BY <1>10, <1>11, <1>13, Zenon DEF InTime

\* The rules that become known, and what they leave as it was.
RulesKept ==
  \A build \in {"b1", "b2", None}, start \in 0..3 :
    Select(registry', build, start) # Select(registry, build, start) =>
      \E i \in DOMAIN registry' :
        /\ registry'[i].version = Len(registry')
        /\ build \in registry'[i].builds \/ registry'[i].from <= start

LEMMA LearnKeeps ==
  PagesTyped /\ Learn => registry' \in Seq(Rule) /\ SomeFirst(registry') /\ RulesKept
<1> SUFFICES ASSUME PagesTyped, Learn
             PROVE  registry' \in Seq(Rule) /\ SomeFirst(registry') /\ RulesKept
  OBVIOUS
<1>1. registry \in Seq(Rule) /\ SomeFirst(registry) /\ Len(registry) \in Nat
  BY LenProperties DEF PagesTyped
<1>2. PICK builds \in SUBSET {"b1", "b2"}, from \in 0..3 :
        registry' = Register(registry, [version |-> Len(registry) + 1,
                                        builds |-> builds, from |-> from])
  BY DEF Learn
<1>3. PICK e : e = [version |-> Len(registry) + 1, builds |-> builds, from |-> from]
  OBVIOUS
<1>4. e \in Rule /\ e.version = Len(registry) + 1
  BY <1>1, <1>3 DEF Rule
<1>5. PICK new : new = registry'
  OBVIOUS
<1>6. new = Register(registry, e)
  BY <1>2, <1>3, <1>5
<1>7. new \in Seq(Rule) /\ SomeFirst(new)
  BY <1>1, <1>4, <1>6, RegisterIs
<1>8. PICK p \in 1..(Len(registry) + 1) : Placed(registry, p, e, new)
  BY <1>1, <1>4, <1>6, RegisterIs
<1>9. p \in DOMAIN new /\ new[p] = e /\ Len(new) = Len(registry) + 1
  <2>1. new[p] = e /\ Len(new) = Len(registry) + 1
    BY <1>8 DEF Placed
  <2>2. DOMAIN new = 1..Len(new)
    BY <1>7, LenProperties
  <2> QED
    BY <2>1, <2>2
<1>10. ASSUME NEW build \in {"b1", "b2", None}, NEW start \in 0..3,
              Select(new, build, start) # Select(registry, build, start)
       PROVE  build \in e.builds \/ e.from <= start
  <2>1. start \in Nat
    OBVIOUS
  <2> QED
    BY <1>1, <1>7, <1>8, <1>10, <2>1, SelectStays
<1>11. new[p].version = Len(new)
  BY <1>4, <1>9
<1>12. \A build \in {"b1", "b2", None}, start \in 0..3 :
         Select(new, build, start) # Select(registry, build, start) =>
           \E i \in DOMAIN new :
             /\ new[i].version = Len(new)
             /\ build \in new[i].builds \/ new[i].from <= start
  BY <1>9, <1>10, <1>11, Zenon
<1> QED
  BY <1>5, <1>7, <1>12, Zenon DEF RulesKept

LEMMA TypedNext ==
  PagesTyped /\ [Next]_vars => PagesTyped' /\ (RulesKept \/ UNCHANGED registry)
<1> SUFFICES ASSUME PagesTyped, [Next]_vars
             PROVE  PagesTyped' /\ (RulesKept \/ UNCHANGED registry)
  OBVIOUS
<1>1. CASE Play
  BY <1>1, PlayTyped DEF PagesTyped, Play
<1>2. CASE Live
  BY <1>2, LiveTyped DEF PagesTyped, Live
<1>3. CASE ReadXp
  BY <1>3, ReadXpTyped DEF PagesTyped, ReadXp
<1>4. CASE Poll
  BY <1>4, PollTyped DEF PagesTyped, Poll
<1>5. CASE Learn
  <2>1. registry' \in Seq(Rule) /\ SomeFirst(registry') /\ RulesKept
    BY <1>5, LearnKeeps
  <2>2. UNCHANGED <<matches, lives, xp, curve>>
    BY <1>5 DEF Learn
  <2> QED
    BY <2>1, <2>2 DEF PagesTyped
<1>6. CASE UNCHANGED vars
  BY <1>6 DEF vars, PagesTyped
<1> QED
  BY <1>1, <1>2, <1>3, <1>4, <1>5, <1>6 DEF Next

LEMMA TypedAlways == Spec => []PagesTyped
<1>1. PagesTyped /\ [Next]_vars => PagesTyped'
  BY TypedNext
<1> QED
  BY <1>1, TypedInit, PTL DEF Spec

\* build_buckets and totals_of: whatever is filtered and however it is grouped,
\* each match is in one bucket, the buckets add up to the totals beside them and
\* the line ends at their profit -- of histories of any length and any amounts.
THEOREM HistoryBalances == Spec => []HistoryAddsUp
<1>1. PagesTyped => HistoryAddsUp
  BY HistoryHolds DEF PagesTyped
<1> QED
  BY <1>1, TypedAlways, PTL

\* build_markers: a bucket is marked if and only if the last build that was known
\* before it is another.
THEOREM MarkersAreHonest == Spec => []MarkersAreChanges
<1>1. PagesTyped => MarkersAreChanges
  BY MarkersHold DEF PagesTyped
<1> QED
  BY <1>1, TypedAlways, PTL

\* select_points and describe: every life is drawn or left out for one reason, and
\* what is said of two metrics does not depend on which axis each is drawn on.
THEOREM AnalysisBalances == Spec => []AnalysisAddsUp
<1>1. PagesTyped => AnalysisAddsUp
  BY AnalysisHolds DEF PagesTyped
<1> QED
  BY <1>1, TypedAlways, PTL

\* xp(): what matches are given and what none is given come to what the total
\* grew by and what was imported, as long as the save file was not set back.
THEOREM XpBalances == Spec => []XpAddsUp
<1>1. PagesTyped => XpAddsUp
  BY XpHolds DEF PagesTyped
<1> QED
  BY <1>1, TypedAlways, PTL

\* downsample: the ends are drawn, and every trough and every peak is, within a
\* bucket's width and at its depth; in no more points than were asked for, if
\* four or more were (for two and three the code draws up to four).
THEOREM PeaksSurvive == Spec => []ShapeSurvives
<1>1. PagesTyped => ShapeSurvives
  BY ShapeHolds DEF PagesTyped
<1> QED
  BY <1>1, TypedAlways, PTL

\* register and select: rules that become known change nothing for matches that
\* began before they took effect and whose build they do not claim, wherever the
\* sort puts them.
THEOREM OldRulesStay == Spec => RulesStay
<1>1. PagesTyped /\ [Next]_vars =>
        [\A build \in {"b1", "b2", None}, start \in 0..3 :
           Select(registry', build, start) # Select(registry, build, start) =>
             \E i \in DOMAIN registry' :
               /\ registry'[i].version = Len(registry')
               /\ build \in registry'[i].builds \/ registry'[i].from <= start]_registry
  BY TypedNext DEF RulesKept
<1> QED
  BY <1>1, TypedAlways, PTL DEF Spec, RulesStay
=============================================================================
