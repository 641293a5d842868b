---------------------------- MODULE DomainProofs ----------------------------
(***************************************************************************)
(* No cached row is stale without being detected, and none is of an open   *)
(* match, for every rule of derivation, every number of readers and every  *)
(* bound.                                                                  *)
(*                                                                         *)
(* The key of a row does not determine its view: the readings are loaded   *)
(* after their revision was read.  What saves the cache is that the number *)
(* of readings only grows: a row whose key is behind its view is behind    *)
(* the facts, and no request will ever ask for its key again.              *)
(*                                                                         *)
(* The books that are derived are proved about in the second half.         *)
(***************************************************************************)
EXTENDS DomainMC, SumProofs, SequenceTheorems

\* A key read from the facts is not ahead of them, and a view filed under a
\* key that is not behind them is what they give.
Filed(key, by, view) ==
  /\ key.revision.count \in Nat /\ key.revision.count <= Len(rows)
  /\ key.revision.count = Len(rows) => view = Derive(by, rows, key.overrides)

RowIsCurrent ==
  cache # Nothing =>
    /\ closed /\ cache.rules \in Rules
    /\ Filed(cache.key, cache.rules, cache.view)

\* What a request remembers that still matters.
RequestIsCurrent(q) ==
  /\ q = Idle \/ q.stage \in Stages
  /\ q.stage \in {"row", "revision", "overrides", "load"} /\ q.closed => closed
  /\ q.stage = "revision" => q.revision.count \in Nat /\ q.revision.count <= Len(rows)
  /\ q.stage \in {"overrides", "load"} =>
       /\ q.key.revision.count \in Nat /\ q.key.revision.count <= Len(rows)
       /\ q.key.overrides = q.overrides
  /\ q.stage = "write" => closed /\ Filed(q.key, rules, q.view)

FactsTyped ==
  /\ rows \in Seq(Reading) /\ {imported, closed} \subseteq BOOLEAN
  /\ overrides \in Corrections /\ rules \in Rules
  /\ changes \in 0..MaxChanges

Honest ==
  /\ FactsTyped
  /\ imported => closed
  /\ DOMAIN request = Readers
  /\ RowIsCurrent
  /\ \A r \in Readers : RequestIsCurrent(request[r])

-----------------------------------------------------------------------------
LEMMA HonestInit == Init => Honest
<1> SUFFICES ASSUME Init PROVE Honest
  OBVIOUS
<1>1. rows \in Seq(Reading)
  <2>1. CASE rows = <<>>
    BY <2>1
  <2>2. CASE rows \in {<<[at |-> 0, cash |-> c, life |-> 1]>> : c \in Cash}
    <3>1. PICK c \in Cash : rows = <<[at |-> 0, cash |-> c, life |-> 1]>>
      BY <2>2
    <3>2. 1 \in LifeNumbers
      BY BoundsAssumption DEF LifeNumbers
    <3> QED
      BY <3>1, <3>2 DEF Reading
  <2> QED
    BY <2>1, <2>2 DEF Init
<1>2. overrides \in Corrections
  <2>1. overrides \in [{} -> Prices]
    BY DEF Init
  <2> QED
    BY <2>1 DEF Corrections
<1>3. {imported, closed} \subseteq BOOLEAN /\ (imported => closed)
  <2>1. imported \in BOOLEAN /\ closed = imported
    BY Zenon DEF Init
  <2> QED
    BY <2>1
<1>4. FactsTyped
  <2>1. rules \in Rules /\ changes = 0
    BY DEF Init
  <2>2. changes \in 0..MaxChanges
    BY <2>1, BoundsAssumption
  <2> QED
    BY <1>1, <1>2, <1>3, <2>1, <2>2 DEF FactsTyped
<1> QED
  BY <1>3, <1>4 DEF Init, Honest, RowIsCurrent, RequestIsCurrent, Idle

\* What is stored is a reading.
LEMMA AddedReading ==
  ASSUME Honest, Added
  PROVE  \E x \in Reading : rows' = Append(rows, x)
<1>1. PICK step \in Steps, cash \in Cash, spawned \in BOOLEAN :
        LET last == rows[Len(rows)]
            life == IF rows = <<>> THEN 1 ELSE last.life + IF spawned THEN 1 ELSE 0
            at == IF rows = <<>> THEN 0 ELSE last.at + step
        IN /\ life <= MaxLives
           /\ rows' = Append(rows, [at |-> at, cash |-> cash, life |-> life])
  BY DEF Added
<1> DEFINE last == rows[Len(rows)]
           life == IF rows = <<>> THEN 1 ELSE last.life + IF spawned THEN 1 ELSE 0
           at == IF rows = <<>> THEN 0 ELSE last.at + step
           reading == [at |-> at, cash |-> cash, life |-> life]
<1>2. rows \in Seq(Reading)
  BY DEF Honest, FactsTyped
<1>3. CASE rows = <<>>
  <2>1. reading \in Reading
    BY <1>1, <1>3, BoundsAssumption DEF Reading, LifeNumbers
  <2> QED
    BY <1>1, <2>1
<1>4. CASE rows # <<>>
  <2>1. last \in Reading
    <3>1. Len(rows) \in 1..Len(rows)
      BY <1>2, <1>4, EmptySeq, LenProperties
    <3> QED
      BY <1>2, <3>1, ElementOfSeq
  <2>2. last.life \in LifeNumbers /\ last.at \in Nat
    BY <2>1 DEF Reading
  <2>3. step \in Nat
    BY InputsAssumption
  <2>4. at \in Nat
    BY <1>4, <2>2, <2>3
  <2>5. life \in LifeNumbers
    BY <1>1, <1>4, <2>2, BoundsAssumption DEF LifeNumbers
  <2>6. reading \in Reading
    BY <2>4, <2>5 DEF Reading
  <2> QED
    BY <1>1, <2>6
<1> QED
  BY <1>3, <1>4

\* One reading more: every key that was read is now behind the facts.
LEMMA HonestAdded ==
  ASSUME Honest, Added
  PROVE  Honest'
<1>1. PICK x \in Reading : rows' = Append(rows, x)
  BY AddedReading
<1>2. UNCHANGED <<imported, closed, overrides, rules, cache, request, changes>>
  BY DEF Added
<1>3. rows' \in Seq(Reading) /\ Len(rows') = Len(rows) + 1 /\ Len(rows) \in Nat
  <2>1. rows \in Seq(Reading)
    BY DEF Honest, FactsTyped
  <2> QED
    BY <1>1, <2>1, AppendProperties, LenProperties
<1>4. FactsTyped'
  BY <1>2, <1>3 DEF Honest, FactsTyped
<1>5. ASSUME NEW key, NEW by, NEW view, Filed(key, by, view)
      PROVE  /\ key.revision.count \in Nat /\ key.revision.count <= Len(rows')
             /\ key.revision.count # Len(rows')
  BY <1>3, <1>5 DEF Filed
<1>6. RowIsCurrent'
  BY <1>2, <1>5 DEF Honest, RowIsCurrent, Filed
<1>7. ASSUME NEW r \in Readers PROVE RequestIsCurrent(request[r])'
  <2>1. RequestIsCurrent(request[r])
    BY DEF Honest
  <2> QED
    BY <1>2, <1>3, <1>5, <2>1 DEF RequestIsCurrent, Filed
<1> QED
  BY <1>2, <1>4, <1>6, <1>7 DEF Honest

\* The other steps of the facts and of the server: no request moves but to Idle.
LEMMA HonestFacts ==
  ASSUME Honest, CloseMatch \/ SetOverride \/ Restart \/ Drop
  PROVE  Honest'
<1>0. \A n : n \in 0..MaxChanges /\ n < MaxChanges => n + 1 \in 0..MaxChanges
  BY BoundsAssumption
<1>1. CASE CloseMatch
  <2>1. closed' = TRUE /\ UNCHANGED <<rows, imported, overrides, rules, cache, request, changes>>
    BY <1>1 DEF CloseMatch
  <2>2. FactsTyped'
    BY <2>1 DEF Honest, FactsTyped
  <2> QED
    BY <2>1, <2>2 DEF Honest, RowIsCurrent, RequestIsCurrent, Filed
<1>2. CASE SetOverride
  <2>1. UNCHANGED <<rows, imported, closed, rules, cache, request>>
    BY <1>2 DEF SetOverride
  <2>2. changes' \in 0..MaxChanges
    BY <1>0, <1>2 DEF SetOverride, Changing, Honest, FactsTyped
  <2>3. overrides' \in Corrections
    <3>1. PICK life \in LifeNumbers :
            \/ \E price \in Prices :
                 overrides' = [l \in DOMAIN overrides \cup {life} |->
                                 IF l = life THEN price ELSE overrides[l]]
            \/ overrides' = [l \in DOMAIN overrides \ {life} |-> overrides[l]]
      BY <1>2 DEF SetOverride
    <3>2. PICK L \in SUBSET LifeNumbers : overrides \in [L -> Prices]
      BY DEF Honest, FactsTyped, Corrections
    <3>3. overrides' \in [L \cup {life} -> Prices] \/ overrides' \in [L \ {life} -> Prices]
      BY <3>1, <3>2
    <3>4. {L \cup {life}, L \ {life}} \subseteq SUBSET LifeNumbers
      BY <3>1, <3>2
    <3> QED
      BY <3>3, <3>4 DEF Corrections
  <2>4. FactsTyped'
    BY <2>1, <2>2, <2>3 DEF Honest, FactsTyped
  <2> QED
    BY <2>1, <2>4 DEF Honest, RowIsCurrent, RequestIsCurrent, Filed
<1>3. CASE Restart
  <2>1. /\ request' = [r \in Readers |-> Idle] /\ rules' \in Rules
        /\ UNCHANGED <<rows, imported, closed, overrides, cache>>
    BY <1>3 DEF Restart
  <2>2. changes' \in 0..MaxChanges
    BY <1>0, <1>3 DEF Restart, Changing, Honest, FactsTyped
  <2>3. FactsTyped'
    BY <2>1, <2>2 DEF Honest, FactsTyped
  <2> QED
    BY <2>1, <2>3 DEF Honest, RowIsCurrent, RequestIsCurrent, Filed, Idle
<1>4. CASE Drop
  <2>1. cache' = Nothing /\ UNCHANGED <<rows, imported, closed, overrides, rules, request>>
    BY <1>4 DEF Drop, facts
  <2>2. changes' \in 0..MaxChanges
    BY <1>0, <1>4 DEF Drop, Changing, Honest, FactsTyped
  <2>3. FactsTyped'
    BY <2>1, <2>2 DEF Honest, FactsTyped
  <2> QED
    BY <2>1, <2>3 DEF Honest, RowIsCurrent, RequestIsCurrent, Filed
<1> QED
  BY <1>1, <1>2, <1>3, <1>4

-----------------------------------------------------------------------------
\* A step of reader r that leaves the facts and the cache alone is as good as
\* the request it leaves behind.
LEMMA HonestBecomes ==
  ASSUME Honest, NEW r \in Readers, NEW q, Becomes(r, q),
         UNCHANGED <<facts, cache, changes>>, RequestIsCurrent(q)
  PROVE  Honest'
<1>1. request' = [request EXCEPT ![r] = q]
  BY DEF Becomes
<1>2. /\ DOMAIN request' = Readers
      /\ \A s \in Readers : request'[s] = IF s = r THEN q ELSE request[s]
  BY <1>1 DEF Honest
<1>3. UNCHANGED <<rows, imported, closed, overrides, rules, cache, changes>>
  BY DEF facts
<1>4. FactsTyped' /\ RowIsCurrent' /\ (imported => closed)'
  BY <1>3 DEF Honest, FactsTyped, RowIsCurrent, Filed
<1>5. ASSUME NEW s \in Readers PROVE RequestIsCurrent(request[s])'
  BY <1>2, <1>3 DEF Honest, RequestIsCurrent, Filed
<1> QED
  BY <1>2, <1>4, <1>5 DEF Honest

LEMMA HonestReads ==
  ASSUME Honest, NEW r \in Readers,
         ReadRow(r) \/ ReadRevision(r) \/ ReadOverrides(r)
  PROVE  Honest'
<1>0. RequestIsCurrent(request[r])
  BY DEF Honest
<1>1. CASE ReadRow(r)
  <2>1. RequestIsCurrent([stage |-> "row", closed |-> closed])
    BY DEF RequestIsCurrent, Stages
  <2> QED
    BY <1>1, <2>1, HonestBecomes DEF ReadRow
<1>2. CASE ReadRevision(r)
  <2>1. Revision(rows).count = Len(rows) /\ Len(rows) \in Nat
    BY LenProperties DEF Revision, Honest, FactsTyped
  <2>2. RequestIsCurrent([stage |-> "revision", closed |-> request[r].closed,
                          revision |-> Revision(rows)])
    BY <1>0, <1>2, <2>1 DEF ReadRevision, RequestIsCurrent, Stages
  <2> QED
    BY <1>2, <2>2, HonestBecomes DEF ReadRevision
<1>3. CASE ReadOverrides(r)
  <2>1. RequestIsCurrent([stage |-> "overrides", closed |-> request[r].closed,
                          key |-> Key(request[r].revision, overrides),
                          overrides |-> overrides])
    BY <1>0, <1>3 DEF ReadOverrides, RequestIsCurrent, Stages, Key
  <2> QED
    BY <1>3, <2>1, HonestBecomes DEF ReadOverrides
<1> QED
  BY <1>1, <1>2, <1>3

\* A hit answers and is done; a miss goes on to load.
LEMMA HonestReadCache ==
  ASSUME Honest, NEW r \in Readers, ReadCache(r)
  PROVE  Honest'
<1>1. RequestIsCurrent(request[r]) /\ request[r].stage = "overrides"
  BY DEF Honest, ReadCache
<1>2. CASE Hit(r)
  <2>1. RequestIsCurrent([stage |-> "done", answer |-> cache.view])
    BY DEF RequestIsCurrent, Stages
  <2> QED
    BY <1>2, <2>1, HonestBecomes DEF ReadCache
<1>3. CASE ~Hit(r)
  <2>1. RequestIsCurrent([stage |-> "load", closed |-> request[r].closed,
                          key |-> request[r].key, overrides |-> request[r].overrides])
    BY <1>1 DEF RequestIsCurrent, Stages
  <2> QED
    BY <1>3, <2>1, HonestBecomes DEF ReadCache
<1> QED
  BY <1>2, <1>3

\* The view is of the readings as they are now, which the key may be behind.
LEMMA HonestLoad ==
  ASSUME Honest, NEW r \in Readers, Load(r)
  PROVE  Honest'
<1> DEFINE view == Derive(rules, rows, request[r].overrides)
<1>1. RequestIsCurrent(request[r]) /\ request[r].stage = "load"
  BY DEF Honest, Load
<1>2. CASE request[r].closed
  <2>1. RequestIsCurrent([stage |-> "write", key |-> request[r].key, view |-> view])
    BY <1>1, <1>2 DEF RequestIsCurrent, Filed, Stages
  <2> QED
    BY <1>2, <2>1, HonestBecomes DEF Load
<1>3. CASE ~request[r].closed
  <2>1. RequestIsCurrent([stage |-> "done", answer |-> view])
    BY DEF RequestIsCurrent, Stages
  <2> QED
    BY <1>3, <2>1, HonestBecomes DEF Load
<1> QED
  BY <1>2, <1>3

LEMMA HonestWrite ==
  ASSUME Honest, NEW r \in Readers, Write(r)
  PROVE  Honest'
<1> DEFINE answered == [stage |-> "done", answer |-> request[r].view]
<1>1. closed /\ Filed(request[r].key, rules, request[r].view)
  BY DEF Honest, RequestIsCurrent, Write
<1>2. /\ DOMAIN request' = Readers
      /\ \A s \in Readers : request'[s] = IF s = r THEN answered ELSE request[s]
  BY DEF Honest, Write, Becomes
<1>3. UNCHANGED <<rows, imported, closed, overrides, rules, changes>>
  BY DEF Write, facts
<1>4. cache' = [rules |-> rules, key |-> request[r].key, view |-> request[r].view]
  BY DEF Write
<1>5. FactsTyped'
  BY <1>3 DEF Honest, FactsTyped
<1>6. RowIsCurrent'
  BY <1>1, <1>3, <1>4 DEF Honest, FactsTyped, RowIsCurrent, Filed
<1>7. RequestIsCurrent(answered)
  BY DEF RequestIsCurrent, Stages
<1>8. ASSUME NEW s \in Readers PROVE RequestIsCurrent(request[s])'
  BY <1>2, <1>3, <1>7 DEF Honest, RequestIsCurrent, Filed
<1> QED
  BY <1>2, <1>3, <1>5, <1>6, <1>8 DEF Honest

-----------------------------------------------------------------------------
LEMMA HonestNext == Honest /\ [Next]_vars => Honest'
<1> SUFFICES ASSUME Honest, [Next]_vars
             PROVE  Honest'
  OBVIOUS
<1>1. CASE Ingest \/ Import
  BY <1>1, HonestAdded DEF Ingest, Import
<1>2. CASE CloseMatch \/ SetOverride \/ Restart \/ Drop
  BY <1>2, HonestFacts
<1>3. CASE \E r \in Readers : ReadRow(r) \/ ReadRevision(r) \/ ReadOverrides(r)
  BY <1>3, HonestReads
<1>4. CASE \E r \in Readers : ReadCache(r)
  BY <1>4, HonestReadCache
<1>5. CASE \E r \in Readers : Load(r)
  BY <1>5, HonestLoad
<1>6. CASE \E r \in Readers : Write(r)
  BY <1>6, HonestWrite
<1>7. CASE UNCHANGED vars
  BY <1>7 DEF vars, facts, Honest, FactsTyped, RowIsCurrent, RequestIsCurrent, Filed
<1> QED
  BY <1>1, <1>2, <1>3, <1>4, <1>5, <1>6, <1>7 DEF Next

LEMMA HonestAlways == Spec => []Honest
  BY HonestInit, HonestNext, PTL DEF Spec

LEMMA HonestImplies == Honest => TypeOK /\ CacheIsHonest
<1> SUFFICES ASSUME Honest PROVE TypeOK /\ CacheIsHonest
  OBVIOUS
<1>1. TypeOK
  BY DEF Honest, FactsTyped, RowIsCurrent, RequestIsCurrent, TypeOK
<1>2. CacheIsHonest
  BY DEF Honest, RowIsCurrent, Filed, CacheIsHonest, Key, Revision
<1> QED
  BY <1>1, <1>2

\* Every variable keeps its type, and a cached row is of a closed match.
THEOREM TypeCorrect == Spec => []TypeOK
  BY HonestAlways, HonestImplies, PTL

\* "No way to be stale without being detected": whenever the rules, the
\* readings' revision and the corrections are those a cached row is filed
\* under, the row is what would be derived now.
THEOREM CacheHonesty == Spec => []CacheIsHonest
  BY HonestAlways, HonestImplies, PTL

-----------------------------------------------------------------------------
(* What an answer may be of.  A hit takes a view that somebody else loaded, *)
(* of more readings perhaps than its key says: the numbers of readings that *)
(* the match has had since a request read its revision are all among those  *)
(* it saw, so that whatever the view was loaded from, the request has seen. *)

\* The view was derived from the readings at some moment after the key's.
Loaded(key, by, view, counts) ==
  \E n \in counts :
    /\ key.revision.count <= n /\ n <= Len(rows)
    /\ view = Derive(by, SubSeq(rows, 1, n), key.overrides)

RowWasLoaded == cache # Nothing => Loaded(cache.key, cache.rules, cache.view, 0..Len(rows))

Witnessed(q, noted) ==
  /\ noted.counts \subseteq 0..Len(rows)
  /\ q.stage \notin {"idle", "done"} =>
       Len(rows) \in noted.counts /\ overrides \in noted.overrides
  /\ q.stage = "revision" => q.revision.count..Len(rows) \subseteq noted.counts
  /\ q.stage \in {"overrides", "load"} =>
       /\ q.key.revision.count..Len(rows) \subseteq noted.counts
       /\ q.overrides \in noted.overrides
  /\ q.stage = "write" =>
       /\ Loaded(q.key, rules, q.view, noted.counts)
       /\ q.key.overrides \in noted.overrides
  /\ q.stage = "done" =>
       \E n \in noted.counts, o \in noted.overrides :
         q.answer = Derive(rules, SubSeq(rows, 1, n), o)

Current ==
  /\ DOMAIN seen = Readers
  /\ RowWasLoaded
  /\ \A r \in Readers : Witnessed(request[r], seen[r])

LEMMA CurrentInit == Init => Current
  BY DEF Init, Current, RowWasLoaded, Witnessed, Idle

LEMMA PrefixOfAppend ==
  ASSUME NEW S, NEW s \in Seq(S), NEW x \in S, NEW n \in 0..Len(s)
  PROVE  SubSeq(Append(s, x), 1, n) = SubSeq(s, 1, n)
<1>1. Append(s, x) \in Seq(S) /\ Len(Append(s, x)) = Len(s) + 1
  BY AppendProperties
<1>2. \A i \in 1..Len(s) : Append(s, x)[i] = s[i]
  BY AppendProperties
<1> QED
  BY <1>1, <1>2, SubSeqProperties

\* One reading more, which whoever is asking notes; what was derived from the
\* readings up to some number still is.
LEMMA CurrentAdded ==
  ASSUME Honest, Current, Added
  PROVE  Current'
<1>1. PICK x \in Reading : rows' = Append(rows, x)
  BY AddedReading
<1>2. UNCHANGED <<overrides, rules, cache, request>> /\ Noted
  BY DEF Added
<1>3. rows \in Seq(Reading) /\ Len(rows) \in Nat /\ Len(rows') = Len(rows) + 1
  <2>1. rows \in Seq(Reading)
    BY DEF Honest, FactsTyped
  <2> QED
    BY <1>1, <2>1, AppendProperties, LenProperties
<1>4. \A n \in 0..Len(rows) : SubSeq(rows', 1, n) = SubSeq(rows, 1, n)
  BY <1>1, <1>3, PrefixOfAppend
<1>5. \A r \in Readers :
        seen'[r] = IF Asking(r)
                   THEN [counts |-> seen[r].counts \cup {Len(rows')},
                         overrides |-> seen[r].overrides \cup {overrides'}]
                   ELSE seen[r]
  BY <1>2 DEF Noted
<1>6. \A r \in Readers : Witnessed(request[r], seen[r])
  BY DEF Current
<1>7. RowWasLoaded'
  <2> SUFFICES ASSUME cache # Nothing
               PROVE  Loaded(cache.key, cache.rules, cache.view, 0..Len(rows))'
    BY <1>2 DEF RowWasLoaded
  <2>1. PICK n \in 0..Len(rows) :
          /\ cache.key.revision.count <= n
          /\ cache.view = Derive(cache.rules, SubSeq(rows, 1, n), cache.key.overrides)
    BY DEF Current, RowWasLoaded, Loaded
  <2>2. n \in 0..Len(rows') /\ n <= Len(rows')
    BY <1>3
  <2> QED
    BY <1>2, <1>4, <2>1, <2>2 DEF Loaded
<1>8. ASSUME NEW r \in Readers PROVE Witnessed(request[r], seen[r])'
  <2>0. PICK q, noted, more : q = request[r] /\ noted = seen[r] /\ more = seen'[r]
    OBVIOUS
  <2>1. Witnessed(q, noted) /\ RequestIsCurrent(q) /\ request'[r] = q
    BY <1>2, <1>6, <2>0 DEF Honest
  <2>2. more = IF q.stage \notin {"idle", "done"}
               THEN [counts |-> noted.counts \cup {Len(rows')},
                     overrides |-> noted.overrides \cup {overrides'}]
               ELSE noted
    BY <1>5, <2>0 DEF Asking
  <2>3. /\ noted.counts \subseteq more.counts /\ noted.overrides \subseteq more.overrides
        /\ more.counts \subseteq noted.counts \cup {Len(rows')}
        /\ q.stage \notin {"idle", "done"} =>
             Len(rows') \in more.counts /\ overrides' \in more.overrides
    BY <2>2
  <2>4. more.counts \subseteq 0..Len(rows')
    BY <1>3, <2>1, <2>3 DEF Witnessed
  <2>5. ASSUME NEW c \in Nat, c..Len(rows) \subseteq noted.counts, q.stage \notin {"idle", "done"}
        PROVE  c..Len(rows') \subseteq more.counts
    <3>1. \A n \in c..Len(rows') : n \in c..Len(rows) \/ n = Len(rows')
      BY <1>3
    <3> QED
      BY <2>3, <2>5, <3>1
  <2>6. CASE q.stage \in {"idle", "row"}
    BY <2>0, <2>1, <2>3, <2>4, <2>6 DEF Witnessed
  <2>7. CASE q.stage = "revision"
    <3>1. q.revision.count..Len(rows') \subseteq more.counts
      BY <2>1, <2>5, <2>7 DEF Witnessed, RequestIsCurrent
    <3> QED
      BY <2>0, <2>1, <2>3, <2>4, <2>7, <3>1 DEF Witnessed
  <2>8. CASE q.stage \in {"overrides", "load"}
    <3>1. q.key.revision.count..Len(rows') \subseteq more.counts
      BY <2>1, <2>5, <2>8 DEF Witnessed, RequestIsCurrent
    <3>2. q.overrides \in more.overrides
      BY <2>1, <2>3, <2>8 DEF Witnessed
    <3> QED
      BY <2>0, <2>1, <2>3, <2>4, <2>8, <3>1, <3>2 DEF Witnessed
  <2>9. CASE q.stage = "write"
    <3>1. PICK n \in noted.counts :
            /\ q.key.revision.count <= n /\ n <= Len(rows)
            /\ q.view = Derive(rules, SubSeq(rows, 1, n), q.key.overrides)
      BY <2>1, <2>9 DEF Witnessed, Loaded
    <3>2. n \in 0..Len(rows) /\ n \in more.counts /\ n <= Len(rows')
      BY <1>3, <2>1, <2>3, <3>1 DEF Witnessed
    <3>3. q.view = Derive(rules', SubSeq(rows', 1, n), q.key.overrides)
      BY <1>2, <1>4, <3>1, <3>2
    <3>4. q.key.overrides \in more.overrides
      BY <2>1, <2>3, <2>9 DEF Witnessed
    <3> QED
      BY <2>0, <2>1, <2>3, <2>4, <2>9, <3>1, <3>2, <3>3, <3>4 DEF Witnessed, Loaded
  <2>10. CASE q.stage = "done"
    <3>1. PICK n \in noted.counts, o \in noted.overrides :
            q.answer = Derive(rules, SubSeq(rows, 1, n), o)
      BY <2>1, <2>10 DEF Witnessed
    <3>2. n \in 0..Len(rows) /\ n \in more.counts /\ o \in more.overrides
      BY <2>1, <2>3, <3>1 DEF Witnessed
    <3>3. q.answer = Derive(rules', SubSeq(rows', 1, n), o)
      BY <1>2, <1>4, <3>1, <3>2
    <3> QED
      BY <2>0, <2>1, <2>4, <2>10, <3>2, <3>3 DEF Witnessed
  <2> QED
    BY <2>1, <2>6, <2>7, <2>8, <2>9, <2>10 DEF RequestIsCurrent, Idle, Stages
<1>9. DOMAIN seen' = Readers
  BY <1>2 DEF Noted
<1> QED
  BY <1>2, <1>7, <1>8, <1>9 DEF Current

\* The other steps of the facts and of the server.
LEMMA CurrentFacts ==
  ASSUME Honest, Current, CloseMatch \/ SetOverride \/ Restart \/ Drop
  PROVE  Current'
<1>0. Len(rows) \in Nat
  BY LenProperties DEF Honest, FactsTyped
<1>1. CASE CloseMatch
  BY <1>1 DEF CloseMatch, Current, RowWasLoaded, Witnessed, Loaded
<1>2. CASE SetOverride
  <2>1. UNCHANGED <<rows, rules, cache, request>> /\ Noted
    BY <1>2 DEF SetOverride
  <2>2. \A r \in Readers :
          seen'[r] = IF Asking(r)
                     THEN [counts |-> seen[r].counts \cup {Len(rows)},
                           overrides |-> seen[r].overrides \cup {overrides'}]
                     ELSE seen[r]
    BY <2>1 DEF Noted
  <2>3. RowWasLoaded'
    BY <2>1 DEF Current, RowWasLoaded, Loaded
  <2>4. ASSUME NEW r \in Readers PROVE Witnessed(request[r], seen[r])'
    <3>1. Witnessed(request[r], seen[r])
      BY DEF Current
    <3>2. /\ seen'[r].counts = seen[r].counts
          /\ seen[r].overrides \subseteq seen'[r].overrides
          /\ request[r].stage \notin {"idle", "done"} => overrides' \in seen'[r].overrides
      <4>1. CASE Asking(r)
        <5>1. seen[r].counts \cup {Len(rows)} = seen[r].counts
          BY <3>1, <4>1 DEF Asking, Witnessed
        <5>2. seen'[r] = [counts |-> seen[r].counts,
                          overrides |-> seen[r].overrides \cup {overrides'}]
          BY <2>2, <4>1, <5>1
        <5> QED
          BY <5>2
      <4>2. CASE ~Asking(r)
        BY <2>2, <4>2 DEF Asking
      <4> QED
        BY <4>1, <4>2
    <3> QED
      BY <2>1, <3>1, <3>2 DEF Witnessed, Loaded
  <2>5. DOMAIN seen' = Readers
    BY <2>1 DEF Noted
  <2> QED
    BY <2>1, <2>3, <2>4, <2>5 DEF Current
<1>3. CASE Restart
  <2>1. /\ request' = [r \in Readers |-> Idle]
        /\ seen' = [r \in Readers |-> [counts |-> {}, overrides |-> {}]]
        /\ UNCHANGED <<rows, cache>>
    BY <1>3 DEF Restart
  <2> QED
    BY <2>1 DEF Current, RowWasLoaded, Loaded, Witnessed, Idle
<1>4. CASE Drop
  <2>1. cache' = Nothing /\ UNCHANGED <<rows, overrides, rules, request, seen>>
    BY <1>4 DEF Drop, facts
  <2> QED
    BY <2>1 DEF Current, RowWasLoaded, Loaded, Witnessed
<1> QED
  BY <1>1, <1>2, <1>3, <1>4

\* A step of reader r that leaves the facts, the cache and what was noted alone.
LEMMA CurrentBecomes ==
  ASSUME Honest, Current, NEW r \in Readers, NEW q, Becomes(r, q),
         UNCHANGED <<facts, cache, seen>>, Witnessed(q, seen[r])
  PROVE  Current'
<1>1. \A s \in Readers : request'[s] = IF s = r THEN q ELSE request[s]
  BY DEF Becomes, Honest
<1>2. UNCHANGED <<rows, overrides, rules, cache, seen>>
  BY DEF facts
<1>3. ASSUME NEW s \in Readers PROVE Witnessed(request[s], seen[s])'
  BY <1>1, <1>2 DEF Current, Witnessed, Loaded
<1> QED
  BY <1>2, <1>3 DEF Current, RowWasLoaded, Loaded

LEMMA CurrentReads ==
  ASSUME Honest, Current, NEW r \in Readers,
         ReadRow(r) \/ ReadRevision(r) \/ ReadOverrides(r)
  PROVE  Current'
<1>0. RequestIsCurrent(request[r]) /\ Witnessed(request[r], seen[r]) /\ Len(rows) \in Nat
  BY LenProperties DEF Honest, Current, FactsTyped
<1>1. CASE ReadRow(r)
  <2> DEFINE q == [stage |-> "row", closed |-> closed]
             noted == [counts |-> {Len(rows)}, overrides |-> {overrides}]
  <2>1. UNCHANGED <<rows, overrides, rules, cache>>
    BY <1>1 DEF ReadRow, facts
  <2>2. /\ \A s \in Readers : request'[s] = IF s = r THEN q ELSE request[s]
        /\ \A s \in Readers : seen'[s] = IF s = r THEN noted ELSE seen[s]
        /\ DOMAIN seen' = Readers
    BY <1>1 DEF ReadRow, Becomes, Honest, Current
  <2>3. Witnessed(q, noted)
    BY <1>0 DEF Witnessed
  <2>4. ASSUME NEW s \in Readers PROVE Witnessed(request[s], seen[s])'
    <3>1. Witnessed(request'[s], seen'[s])
      BY <2>2, <2>3 DEF Current
    <3> HIDE DEF q, noted
    <3> QED
      BY <2>1, <3>1 DEF Witnessed, Loaded
  <2> QED
    BY <2>1, <2>2, <2>4 DEF Current, RowWasLoaded, Loaded
<1>2. CASE ReadRevision(r)
  <2>1. Revision(rows).count = Len(rows)
    BY DEF Revision
  <2>2. Len(rows) \in seen[r].counts
    BY <1>0, <1>2 DEF ReadRevision, Witnessed
  <2>3. Len(rows)..Len(rows) \subseteq seen[r].counts
    BY <1>0, <2>2
  <2>4. Witnessed([stage |-> "revision", closed |-> request[r].closed,
                   revision |-> Revision(rows)], seen[r])
    BY <1>0, <1>2, <2>1, <2>2, <2>3 DEF ReadRevision, Witnessed
  <2> QED
    BY <1>2, <2>4, CurrentBecomes DEF ReadRevision
<1>3. CASE ReadOverrides(r)
  <2>1. Witnessed([stage |-> "overrides", closed |-> request[r].closed,
                   key |-> Key(request[r].revision, overrides),
                   overrides |-> overrides], seen[r])
    BY <1>0, <1>3 DEF ReadOverrides, Witnessed, Key
  <2> QED
    BY <1>3, <2>1, CurrentBecomes DEF ReadOverrides
<1> QED
  BY <1>1, <1>2, <1>3

\* A hit: the number of readings of its view is one the request has seen.
LEMMA CurrentReadCache ==
  ASSUME Honest, Current, NEW r \in Readers, ReadCache(r)
  PROVE  Current'
<1>1. /\ RequestIsCurrent(request[r]) /\ Witnessed(request[r], seen[r])
      /\ request[r].stage = "overrides" /\ Len(rows) \in Nat
  BY LenProperties DEF Honest, Current, FactsTyped, ReadCache
<1>2. CASE Hit(r)
  <2>1. PICK n \in 0..Len(rows) :
          /\ request[r].key.revision.count <= n
          /\ cache.view = Derive(rules, SubSeq(rows, 1, n), request[r].key.overrides)
    BY <1>2 DEF Hit, Current, RowWasLoaded, Loaded
  <2>2. request[r].key.overrides \in seen[r].overrides
    BY <1>1 DEF RequestIsCurrent, Witnessed
  <2>3. n \in seen[r].counts
    <3>1. n \in request[r].key.revision.count..Len(rows)
      BY <1>1, <2>1 DEF RequestIsCurrent
    <3> QED
      BY <1>1, <3>1 DEF Witnessed
  <2>4. Witnessed([stage |-> "done", answer |-> cache.view], seen[r])
    BY <1>1, <2>1, <2>2, <2>3 DEF Witnessed
  <2> QED
    BY <1>2, <2>4, CurrentBecomes DEF ReadCache
<1>3. CASE ~Hit(r)
  <2>1. Witnessed([stage |-> "load", closed |-> request[r].closed,
                   key |-> request[r].key, overrides |-> request[r].overrides], seen[r])
    BY <1>1 DEF Witnessed
  <2> QED
    BY <1>3, <2>1, CurrentBecomes DEF ReadCache
<1> QED
  BY <1>2, <1>3

LEMMA CurrentLoad ==
  ASSUME Honest, Current, NEW r \in Readers, Load(r)
  PROVE  Current'
<1> DEFINE view == Derive(rules, rows, request[r].overrides)
<1>1. /\ RequestIsCurrent(request[r]) /\ Witnessed(request[r], seen[r])
      /\ request[r].stage = "load" /\ rows \in Seq(Reading) /\ Len(rows) \in Nat
  BY LenProperties DEF Honest, Current, FactsTyped, Load
<1>2. Len(rows) \in seen[r].counts /\ request[r].overrides \in seen[r].overrides
  BY <1>1 DEF Witnessed
<1>3. view = Derive(rules, SubSeq(rows, 1, Len(rows)), request[r].overrides)
  BY <1>1, SubSeqFull
<1> HIDE DEF view
<1>4. CASE request[r].closed
  <2>1. Loaded(request[r].key, rules, view, seen[r].counts)
    BY <1>1, <1>2, <1>3 DEF Loaded, RequestIsCurrent
  <2>2. Witnessed([stage |-> "write", key |-> request[r].key, view |-> view], seen[r])
    BY <1>1, <1>2, <2>1 DEF Witnessed, RequestIsCurrent
  <2> QED
    BY <1>4, <2>2, CurrentBecomes DEF Load, view
<1>5. CASE ~request[r].closed
  <2>1. Witnessed([stage |-> "done", answer |-> view], seen[r])
    BY <1>1, <1>2, <1>3 DEF Witnessed
  <2> QED
    BY <1>5, <2>1, CurrentBecomes DEF Load, view
<1> QED
  BY <1>4, <1>5

LEMMA CurrentWrite ==
  ASSUME Honest, Current, NEW r \in Readers, Write(r)
  PROVE  Current'
<1> DEFINE q == request[r]
           answered == [stage |-> "done", answer |-> q.view]
<1>1. Witnessed(q, seen[r]) /\ q.stage = "write"
  BY DEF Current, Write
<1>2. \A s \in Readers : request'[s] = IF s = r THEN answered ELSE request[s]
  BY DEF Honest, Write, Becomes
<1>3. UNCHANGED <<rows, overrides, rules, seen>>
  BY DEF Write, facts
<1>4. cache' = [rules |-> rules, key |-> q.key, view |-> q.view]
  BY DEF Write
<1>5. PICK n \in seen[r].counts :
        /\ q.key.revision.count <= n /\ n <= Len(rows)
        /\ q.view = Derive(rules, SubSeq(rows, 1, n), q.key.overrides)
  BY <1>1 DEF Witnessed, Loaded
<1>6. Witnessed(answered, seen[r])
  BY <1>1, <1>5 DEF Witnessed
<1>7. RowWasLoaded'
  <2>1. n \in 0..Len(rows)
    BY <1>1, <1>5 DEF Witnessed
  <2> QED
    BY <1>3, <1>4, <1>5, <2>1 DEF RowWasLoaded, Loaded
<1>8. ASSUME NEW s \in Readers PROVE Witnessed(request[s], seen[s])'
  <2>1. Witnessed(request'[s], seen[s])
    BY <1>2, <1>6 DEF Current
  <2> QED
    BY <1>3, <2>1 DEF Witnessed, Loaded
<1> QED
  BY <1>3, <1>7, <1>8 DEF Current

LEMMA CurrentNext == Honest /\ Current /\ [Next]_vars => Current'
<1> SUFFICES ASSUME Honest, Current, [Next]_vars
             PROVE  Current'
  OBVIOUS
<1>1. CASE Ingest \/ Import
  BY <1>1, CurrentAdded DEF Ingest, Import
<1>2. CASE CloseMatch \/ SetOverride \/ Restart \/ Drop
  BY <1>2, CurrentFacts
<1>3. CASE \E r \in Readers : ReadRow(r) \/ ReadRevision(r) \/ ReadOverrides(r)
  BY <1>3, CurrentReads
<1>4. CASE \E r \in Readers : ReadCache(r)
  BY <1>4, CurrentReadCache
<1>5. CASE \E r \in Readers : Load(r)
  BY <1>5, CurrentLoad
<1>6. CASE \E r \in Readers : Write(r)
  BY <1>6, CurrentWrite
<1>7. CASE UNCHANGED vars
  BY <1>7 DEF vars, facts, Current, RowWasLoaded, Witnessed, Loaded
<1> QED
  BY <1>1, <1>2, <1>3, <1>4, <1>5, <1>6, <1>7 DEF Next

\* An answer, out of the cache or not, is derived from readings and corrections
\* that were the match's while the request was being answered.
THEOREM AnswersCurrency == Spec => []AnswersAreCurrent
<1>1. Current => AnswersAreCurrent
  BY DEF Current, Witnessed, AnswersAreCurrent
<1> QED
  BY <1>1, CurrentInit, CurrentNext, HonestAlways, PTL DEF Spec

-----------------------------------------------------------------------------
(***************************************************************************)
(* The books of a match, for every length of the match, every balance,     *)
(* price and pace.  A life's kit is found by a loop over its readings: what*)
(* it has found after each is Found, by induction on the readings.  The    *)
(* lives follow each other without a gap and each change of the curve      *)
(* belongs to the life of its reading, so that the sums over lives and over*)
(* adjustments telescope to the change of the whole curve.                 *)
(***************************************************************************)

\* Readings whose balances can be any number.
Row == [at : Int, cash : Int, life : Int]

LEMMA RowFields ==
  ASSUME NEW rs \in Seq(Row)
  PROVE  /\ Len(rs) \in Nat /\ DOMAIN rs = 1..Len(rs)
         /\ \A i \in 1..Len(rs) : /\ rs[i] \in Row /\ rs[i].at \in Int
                                  /\ rs[i].cash \in Int /\ rs[i].life \in Int
<1>1. Len(rs) \in Nat /\ DOMAIN rs = 1..Len(rs) /\ \A i \in 1..Len(rs) : rs[i] \in Row
  BY LenProperties, ElementOfSeq
<1> QED
  BY <1>1 DEF Row

LEMMA MinMember ==
  ASSUME NEW S, S \subseteq Nat, S # {}
  PROVE  Min(S) \in S /\ \A y \in S : Min(S) <= y
<1>1. \E m \in S : \A s \in S : m <= s
  BY LeastMember
<1> QED
  BY <1>1, Zenon DEF Min

-----------------------------------------------------------------------------
(* Kits. *)

\* What each reading makes of the purchase.
OneByOne(rs, gap, first, hi, parts) ==
  /\ parts[first] = [at |-> first, open |-> TRUE]
  /\ \A i \in (first + 1)..hi : parts[i] = Part(rs, gap, parts[i - 1], i)

\* Parts goes through the readings one by one.
LEMMA PartsBuilt ==
  ASSUME NEW rs, NEW gap, NEW first \in Int, NEW hi \in Int, first <= hi
  PROVE  OneByOne(rs, gap, first, hi, Parts(rs, gap, first, hi))
<1> DEFINE Step(g, i) == IF i = first THEN [at |-> first, open |-> TRUE]
                         ELSE Part(rs, gap, g[i - 1], i)
<1> DEFINE Eq(g, k) == g = [i \in first..k |-> Step(g, i)]
<1> DEFINE P == {k \in first..hi : \E g : Eq(g, k)}
<1>1. first \in P
  <2>1. PICK g : g = [i \in first..first |-> [at |-> first, open |-> TRUE]]
    OBVIOUS
  <2>2. Eq(g, first)
    BY <2>1
  <2> QED
    BY <2>2
<1>2. ASSUME NEW k \in first..hi, k \in P, k < hi
      PROVE  k + 1 \in P
  <2>1. PICK f : Eq(f, k)
    BY <1>2
  <2>2. PICK x : x = Step(f, k + 1)
    OBVIOUS
  <2>3. PICK g : g = [i \in first..(k + 1) |-> IF i = k + 1 THEN x ELSE f[i]]
    OBVIOUS
  <2>4. ASSUME NEW i \in first..(k + 1) PROVE g[i] = Step(g, i)
    <3>1. CASE i = first
      <4>1. i # k + 1 /\ i \in first..k
        BY <3>1
      <4> QED
        BY <2>1, <2>3, <3>1, <4>1
    <3>2. CASE i # first
      <4>1. i - 1 \in first..k /\ i - 1 \in first..(k + 1) /\ i - 1 # k + 1
        BY <3>2
      <4>2. g[i - 1] = f[i - 1]
        BY <2>3, <4>1
      <4>3. Step(g, i) = Step(f, i)
        BY <3>2, <4>2
      <4>4. CASE i = k + 1
        BY <2>2, <2>3, <4>3, <4>4
      <4>5. CASE i # k + 1
        <5>1. i \in first..k
          BY <4>5
        <5>2. f[i] = Step(f, i)
          BY <2>1, <5>1
        <5> QED
          BY <2>3, <4>3, <4>5, <5>2
      <4> QED
        BY <4>4, <4>5
    <3> QED
      BY <3>1, <3>2
  <2>5. Eq(g, k + 1)
    BY <2>3, <2>4
  <2> QED
    BY <1>2, <2>5
<1>3. hi \in first..hi /\ \A k \in first..hi : k \in P
  <2> HIDE DEF P
  <2> QED
    BY <1>1, <1>2, IntervalInduction
<1>4. \E g : Eq(g, hi)
  BY <1>3
<1>5. PICK g : g = CHOOSE h : Eq(h, hi)
  OBVIOUS
<1>6. Parts(rs, gap, first, hi) = CHOOSE h : Eq(h, hi)
  BY DEF Parts
<1>7. Eq(g, hi)
  <2> HIDE DEF Eq
  <2> QED
    BY <1>4, <1>5, Zenon
<1>8. g[first] = [at |-> first, open |-> TRUE]
  BY <1>7
<1>9. ASSUME NEW i \in (first + 1)..hi PROVE g[i] = Part(rs, gap, g[i - 1], i)
  <2>1. i \in first..hi /\ i # first
    OBVIOUS
  <2>2. g[i] = Step(g, i)
    BY <1>7, <2>1
  <2> QED
    BY <2>1, <2>2
<1>10. g = Parts(rs, gap, first, hi)
  BY <1>5, <1>6, Zenon
<1>11. OneByOne(rs, gap, first, hi, g)
  BY <1>8, <1>9 DEF OneByOne
<1> HIDE DEF Eq, P, Step
<1> QED
  BY <1>10, <1>11, Zenon

\* What one turn of the loop does with a purchase.
Turned(rs, gap, at, open, i, new) ==
  /\ ~open \/ Rose(rs, i) => new = [at |-> at, open |-> FALSE]
  /\ open /\ ~Rose(rs, i) /\ rs[i].cash >= rs[at].cash => new = [at |-> at, open |-> open]
  /\ open /\ ~Rose(rs, i) /\ rs[i].cash < rs[at].cash /\ rs[i].at - rs[at].at > gap =>
       new = [at |-> at, open |-> FALSE]
  /\ open /\ ~Rose(rs, i) /\ rs[i].cash < rs[at].cash /\ rs[i].at - rs[at].at <= gap =>
       new = [at |-> i, open |-> TRUE]

LEMMA PartTurns ==
  ASSUME NEW rs \in Seq(Row), NEW gap \in Int, NEW i \in 2..Len(rs),
         NEW at \in 1..Len(rs), NEW open \in BOOLEAN
  PROVE  Turned(rs, gap, at, open, i, Part(rs, gap, [at |-> at, open |-> open], i))
<1> DEFINE kit == [at |-> at, open |-> open]
<1> DEFINE new == Part(rs, gap, kit, i)
<1>1. /\ rs[i].at \in Int /\ rs[at].at \in Int /\ rs[i].cash \in Int /\ rs[at].cash \in Int
      /\ kit.at = at /\ kit.open = open
  BY RowFields
<1>2. kit = [at |-> at, open |-> open]
  OBVIOUS
<1> HIDE DEF kit
<1>3. ~open \/ Rose(rs, i) => new = [at |-> at, open |-> FALSE]
  BY <1>1 DEF Part
<1>4. open /\ ~Rose(rs, i) /\ rs[i].cash >= rs[at].cash => new = kit
  BY <1>1 DEF Part
<1>5. open /\ ~Rose(rs, i) /\ rs[i].cash < rs[at].cash /\ rs[i].at - rs[at].at > gap =>
        new = [at |-> at, open |-> FALSE]
  BY <1>1 DEF Part
<1>6. open /\ ~Rose(rs, i) /\ rs[i].cash < rs[at].cash /\ rs[i].at - rs[at].at <= gap =>
        new = [at |-> i, open |-> TRUE]
  BY <1>1 DEF Part
<1> HIDE DEF new
<1>7. Turned(rs, gap, at, open, i, new)
  BY <1>2, <1>3, <1>4, <1>5, <1>6, Zenon DEF Turned
<1> QED
  BY <1>7 DEF new, kit

\* Two falls are instalments of one purchase.
JoinedBy(rs, gap, p, q) ==
  /\ rs[q].at - rs[p].at <= gap
  /\ \A i \in (p + 1)..q : ~Rose(rs, i)

\* The fall that comes after position p, if there is one.
NextFall(falls, p) == {q \in falls : q > p /\ \A o \in falls : o <= p \/ q <= o}

\* What the loop has found when it has seen readings first..k: the falls up to
\* the last instalment belong together, nothing has happened since if it still
\* looks for more, and if it does not the next fall does not belong to them.
Found(rs, gap, falls, first, k, at, open) ==
  /\ at \in first..k /\ at \in falls /\ rs[at].cash <= rs[first].cash
  /\ open => /\ \A i \in (first + 1)..k : ~Rose(rs, i)
             /\ \A i \in at..k : rs[i].cash = rs[at].cash
  /\ \A p \in falls : \A q \in NextFall(falls, p) : p < at => JoinedBy(rs, gap, p, q)
  /\ ~open => \A q \in NextFall(falls, at) : ~JoinedBy(rs, gap, at, q)

LEMMA FoundFirst ==
  ASSUME NEW rs \in Seq(Row), NEW gap \in Int, NEW lo \in 1..Len(rs), NEW hi \in lo..Len(rs),
         NEW falls, falls = Falls(rs, lo, hi), falls # {}
  PROVE  /\ Min(falls) \in (lo + 1)..hi
         /\ Found(rs, gap, falls, Min(falls), Min(falls), Min(falls), TRUE)
<1>1. falls \subseteq (lo + 1)..hi /\ falls \subseteq Nat /\ Len(rs) \in Nat
  <2>1. Len(rs) \in Nat
    BY RowFields
  <2> QED
    BY <2>1 DEF Falls
<1>2. Min(falls) \in falls /\ \A y \in falls : Min(falls) <= y
  BY <1>1, MinMember
<1>3. PICK first : first = Min(falls)
  OBVIOUS
<1>4. first \in falls /\ first \in (lo + 1)..hi /\ first \in Nat /\ \A y \in falls : first <= y
  BY <1>1, <1>2, <1>3
<1>5. rs[first].cash \in Int
  BY <1>1, <1>4, RowFields
<1>6. \A p \in falls : ~(p < first)
  BY <1>1, <1>4
<1>7. Found(rs, gap, falls, first, first, first, TRUE)
  BY <1>4, <1>5, <1>6 DEF Found
<1> QED
  BY <1>3, <1>4, <1>7

\* What the next reading makes of it.
FoundNext(rs, gap, falls, first, k, at, open) ==
  \E a, o : /\ o \in BOOLEAN
            /\ Part(rs, gap, [at |-> at, open |-> open], k + 1) = [at |-> a, open |-> o]
            /\ Found(rs, gap, falls, first, k + 1, a, o)
            /\ ~open => a = at /\ ~o
            /\ Rose(rs, k + 1) => a = at /\ ~o

\* The loop keeps that.
LEMMA FoundStep ==
  ASSUME NEW rs \in Seq(Row), NEW gap \in Int, NEW lo \in 1..Len(rs), NEW hi \in lo..Len(rs),
         NEW falls, falls = Falls(rs, lo, hi), NEW first \in (lo + 1)..hi,
         NEW k \in first..hi, k < hi, NEW at, NEW open \in BOOLEAN,
         Found(rs, gap, falls, first, k, at, open)
  PROVE  FoundNext(rs, gap, falls, first, k, at, open)
<1> SUFFICES \E a, o : /\ o \in BOOLEAN
                       /\ Part(rs, gap, [at |-> at, open |-> open], k + 1) = [at |-> a, open |-> o]
                       /\ Found(rs, gap, falls, first, k + 1, a, o)
                       /\ ~open => a = at /\ ~o
                       /\ Rose(rs, k + 1) => a = at /\ ~o
  BY DEF FoundNext
<1> DEFINE i == k + 1
<1>1. /\ Len(rs) \in Nat /\ lo \in Nat /\ hi \in Nat /\ first \in Nat /\ k \in Nat
      /\ hi <= Len(rs) /\ at \in first..k /\ at \in Nat /\ at \in falls
      /\ falls \subseteq (lo + 1)..hi /\ falls \subseteq Nat
      /\ i \in 2..Len(rs) /\ i \in (lo + 1)..hi /\ k \in 1..Len(rs) /\ at \in 1..Len(rs)
  <2>1. Len(rs) \in Nat
    BY RowFields
  <2>2. at \in first..k /\ at \in falls
    BY DEF Found
  <2> QED
    BY <2>1, <2>2 DEF Falls
<1>2. \A j \in 1..Len(rs) : rs[j].cash \in Int /\ rs[j].at \in Int
  BY RowFields
<1>3. rs[at].cash <= rs[first].cash
  BY DEF Found
<1>4. open => /\ \A j \in (first + 1)..k : ~Rose(rs, j)
              /\ \A j \in at..k : rs[j].cash = rs[at].cash
  BY DEF Found
<1>5. \A p \in falls : \A q \in NextFall(falls, p) : p < at => JoinedBy(rs, gap, p, q)
  BY DEF Found
<1>6. ~open => \A q \in NextFall(falls, at) : ~JoinedBy(rs, gap, at, q)
  BY DEF Found
<1>7. open => \A q \in falls : q <= at \/ q > k
  <2> SUFFICES ASSUME open, NEW q \in falls, ~(q <= at \/ q > k) PROVE FALSE
    OBVIOUS
  <2>1. q \in at..k /\ q - 1 \in at..k
    BY <1>1
  <2>2. rs[q].cash = rs[at].cash /\ rs[q - 1].cash = rs[at].cash
    BY <1>4, <2>1
  <2>3. rs[q].cash < rs[q - 1].cash
    BY DEF Falls, Fell
  <2> QED
    BY <1>1, <1>2, <2>2, <2>3
<1>8. PICK new : new = Part(rs, gap, [at |-> at, open |-> open], i)
  OBVIOUS
<1>9. Turned(rs, gap, at, open, i, new)
  <2>1. i \in 2..Len(rs) /\ at \in 1..Len(rs)
    BY <1>1
  <2> HIDE DEF i
  <2>2. Turned(rs, gap, at, open, i, Part(rs, gap, [at |-> at, open |-> open], i))
    BY <2>1, PartTurns, Zenon
  <2> QED
    BY <1>8, <2>2, Zenon
<1> HIDE DEF i
<1>10. i = k + 1
  BY DEF i
<1>11. CASE ~open
  <2>1. new = [at |-> at, open |-> FALSE]
    BY <1>9, <1>11 DEF Turned
  <2>2. Found(rs, gap, falls, first, i, at, FALSE)
    BY <1>1, <1>3, <1>5, <1>6, <1>10, <1>11 DEF Found
  <2> QED
    BY <1>8, <1>10, <1>11, <2>1, <2>2
<1>12. CASE open /\ Rose(rs, i)
  <2>1. new = [at |-> at, open |-> FALSE]
    BY <1>9, <1>12 DEF Turned
  <2>2. ASSUME NEW q \in NextFall(falls, at) PROVE ~JoinedBy(rs, gap, at, q)
    <3>1. q \in falls /\ q > at
      BY DEF NextFall
    <3>2. q > k
      BY <1>1, <1>7, <1>12, <3>1
    <3>3. i \in (at + 1)..q
      BY <1>1, <1>10, <3>1, <3>2
    <3> QED
      BY <1>12, <3>3 DEF JoinedBy
  <2>3. Found(rs, gap, falls, first, i, at, FALSE)
    BY <1>1, <1>3, <1>5, <1>10, <2>2 DEF Found
  <2> QED
    BY <1>8, <1>10, <1>12, <2>1, <2>3
<1>13. CASE open /\ ~Rose(rs, i)
  <2>1. k \in at..k /\ rs[k].cash = rs[at].cash /\ i - 1 = k
    BY <1>1, <1>4, <1>10, <1>13
  <2>2. /\ rs[i].cash \in Int /\ rs[k].cash \in Int /\ rs[at].cash \in Int
        /\ rs[i].at \in Int /\ rs[at].at \in Int /\ rs[first].cash \in Int
    BY <1>1, <1>2
  <2>3. rs[i].cash <= rs[at].cash
    BY <1>13, <2>1, <2>2 DEF Rose
  <2>4. \A j \in (first + 1)..i : ~Rose(rs, j)
    BY <1>1, <1>4, <1>10, <1>13
  <2>5. CASE rs[i].cash >= rs[at].cash
    <3>1. new = [at |-> at, open |-> open]
      BY <1>9, <1>13, <2>5 DEF Turned
    <3>2. rs[i].cash = rs[at].cash
      BY <2>2, <2>3, <2>5
    <3>3. \A j \in at..i : rs[j].cash = rs[at].cash
      BY <1>1, <1>4, <1>10, <1>13, <3>2
    <3>4. Found(rs, gap, falls, first, i, at, open)
      BY <1>1, <1>3, <1>5, <1>10, <1>13, <2>4, <3>3 DEF Found
    <3> QED
      BY <1>8, <1>10, <1>13, <3>1, <3>4
  <2>6. CASE rs[i].cash < rs[at].cash
    <3>1. i \in falls
      BY <1>1, <2>1, <2>6 DEF Falls, Fell
    <3>2. \A q \in NextFall(falls, at) : q = i
      <4> SUFFICES ASSUME NEW q \in NextFall(falls, at) PROVE q = i
        OBVIOUS
      <4>1. q \in falls /\ q > at /\ (i <= at \/ q <= i)
        BY <3>1 DEF NextFall
      <4> QED
        BY <1>1, <1>7, <1>10, <1>13, <4>1
    <3>3. CASE rs[i].at - rs[at].at > gap
      <4>1. new = [at |-> at, open |-> FALSE]
        BY <1>9, <1>13, <2>6, <3>3 DEF Turned
      <4>2. ASSUME NEW q \in NextFall(falls, at) PROVE ~JoinedBy(rs, gap, at, q)
        BY <2>2, <3>2, <3>3 DEF JoinedBy
      <4>3. Found(rs, gap, falls, first, i, at, FALSE)
        BY <1>1, <1>3, <1>5, <1>10, <4>2 DEF Found
      <4> QED
        BY <1>8, <1>10, <1>13, <4>1, <4>3
    <3>4. CASE rs[i].at - rs[at].at <= gap
      <4>1. new = [at |-> i, open |-> TRUE]
        BY <1>9, <1>13, <2>6, <3>4 DEF Turned
      <4>2. ASSUME NEW p \in falls, NEW q \in NextFall(falls, p), p < i
            PROVE  JoinedBy(rs, gap, p, q)
        <5>1. p < at \/ p = at
          BY <1>1, <1>7, <1>10, <1>13, <4>2
        <5>2. CASE p < at
          BY <1>5, <5>2
        <5>3. CASE p = at
          <6>1. q = i
            BY <3>2, <5>3
          <6>2. \A j \in (at + 1)..i : ~Rose(rs, j)
            BY <1>1, <2>4
          <6> QED
            BY <3>4, <5>3, <6>1, <6>2 DEF JoinedBy
        <5> QED
          BY <5>1, <5>2, <5>3
      <4>3. i \in first..i /\ rs[i].cash <= rs[first].cash
        BY <1>1, <1>3, <1>10, <2>2, <2>6
      <4>4. \A j \in i..i : rs[j].cash = rs[i].cash
        BY <1>1, <1>10
      <4>5. Found(rs, gap, falls, first, i, i, TRUE)
        BY <2>4, <3>1, <4>2, <4>3, <4>4 DEF Found
      <4> QED
        BY <1>8, <1>10, <1>13, <4>1, <4>5
    <3>5. rs[i].at - rs[at].at > gap \/ rs[i].at - rs[at].at <= gap
      BY <2>2
    <3> QED
      BY <3>3, <3>4, <3>5, Zenon
  <2>7. rs[i].cash >= rs[at].cash \/ rs[i].cash < rs[at].cash
    BY <2>2
  <2> QED
    BY <2>5, <2>6, <2>7, Zenon
<1> QED
  BY <1>11, <1>12, <1>13

\* What the loop has found after reading k.
FoundAt(rs, gap, falls, first, hi, k) ==
  \E at, open : /\ open \in BOOLEAN
                /\ Parts(rs, gap, first, hi)[k] = [at |-> at, open |-> open]
                /\ Found(rs, gap, falls, first, k, at, open)

\* It holds after every reading.
LEMMA FoundAll ==
  ASSUME NEW rs \in Seq(Row), NEW gap \in Int, NEW lo \in 1..Len(rs), NEW hi \in lo..Len(rs),
         NEW falls, falls = Falls(rs, lo, hi), falls # {}
  PROVE  \A k \in Min(falls)..hi : FoundAt(rs, gap, falls, Min(falls), hi, k)
<1>1. PICK first : first = Min(falls)
  OBVIOUS
<1>2. /\ first \in (lo + 1)..hi
      /\ Found(rs, gap, falls, first, first, first, TRUE)
  BY <1>1, FoundFirst
<1>3. first \in Int /\ hi \in Int /\ lo \in Int /\ first <= hi
  BY <1>2, RowFields
<1>4. PICK parts : parts = Parts(rs, gap, first, hi)
  OBVIOUS
<1>5. /\ parts[first] = [at |-> first, open |-> TRUE]
      /\ \A i \in (first + 1)..hi : parts[i] = Part(rs, gap, parts[i - 1], i)
  <2>1. OneByOne(rs, gap, first, hi, Parts(rs, gap, first, hi))
    BY <1>3, PartsBuilt
  <2> QED
    BY <1>4, <2>1, Zenon DEF OneByOne
<1> DEFINE Good(k) == \E at, open : /\ open \in BOOLEAN
                                    /\ parts[k] = [at |-> at, open |-> open]
                                    /\ Found(rs, gap, falls, first, k, at, open)
<1> DEFINE P == {k \in first..hi : Good(k)}
<1>6. first \in P
  <2>1. Good(first)
    <3>1. TRUE \in BOOLEAN
      OBVIOUS
    <3> QED
      BY <1>2, <1>5, <3>1, Zenon
  <2> HIDE DEF Good
  <2> QED
    BY <1>3, <2>1
<1>7. ASSUME NEW k \in first..hi, k \in P, k < hi
      PROVE  k + 1 \in P
  <2>1. PICK at, open : /\ open \in BOOLEAN
                        /\ parts[k] = [at |-> at, open |-> open]
                        /\ Found(rs, gap, falls, first, k, at, open)
    BY <1>7
  <2>2. PICK a, o : /\ o \in BOOLEAN
                    /\ Part(rs, gap, [at |-> at, open |-> open], k + 1) = [at |-> a, open |-> o]
                    /\ Found(rs, gap, falls, first, k + 1, a, o)
    <3> HIDE DEF P, Good
    <3>1. FoundNext(rs, gap, falls, first, k, at, open)
      BY <1>2, <1>7, <2>1, FoundStep
    <3> QED
      BY <3>1, Zenon DEF FoundNext
  <2>3. k + 1 \in (first + 1)..hi /\ (k + 1) - 1 = k /\ k + 1 \in first..hi
    BY <1>3, <1>7
  <2>4. parts[k + 1] = Part(rs, gap, parts[(k + 1) - 1], k + 1)
    BY <1>5, <2>3
  <2>5. parts[k + 1] = [at |-> a, open |-> o]
    BY <2>1, <2>2, <2>3, <2>4, Zenon
  <2>6. Good(k + 1)
    BY <2>2, <2>5, Zenon
  <2> HIDE DEF Good
  <2> QED
    BY <2>3, <2>6
<1>8. \A k \in first..hi : k \in P
  <2> HIDE DEF P
  <2> QED
    BY <1>3, <1>6, <1>7, IntervalInduction
<1>9. \A k \in first..hi : Good(k)
  <2> HIDE DEF Good
  <2> QED
    BY <1>8
<1> QED
  BY <1>1, <1>4, <1>9, Zenon DEF FoundAt

\* Without a fall nothing was bought; with one, the kit is what the loop found.
LEMMA KitFound ==
  ASSUME NEW rs \in Seq(Row), NEW gap \in Int, NEW lo \in 1..Len(rs), NEW hi \in lo..Len(rs),
         NEW falls, falls = Falls(rs, lo, hi)
  PROVE  /\ falls = {} => DetectKit(rs, gap, lo, hi) = [from |-> None, at |-> None]
         /\ falls # {} => \E at, open :
              /\ open \in BOOLEAN
              /\ Parts(rs, gap, Min(falls), hi)[hi] = [at |-> at, open |-> open]
              /\ DetectKit(rs, gap, lo, hi) = [from |-> Min(falls) - 1, at |-> at]
              /\ Found(rs, gap, falls, Min(falls), hi, at, open)
<1>1. CASE falls = {}
  BY <1>1 DEF DetectKit
<1>2. CASE falls # {}
  <2>1. hi \in Min(falls)..hi
    <3>1. Min(falls) \in (lo + 1)..hi
      BY <1>2, FoundFirst
    <3> QED
      BY <3>1, RowFields
  <2>2. PICK at, open : /\ open \in BOOLEAN
                        /\ Parts(rs, gap, Min(falls), hi)[hi] = [at |-> at, open |-> open]
                        /\ Found(rs, gap, falls, Min(falls), hi, at, open)
    <3>1. FoundAt(rs, gap, falls, Min(falls), hi, hi)
      BY <1>2, <2>1, FoundAll
    <3> QED
      BY <3>1, Zenon DEF FoundAt
  <2>3. DetectKit(rs, gap, lo, hi)
          = [from |-> Min(falls) - 1, at |-> Parts(rs, gap, Min(falls), hi)[hi].at]
    BY <1>2 DEF DetectKit
  <2>4. Parts(rs, gap, Min(falls), hi)[hi].at = at
    <3>1. PICK kit : kit = Parts(rs, gap, Min(falls), hi)[hi]
      OBVIOUS
    <3>2. kit = [at |-> at, open |-> open] => kit.at = at
      OBVIOUS
    <3> QED
      BY <2>2, <3>1, <3>2, Zenon
  <2>5. DetectKit(rs, gap, lo, hi) = [from |-> Min(falls) - 1, at |-> at]
    BY <2>3, <2>4, Zenon
  <2> QED
    BY <1>2, <2>2, <2>5, Zenon
<1> QED
  BY <1>1, <1>2, Zenon

-----------------------------------------------------------------------------
(* Lives. *)

LEMMA StartsTyped ==
  ASSUME NEW rs \in Seq(Row)
  PROVE  /\ Starts(rs) \subseteq 1..Len(rs) /\ Starts(rs) \subseteq Nat /\ Len(rs) \in Nat
         /\ \A s \in Starts(rs) : Before(s) \in 1..s /\ (s > 1 => Before(s) = s - 1)
<1>1. Len(rs) \in Nat /\ DOMAIN rs = 1..Len(rs)
  BY RowFields
<1> QED
  BY <1>1 DEF Starts, Before

\* A life ends with the readings, or where the next begins.
LEMMA LastOfFacts ==
  ASSUME NEW rs \in Seq(Row), NEW s \in Starts(rs)
  PROVE  /\ LastOf(rs, s) \in s..Len(rs)
         /\ \A t \in Starts(rs) : t <= s \/ LastOf(rs, s) < t
         /\ LastOf(rs, s) = Len(rs) \/ LastOf(rs, s) + 1 \in Starts(rs)
<1>1. Starts(rs) \subseteq 1..Len(rs) /\ Len(rs) \in Nat
  BY StartsTyped
<1>2. PICK later : later = {t \in Starts(rs) : t > s}
  OBVIOUS
<1>3. CASE later = {}
  <2>1. LastOf(rs, s) = Len(rs)
    BY <1>2, <1>3 DEF LastOf
  <2> QED
    BY <1>1, <1>2, <1>3, <2>1
<1>4. CASE later # {}
  <2>1. later \subseteq Nat
    BY <1>1, <1>2
  <2>2. Min(later) \in later /\ \A y \in later : Min(later) <= y
    BY <1>4, <2>1, MinMember
  <2>3. LastOf(rs, s) = Min(later) - 1
    BY <1>2, <1>4 DEF LastOf
  <2>4. PICK m : m = Min(later)
    OBVIOUS
  <2>5. m \in Starts(rs) /\ m > s /\ m \in Nat /\ (\A t \in Starts(rs) : t > s => m <= t)
        /\ LastOf(rs, s) = m - 1
    BY <1>1, <1>2, <2>2, <2>3, <2>4
  <2> QED
    BY <1>1, <2>5
<1> QED
  BY <1>3, <1>4

\* Every reading is of a life.
LEMMA LivesCover ==
  ASSUME NEW rs \in Seq(Row)
  PROVE  \A i \in 1..Len(rs) : \E s \in Starts(rs) : s <= i /\ i <= LastOf(rs, s)
<1>1. Starts(rs) \subseteq 1..Len(rs) /\ Len(rs) \in Nat
  BY StartsTyped
<1> DEFINE P == {i \in 1..Len(rs) : \E s \in Starts(rs) : s <= i /\ i <= LastOf(rs, s)}
<1>2. SUFFICES ASSUME Len(rs) # 0 PROVE \A i \in 1..Len(rs) : i \in P
  BY <1>1
<1>3. 1 \in P
  <2>1. 1 \in Starts(rs)
    BY <1>1, <1>2, RowFields DEF Starts
  <2>2. LastOf(rs, 1) \in 1..Len(rs)
    BY <2>1, LastOfFacts
  <2> QED
    BY <1>1, <1>2, <2>1, <2>2
<1>4. ASSUME NEW i \in 1..Len(rs), i \in P, i < Len(rs)
      PROVE  i + 1 \in P
  <2>1. i + 1 \in 1..Len(rs)
    BY <1>1, <1>4
  <2>2. PICK s \in Starts(rs) : s <= i /\ i <= LastOf(rs, s)
    BY <1>4
  <2>3. /\ LastOf(rs, s) \in s..Len(rs) /\ s \in 1..Len(rs)
        /\ LastOf(rs, s) = Len(rs) \/ LastOf(rs, s) + 1 \in Starts(rs)
    BY <1>1, LastOfFacts
  <2>4. CASE LastOf(rs, s) = i
    <3>1. i + 1 \in Starts(rs)
      BY <1>1, <1>4, <2>3, <2>4
    <3>2. LastOf(rs, i + 1) \in (i + 1)..Len(rs)
      BY <3>1, LastOfFacts
    <3> QED
      BY <2>1, <3>1, <3>2
  <2>5. CASE LastOf(rs, s) # i
    <3>1. s <= i + 1 /\ i + 1 <= LastOf(rs, s)
      BY <1>1, <2>2, <2>3, <2>5
    <3> QED
      BY <2>1, <3>1
  <2> QED
    BY <2>4, <2>5
<1>5. 1 \in Int /\ Len(rs) \in Int
  BY <1>1
<1> HIDE DEF P
<1> QED
  BY <1>3, <1>4, <1>5, IntervalInduction

LEMMA LifeOfFields ==
  ASSUME NEW rs, NEW s, NEW last, NEW bought,
         NEW base, base = IF bought.from = None THEN s ELSE bought.from,
         NEW floor, floor = IF bought.at = None THEN s ELSE bought.at,
         NEW l, l = LifeOf(rs, s, last, bought)
  PROVE  /\ l.life = rs[s].life /\ l.first = s /\ l.last = last /\ l.base = base /\ l.floor = floor
         /\ l.kit = rs[base].cash - rs[floor].cash
         /\ l.gained = Trade(rs, floor, last).gained /\ l.other = Trade(rs, floor, last).other
         /\ l.net = l.gained - l.kit - l.other
         /\ l.even = BreakEven(rs, base, floor, last)
BY DEF LifeOf

\* Where a life's kit and its trading are: the baseline and the last instalment
\* are of its own readings, or the baseline is the last of the life before.
Laid(rs, gap, s, l) ==
  /\ l = Life(rs, gap, s)
  /\ l.first = s /\ l.last = LastOf(rs, s)
  /\ l.base \in Before(s)..l.floor /\ l.floor \in s..l.last
  /\ l.kit = rs[l.base].cash - rs[l.floor].cash /\ l.kit >= 0
  /\ l.gained = Trade(rs, l.floor, l.last).gained
  /\ l.other = Trade(rs, l.floor, l.last).other
  /\ l.net = l.gained - l.kit - l.other

\* The kit of a life, if it has bought one.
Bought(rs, gap, s, l) ==
  LET falls == Falls(rs, Before(s), l.last) IN
  /\ falls = {} => l.base = s /\ l.floor = s
  /\ falls # {} => /\ l.base = Min(falls) - 1
                   /\ \E open \in BOOLEAN :
                        /\ Parts(rs, gap, Min(falls), l.last)[l.last] = [at |-> l.floor, open |-> open]
                        /\ Found(rs, gap, falls, Min(falls), l.last, l.floor, open)

LEMMA LifeShape ==
  ASSUME NEW rs \in Seq(Row), NEW gap \in Int, NEW s \in Starts(rs)
  PROVE  Laid(rs, gap, s, Life(rs, gap, s)) /\ Bought(rs, gap, s, Life(rs, gap, s))
<1>1. PICK lo, hi : lo = Before(s) /\ hi = LastOf(rs, s)
  OBVIOUS
<1>2. /\ lo \in 1..Len(rs) /\ hi \in lo..Len(rs) /\ hi \in s..Len(rs) /\ lo \in 1..s
      /\ s \in Nat /\ Len(rs) \in Nat /\ (s > 1 => lo = s - 1) /\ s \in 1..Len(rs)
  BY <1>1, StartsTyped, LastOfFacts
<1>3. PICK bought : bought = DetectKit(rs, gap, lo, hi)
  OBVIOUS
<1>4. PICK l : l = LifeOf(rs, s, hi, bought)
  OBVIOUS
<1>5. l = Life(rs, gap, s)
  BY <1>1, <1>3, <1>4, Zenon DEF Life
<1>6. PICK falls : falls = Falls(rs, lo, hi)
  OBVIOUS
<1>7. /\ falls = {} => bought = [from |-> None, at |-> None]
      /\ falls # {} => \E at, open :
              /\ open \in BOOLEAN
              /\ Parts(rs, gap, Min(falls), hi)[hi] = [at |-> at, open |-> open]
              /\ bought = [from |-> Min(falls) - 1, at |-> at]
              /\ Found(rs, gap, falls, Min(falls), hi, at, open)
  <2>1. /\ falls = {} => DetectKit(rs, gap, lo, hi) = [from |-> None, at |-> None]
        /\ falls # {} => \E at, open :
              /\ open \in BOOLEAN
              /\ Parts(rs, gap, Min(falls), hi)[hi] = [at |-> at, open |-> open]
              /\ DetectKit(rs, gap, lo, hi) = [from |-> Min(falls) - 1, at |-> at]
              /\ Found(rs, gap, falls, Min(falls), hi, at, open)
    BY <1>2, <1>6, KitFound
  <2> QED
    BY <1>3, <2>1, Zenon
<1>8. \A j \in 1..Len(rs) : rs[j].cash \in Int
  BY RowFields
<1>9. CASE falls = {}
  <2>1. bought.from = None /\ bought.at = None
    BY <1>7, <1>9
  <2>2. /\ l.first = s /\ l.last = hi /\ l.base = s /\ l.floor = s
        /\ l.kit = rs[s].cash - rs[s].cash
        /\ l.gained = Trade(rs, s, hi).gained /\ l.other = Trade(rs, s, hi).other
        /\ l.net = l.gained - l.kit - l.other
    BY <1>4, <2>1 DEF LifeOf
  <2>3. rs[s].cash - rs[s].cash = 0
    BY <1>2, <1>8
  <2>4. Laid(rs, gap, s, l)
    BY <1>1, <1>2, <1>5, <2>2, <2>3 DEF Laid
  <2>5. Bought(rs, gap, s, l)
    BY <1>1, <1>6, <1>9, <2>2 DEF Bought
  <2> QED
    BY <1>5, <2>4, <2>5
<1>10. CASE falls # {}
  <2>1. PICK first : first = Min(falls)
    OBVIOUS
  <2>2. PICK at, open :
              /\ open \in BOOLEAN
              /\ Parts(rs, gap, first, hi)[hi] = [at |-> at, open |-> open]
              /\ bought = [from |-> first - 1, at |-> at]
              /\ Found(rs, gap, falls, first, hi, at, open)
    BY <1>7, <1>10, <2>1, Zenon
  <2>3. first \in (lo + 1)..hi
    BY <1>2, <1>6, <1>10, <2>1, FoundFirst
  <2>4. /\ at \in first..hi /\ at \in falls /\ rs[at].cash <= rs[first].cash
    BY <2>2 DEF Found
  <2>5. first \in falls
    <3>1. falls \subseteq Nat
      BY <1>2, <1>6 DEF Falls
    <3> QED
      BY <1>10, <2>1, <3>1, MinMember
  <2>6. rs[first].cash < rs[first - 1].cash
    BY <1>6, <2>5 DEF Falls, Fell
  <2>7. bought.from = first - 1 /\ bought.at = at /\ first - 1 # None /\ at # None
    BY <1>2, <2>2, <2>3, <2>4 DEF None
  <2>8. /\ l.first = s /\ l.last = hi /\ l.base = first - 1 /\ l.floor = at
        /\ l.kit = rs[first - 1].cash - rs[at].cash
        /\ l.gained = Trade(rs, at, hi).gained /\ l.other = Trade(rs, at, hi).other
        /\ l.net = l.gained - l.kit - l.other
    BY <1>4, <2>7 DEF LifeOf
  <2>9. first - 1 \in 1..Len(rs) /\ at \in 1..Len(rs) /\ first \in 1..Len(rs)
    BY <1>2, <2>3, <2>4
  <2>10. rs[first - 1].cash - rs[at].cash >= 0
    BY <1>8, <2>4, <2>6, <2>9
  <2>11. first - 1 \in lo..at /\ at \in s..hi
    BY <1>2, <2>3, <2>4
  <2>12. Laid(rs, gap, s, l)
    BY <1>1, <1>5, <2>8, <2>10, <2>11 DEF Laid
  <2>13. Parts(rs, gap, Min(falls), l.last)[l.last] = [at |-> l.floor, open |-> open]
    BY <2>1, <2>2, <2>8, Zenon
  <2>14. Found(rs, gap, falls, Min(falls), l.last, l.floor, open)
    BY <2>1, <2>2, <2>8, Zenon
  <2>15. l.base = Min(falls) - 1
    BY <2>1, <2>8
  <2>16. falls = Falls(rs, Before(s), l.last)
    BY <1>1, <1>6, <2>8, Zenon
  <2>17. Bought(rs, gap, s, l)
    BY <1>10, <2>2, <2>13, <2>14, <2>15, <2>16, Zenon DEF Bought
  <2> QED
    BY <1>5, <2>12, <2>17
<1> QED
  BY <1>9, <1>10

\* The lives of a match are those of their starts.
LEMMA LivesOf ==
  ASSUME NEW rs \in Seq(Row), NEW gap \in Int
  PROVE  /\ BuildLedger(rs, gap).lives = {Life(rs, gap, s) : s \in Starts(rs)}
         /\ \A l \in BuildLedger(rs, gap).lives :
              l.first \in Starts(rs) /\ Laid(rs, gap, l.first, l) /\ Bought(rs, gap, l.first, l)
<1>1. BuildLedger(rs, gap).lives = {Life(rs, gap, s) : s \in Starts(rs)}
  BY DEF BuildLedger
<1>2. ASSUME NEW l \in BuildLedger(rs, gap).lives
      PROVE  l.first \in Starts(rs) /\ Laid(rs, gap, l.first, l) /\ Bought(rs, gap, l.first, l)
  <2>1. PICK s \in Starts(rs) : l = Life(rs, gap, s)
    BY <1>1
  <2>2. Laid(rs, gap, s, l) /\ Bought(rs, gap, s, l)
    BY <2>1, LifeShape
  <2>3. l.first = s
    BY <2>2 DEF Laid
  <2> QED
    BY <2>2, <2>3
<1> QED
  BY <1>1, <1>2

\* A change belongs to the life that its reading is of, and to no other.
LEMMA OneLifeEach ==
  ASSUME NEW rs \in Seq(Row), NEW i \in 2..Len(rs)
  PROVE  \E s \in Starts(rs) :
           /\ Before(s) < i /\ i <= LastOf(rs, s)
           /\ \A t \in Starts(rs) : Before(t) < i /\ i <= LastOf(rs, t) => t = s
<1>1. /\ Starts(rs) \subseteq 1..Len(rs) /\ Starts(rs) \subseteq Nat /\ Len(rs) \in Nat
      /\ \A s \in Starts(rs) : Before(s) \in 1..s /\ (s > 1 => Before(s) = s - 1)
  BY StartsTyped
<1>2. PICK s \in Starts(rs) : s <= i /\ i <= LastOf(rs, s)
  <2>1. i \in 1..Len(rs)
    BY <1>1
  <2> QED
    BY <2>1, LivesCover
<1>3. s \in Nat /\ Before(s) \in Nat /\ (s > 1 => Before(s) = s - 1) /\ Before(s) <= s /\ s >= 1
  BY <1>1
<1>4. Before(s) < i
  BY <1>2, <1>3
<1>5. ASSUME NEW t \in Starts(rs), Before(t) < i, i <= LastOf(rs, t)
      PROVE  t = s
  <2>1. t \in Nat /\ Before(t) \in Nat /\ t >= 1 /\ (t > 1 => Before(t) = t - 1)
    BY <1>1
  <2>2. /\ s <= t \/ LastOf(rs, t) < s
        /\ t <= s \/ LastOf(rs, s) < t
        /\ LastOf(rs, t) \in Int /\ LastOf(rs, s) \in Int
    <3>1. /\ LastOf(rs, t) \in t..Len(rs) /\ \A r \in Starts(rs) : r <= t \/ LastOf(rs, t) < r
      BY LastOfFacts
    <3>2. /\ LastOf(rs, s) \in s..Len(rs) /\ \A r \in Starts(rs) : r <= s \/ LastOf(rs, s) < r
      BY LastOfFacts
    <3> QED
      BY <3>1, <3>2, <1>3, <2>1, <1>1
  <2> QED
    BY <1>1, <1>2, <1>3, <1>5, <2>1, <2>2
<1> QED
  BY <1>2, <1>4, <1>5

LEMMA OneBucket ==
  ASSUME NEW rs \in Seq(Row), NEW gap \in Int, NEW i \in 2..Len(rs),
         NEW lives, lives = BuildLedger(rs, gap).lives,
         NEW buckets,
         buckets = {<<"kit", l>> : l \in {l \in lives : l.base < i /\ i <= l.floor}}
                   \cup {<<"trade", l>> : l \in {l \in lives : l.floor < i /\ i <= l.last}}
                   \cup {<<"between", l>> : l \in {l \in lives : Before(l.first) < i /\ i <= l.base}}
  PROVE  Cardinality(buckets) = 1
<1>1. PICK s \in Starts(rs) :
           /\ Before(s) < i /\ i <= LastOf(rs, s)
           /\ \A t \in Starts(rs) : Before(t) < i /\ i <= LastOf(rs, t) => t = s
  BY OneLifeEach
<1>2. \A l \in lives : /\ l = Life(rs, gap, l.first) /\ l.first \in Starts(rs)
                       /\ Before(l.first) \in Nat /\ l.base \in Nat /\ l.floor \in Nat /\ l.last \in Nat
                       /\ Before(l.first) <= l.base /\ l.base <= l.floor /\ l.floor <= l.last
                       /\ l.last = LastOf(rs, l.first)
  <2> SUFFICES ASSUME NEW l \in lives
               PROVE  /\ l = Life(rs, gap, l.first) /\ l.first \in Starts(rs)
                      /\ Before(l.first) \in Nat /\ l.base \in Nat /\ l.floor \in Nat /\ l.last \in Nat
                      /\ Before(l.first) <= l.base /\ l.base <= l.floor /\ l.floor <= l.last
                      /\ l.last = LastOf(rs, l.first)
    OBVIOUS
  <2>1. l.first \in Starts(rs) /\ Laid(rs, gap, l.first, l)
    BY LivesOf
  <2>2. /\ l = Life(rs, gap, l.first) /\ l.last = LastOf(rs, l.first)
        /\ l.base \in Before(l.first)..l.floor /\ l.floor \in l.first..l.last
    BY <2>1 DEF Laid
  <2>3. l.first \in Nat /\ Before(l.first) \in 1..l.first /\ Len(rs) \in Nat
    BY <2>1, StartsTyped
  <2>4. LastOf(rs, l.first) \in l.first..Len(rs)
    BY <2>1, LastOfFacts
  <2> QED
    BY <2>1, <2>2, <2>3, <2>4
<1>3. PICK m : m = Life(rs, gap, s)
  OBVIOUS
<1>4. m \in lives /\ m.first = s
  <2>1. m \in lives
    BY <1>3, LivesOf
  <2>2. Laid(rs, gap, s, m)
    BY <1>3, LifeShape
  <2> QED
    BY <2>1, <2>2 DEF Laid
<1>5. \A l \in lives : Before(l.first) < i /\ i <= l.last => l = m
  BY <1>1, <1>2, <1>3
<1>6. \A l \in lives : \/ l.base < i /\ i <= l.floor
                       \/ l.floor < i /\ i <= l.last
                       \/ Before(l.first) < i /\ i <= l.base
                       => l = m
  BY <1>2, <1>5
<1>7. /\ Before(m.first) < i /\ i <= m.last /\ i \in Nat
      /\ Before(m.first) \in Nat /\ m.base \in Nat /\ m.floor \in Nat /\ m.last \in Nat
      /\ Before(m.first) <= m.base /\ m.base <= m.floor /\ m.floor <= m.last
  <2>1. m.last = LastOf(rs, s) /\ Before(m.first) = Before(s) /\ i \in Nat
    BY <1>2, <1>4, StartsTyped
  <2> QED
    BY <1>1, <1>2, <1>4, <2>1
<1>8. PICK tag : tag = IF i <= m.base THEN "between" ELSE IF i <= m.floor THEN "kit" ELSE "trade"
  OBVIOUS
<1>9. buckets = {<<tag, m>>}
  <2>1. CASE i <= m.base
    <3>1. ~(m.base < i) /\ ~(m.floor < i)
      BY <1>7, <2>1
    <3>2. {l \in lives : l.base < i /\ i <= l.floor} = {}
      BY <1>6, <3>1
    <3>3. {l \in lives : l.floor < i /\ i <= l.last} = {}
      BY <1>6, <3>1
    <3>4. {l \in lives : Before(l.first) < i /\ i <= l.base} = {m}
      BY <1>4, <1>6, <1>7, <2>1
    <3> QED
      BY <1>8, <2>1, <3>2, <3>3, <3>4
  <2>2. CASE ~(i <= m.base) /\ i <= m.floor
    <3>1. m.base < i /\ ~(m.floor < i)
      BY <1>7, <2>2
    <3>2. {l \in lives : l.base < i /\ i <= l.floor} = {m}
      BY <1>4, <1>6, <3>1, <2>2
    <3>3. {l \in lives : l.floor < i /\ i <= l.last} = {}
      BY <1>6, <3>1
    <3>4. {l \in lives : Before(l.first) < i /\ i <= l.base} = {}
      BY <1>6, <2>2
    <3> QED
      BY <1>8, <2>2, <3>2, <3>3, <3>4
  <2>3. CASE ~(i <= m.base) /\ ~(i <= m.floor)
    <3>1. m.floor < i
      BY <1>7, <2>3
    <3>2. {l \in lives : l.base < i /\ i <= l.floor} = {}
      BY <1>6, <2>3
    <3>3. {l \in lives : l.floor < i /\ i <= l.last} = {m}
      BY <1>4, <1>6, <1>7, <3>1
    <3>4. {l \in lives : Before(l.first) < i /\ i <= l.base} = {}
      BY <1>6, <2>3
    <3> QED
      BY <1>8, <2>3, <3>2, <3>3, <3>4
  <2> QED
    BY <2>1, <2>2, <2>3
<1> QED
  BY <1>9, FS_Singleton

\* What a life has bought is one purchase.
LEMMA OnePurchase ==
  ASSUME NEW rs \in Seq(Row), NEW gap \in Int, NEW l \in BuildLedger(rs, gap).lives,
         l.kit > 0,
         NEW falls, falls = Falls(rs, Before(l.first), l.last)
  PROVE  /\ Min(falls) = l.base + 1
         /\ l.floor \in falls
         /\ \A p \in falls : \A q \in NextFall(falls, p) :
              /\ p < l.floor => JoinedBy(rs, gap, p, q)
              /\ p = l.floor => ~JoinedBy(rs, gap, p, q)
<1>1. /\ l.first \in Starts(rs) /\ Laid(rs, gap, l.first, l) /\ Bought(rs, gap, l.first, l)
  BY LivesOf
<1>2. /\ l.kit = rs[l.base].cash - rs[l.floor].cash
      /\ l.last = LastOf(rs, l.first)
  BY <1>1 DEF Laid
<1>3. /\ Len(rs) \in Nat /\ Before(l.first) \in 1..l.first /\ l.first \in 1..Len(rs)
      /\ l.last \in l.first..Len(rs)
  BY <1>1, <1>2, StartsTyped, LastOfFacts
<1>4. falls # {}
  <2> SUFFICES ASSUME falls = {} PROVE FALSE
    OBVIOUS
  <2>1. l.base = l.first /\ l.floor = l.first
    BY <1>1 DEF Bought
  <2>2. rs[l.first].cash \in Int
    BY <1>3, RowFields
  <2> QED
    BY <1>2, <2>1, <2>2
<1>5. PICK first : first = Min(falls)
  OBVIOUS
<1>6. /\ l.base = first - 1
      /\ \E open \in BOOLEAN : Found(rs, gap, falls, first, l.last, l.floor, open)
  BY <1>1, <1>4, <1>5, Zenon DEF Bought
<1>7. PICK open \in BOOLEAN : Found(rs, gap, falls, first, l.last, l.floor, open)
  BY <1>6
<1>8. first \in Nat /\ Before(l.first) \in 1..Len(rs) /\ l.last \in Before(l.first)..Len(rs)
      /\ l.floor \in Nat /\ l.floor \in first..l.last
  <2>1. Before(l.first) \in 1..Len(rs) /\ l.last \in Before(l.first)..Len(rs)
    BY <1>3
  <2>2. first \in (Before(l.first) + 1)..l.last
    BY <1>4, <1>5, <2>1, FoundFirst
  <2>3. l.floor \in first..l.last
    BY <1>7 DEF Found
  <2> QED
    BY <1>3, <2>1, <2>2, <2>3
<1>9. Min(falls) = l.base + 1
  BY <1>5, <1>6, <1>8
<1>10. l.floor \in falls
  BY <1>7 DEF Found
<1>11. ASSUME NEW p \in falls, NEW q \in NextFall(falls, p), p < l.floor
       PROVE  JoinedBy(rs, gap, p, q)
  BY <1>7, <1>11 DEF Found
<1>12. ASSUME NEW q \in NextFall(falls, l.floor)
       PROVE  ~JoinedBy(rs, gap, l.floor, q)
  <2>1. CASE ~open
    BY <1>7, <2>1 DEF Found
  <2>2. CASE open
    <3>1. q \in falls /\ q > l.floor
      BY DEF NextFall
    <3>2. q \in (Before(l.first) + 1)..l.last /\ rs[q].cash < rs[q - 1].cash
      BY <3>1 DEF Falls, Fell
    <3>3. q \in l.floor..l.last /\ q - 1 \in l.floor..l.last /\ q \in 1..Len(rs)
      BY <1>3, <1>8, <3>1, <3>2
    <3>4. rs[q].cash = rs[l.floor].cash /\ rs[q - 1].cash = rs[l.floor].cash
      BY <1>7, <2>2, <3>3 DEF Found
    <3>5. rs[q].cash \in Int
      BY <3>3, RowFields
    <3> QED
      BY <3>2, <3>4, <3>5
  <2> QED
    BY <2>1, <2>2
<1>13. ASSUME NEW p \in falls, NEW q \in NextFall(falls, p)
       PROVE  /\ p < l.floor => JoinedBy(rs, gap, p, q)
              /\ p = l.floor => ~JoinedBy(rs, gap, p, q)
  BY <1>11, <1>12
<1> QED
  BY <1>9, <1>10, <1>13

-----------------------------------------------------------------------------
(* A match with one reading less. *)

\* qs is what rs begins with.
Begins(qs, rs) ==
  /\ rs \in Seq(Row) /\ qs \in Seq(Row) /\ Len(qs) <= Len(rs)
  /\ \A i \in 1..Len(qs) : qs[i] = rs[i]

LEMMA BeginsFields ==
  ASSUME NEW qs, NEW rs, Begins(qs, rs)
  PROVE  /\ Len(qs) \in Nat /\ Len(rs) \in Nat /\ Len(qs) <= Len(rs)
         /\ \A i \in 1..Len(qs) : /\ qs[i] = rs[i] /\ rs[i].cash \in Int /\ rs[i].at \in Int
                                  /\ i \in 1..Len(rs)
<1>1. rs \in Seq(Row) /\ qs \in Seq(Row) /\ Len(qs) <= Len(rs)
      /\ \A i \in 1..Len(qs) : qs[i] = rs[i]
  BY DEF Begins
<1>2. Len(qs) \in Nat /\ Len(rs) \in Nat
  BY <1>1, LenProperties
<1>3. \A i \in 1..Len(rs) : rs[i].cash \in Int /\ rs[i].at \in Int
  BY <1>1, RowFields
<1> QED
  BY <1>1, <1>2, <1>3

LEMMA FallsAgree ==
  ASSUME NEW qs, NEW rs, Begins(qs, rs), NEW lo \in 1..Len(qs), NEW hi \in lo..Len(qs)
  PROVE  Falls(qs, lo, hi) = Falls(rs, lo, hi)
<1>1. \A i \in (lo + 1)..hi : i \in 1..Len(qs) /\ i - 1 \in 1..Len(qs)
  BY BeginsFields
<1>2. \A i \in (lo + 1)..hi : qs[i] = rs[i] /\ qs[i - 1] = rs[i - 1]
  BY <1>1, BeginsFields
<1> QED
  BY <1>2 DEF Falls, Fell

\* The loop of detect_kit does not look ahead.
LEMMA PartsAgree ==
  ASSUME NEW qs, NEW rs, Begins(qs, rs), NEW gap, NEW hi \in 1..Len(qs), NEW first \in 2..hi,
         NEW end \in hi..Len(rs)
  PROVE  \A k \in first..hi : Parts(qs, gap, first, hi)[k] = Parts(rs, gap, first, end)[k]
<1>1. /\ Len(qs) \in Nat /\ Len(rs) \in Nat /\ Len(qs) <= Len(rs)
      /\ \A i \in 1..Len(qs) : qs[i] = rs[i]
  BY BeginsFields
<1>2. first \in Int /\ hi \in Int /\ end \in Int /\ first <= hi /\ first <= end
  BY <1>1
<1>3. PICK f : f = Parts(qs, gap, first, hi)
  OBVIOUS
<1>4. PICK g : g = Parts(rs, gap, first, end)
  OBVIOUS
<1>5. /\ f[first] = [at |-> first, open |-> TRUE]
      /\ \A i \in (first + 1)..hi : f[i] = Part(qs, gap, f[i - 1], i)
  <2>1. OneByOne(qs, gap, first, hi, Parts(qs, gap, first, hi))
    BY <1>2, PartsBuilt
  <2> QED
    BY <1>3, <2>1, Zenon DEF OneByOne
<1>6. /\ g[first] = [at |-> first, open |-> TRUE]
      /\ \A i \in (first + 1)..end : g[i] = Part(rs, gap, g[i - 1], i)
  <2>1. OneByOne(rs, gap, first, end, Parts(rs, gap, first, end))
    BY <1>2, PartsBuilt
  <2> QED
    BY <1>4, <2>1, Zenon DEF OneByOne
<1> DEFINE P == {k \in first..hi : f[k] = g[k] /\ f[k].at \in first..k}
<1>7. first \in P
  <2>1. f[first] = g[first] /\ f[first].at = first
    BY <1>5, <1>6
  <2> QED
    BY <1>2, <2>1
<1>8. ASSUME NEW k \in first..hi, k \in P, k < hi
      PROVE  k + 1 \in P
  <2>1. k + 1 \in (first + 1)..hi /\ k + 1 \in (first + 1)..end /\ (k + 1) - 1 = k
        /\ k + 1 \in first..hi /\ k + 1 \in 1..Len(qs) /\ k \in 1..Len(qs)
    BY <1>1, <1>2, <1>8
  <2>2. PICK kit : kit = f[k]
    OBVIOUS
  <2>3. g[k] = kit /\ kit.at \in first..k
    BY <1>8, <2>2
  <2>4. /\ f[k + 1] = Part(qs, gap, f[(k + 1) - 1], k + 1)
        /\ g[k + 1] = Part(rs, gap, g[(k + 1) - 1], k + 1)
    BY <1>5, <1>6, <2>1
  <2>5. f[k + 1] = Part(qs, gap, kit, k + 1) /\ g[k + 1] = Part(rs, gap, kit, k + 1)
    BY <2>1, <2>2, <2>3, <2>4
  <2>6. qs[k + 1] = rs[k + 1] /\ qs[(k + 1) - 1] = rs[(k + 1) - 1] /\ qs[kit.at] = rs[kit.at]
    <3>1. PICK a : a = kit.at
      OBVIOUS
    <3>2. a \in 1..Len(qs)
      BY <1>2, <2>1, <2>3, <3>1
    <3>3. qs[k + 1] = rs[k + 1] /\ qs[k] = rs[k] /\ qs[a] = rs[a]
      BY <1>1, <2>1, <3>2
    <3> QED
      BY <2>1, <3>1, <3>3
  <2>7. Part(qs, gap, kit, k + 1) = Part(rs, gap, kit, k + 1)
    BY <2>6, Zenon DEF Part, Rose
  <2>8. Part(qs, gap, kit, k + 1).at \in {kit.at, k + 1}
    BY DEF Part
  <2>9. f[k + 1] = g[k + 1] /\ f[k + 1].at \in first..(k + 1)
    BY <1>2, <2>1, <2>3, <2>5, <2>7, <2>8
  <2> QED
    BY <2>1, <2>9
<1>9. \A k \in first..hi : k \in P
  <2> HIDE DEF P
  <2> QED
    BY <1>2, <1>7, <1>8, IntervalInduction
<1>10. \A k \in first..hi : f[k] = g[k]
  BY <1>9
<1> QED
  BY <1>3, <1>4, <1>10, Zenon

LEMMA DetectKitAgrees ==
  ASSUME NEW qs, NEW rs, Begins(qs, rs), NEW gap, NEW lo \in 1..Len(qs), NEW hi \in lo..Len(qs)
  PROVE  DetectKit(qs, gap, lo, hi) = DetectKit(rs, gap, lo, hi)
<1>1. PICK falls : falls = Falls(qs, lo, hi)
  OBVIOUS
<1>2. falls = Falls(rs, lo, hi)
  BY <1>1, FallsAgree
<1>3. CASE falls = {}
  BY <1>1, <1>2, <1>3, Zenon DEF DetectKit
<1>4. CASE falls # {}
  <2>1. Len(qs) \in Nat /\ Len(rs) \in Nat /\ Len(qs) <= Len(rs)
    BY BeginsFields
  <2>2. falls \subseteq Nat /\ falls \subseteq (lo + 1)..hi
    BY <1>1, <2>1 DEF Falls
  <2>3. PICK first : first = Min(falls)
    OBVIOUS
  <2>4. first \in 2..hi /\ hi \in 1..Len(qs) /\ hi \in hi..Len(rs) /\ hi \in first..hi
    <3>1. first \in falls
      BY <1>4, <2>2, <2>3, MinMember
    <3>2. first \in (lo + 1)..hi /\ first \in Nat
      BY <2>2, <3>1
    <3> QED
      BY <2>1, <3>2
  <2>5. Parts(qs, gap, first, hi)[hi] = Parts(rs, gap, first, hi)[hi]
    BY <2>4, PartsAgree
  <2> QED
    BY <1>1, <1>2, <1>4, <2>3, <2>5, Zenon DEF DetectKit
<1> QED
  BY <1>3, <1>4

LEMMA TradeAgrees ==
  ASSUME NEW qs, NEW rs, Begins(qs, rs), NEW from \in 1..Len(qs), NEW to \in from..Len(qs)
  PROVE  Trade(qs, from, to) = Trade(rs, from, to)
<1>1. \A i \in (from + 1)..to : i \in 1..Len(qs) /\ i - 1 \in 1..Len(qs)
  BY BeginsFields
<1>2. \A i \in (from + 1)..to : qs[i] = rs[i] /\ qs[i - 1] = rs[i - 1]
  BY <1>1, BeginsFields
<1>3. {i \in (from + 1)..to : Rose(qs, i)} = {i \in (from + 1)..to : Rose(rs, i)}
  BY <1>2 DEF Rose
<1>4. {i \in (from + 1)..to : Fell(qs, i)} = {i \in (from + 1)..to : Fell(rs, i)}
  BY <1>2 DEF Fell
<1>5. [i \in {i \in (from + 1)..to : Rose(qs, i)} |-> Change(qs, i)]
        = [i \in {i \in (from + 1)..to : Rose(rs, i)} |-> Change(rs, i)]
  BY <1>2, <1>3 DEF Change
<1>6. [i \in {i \in (from + 1)..to : Fell(qs, i)} |-> -Change(qs, i)]
        = [i \in {i \in (from + 1)..to : Fell(rs, i)} |-> -Change(rs, i)]
  BY <1>2, <1>4 DEF Change
<1> QED
  BY <1>5, <1>6, Zenon DEF Trade

LEMMA BreakEvenAgrees ==
  ASSUME NEW qs, NEW rs, Begins(qs, rs), NEW base \in 1..Len(qs),
         NEW floor \in 1..Len(qs), NEW last \in floor..Len(qs)
  PROVE  BreakEven(qs, base, floor, last) = BreakEven(rs, base, floor, last)
<1>1. \A i \in (floor + 1)..last : i \in 1..Len(qs)
  BY BeginsFields
<1>2. qs[base] = rs[base] /\ qs[floor] = rs[floor] /\ \A i \in (floor + 1)..last : qs[i] = rs[i]
  BY <1>1, BeginsFields
<1>3. {i \in (floor + 1)..last : qs[i].cash >= qs[base].cash}
        = {i \in (floor + 1)..last : rs[i].cash >= rs[base].cash}
  BY <1>2
<1> QED
  BY <1>2, <1>3, Zenon DEF BreakEven

\* A life that is over does not change with what comes after it.
LEMMA LifeAgrees ==
  ASSUME NEW qs, NEW rs, Begins(qs, rs), NEW gap \in Int, NEW s \in Starts(qs), s \in Starts(rs),
         LastOf(qs, s) = LastOf(rs, s)
  PROVE  Life(qs, gap, s) = Life(rs, gap, s)
<1>0. qs \in Seq(Row) /\ rs \in Seq(Row)
  BY DEF Begins
<1>1. PICK lo, hi : lo = Before(s) /\ hi = LastOf(qs, s)
  OBVIOUS
<1>2. lo \in 1..Len(qs) /\ hi \in lo..Len(qs) /\ hi \in s..Len(qs) /\ s \in 1..Len(qs)
  BY <1>0, <1>1, StartsTyped, LastOfFacts
<1>3. PICK bought : bought = DetectKit(qs, gap, lo, hi)
  OBVIOUS
<1>4. bought = DetectKit(rs, gap, lo, hi)
  BY <1>2, <1>3, DetectKitAgrees
<1>5. PICK l : l = LifeOf(qs, s, hi, bought)
  OBVIOUS
<1>6. PICK m : m = LifeOf(rs, s, hi, bought)
  OBVIOUS
<1>7. l = Life(qs, gap, s) /\ m = Life(rs, gap, s)
  BY <1>1, <1>3, <1>4, <1>5, <1>6, Zenon DEF Life
<1>8. PICK base : base = IF bought.from = None THEN s ELSE bought.from
  OBVIOUS
<1>9. PICK floor : floor = IF bought.at = None THEN s ELSE bought.at
  OBVIOUS
<1>10. l.base = base /\ l.floor = floor /\ l.last = hi
  BY <1>5, <1>8, <1>9, LifeOfFields
<1>11. base \in 1..Len(qs) /\ floor \in 1..Len(qs) /\ hi \in floor..Len(qs)
  <2>1. Laid(qs, gap, s, l)
    BY <1>0, <1>7, LifeShape
  <2>2. base \in lo..floor /\ floor \in s..hi
    BY <1>1, <1>10, <2>1 DEF Laid
  <2>3. Len(qs) \in Nat
    BY BeginsFields
  <2> QED
    BY <1>2, <2>2, <2>3
<1>12. /\ Trade(qs, floor, hi) = Trade(rs, floor, hi)
       /\ BreakEven(qs, base, floor, hi) = BreakEven(rs, base, floor, hi)
       /\ qs[base] = rs[base] /\ qs[floor] = rs[floor] /\ qs[s] = rs[s]
  BY <1>2, <1>11, TradeAgrees, BreakEvenAgrees, BeginsFields
<1>13. l = m
  BY <1>5, <1>6, <1>8, <1>9, <1>12, Zenon DEF LifeOf
<1> QED
  BY <1>7, <1>13

\* What LastOf is, told by what it does.
LEMMA LastOfIs ==
  ASSUME NEW rs \in Seq(Row), NEW s \in Starts(rs), NEW v \in s..Len(rs),
         \A t \in Starts(rs) : t <= s \/ v < t,
         v = Len(rs) \/ v + 1 \in Starts(rs)
  PROVE  LastOf(rs, s) = v
<1>1. /\ LastOf(rs, s) \in s..Len(rs)
      /\ \A t \in Starts(rs) : t <= s \/ LastOf(rs, s) < t
      /\ LastOf(rs, s) = Len(rs) \/ LastOf(rs, s) + 1 \in Starts(rs)
  BY LastOfFacts
<1>2. s \in Nat /\ Len(rs) \in Nat
  BY StartsTyped
<1>3. ~(LastOf(rs, s) < v)
  BY <1>1, <1>2
<1>4. ~(v < LastOf(rs, s))
  BY <1>1, <1>2
<1> QED
  BY <1>1, <1>2, <1>3, <1>4

LEMMA StartsAgree ==
  ASSUME NEW qs, NEW rs, Begins(qs, rs)
  PROVE  Starts(qs) = {s \in Starts(rs) : s <= Len(qs)}
<1>1. /\ Len(qs) \in Nat /\ Len(rs) \in Nat /\ Len(qs) <= Len(rs)
      /\ \A i \in 1..Len(qs) : qs[i] = rs[i]
  BY BeginsFields
<1>2. DOMAIN qs = 1..Len(qs) /\ DOMAIN rs = 1..Len(rs)
  BY LenProperties DEF Begins
<1>3. \A i \in 1..Len(qs) : i = 1 \/ (qs[i - 1] = rs[i - 1] /\ qs[i] = rs[i])
  BY <1>1
<1> QED
  BY <1>1, <1>2, <1>3 DEF Starts

\* A life ends where it did, unless the last one goes on.
LEMMA LastOfAgrees ==
  ASSUME NEW qs, NEW rs, Begins(qs, rs), Len(qs) = Len(rs) - 1, NEW s \in Starts(qs)
  PROVE  /\ s \in Starts(rs)
         /\ \/ LastOf(rs, s) = LastOf(qs, s)
            \/ LastOf(qs, s) = Len(qs) /\ LastOf(rs, s) = Len(rs)
<1>1. /\ Len(qs) \in Nat /\ Len(rs) \in Nat /\ qs \in Seq(Row) /\ rs \in Seq(Row)
      /\ Starts(qs) = {t \in Starts(rs) : t <= Len(qs)}
  BY BeginsFields, StartsAgree DEF Begins
<1>2. s \in Starts(rs) /\ s \in Nat /\ s <= Len(qs)
  BY <1>1, StartsTyped
<1>3. PICK v : v = LastOf(rs, s)
  OBVIOUS
<1>4. /\ v \in s..Len(rs)
      /\ \A t \in Starts(rs) : t <= s \/ v < t
      /\ v = Len(rs) \/ v + 1 \in Starts(rs)
  BY <1>1, <1>2, <1>3, LastOfFacts
<1>5. Starts(rs) \subseteq Nat
  BY <1>1, StartsTyped
<1>6. CASE v = Len(rs)
  <2>1. Len(qs) \in s..Len(qs) /\ \A t \in Starts(qs) : t <= s \/ Len(qs) < t
    BY <1>1, <1>2, <1>4, <1>5, <1>6
  <2>2. LastOf(qs, s) = Len(qs)
    BY <1>1, <2>1, LastOfIs
  <2> QED
    BY <1>2, <1>3, <1>6, <2>2
<1>7. CASE v # Len(rs)
  <2>1. v \in s..Len(qs) /\ (v = Len(qs) \/ v + 1 \in Starts(qs))
        /\ \A t \in Starts(qs) : t <= s \/ v < t
    BY <1>1, <1>2, <1>4, <1>5, <1>7
  <2>2. LastOf(qs, s) = v
    BY <1>1, <2>1, LastOfIs
  <2> QED
    BY <1>2, <1>3, <2>2
<1> QED
  BY <1>6, <1>7

\* Nothing has come in where nothing has risen.
LEMMA NothingGained ==
  ASSUME NEW rs, NEW from, NEW to, \A i \in (from + 1)..to : ~Rose(rs, i)
  PROVE  Trade(rs, from, to).gained = 0
<1>1. {i \in (from + 1)..to : Rose(rs, i)} = {}
  OBVIOUS
<1>2. PICK f : f = [i \in {i \in (from + 1)..to : Rose(rs, i)} |-> Change(rs, i)]
  OBVIOUS
<1>3. DOMAIN f = {}
  BY <1>1, <1>2
<1>4. SumFunction(f) = 0
  BY <1>3, SumEmpty, Zenon DEF SumFunction
<1> QED
  BY <1>2, <1>4 DEF Trade

\* The life that goes on keeps the price of its kit once it has traded.
LEMMA KitStays ==
  ASSUME NEW qs, NEW rs, Begins(qs, rs), Len(qs) = Len(rs) - 1, NEW gap \in Int,
         NEW s \in Starts(qs), s \in Starts(rs),
         LastOf(qs, s) = Len(qs), LastOf(rs, s) = Len(rs),
         NEW l, l = Life(qs, gap, s), NEW k, k = Life(rs, gap, s),
         l.kit > 0, l.gained > 0
  PROVE  k.kit = l.kit
<1>1. /\ Len(qs) \in Nat /\ Len(rs) \in Nat /\ qs \in Seq(Row) /\ rs \in Seq(Row)
      /\ \A i \in 1..Len(qs) : qs[i] = rs[i] /\ rs[i].cash \in Int
  BY BeginsFields DEF Begins
<1>2. Laid(qs, gap, s, l) /\ Bought(qs, gap, s, l) /\ Laid(rs, gap, s, k) /\ Bought(rs, gap, s, k)
  BY <1>1, LifeShape
<1>3. PICK lo, n : lo = Before(s) /\ n = Len(qs)
  OBVIOUS
<1>4. /\ s \in 1..n /\ lo \in 1..s /\ n \in Nat /\ Len(rs) = n + 1
      /\ lo \in 1..Len(qs) /\ n \in lo..Len(qs) /\ lo \in 1..Len(rs) /\ n + 1 \in lo..Len(rs)
      /\ n \in lo..Len(rs)
  BY <1>1, <1>3, StartsTyped
<1>5. /\ l.last = n /\ k.last = n + 1 /\ l.floor \in s..n /\ l.base \in lo..l.floor
      /\ l.kit = qs[l.base].cash - qs[l.floor].cash
      /\ k.kit = rs[k.base].cash - rs[k.floor].cash
      /\ l.gained = Trade(qs, l.floor, n).gained
  BY <1>2, <1>3, <1>4 DEF Laid
<1>6. PICK falls : falls = Falls(qs, lo, n)
  OBVIOUS
<1>7. PICK more : more = Falls(rs, lo, n + 1)
  OBVIOUS
<1>8. falls # {}
  <2> SUFFICES ASSUME falls = {} PROVE FALSE
    OBVIOUS
  <2>1. l.base = s /\ l.floor = s
    BY <1>2, <1>3, <1>5, <1>6 DEF Bought
  <2>2. qs[s].cash \in Int
    BY <1>1, <1>3, <1>4
  <2> QED
    BY <1>5, <2>1, <2>2
<1>9. PICK first : first = Min(falls)
  OBVIOUS
<1>10. falls = Falls(rs, lo, n)
  BY <1>4, <1>6, FallsAgree
<1>11. falls \subseteq (lo + 1)..n /\ falls \subseteq Nat /\ more \subseteq Nat
       /\ falls \subseteq more /\ \A i \in more : i \in falls \/ i = n + 1
  BY <1>4, <1>7, <1>10 DEF Falls
<1>12. first \in falls /\ first \in (lo + 1)..n /\ first \in Nat /\ \A i \in falls : first <= i
  BY <1>8, <1>9, <1>11, MinMember
<1>13. more # {} /\ Min(more) = first
  <2>1. PICK m : m = Min(more)
    OBVIOUS
  <2>2. m \in more /\ \A i \in more : m <= i
    <3>1. more # {}
      BY <1>11, <1>12
    <3> QED
      BY <1>11, <2>1, <3>1, MinMember
  <2>3. m <= first /\ m \in Nat
    BY <1>11, <1>12, <2>2
  <2>4. m \in falls
    BY <1>4, <1>11, <1>12, <2>2, <2>3
  <2> QED
    BY <1>12, <2>1, <2>2, <2>3, <2>4
<1>14. /\ l.base = first - 1
       /\ \E open \in BOOLEAN :
            /\ Parts(qs, gap, first, n)[n] = [at |-> l.floor, open |-> open]
            /\ Found(qs, gap, falls, first, n, l.floor, open)
  <2>1. l.last = n
    BY <1>5
  <2> QED
    BY <1>2, <1>3, <1>6, <1>8, <1>9, <2>1, Zenon DEF Bought
<1>15. PICK open \in BOOLEAN :
            /\ Parts(qs, gap, first, n)[n] = [at |-> l.floor, open |-> open]
            /\ Found(qs, gap, falls, first, n, l.floor, open)
  BY <1>14
<1>16. ~open
  <2> SUFFICES ASSUME open PROVE FALSE
    OBVIOUS
  <2>1. l.floor \in first..n
    BY <1>15 DEF Found
  <2>2. \A i \in (first + 1)..n : ~Rose(qs, i)
    BY <1>15 DEF Found
  <2>3. \A i \in (l.floor + 1)..n : ~Rose(qs, i)
    BY <1>12, <2>1, <2>2
  <2>4. Trade(qs, l.floor, n).gained = 0
    BY <2>3, NothingGained
  <2> QED
    BY <1>5, <2>4
<1>17. PICK parts : parts = Parts(rs, gap, first, n + 1)
  OBVIOUS
<1>18. parts[n] = [at |-> l.floor, open |-> open]
  <2>1. n \in 1..Len(qs) /\ first \in 2..n /\ n + 1 \in n..Len(rs) /\ n \in first..n
    BY <1>3, <1>4, <1>12
  <2>2. Parts(qs, gap, first, n)[n] = Parts(rs, gap, first, n + 1)[n]
    BY <2>1, PartsAgree
  <2> QED
    BY <1>15, <1>17, <2>2, Zenon
<1>19. parts[n + 1] = Part(rs, gap, parts[(n + 1) - 1], n + 1)
  <2>1. first \in Int /\ n + 1 \in Int /\ first <= n + 1 /\ n + 1 \in (first + 1)..(n + 1)
    BY <1>4, <1>12
  <2>2. OneByOne(rs, gap, first, n + 1, Parts(rs, gap, first, n + 1))
    BY <2>1, PartsBuilt
  <2> QED
    BY <1>17, <2>1, <2>2, Zenon DEF OneByOne
<1>20. parts[n + 1] = Part(rs, gap, [at |-> l.floor, open |-> open], n + 1)
  <2>1. (n + 1) - 1 = n
    BY <1>4
  <2> QED
    BY <1>18, <1>19, <2>1, Zenon
<1>21. parts[n + 1] = [at |-> l.floor, open |-> FALSE]
  <2>1. n + 1 \in 2..Len(rs) /\ l.floor \in 1..Len(rs)
    BY <1>4, <1>5
  <2>2. Turned(rs, gap, l.floor, open, n + 1, Part(rs, gap, [at |-> l.floor, open |-> open], n + 1))
    BY <1>1, <2>1, PartTurns, Zenon
  <2> QED
    BY <1>16, <1>20, <2>2, Zenon DEF Turned
<1>22. /\ k.base = first - 1
       /\ \E o \in BOOLEAN : parts[n + 1] = [at |-> k.floor, open |-> o]
  <2>1. k.last = n + 1
    BY <1>5
  <2>2. more = Falls(rs, Before(s), k.last)
    BY <1>3, <1>7, <2>1, Zenon
  <2> QED
    BY <1>2, <1>13, <1>17, <2>1, <2>2, Zenon DEF Bought
<1>23. k.floor = l.floor
  <2>1. \A a, b, o, p : [at |-> a, open |-> o] = [at |-> b, open |-> p] => a = b
    <3> SUFFICES ASSUME NEW a, NEW b, NEW o, NEW p,
                        [at |-> a, open |-> o] = [at |-> b, open |-> p]
                 PROVE  a = b
      OBVIOUS
    <3>1. [at |-> a, open |-> o].at = [at |-> b, open |-> p].at
      BY Zenon
    <3> QED
      BY <3>1
  <2> QED
    BY <1>21, <1>22, <2>1, Zenon
<1>24. l.base \in 1..Len(qs) /\ l.floor \in 1..Len(qs)
  BY <1>3, <1>4, <1>5
<1> QED
  BY <1>1, <1>5, <1>14, <1>22, <1>23, <1>24

\* The readings of one life carry one number.
LEMMA OneNumber ==
  ASSUME NEW rs \in Seq(Row), NEW s \in Starts(rs), NEW i \in s..LastOf(rs, s)
  PROVE  rs[i].life = rs[s].life
<1>1. PICK v : v = LastOf(rs, s)
  OBVIOUS
<1>2. s \in 1..Len(rs) /\ Len(rs) \in Nat /\ Starts(rs) \subseteq Nat
  BY StartsTyped
<1>3. v \in s..Len(rs) /\ \A t \in Starts(rs) : t <= s \/ v < t
  BY <1>1, LastOfFacts
<1> DEFINE P == {j \in s..v : rs[j].life = rs[s].life}
<1>4. s \in P
  BY <1>2, <1>3
<1>5. ASSUME NEW j \in s..v, j \in P, j < v
      PROVE  j + 1 \in P
  <2>1. j + 1 \in s..v /\ j + 1 \in 1..Len(rs) /\ j + 1 # 1 /\ (j + 1) - 1 = j
    BY <1>2, <1>3, <1>5
  <2>2. j + 1 \notin Starts(rs)
    BY <1>2, <1>3, <2>1
  <2>3. j + 1 \in DOMAIN rs
    BY <2>1, RowFields
  <2>4. rs[j + 1].life = rs[j].life
    BY <2>1, <2>2, <2>3 DEF Starts
  <2> QED
    BY <1>5, <2>1, <2>4
<1>6. i \in P
  <2>1. s \in Int /\ v \in Int /\ i \in s..v
    BY <1>1, <1>2, <1>3
  <2> HIDE DEF P
  <2> QED
    BY <1>4, <1>5, <2>1, IntervalInduction
<1> QED
  BY <1>6

LEMMA EarlierStays ==
  ASSUME NEW qs, NEW rs, Begins(qs, rs), Len(qs) = Len(rs) - 1, NEW gap \in Int,
         NEW l \in BuildLedger(qs, gap).lives
  PROVE  \/ l \in BuildLedger(rs, gap).lives
         \/ /\ l.last = Len(rs) - 1 /\ l.life = rs[Len(rs)].life
            /\ \E k \in BuildLedger(rs, gap).lives :
                 k.first = l.first /\ ((l.gained > 0 /\ l.kit > 0) => k.kit = l.kit)
<1>1. qs \in Seq(Row) /\ rs \in Seq(Row)
  BY DEF Begins
<1>2. PICK s \in Starts(qs) : l = Life(qs, gap, s)
  BY <1>1, LivesOf
<1>3. /\ s \in Starts(rs)
      /\ \/ LastOf(rs, s) = LastOf(qs, s)
         \/ LastOf(qs, s) = Len(qs) /\ LastOf(rs, s) = Len(rs)
  BY LastOfAgrees
<1>4. PICK k : k = Life(rs, gap, s)
  OBVIOUS
<1>5. k \in BuildLedger(rs, gap).lives
  BY <1>1, <1>3, <1>4, LivesOf
<1>6. CASE LastOf(rs, s) = LastOf(qs, s)
  BY <1>2, <1>3, <1>4, <1>5, <1>6, LifeAgrees
<1>7. CASE LastOf(qs, s) = Len(qs) /\ LastOf(rs, s) = Len(rs)
  <2>1. Laid(qs, gap, s, l) /\ Laid(rs, gap, s, k)
    BY <1>1, <1>2, <1>3, <1>4, LifeShape
  <2>2. l.first = s /\ k.first = s /\ l.last = Len(rs) - 1
    BY <1>7, <2>1 DEF Laid
  <2>3. (l.gained > 0 /\ l.kit > 0) => k.kit = l.kit
    BY <1>2, <1>3, <1>4, <1>7, KitStays
  <2>4. l.life = rs[Len(rs)].life
    <3>1. s \in 1..Len(qs) /\ Len(qs) \in Nat /\ Len(rs) = Len(qs) + 1 /\ Len(rs) \in 1..Len(rs)
      BY <1>1, <1>2, StartsTyped
    <3>2. Len(rs) \in s..LastOf(rs, s)
      BY <1>7, <3>1
    <3>3. rs[Len(rs)].life = rs[s].life
      BY <1>1, <1>3, <3>2, OneNumber
    <3>4. qs[s] = rs[s]
      BY <3>1 DEF Begins
    <3>5. l.life = qs[s].life
      BY <1>2 DEF Life, LifeOf
    <3> QED
      BY <3>3, <3>4, <3>5
  <2> QED
    BY <1>5, <2>2, <2>3, <2>4
<1> QED
  BY <1>3, <1>6, <1>7

-----------------------------------------------------------------------------
(* The books. *)

\* What came in less what went out is what the balance did.
LEMMA TradeBalance ==
  ASSUME NEW rs \in Seq(Row), NEW from \in 1..Len(rs), NEW to \in from..Len(rs)
  PROVE  /\ Trade(rs, from, to).gained \in Nat /\ Trade(rs, from, to).other \in Nat
         /\ Trade(rs, from, to).gained - Trade(rs, from, to).other = rs[to].cash - rs[from].cash
<1>1. /\ Len(rs) \in Nat
      /\ \A i \in 1..Len(rs) : rs[i].cash \in Int
  BY RowFields
<1> DEFINE R(k) == {i \in (from + 1)..k : Rose(rs, i)}
<1> DEFINE F(k) == {i \in (from + 1)..k : Fell(rs, i)}
<1>2. PICK f : f = [i \in 2..Len(rs) |-> Change(rs, i)]
  OBVIOUS
<1>3. PICK g : g = [i \in 2..Len(rs) |-> -Change(rs, i)]
  OBVIOUS
<1>4. \A i \in 2..Len(rs) : /\ f[i] = rs[i].cash - rs[i - 1].cash /\ f[i] \in Int
                            /\ g[i] = rs[i - 1].cash - rs[i].cash /\ g[i] \in Int
                            /\ rs[i].cash \in Int /\ rs[i - 1].cash \in Int
  <2> SUFFICES ASSUME NEW i \in 2..Len(rs)
               PROVE  /\ f[i] = rs[i].cash - rs[i - 1].cash /\ f[i] \in Int
                      /\ g[i] = rs[i - 1].cash - rs[i].cash /\ g[i] \in Int
                      /\ rs[i].cash \in Int /\ rs[i - 1].cash \in Int
    OBVIOUS
  <2>1. i \in 1..Len(rs) /\ i - 1 \in 1..Len(rs)
    BY <1>1
  <2>2. rs[i].cash \in Int /\ rs[i - 1].cash \in Int
    BY <1>1, <2>1
  <2>3. f[i] = rs[i].cash - rs[i - 1].cash /\ g[i] = -(rs[i].cash - rs[i - 1].cash)
    BY <1>2, <1>3 DEF Change
  <2> QED
    BY <2>2, <2>3
<1>5. \A k \in from..Len(rs) : /\ IsFiniteSet(R(k)) /\ IsFiniteSet(F(k))
                               /\ R(k) \subseteq 2..Len(rs) /\ F(k) \subseteq 2..Len(rs)
  <2> SUFFICES ASSUME NEW k \in from..Len(rs)
               PROVE  /\ IsFiniteSet(R(k)) /\ IsFiniteSet(F(k))
                      /\ R(k) \subseteq 2..Len(rs) /\ F(k) \subseteq 2..Len(rs)
    OBVIOUS
  <2>1. from + 1 \in Int /\ k \in Int
    BY <1>1
  <2>2. IsFiniteSet((from + 1)..k)
    BY <2>1, FS_Interval
  <2>3. R(k) \in SUBSET ((from + 1)..k) /\ F(k) \in SUBSET ((from + 1)..k)
    OBVIOUS
  <2>4. (from + 1)..k \subseteq 2..Len(rs)
    BY <1>1
  <2> HIDE DEF R, F
  <2>5. IsFiniteSet(R(k)) /\ IsFiniteSet(F(k))
    BY <2>2, <2>3, FS_Subset
  <2> QED
    BY <2>3, <2>4, <2>5
<1> DEFINE G(k) == SumFunctionOnSet(f, R(k))
<1> DEFINE O(k) == SumFunctionOnSet(g, F(k))
<1> DEFINE P == {k \in from..Len(rs) : /\ G(k) \in Nat /\ O(k) \in Nat
                                       /\ G(k) - O(k) = rs[k].cash - rs[from].cash}
<1>6. from \in P
  <2>1. R(from) = {} /\ F(from) = {}
    BY <1>1
  <2>2. G(from) = 0 /\ O(from) = 0
    <3> HIDE DEF R, F
    <3> QED
      BY <2>1, SumEmpty
  <2>3. rs[from].cash - rs[from].cash = 0 /\ from \in from..Len(rs)
    BY <1>1
  <2> HIDE DEF G, O
  <2> QED
    BY <2>2, <2>3
<1>7. ASSUME NEW k \in from..Len(rs), k \in P, k < Len(rs)
      PROVE  k + 1 \in P
  <2>1. /\ k + 1 \in 2..Len(rs) /\ (k + 1) - 1 = k /\ k + 1 \in from..Len(rs)
        /\ k + 1 \notin R(k) /\ k + 1 \notin F(k)
        /\ k \in Nat /\ from \in 1..Len(rs)
    BY <1>1, <1>7
  <2>2. G(k) \in Nat /\ O(k) \in Nat /\ G(k) - O(k) = rs[k].cash - rs[from].cash
    BY <1>7
  <2>3. /\ IsFiniteSet(R(k)) /\ \A i \in R(k) : f[i] \in Int
        /\ IsFiniteSet(F(k)) /\ \A i \in F(k) : g[i] \in Int
        /\ f[k + 1] \in Int /\ g[k + 1] \in Int
    <3> HIDE DEF R, F
    <3> QED
      BY <1>4, <1>5, <2>1
  <2>4. /\ f[k + 1] = rs[k + 1].cash - rs[k].cash
        /\ g[k + 1] = rs[k].cash - rs[k + 1].cash
        /\ rs[k + 1].cash \in Int /\ rs[k].cash \in Int /\ rs[from].cash \in Int
    BY <1>1, <1>4, <2>1
  <2>5. CASE Rose(rs, k + 1)
    <3>1. rs[k + 1].cash > rs[k].cash /\ ~Fell(rs, k + 1)
      BY <2>1, <2>4, <2>5 DEF Rose, Fell
    <3>2. R(k + 1) = R(k) \cup {k + 1} /\ F(k + 1) = F(k)
      BY <1>1, <1>7, <2>5, <3>1
    <3> HIDE DEF R, F
    <3>3. SumFunctionOnSet(f, R(k) \cup {k + 1}) = SumFunctionOnSet(f, R(k)) + f[k + 1]
      BY <2>1, <2>3, SumAdd
    <3>4. G(k + 1) = G(k) + f[k + 1] /\ O(k + 1) = O(k)
      BY <3>2, <3>3
    <3> HIDE DEF G, O
    <3>5. G(k + 1) \in Nat /\ O(k + 1) \in Nat
      BY <2>2, <2>4, <3>1, <3>4
    <3>6. G(k + 1) - O(k + 1) = rs[k + 1].cash - rs[from].cash
      <4> HIDE DEF P
      <4>1. PICK a, b, c, d, e : /\ a = G(k) /\ b = O(k) /\ c = rs[k].cash
                                 /\ d = rs[from].cash /\ e = rs[k + 1].cash
        OBVIOUS
      <4>2. /\ a \in Int /\ b \in Int /\ c \in Int /\ d \in Int /\ e \in Int
            /\ a - b = c - d
        BY <2>2, <2>4, <4>1
      <4>3. G(k + 1) - O(k + 1) = (a - b) + (e - c)
        <5>1. G(k + 1) = a + (e - c) /\ O(k + 1) = b
          BY <2>4, <3>4, <4>1
        <5>2. (a + (e - c)) - b = (a - b) + (e - c)
          BY <4>2
        <5> QED
          BY <5>1, <5>2, Zenon
      <4>4. (a - b) + (e - c) = e - d
        BY <4>2
      <4> QED
        BY <4>1, <4>3, <4>4
    <3> QED
      BY <2>1, <3>5, <3>6
  <2>6. CASE Fell(rs, k + 1)
    <3>1. rs[k + 1].cash < rs[k].cash /\ ~Rose(rs, k + 1)
      BY <2>1, <2>4, <2>6 DEF Rose, Fell
    <3>2. F(k + 1) = F(k) \cup {k + 1} /\ R(k + 1) = R(k)
      BY <1>1, <1>7, <2>6, <3>1
    <3> HIDE DEF R, F
    <3>3. SumFunctionOnSet(g, F(k) \cup {k + 1}) = SumFunctionOnSet(g, F(k)) + g[k + 1]
      BY <2>1, <2>3, SumAdd
    <3>4. O(k + 1) = O(k) + g[k + 1] /\ G(k + 1) = G(k)
      BY <3>2, <3>3
    <3> HIDE DEF G, O
    <3>5. G(k + 1) \in Nat /\ O(k + 1) \in Nat
      BY <2>2, <2>4, <3>1, <3>4
    <3>6. G(k + 1) - O(k + 1) = rs[k + 1].cash - rs[from].cash
      <4> HIDE DEF P
      <4>1. PICK a, b, c, d, e : /\ a = G(k) /\ b = O(k) /\ c = rs[k].cash
                                 /\ d = rs[from].cash /\ e = rs[k + 1].cash
        OBVIOUS
      <4>2. /\ a \in Int /\ b \in Int /\ c \in Int /\ d \in Int /\ e \in Int
            /\ a - b = c - d
        BY <2>2, <2>4, <4>1
      <4>3. G(k + 1) - O(k + 1) = (a - b) + (e - c)
        <5>1. g[k + 1] = c - e
          BY <2>4, <4>1
        <5>2. O(k + 1) = b + (c - e) /\ G(k + 1) = a
          BY <3>4, <4>1, <5>1
        <5> QED
          BY <4>2, <5>2
      <4>4. (a - b) + (e - c) = e - d
        BY <4>2
      <4> QED
        BY <4>1, <4>3, <4>4
    <3> QED
      BY <2>1, <3>5, <3>6
  <2>7. CASE ~Rose(rs, k + 1) /\ ~Fell(rs, k + 1)
    <3>1. rs[k + 1].cash = rs[k].cash
      BY <2>1, <2>4, <2>7 DEF Rose, Fell
    <3>2. F(k + 1) = F(k) /\ R(k + 1) = R(k)
      <4>1. \A i \in (from + 1)..(k + 1) : i \in (from + 1)..k \/ i = k + 1
        BY <2>1
      <4>2. \A i \in (from + 1)..k : i \in (from + 1)..(k + 1)
        BY <2>1
      <4> QED
        BY <2>7, <4>1, <4>2
    <3> HIDE DEF R, F
    <3>4. O(k + 1) = O(k) /\ G(k + 1) = G(k)
      BY <3>2
    <3> HIDE DEF G, O
    <3> QED
      BY <2>1, <2>2, <3>1, <3>4
  <2> QED
    BY <2>5, <2>6, <2>7
<1>8. to \in P
  <2>1. from \in Int /\ Len(rs) \in Int
    BY <1>1
  <2> HIDE DEF P
  <2> QED
    BY <1>6, <1>7, <2>1, IntervalInduction
<1>9. G(to) \in Nat /\ O(to) \in Nat /\ G(to) - O(to) = rs[to].cash - rs[from].cash
  BY <1>8
<1>10. Trade(rs, from, to).gained = G(to)
  <2>1. PICK h : h = [i \in R(to) |-> Change(rs, i)]
    OBVIOUS
  <2>2. Trade(rs, from, to).gained = SumFunction(h)
    BY <2>1 DEF Trade
  <2>3. DOMAIN h = R(to) /\ \A i \in R(to) : h[i] = f[i]
    <3>1. R(to) \subseteq 2..Len(rs)
      BY <1>5
    <3> HIDE DEF R
    <3> QED
      BY <1>2, <2>1, <3>1
  <2>4. IsFiniteSet(R(to))
    BY <1>5
  <2> HIDE DEF R
  <2> QED
    BY <2>2, <2>3, <2>4, SumOver
<1>11. Trade(rs, from, to).other = O(to)
  <2>1. PICK h : h = [i \in F(to) |-> -Change(rs, i)]
    OBVIOUS
  <2>2. Trade(rs, from, to).other = SumFunction(h)
    BY <2>1 DEF Trade
  <2>3. DOMAIN h = F(to) /\ \A i \in F(to) : h[i] = g[i]
    <3>1. F(to) \subseteq 2..Len(rs)
      BY <1>5
    <3> HIDE DEF F
    <3> QED
      BY <1>3, <2>1, <3>1
  <2>4. IsFiniteSet(F(to))
    BY <1>5
  <2> HIDE DEF F
  <2> QED
    BY <2>2, <2>3, <2>4, SumOver
<1> HIDE DEF G, O
<1> QED
  BY <1>9, <1>10, <1>11

LEMMA StartsFinite ==
  ASSUME NEW rs \in Seq(Row)
  PROVE  IsFiniteSet(Starts(rs))
<1>1. Starts(rs) \in SUBSET (1..Len(rs)) /\ 1 \in Int /\ Len(rs) \in Int
  BY StartsTyped
<1>2. IsFiniteSet(1..Len(rs))
  BY <1>1, FS_Interval
<1> QED
  BY <1>1, <1>2, FS_Subset

\* Each life begins where the one before ends: what the balance did in all of
\* them together is what it did in the match.
LEMMA StartsSum ==
  ASSUME NEW rs \in Seq(Row), NEW D,
         \A s \in Starts(rs) : D[s] = rs[LastOf(rs, s)].cash - rs[Before(s)].cash
  PROVE  SumFunctionOnSet(D, Starts(rs)) = IF rs = <<>> THEN 0 ELSE rs[Len(rs)].cash - rs[1].cash
<1>1. /\ Starts(rs) \subseteq 1..Len(rs) /\ Starts(rs) \subseteq Nat /\ Len(rs) \in Nat
      /\ \A s \in Starts(rs) : Before(s) \in 1..s /\ (s > 1 => Before(s) = s - 1)
  BY StartsTyped
<1>2. \A s \in Starts(rs) : /\ LastOf(rs, s) \in s..Len(rs)
                            /\ \A t \in Starts(rs) : t <= s \/ LastOf(rs, s) < t
  BY LastOfFacts
<1>3. \A i \in 1..Len(rs) : rs[i].cash \in Int
  BY RowFields
<1>4. \A s \in Starts(rs) : D[s] \in Int
  <2> SUFFICES ASSUME NEW s \in Starts(rs) PROVE D[s] \in Int
    OBVIOUS
  <2>1. LastOf(rs, s) \in 1..Len(rs) /\ Before(s) \in 1..Len(rs)
    BY <1>1, <1>2
  <2> QED
    BY <1>3, <2>1
<1> DEFINE Until(k) == {s \in Starts(rs) : s < k}
<1> DEFINE Z(k) == SumFunctionOnSet(D, Until(k))
<1>5. \A k : Until(k) \subseteq Starts(rs) /\ IsFiniteSet(Until(k))
  <2> SUFFICES ASSUME NEW k PROVE Until(k) \subseteq Starts(rs) /\ IsFiniteSet(Until(k))
    OBVIOUS
  <2>1. Until(k) \in SUBSET Starts(rs)
    OBVIOUS
  <2> HIDE DEF Until
  <2> QED
    BY <2>1, StartsFinite, FS_Subset
<1>6. ASSUME NEW s \in Starts(rs), NEW k \in Nat, k = LastOf(rs, s) + 1,
             Z(s) = rs[Before(s)].cash - rs[1].cash
      PROVE  Z(k) = rs[k - 1].cash - rs[1].cash
  <2>1. Until(k) = Until(s) \cup {s} /\ s \notin Until(s)
    BY <1>1, <1>2, <1>6
  <2>2. \A t \in Until(s) \cup {s} : D[t] \in Int
    BY <1>4
  <2>3. IsFiniteSet(Until(s))
    BY <1>5
  <2> HIDE DEF Until
  <2>4. SumFunctionOnSet(D, Until(s) \cup {s}) = SumFunctionOnSet(D, Until(s)) + D[s]
    BY <2>1, <2>2, <2>3, SumAdd
  <2>5. Z(k) = Z(s) + D[s]
    BY <2>1, <2>4
  <2> HIDE DEF Z
  <2>6. k - 1 = LastOf(rs, s) /\ k - 1 \in 1..Len(rs) /\ Before(s) \in 1..Len(rs) /\ 1 \in 1..Len(rs)
    BY <1>1, <1>2, <1>6
  <2>7. D[s] = rs[k - 1].cash - rs[Before(s)].cash
    BY <2>6
  <2>8. rs[k - 1].cash \in Int /\ rs[Before(s)].cash \in Int /\ rs[1].cash \in Int
    BY <1>3, <2>6
  <2> QED
    BY <1>6, <2>5, <2>7, <2>8
<1>7. \A s \in Starts(rs) : Z(s) = rs[Before(s)].cash - rs[1].cash
  <2> DEFINE B == {s \in Starts(rs) : Z(s) # rs[Before(s)].cash - rs[1].cash}
  <2> SUFFICES ASSUME B # {} PROVE FALSE
    OBVIOUS
  <2>1. PICK m \in B : \A s \in B : m <= s
    <3>1. B \subseteq Nat
      BY <1>1
    <3> HIDE DEF B
    <3> QED
      BY <3>1, LeastMember
  <2>2. m \in Starts(rs) /\ Z(m) # rs[Before(m)].cash - rs[1].cash
    OBVIOUS
  <2>3. CASE m = 1
    <3>1. Until(1) = {} /\ Before(1) = 1 /\ 1 \in 1..Len(rs)
      BY <1>1, <2>2, <2>3
    <3>2. rs[1].cash \in Int
      BY <1>3, <3>1
    <3> HIDE DEF Until, B
    <3>3. Z(1) = 0
      BY <3>1, SumEmpty
    <3> HIDE DEF Z
    <3> QED
      BY <2>2, <2>3, <3>1, <3>2, <3>3
  <2>4. CASE m # 1
    <3>1. m - 1 \in 1..Len(rs) /\ m \in Nat /\ Before(m) = m - 1 /\ m \in 1..Len(rs)
      BY <1>1, <2>2, <2>4
    <3>2. PICK s \in Starts(rs) : s <= m - 1 /\ m - 1 <= LastOf(rs, s)
      BY <3>1, LivesCover
    <3>3. s < m /\ s \in Nat /\ LastOf(rs, s) = m - 1 /\ ~(m <= s)
      BY <1>1, <1>2, <2>2, <3>1, <3>2
    <3>4. Z(s) = rs[Before(s)].cash - rs[1].cash
      <4>1. s \notin B
        <5> HIDE DEF B
        <5> QED
          BY <2>1, <3>3
      <4> QED
        BY <4>1
    <3> HIDE DEF Z, B
    <3>5. m = LastOf(rs, s) + 1
      BY <3>1, <3>3
    <3>6. Z(m) = rs[m - 1].cash - rs[1].cash
      BY <1>6, <3>1, <3>4, <3>5
    <3> QED
      BY <2>2, <3>1, <3>6
  <2> QED
    BY <2>3, <2>4
<1>8. CASE Len(rs) = 0
  <2>1. Starts(rs) = {}
    BY <1>1, <1>8
  <2>2. rs = <<>>
    BY <1>8, EmptySeq
  <2> QED
    BY <2>1, <2>2, SumEmpty
<1>9. CASE Len(rs) # 0
  <2>1. Len(rs) \in 1..Len(rs) /\ rs # <<>>
    BY <1>1, <1>9
  <2>2. PICK s \in Starts(rs) : s <= Len(rs) /\ Len(rs) <= LastOf(rs, s)
    BY <2>1, LivesCover
  <2>3. LastOf(rs, s) = Len(rs) /\ Len(rs) + 1 \in Nat /\ (Len(rs) + 1) - 1 = Len(rs)
        /\ Len(rs) + 1 = LastOf(rs, s) + 1
    BY <1>1, <1>2, <2>2
  <2>4. Until(Len(rs) + 1) = Starts(rs)
    BY <1>1
  <2>5. Z(Len(rs) + 1) = rs[(Len(rs) + 1) - 1].cash - rs[1].cash
    <3> HIDE DEF Z
    <3> QED
      BY <1>6, <1>7, <2>3
  <2>6. SumFunctionOnSet(D, Starts(rs)) = Z(Len(rs) + 1)
    <3> HIDE DEF Until
    <3> QED
      BY <2>4, Zenon
  <2> HIDE DEF Z
  <2> QED
    BY <2>1, <2>3, <2>5, <2>6
<1> QED
  BY <1>8, <1>9

\* A life's net is what the balance did from its baseline on.
LEMMA NetIs ==
  ASSUME NEW rs \in Seq(Row), NEW gap \in Int, NEW l \in BuildLedger(rs, gap).lives
  PROVE  /\ l.net = rs[l.last].cash - rs[l.base].cash
         /\ l.net = l.gained - l.kit - l.other
         /\ l.kit \in Nat /\ l.gained \in Nat /\ l.other \in Nat /\ l.net \in Int
<1>1. l.first \in Starts(rs) /\ Laid(rs, gap, l.first, l)
  BY LivesOf
<1>2. /\ l.last = LastOf(rs, l.first)
      /\ l.base \in Before(l.first)..l.floor /\ l.floor \in l.first..l.last
      /\ l.kit = rs[l.base].cash - rs[l.floor].cash /\ l.kit >= 0
      /\ l.gained = Trade(rs, l.floor, l.last).gained
      /\ l.other = Trade(rs, l.floor, l.last).other
      /\ l.net = l.gained - l.kit - l.other
  BY <1>1 DEF Laid
<1>3. /\ l.first \in 1..Len(rs) /\ Before(l.first) \in 1..l.first /\ Len(rs) \in Nat
      /\ l.last \in l.first..Len(rs)
  BY <1>1, <1>2, StartsTyped, LastOfFacts
<1>4. /\ l.floor \in 1..Len(rs) /\ l.last \in l.floor..Len(rs) /\ l.base \in 1..Len(rs)
      /\ l.last \in 1..Len(rs)
  BY <1>2, <1>3
<1>5. rs[l.base].cash \in Int /\ rs[l.floor].cash \in Int /\ rs[l.last].cash \in Int
  BY <1>4, RowFields
<1>6. /\ Trade(rs, l.floor, l.last).gained \in Nat /\ Trade(rs, l.floor, l.last).other \in Nat
      /\ Trade(rs, l.floor, l.last).gained - Trade(rs, l.floor, l.last).other
           = rs[l.last].cash - rs[l.floor].cash
  BY <1>4, TradeBalance
<1>7. PICK a, b, c, k, g, o : /\ a = rs[l.base].cash /\ b = rs[l.floor].cash /\ c = rs[l.last].cash
                              /\ k = l.kit /\ g = l.gained /\ o = l.other
  OBVIOUS
<1>8. /\ a \in Int /\ b \in Int /\ c \in Int /\ k \in Nat /\ g \in Nat /\ o \in Nat
      /\ k = a - b /\ g - o = c - b
  BY <1>2, <1>5, <1>6, <1>7
<1>9. g - k - o = c - a
  BY <1>8
<1>10. l.net = g - k - o
  BY <1>2, <1>7
<1> QED
  BY <1>2, <1>7, <1>8, <1>9, <1>10

\* The money between a life and the reading before it.
Between(rs, l) == [from |-> Before(l.first), to |-> l.base,
                   amount |-> rs[l.base].cash - rs[Before(l.first)].cash]

\* The lives that have some.
Apart(rs, lives, s) ==
  \E l \in lives : /\ l.first = s /\ Before(s) < l.base
                   /\ rs[l.base].cash - rs[Before(s)].cash # 0

BetweenAll(rs, gap) == [s \in Starts(rs) |-> Between(rs, Life(rs, gap, s))]
ApartStarts(rs, lives) == {s \in Starts(rs) : Apart(rs, lives, s)}

LEMMA AdjustmentsOf ==
  ASSUME NEW rs \in Seq(Row), NEW gap \in Int,
         NEW lives, lives = BuildLedger(rs, gap).lives,
         NEW A, A = BetweenAll(rs, gap),
         NEW T, T = ApartStarts(rs, lives)
  PROVE  /\ BuildLedger(rs, gap).adjustments = {A[s] : s \in T}
         /\ \A s, t \in T : A[s] = A[t] => s = t
         /\ \A s \in Starts(rs) :
              /\ A[s].amount = rs[Life(rs, gap, s).base].cash - rs[Before(s)].cash
              /\ A[s].amount \in Int
              /\ s \in T => A[s].amount # 0
              /\ s \notin T => A[s].amount = 0
<1> USE DEF BetweenAll, ApartStarts
<1>1. /\ Starts(rs) \subseteq 1..Len(rs) /\ Starts(rs) \subseteq Nat /\ Len(rs) \in Nat
      /\ \A s \in Starts(rs) : Before(s) \in 1..s /\ (s > 1 => Before(s) = s - 1)
  BY StartsTyped
<1>2. \A s \in Starts(rs) :
        /\ Life(rs, gap, s).first = s
        /\ Life(rs, gap, s).base \in Before(s)..LastOf(rs, s)
        /\ LastOf(rs, s) \in s..Len(rs)
        /\ \A t \in Starts(rs) : t <= s \/ LastOf(rs, s) < t
  <2> SUFFICES ASSUME NEW s \in Starts(rs)
               PROVE  /\ Life(rs, gap, s).first = s
                      /\ Life(rs, gap, s).base \in Before(s)..LastOf(rs, s)
                      /\ LastOf(rs, s) \in s..Len(rs)
                      /\ \A t \in Starts(rs) : t <= s \/ LastOf(rs, s) < t
    OBVIOUS
  <2>1. PICK l : l = Life(rs, gap, s)
    OBVIOUS
  <2>2. Laid(rs, gap, s, l)
    BY <2>1, LifeShape
  <2>3. /\ LastOf(rs, s) \in s..Len(rs)
        /\ \A t \in Starts(rs) : t <= s \/ LastOf(rs, s) < t
    BY LastOfFacts
  <2>4. l.first = s /\ l.base \in Before(s)..l.floor /\ l.floor \in s..LastOf(rs, s)
    BY <2>2 DEF Laid
  <2> QED
    BY <1>1, <2>1, <2>3, <2>4
<1>3. \A s \in Starts(rs) : /\ A[s].from = Before(s) /\ A[s].to = Life(rs, gap, s).base
                            /\ A[s].amount = rs[Life(rs, gap, s).base].cash - rs[Before(s)].cash
                            /\ A[s] = Between(rs, Life(rs, gap, s))
  BY <1>2 DEF Between
<1>4. lives = {Life(rs, gap, s) : s \in Starts(rs)}
  BY LivesOf
<1>5. \A s \in Starts(rs) :
        s \in T <=> A[s].from < A[s].to /\ A[s].amount # 0
  <2> SUFFICES ASSUME NEW s \in Starts(rs)
               PROVE  Apart(rs, lives, s) <=> A[s].from < A[s].to /\ A[s].amount # 0
    OBVIOUS
  <2>1. Life(rs, gap, s) \in lives /\ \A l \in lives : l.first = s => l = Life(rs, gap, s)
    BY <1>2, <1>4
  <2> QED
    BY <1>2, <1>3, <2>1 DEF Apart
<1>6. \A s \in Starts(rs) : A[s].amount \in Int /\ (s \notin T => A[s].amount = 0)
  <2> SUFFICES ASSUME NEW s \in Starts(rs)
               PROVE  A[s].amount \in Int /\ (s \notin T => A[s].amount = 0)
    OBVIOUS
  <2>1. PICK b : b = Life(rs, gap, s).base
    OBVIOUS
  <2>2. b \in 1..Len(rs) /\ Before(s) \in 1..Len(rs) /\ Before(s) <= b
    BY <1>1, <1>2, <2>1
  <2>3. rs[b].cash \in Int /\ rs[Before(s)].cash \in Int
    BY <2>2, RowFields
  <2>4. A[s].amount = rs[b].cash - rs[Before(s)].cash /\ A[s].from = Before(s) /\ A[s].to = b
    BY <1>3, <2>1
  <2>5. CASE Before(s) = b
    BY <2>3, <2>4, <2>5
  <2>6. CASE Before(s) # b
    <3>1. Before(s) < b
      BY <2>2, <2>6
    <3> QED
      BY <1>5, <2>3, <2>4, <3>1
  <2> QED
    BY <2>5, <2>6
<1>7. BuildLedger(rs, gap).adjustments = {A[s] : s \in T}
  <2>1. BuildLedger(rs, gap).adjustments = Adjustments(rs, lives)
    BY DEF BuildLedger
  <2>2. Adjustments(rs, lives) = {a \in {Between(rs, l) : l \in lives} : a.from < a.to /\ a.amount # 0}
    BY DEF Adjustments, Between
  <2>3. {Between(rs, l) : l \in lives} = {A[s] : s \in Starts(rs)}
    BY <1>3, <1>4
  <2>4. T \subseteq Starts(rs)
    OBVIOUS
  <2> QED
    BY <1>5, <2>1, <2>2, <2>3, <2>4
<1>8. ASSUME NEW s \in T, NEW t \in T, A[s] = A[t], s < t
      PROVE  FALSE
  <2>1. s \in Starts(rs) /\ t \in Starts(rs)
    OBVIOUS
  <2>2. A[s].from = A[t].from
    BY <1>8
  <2>3. Before(s) = Before(t)
    BY <1>3, <2>1, <2>2
  <2>4. Before(t) = t - 1 /\ Before(s) <= s /\ s \in Nat /\ t \in Nat /\ s >= 1
    BY <1>1, <1>8, <2>1
  <2>5. s = 1 /\ t = 2 /\ Before(s) = 1
    BY <1>1, <1>8, <2>1, <2>3, <2>4
  <2>6. LastOf(rs, s) = 1
    BY <1>2, <2>1, <2>5
  <2>7. Life(rs, gap, s).base = 1
    BY <1>2, <2>1, <2>5, <2>6
  <2>8. A[s].from < A[s].to
    BY <1>5, <2>1
  <2> QED
    BY <1>3, <2>1, <2>5, <2>7, <2>8
<1>9. \A s, t \in T : A[s] = A[t] => s = t
  <2>1. T \subseteq Nat
    BY <1>1
  <2> SUFFICES ASSUME NEW s \in T, NEW t \in T, A[s] = A[t], s # t PROVE FALSE
    OBVIOUS
  <2>2. s < t \/ t < s
    BY <2>1
  <2>3. A[t] = A[s]
    OBVIOUS
  <2> QED
    BY <1>8, <2>2, <2>3
<1> QED
  BY <1>3, <1>5, <1>6, <1>7, <1>9

LEMMA LedgerSums ==
  ASSUME NEW rs \in Seq(Row), NEW gap \in Int,
         NEW books, books = BuildLedger(rs, gap)
  PROVE  /\ CurveNet(rs) = SumFunction([l \in books.lives |-> l.net])
                           + SumFunction([a \in books.adjustments |-> a.amount])
         /\ IsFiniteSet(books.adjustments)
         /\ \A a \in books.adjustments : a.amount \in Int /\ a.amount # 0
         /\ SumFunction([l \in books.lives |-> l.net]) \in Int
         /\ SumFunction([a \in books.adjustments |-> a.amount]) \in Int
<1>1. PICK S : S = Starts(rs)
  OBVIOUS
<1>2. IsFiniteSet(S)
  BY <1>1, StartsFinite
<1>3. PICK L : L = [s \in S |-> Life(rs, gap, s)]
  OBVIOUS
<1>4. PICK lives : lives = books.lives
  OBVIOUS
<1>5. lives = {L[s] : s \in S}
  BY <1>1, <1>3, <1>4, LivesOf
<1>6. \A s \in S : L[s].first = s /\ L[s] \in lives /\ L[s].last = LastOf(rs, s)
  <2> SUFFICES ASSUME NEW s \in S
               PROVE  L[s].first = s /\ L[s] \in lives /\ L[s].last = LastOf(rs, s)
    OBVIOUS
  <2>1. Laid(rs, gap, s, L[s])
    BY <1>1, <1>3, LifeShape
  <2> QED
    BY <1>5, <2>1 DEF Laid
<1>7. \A l \in lives : /\ l.net = rs[l.last].cash - rs[l.base].cash
                       /\ l.net \in Int
  BY <1>4, NetIs
<1>8. PICK F : F = [l \in lives |-> l.net]
  OBVIOUS
<1>9. PICK N : N = [s \in S |-> L[s].net]
  OBVIOUS
<1>10. SumFunction(F) = SumFunctionOnSet(N, S)
  <2>1. /\ \A s \in S : F[L[s]] \in Int /\ N[s] = F[L[s]]
        /\ \A s, t \in S : L[s] = L[t] => s = t
    BY <1>6, <1>7, <1>8, <1>9
  <2>2. SumFunctionOnSet(F, {L[s] : s \in S}) = SumFunctionOnSet(N, S)
    BY <1>2, <2>1, SumImage
  <2>3. DOMAIN F = {L[s] : s \in S}
    BY <1>5, <1>8
  <2> QED
    BY <2>2, <2>3, Zenon DEF SumFunction
<1>11. PICK A : A = BetweenAll(rs, gap)
  OBVIOUS
<1>12. PICK T : T = ApartStarts(rs, lives)
  OBVIOUS
<1>13. PICK adj : adj = books.adjustments
  OBVIOUS
<1>14. /\ adj = {A[s] : s \in T}
       /\ \A s, t \in T : A[s] = A[t] => s = t
       /\ \A s \in S :
              /\ A[s].amount = rs[L[s].base].cash - rs[Before(s)].cash
              /\ A[s].amount \in Int
              /\ s \in T => A[s].amount # 0
              /\ s \notin T => A[s].amount = 0
  <2>1. lives = BuildLedger(rs, gap).lives /\ adj = BuildLedger(rs, gap).adjustments
    BY <1>4, <1>13
  <2>2. /\ BuildLedger(rs, gap).adjustments = {A[s] : s \in T}
        /\ \A s, t \in T : A[s] = A[t] => s = t
        /\ \A s \in Starts(rs) :
              /\ A[s].amount = rs[Life(rs, gap, s).base].cash - rs[Before(s)].cash
              /\ A[s].amount \in Int
              /\ s \in T => A[s].amount # 0
              /\ s \notin T => A[s].amount = 0
    BY <1>11, <1>12, <2>1, AdjustmentsOf
  <2> QED
    BY <1>1, <1>3, <2>1, <2>2
<1>15. T \in SUBSET S /\ IsFiniteSet(T)
  <2>1. T \in SUBSET S
    BY <1>1, <1>12 DEF ApartStarts
  <2> QED
    BY <1>2, <2>1, FS_Subset
<1>16. PICK G : G = [a \in adj |-> a.amount]
  OBVIOUS
<1>17. PICK M : M = [s \in S |-> A[s].amount]
  OBVIOUS
<1>18. \A s \in T : A[s] \in adj /\ s \in S
  BY <1>14, <1>15
<1>19. IsFiniteSet(adj) /\ SumFunction(G) = SumFunctionOnSet(M, T)
  <2>1. /\ \A s \in T : G[A[s]] \in Int /\ M[s] = G[A[s]]
        /\ \A s, t \in T : A[s] = A[t] => s = t
    BY <1>14, <1>16, <1>17, <1>18
  <2>2. /\ IsFiniteSet({A[s] : s \in T})
        /\ SumFunctionOnSet(G, {A[s] : s \in T}) = SumFunctionOnSet(M, T)
    BY <1>15, <2>1, SumImage
  <2>3. DOMAIN G = adj /\ adj = {A[s] : s \in T}
    BY <1>14, <1>16
  <2> QED
    BY <2>2, <2>3, Zenon DEF SumFunction
<1>20. /\ \A s \in S : M[s] \in Int
       /\ \A s \in S \ T : M[s] = 0
  BY <1>14, <1>17
<1>21. SumFunctionOnSet(M, S) = SumFunctionOnSet(M, T)
  BY <1>2, <1>15, <1>20, SumSupport
<1>22. PICK D : D = [s \in S |-> rs[LastOf(rs, s)].cash - rs[Before(s)].cash]
  OBVIOUS
<1>23. SumFunctionOnSet(D, S) = CurveNet(rs)
  <2>1. \A s \in Starts(rs) : D[s] = rs[LastOf(rs, s)].cash - rs[Before(s)].cash
    BY <1>1, <1>22
  <2>2. SumFunctionOnSet(D, Starts(rs)) = IF rs = <<>> THEN 0 ELSE rs[Len(rs)].cash - rs[1].cash
    BY <2>1, StartsSum
  <2> QED
    BY <1>1, <2>2 DEF CurveNet
<1>24. \A s \in S : N[s] \in Int /\ M[s] \in Int /\ D[s] = N[s] + M[s]
  <2> SUFFICES ASSUME NEW s \in S PROVE N[s] \in Int /\ M[s] \in Int /\ D[s] = N[s] + M[s]
    OBVIOUS
  <2>1. PICK a, b, c : a = rs[L[s].base].cash /\ b = rs[Before(s)].cash /\ c = rs[LastOf(rs, s)].cash
    OBVIOUS
  <2>2. N[s] = c - a /\ N[s] \in Int
    BY <1>6, <1>7, <1>9, <2>1
  <2>3. M[s] = a - b /\ M[s] \in Int
    BY <1>14, <1>17, <2>1
  <2>4. D[s] = c - b
    BY <1>22, <2>1
  <2>5. a \in Int /\ b \in Int /\ c \in Int
    <3>1. Laid(rs, gap, s, L[s])
      BY <1>1, <1>3, LifeShape
    <3>2. L[s].base \in Before(s)..L[s].floor /\ L[s].floor \in s..LastOf(rs, s)
      BY <3>1 DEF Laid
    <3>3. Before(s) \in 1..s /\ s \in 1..Len(rs) /\ Len(rs) \in Nat /\ LastOf(rs, s) \in s..Len(rs)
      BY <1>1, StartsTyped, LastOfFacts
    <3>4. L[s].base \in 1..Len(rs) /\ Before(s) \in 1..Len(rs) /\ LastOf(rs, s) \in 1..Len(rs)
      BY <3>2, <3>3
    <3> QED
      BY <2>1, <3>4, RowFields
  <2> QED
    BY <2>2, <2>3, <2>4, <2>5
<1>25. SumFunctionOnSet(D, S) = SumFunctionOnSet(N, S) + SumFunctionOnSet(M, S)
  BY <1>2, <1>24, SumPlus
<1>26. SumFunctionOnSet(N, S) \in Int /\ SumFunctionOnSet(M, S) \in Int
  <2>1. (\A s \in S : N[s] \in Int) /\ (\A s \in S : M[s] \in Int)
    BY <1>24
  <2> QED
    BY <1>2, <2>1, SumTyped
<1>27. CurveNet(rs) = SumFunction(F) + SumFunction(G) /\ SumFunction(F) \in Int /\ SumFunction(G) \in Int
  BY <1>10, <1>19, <1>21, <1>23, <1>25, <1>26
<1>28. \A a \in adj : a.amount \in Int /\ a.amount # 0
  BY <1>14, <1>18
<1>29. F = [l \in books.lives |-> l.net] /\ G = [a \in books.adjustments |-> a.amount]
  BY <1>4, <1>8, <1>13, <1>16
<1> QED
  BY <1>13, <1>19, <1>27, <1>28, <1>29, Zenon

-----------------------------------------------------------------------------
(* Corrections. *)

\* What a correction's update leaves in each field.
LEMMA Repriced ==
  ASSUME NEW l, {"kit", "other", "net", "first", "gained"} \subseteq DOMAIN l,
         NEW kit, NEW other, NEW net, NEW p,
         p = [l EXCEPT !.kit = kit, !.other = other, !.net = net]
  PROVE  /\ p.kit = kit /\ p.other = other /\ p.net = net
         /\ p.first = l.first /\ p.gained = l.gained
<1>1. PICK m : m = [l EXCEPT !.kit = kit]
  OBVIOUS
<1>2. PICK o : o = [m EXCEPT !.other = other]
  OBVIOUS
<1>3. p = [o EXCEPT !.net = net]
  BY <1>1, <1>2
<1>4. DOMAIN m = DOMAIN l /\ DOMAIN o = DOMAIN l /\ DOMAIN p = DOMAIN l
  BY <1>1, <1>2, <1>3
<1>5. p.kit = kit
  BY <1>1, <1>2, <1>3, <1>4
<1>6. p.other = other
  BY <1>1, <1>2, <1>3, <1>4
<1>7. p.net = net
  BY <1>1, <1>2, <1>3, <1>4
<1>8. p.first = l.first
  BY <1>1, <1>2, <1>3, <1>4
<1>9. p.gained = l.gained
  BY <1>1, <1>2, <1>3, <1>4
<1> QED
  BY <1>5, <1>6, <1>7, <1>8, <1>9

\* A correction relabels what the life has spent.
LEMMA PricedFacts ==
  ASSUME NEW rs \in Seq(Row), NEW gap \in Int, NEW l \in BuildLedger(rs, gap).lives,
         NEW o \in Corrections, NEW p, p = Priced(l, o)
  PROVE  /\ p.first = l.first /\ p.net = l.net /\ p.gained = l.gained
         /\ p.kit + p.other = l.kit + l.other
         /\ p.kit \in Int /\ p.other \in Nat
         /\ p.net = p.gained - p.kit - p.other
<1>1. /\ l.kit \in Nat /\ l.gained \in Nat /\ l.other \in Nat /\ l.net \in Int
      /\ l.net = l.gained - l.kit - l.other
  BY NetIs
<1>2. CASE l.life \notin DOMAIN o
  BY <1>1, <1>2 DEF Priced
<1>3. CASE l.life \in DOMAIN o
  <2>1. PICK value : value = o[l.life]
    OBVIOUS
  <2>2. value \in Int
    <3>1. PICK M \in SUBSET LifeNumbers : o \in [M -> Prices]
      BY DEF Corrections
    <3>2. o[l.life] \in Prices
      BY <1>3, <3>1
    <3> QED
      BY <2>1, <3>2, InputsAssumption
  <2>3. p = ApplyKitOverride(l, value)
    BY <1>3, <2>1 DEF Priced
  <2>4. CASE value <= 0
    BY <1>1, <2>3, <2>4 DEF ApplyKitOverride
  <2>5. CASE ~(value <= 0)
    <3>1. PICK observed, kit, other :
            /\ observed = l.kit + l.other
            /\ kit = IF value < observed THEN value ELSE observed
            /\ other = observed - kit
      OBVIOUS
    <3>2. p = [l EXCEPT !.kit = kit, !.other = other, !.net = l.gained - kit - other]
      BY <2>3, <2>5, <3>1 DEF ApplyKitOverride
    <3>3. {"kit", "other", "net", "first", "gained"} \subseteq DOMAIN l
      <4>1. PICK s \in Starts(rs) : l = Life(rs, gap, s)
        BY LivesOf
      <4>2. PICK last, bought : l = LifeOf(rs, s, last, bought)
        BY <4>1 DEF Life
      <4> QED
        BY <4>2 DEF LifeOf
    <3>4. PICK k, x, n, g : k = l.kit /\ x = l.other /\ n = l.net /\ g = l.gained
      OBVIOUS
    <3>5. p = [l EXCEPT !.kit = kit, !.other = other, !.net = g - kit - other]
      BY <3>2, <3>4
    <3>6. /\ p.kit = kit /\ p.other = other /\ p.net = g - kit - other
          /\ p.first = l.first /\ p.gained = l.gained
      BY <3>3, <3>5, Repriced
    <3>7. k \in Nat /\ g \in Nat /\ x \in Nat /\ n \in Int /\ n = g - k - x
      BY <1>1, <3>4
    <3>8. observed = k + x
      BY <3>1, <3>4
    <3>9. kit \in Int /\ other \in Nat /\ kit + other = k + x
      <4>1. CASE value < observed
        <5>1. kit = value /\ other = observed - value
          BY <3>1, <4>1
        <5> QED
          BY <2>2, <3>7, <3>8, <4>1, <5>1
      <4>2. CASE ~(value < observed)
        <5>1. kit = observed /\ other = observed - observed
          BY <3>1, <4>2
        <5> QED
          BY <3>7, <3>8, <5>1
      <4> QED
        BY <4>1, <4>2
    <3>10. g - kit - other = n
      BY <3>7, <3>9
    <3> QED
      BY <3>4, <3>6, <3>7, <3>9, <3>10
  <2> QED
    BY <2>4, <2>5
<1> QED
  BY <1>2, <1>3

\* The view adds up, with whatever corrections.
LEMMA ViewSums ==
  ASSUME NEW rs \in Seq(Row), NEW gap \in Int, NEW o \in Corrections,
         NEW books, books = BuildLedger(rs, gap),
         NEW view, view = View(rs, books, o)
  PROVE  view.profit = view.earned - view.kit - view.other
                       + view.unassigned.positive + view.unassigned.negative
<1>1. PICK S : S = Starts(rs)
  OBVIOUS
<1>2. IsFiniteSet(S)
  BY <1>1, StartsFinite
<1>3. PICK L : L = [s \in S |-> Life(rs, gap, s)]
  OBVIOUS
<1>4. PICK Q : Q = [s \in S |-> Priced(L[s], o)]
  OBVIOUS
<1>5. PICK lives : lives = books.lives
  OBVIOUS
<1>6. lives = {L[s] : s \in S}
  BY <1>1, <1>3, <1>5, LivesOf
<1>7. PICK priced : priced = {Priced(l, o) : l \in lives}
  OBVIOUS
<1>8. priced = {Q[s] : s \in S}
  BY <1>4, <1>6, <1>7
<1>9. \A s \in S : L[s].first = s /\ L[s] \in lives
  <2> SUFFICES ASSUME NEW s \in S PROVE L[s].first = s /\ L[s] \in lives
    OBVIOUS
  <2>1. Laid(rs, gap, s, L[s])
    BY <1>1, <1>3, LifeShape
  <2> QED
    BY <1>6, <2>1 DEF Laid
<1>10. \A s \in S : /\ Q[s].first = s /\ Q[s].net = L[s].net
                    /\ Q[s].gained \in Int /\ Q[s].kit \in Int /\ Q[s].other \in Int
                    /\ L[s].net = Q[s].gained - Q[s].kit - Q[s].other
                    /\ L[s].net \in Int
  <2> SUFFICES ASSUME NEW s \in S
               PROVE  /\ Q[s].first = s /\ Q[s].net = L[s].net
                      /\ Q[s].gained \in Int /\ Q[s].kit \in Int /\ Q[s].other \in Int
                      /\ L[s].net = Q[s].gained - Q[s].kit - Q[s].other
                      /\ L[s].net \in Int
    OBVIOUS
  <2>1. L[s] \in BuildLedger(rs, gap).lives /\ Q[s] = Priced(L[s], o) /\ L[s].first = s
    BY <1>4, <1>5, <1>9
  <2>2. L[s].gained \in Nat /\ L[s].net \in Int
    BY <2>1, NetIs
  <2>3. PICK l, p : l = L[s] /\ p = Q[s]
    OBVIOUS
  <2>4. /\ p.first = l.first /\ p.net = l.net /\ p.gained = l.gained
        /\ p.kit \in Int /\ p.other \in Nat
        /\ p.net = p.gained - p.kit - p.other
    BY <2>1, <2>3, PricedFacts
  <2> QED
    BY <2>1, <2>2, <2>3, <2>4
<1>11. \A s, t \in S : Q[s] = Q[t] => s = t
  BY <1>10
<1>12. PICK fg, fk, fo, fn : /\ fg = [l \in priced |-> l.gained] /\ fk = [l \in priced |-> l.kit]
                             /\ fo = [l \in priced |-> l.other] /\ fn = [l \in lives |-> l.net]
  OBVIOUS
<1>13. PICK gg, gk, go, gn : /\ gg = [s \in S |-> Q[s].gained] /\ gk = [s \in S |-> Q[s].kit]
                             /\ go = [s \in S |-> Q[s].other] /\ gn = [s \in S |-> L[s].net]
  OBVIOUS
<1>14. \A s \in S : Q[s] \in priced
  BY <1>8
<1>15. SumFunction(fg) = SumFunctionOnSet(gg, S)
  <2>1. \A s \in S : fg[Q[s]] \in Int /\ gg[s] = fg[Q[s]]
    BY <1>10, <1>12, <1>13, <1>14
  <2>2. SumFunctionOnSet(fg, {Q[s] : s \in S}) = SumFunctionOnSet(gg, S)
    BY <1>2, <1>11, <2>1, SumImage
  <2>3. DOMAIN fg = {Q[s] : s \in S}
    BY <1>8, <1>12
  <2> QED
    BY <2>2, <2>3, Zenon DEF SumFunction
<1>16. SumFunction(fk) = SumFunctionOnSet(gk, S)
  <2>1. \A s \in S : fk[Q[s]] \in Int /\ gk[s] = fk[Q[s]]
    BY <1>10, <1>12, <1>13, <1>14
  <2>2. SumFunctionOnSet(fk, {Q[s] : s \in S}) = SumFunctionOnSet(gk, S)
    BY <1>2, <1>11, <2>1, SumImage
  <2>3. DOMAIN fk = {Q[s] : s \in S}
    BY <1>8, <1>12
  <2> QED
    BY <2>2, <2>3, Zenon DEF SumFunction
<1>17. SumFunction(fo) = SumFunctionOnSet(go, S)
  <2>1. \A s \in S : fo[Q[s]] \in Int /\ go[s] = fo[Q[s]]
    BY <1>10, <1>12, <1>13, <1>14
  <2>2. SumFunctionOnSet(fo, {Q[s] : s \in S}) = SumFunctionOnSet(go, S)
    BY <1>2, <1>11, <2>1, SumImage
  <2>3. DOMAIN fo = {Q[s] : s \in S}
    BY <1>8, <1>12
  <2> QED
    BY <2>2, <2>3, Zenon DEF SumFunction
<1>18. SumFunction(fn) = SumFunctionOnSet(gn, S)
  <2>1. /\ \A s \in S : fn[L[s]] \in Int /\ gn[s] = fn[L[s]]
        /\ \A s, t \in S : L[s] = L[t] => s = t
    BY <1>9, <1>10, <1>12, <1>13
  <2>2. SumFunctionOnSet(fn, {L[s] : s \in S}) = SumFunctionOnSet(gn, S)
    BY <1>2, <2>1, SumImage
  <2>3. DOMAIN fn = {L[s] : s \in S}
    BY <1>6, <1>12
  <2> QED
    BY <2>2, <2>3, Zenon DEF SumFunction
<1>19. PICK spent : spent = [s \in S |-> gk[s] + go[s]]
  OBVIOUS
<1>20. \A s \in S : /\ gg[s] \in Int /\ gk[s] \in Int /\ go[s] \in Int /\ gn[s] \in Int
                    /\ spent[s] \in Int /\ spent[s] = gk[s] + go[s]
                    /\ gg[s] = gn[s] + spent[s]
  <2> SUFFICES ASSUME NEW s \in S
               PROVE  /\ gg[s] \in Int /\ gk[s] \in Int /\ go[s] \in Int /\ gn[s] \in Int
                      /\ spent[s] \in Int /\ spent[s] = gk[s] + go[s]
                      /\ gg[s] = gn[s] + spent[s]
    OBVIOUS
  <2>1. /\ gg[s] = Q[s].gained /\ gk[s] = Q[s].kit /\ go[s] = Q[s].other /\ gn[s] = L[s].net
        /\ spent[s] = gk[s] + go[s]
    BY <1>13, <1>19
  <2>2. /\ gg[s] \in Int /\ gk[s] \in Int /\ go[s] \in Int /\ gn[s] \in Int
        /\ gn[s] = gg[s] - gk[s] - go[s]
    BY <1>10, <2>1
  <2> QED
    BY <2>1, <2>2
<1>21. /\ SumFunctionOnSet(spent, S) = SumFunctionOnSet(gk, S) + SumFunctionOnSet(go, S)
       /\ SumFunctionOnSet(gg, S) = SumFunctionOnSet(gn, S) + SumFunctionOnSet(spent, S)
  <2>1. SumFunctionOnSet(spent, S) = SumFunctionOnSet(gk, S) + SumFunctionOnSet(go, S)
    BY <1>2, <1>20, SumPlus
  <2>2. SumFunctionOnSet(gg, S) = SumFunctionOnSet(gn, S) + SumFunctionOnSet(spent, S)
    BY <1>2, <1>20, SumPlus
  <2> QED
    BY <2>1, <2>2
<1>22. /\ SumFunctionOnSet(gk, S) \in Int /\ SumFunctionOnSet(go, S) \in Int
       /\ SumFunctionOnSet(gn, S) \in Int
  <2>1. (\A s \in S : gk[s] \in Int) /\ (\A s \in S : go[s] \in Int) /\ (\A s \in S : gn[s] \in Int)
    BY <1>20
  <2> QED
    BY <1>2, <2>1, SumTyped
<1>23. SumFunction(fn) = SumFunction(fg) - SumFunction(fk) - SumFunction(fo)
       /\ SumFunction(fg) \in Int /\ SumFunction(fk) \in Int /\ SumFunction(fo) \in Int
  <2>1. PICK g, k, x, n, w : /\ g = SumFunctionOnSet(gg, S) /\ k = SumFunctionOnSet(gk, S)
                             /\ x = SumFunctionOnSet(go, S) /\ n = SumFunctionOnSet(gn, S)
                             /\ w = SumFunctionOnSet(spent, S)
    OBVIOUS
  <2>2. k \in Int /\ x \in Int /\ n \in Int /\ w = k + x /\ g = n + w
    BY <1>21, <1>22, <2>1
  <2>3. g \in Int /\ n = g - k - x
    BY <2>2
  <2> QED
    BY <1>15, <1>16, <1>17, <1>18, <2>1, <2>2, <2>3
<1>24. PICK adj : adj = books.adjustments
  OBVIOUS
<1>25. PICK fa, fp, fm : /\ fa = [a \in adj |-> a.amount]
                         /\ fp = [a \in {a \in adj : a.amount > 0} |-> a.amount]
                         /\ fm = [a \in {a \in adj : a.amount < 0} |-> a.amount]
  OBVIOUS
<1>26. /\ CurveNet(rs) = SumFunction(fn) + SumFunction(fa)
       /\ IsFiniteSet(adj)
       /\ \A a \in adj : a.amount \in Int /\ a.amount # 0
       /\ SumFunction(fn) \in Int /\ SumFunction(fa) \in Int
  <2>1. fn = [l \in books.lives |-> l.net] /\ fa = [a \in books.adjustments |-> a.amount]
    BY <1>5, <1>12, <1>24, <1>25
  <2>2. /\ CurveNet(rs) = SumFunction([l \in books.lives |-> l.net])
                           + SumFunction([a \in books.adjustments |-> a.amount])
        /\ IsFiniteSet(books.adjustments)
        /\ \A a \in books.adjustments : a.amount \in Int /\ a.amount # 0
        /\ SumFunction([l \in books.lives |-> l.net]) \in Int
        /\ SumFunction([a \in books.adjustments |-> a.amount]) \in Int
    BY LedgerSums
  <2> QED
    BY <1>24, <2>1, <2>2, Zenon
<1>27. /\ SumFunction(fa) = SumFunction(fp) + SumFunction(fm)
       /\ SumFunction(fp) \in Int /\ SumFunction(fm) \in Int
  <2>1. PICK U, V : U = {a \in adj : a.amount > 0} /\ V = {a \in adj : a.amount < 0}
    OBVIOUS
  <2>2. U \in SUBSET adj /\ V \in SUBSET adj /\ U \cap V = {} /\ U \cup V = adj
    BY <1>26, <2>1
  <2>3. IsFiniteSet(U) /\ IsFiniteSet(V)
    BY <1>26, <2>2, FS_Subset
  <2>4. /\ DOMAIN fa = adj /\ DOMAIN fp = U /\ DOMAIN fm = V
        /\ \A a \in U : fp[a] = fa[a] /\ fa[a] \in Int
        /\ \A a \in V : fm[a] = fa[a] /\ fa[a] \in Int
        /\ \A a \in U \cup V : fa[a] \in Int
    BY <1>25, <1>26, <2>1, <2>2
  <2>5. SumFunctionOnSet(fa, U \cup V) = SumFunctionOnSet(fa, U) + SumFunctionOnSet(fa, V)
    BY <2>2, <2>3, <2>4, SumSplit
  <2>6. SumFunction(fp) = SumFunctionOnSet(fa, U) /\ SumFunction(fm) = SumFunctionOnSet(fa, V)
    BY <2>3, <2>4, SumOver
  <2>7. SumFunctionOnSet(fa, U) \in Int /\ SumFunctionOnSet(fa, V) \in Int
    BY <2>3, <2>4, SumTyped
  <2>8. SumFunction(fa) = SumFunctionOnSet(fa, U \cup V)
    BY <2>2, <2>4, Zenon DEF SumFunction
  <2> QED
    BY <2>5, <2>6, <2>7, <2>8
<1>28. /\ view.profit = CurveNet(rs)
       /\ view.earned = SumFunction(fg) /\ view.kit = SumFunction(fk) /\ view.other = SumFunction(fo)
       /\ view.unassigned = [positive |-> SumFunction(fp), negative |-> SumFunction(fm)]
  BY <1>5, <1>7, <1>12, <1>24, <1>25 DEF View, Unassigned
<1>29. view.unassigned.positive = SumFunction(fp) /\ view.unassigned.negative = SumFunction(fm)
  BY <1>28
<1> QED
  BY <1>23, <1>26, <1>27, <1>28, <1>29

-----------------------------------------------------------------------------
(* The books of every match the cache lets happen. *)

\* Readings that the agents' facts have left are readings of the books.
LEMMA RowsTyped ==
  ASSUME TypeOK
  PROVE  rows \in Seq(Row) /\ rules \in Int
<1>1. ASSUME NEW r \in Reading PROVE r \in Row
  <2>1. r \in [at : Nat, cash : Cash, life : LifeNumbers]
    BY DEF Reading
  <2>2. LifeNumbers \subseteq Int
    BY BoundsAssumption DEF LifeNumbers
  <2>3. Cash \subseteq Int
    BY InputsAssumption
  <2>4. r.at \in Nat /\ r.cash \in Cash /\ r.life \in LifeNumbers
    BY <2>1
  <2>5. r.at \in Int /\ r.cash \in Int /\ r.life \in Int
    <3>1. r.at \in Int
      BY <2>4
    <3>2. r.cash \in Int
      BY <2>3, <2>4, Zenon
    <3>3. r.life \in Int
      BY <2>2, <2>4, Zenon
    <3> QED
      BY <3>1, <3>2, <3>3
  <2>6. r = [at |-> r.at, cash |-> r.cash, life |-> r.life]
    BY <2>1
  <2> QED
    BY <2>5, <2>6 DEF Row
<1>2. rows \in Seq(Reading) /\ rules \in Rules
  BY DEF TypeOK
<1>3. /\ Len(rows) \in Nat /\ rows \in [1..Len(rows) -> Reading]
  BY <1>2, LenProperties
<1>4. rows \in [1..Len(rows) -> Row]
  BY <1>1, <1>3
<1>5. rows \in Seq(Row)
  BY <1>3, <1>4, SeqDef
<1> QED
  BY <1>2, <1>5, RulesAssumption

LEMMA BucketsHold == TypeOK => OneBucketEach
<1> SUFFICES ASSUME TypeOK, NEW i \in 2..Len(rows)
             PROVE  Cardinality(
               {<<"kit", l>> : l \in {l \in Books.lives : l.base < i /\ i <= l.floor}}
               \cup {<<"trade", l>> : l \in {l \in Books.lives : l.floor < i /\ i <= l.last}}
               \cup {<<"between", l>> : l \in {l \in Books.lives :
                                                 Before(l.first) < i /\ i <= l.base}}) = 1
  BY Zenon DEF OneBucketEach
<1>1. rows \in Seq(Row) /\ rules \in Int
  BY RowsTyped
<1> QED
  BY <1>1, OneBucket, Zenon DEF Books

LEMMA KitsHold == TypeOK => KitIsOnePurchase
<1> SUFFICES ASSUME TypeOK, NEW l \in Books.lives, l.kit > 0,
                    NEW falls, falls = Falls(rows, Before(l.first), l.last)
             PROVE  /\ Min(falls) = l.base + 1
                    /\ l.floor \in falls
                    /\ \A p \in falls : \A q \in NextFall(falls, p) :
                         /\ p < l.floor => JoinedBy(rows, rules, p, q)
                         /\ p = l.floor => ~JoinedBy(rows, rules, p, q)
  BY Zenon DEF KitIsOnePurchase, NextFall, JoinedBy
<1>1. rows \in Seq(Row) /\ rules \in Int
  BY RowsTyped
<1>2. l \in BuildLedger(rows, rules).lives
  BY Zenon DEF Books
<1> QED
  BY <1>1, <1>2, OnePurchase, Zenon

LEMMA LivesHold == TypeOK => EarlierLivesStay
<1> SUFFICES ASSUME TypeOK, Len(rows) > 1,
                    NEW l \in BuildLedger(Front(rows), rules).lives
             PROVE  \/ l \in Books.lives
                    \/ /\ l.last = Len(rows) - 1 /\ l.life = rows[Len(rows)].life
                       /\ \E k \in Books.lives :
                            k.first = l.first /\ ((l.gained > 0 /\ l.kit > 0) => k.kit = l.kit)
  BY Zenon DEF EarlierLivesStay
<1>1. rows \in Seq(Row) /\ rules \in Int
  BY RowsTyped
<1>2. PICK qs : qs = Front(rows)
  OBVIOUS
<1>3. qs = SubSeq(rows, 1, Len(rows) - 1)
  BY <1>2 DEF Front
<1>4. Len(rows) \in Nat /\ Len(rows) - 1 \in 0..Len(rows)
  BY <1>1, LenProperties
<1>5. /\ qs \in Seq(Row) /\ Len(qs) = Len(rows) - 1
      /\ \A i \in 1..Len(qs) : qs[i] = rows[i]
  BY <1>1, <1>3, <1>4, SubSeqProperties
<1>6. Begins(qs, rows)
  BY <1>1, <1>4, <1>5 DEF Begins
<1>7. l \in BuildLedger(qs, rules).lives
  BY <1>2
<1>8. \/ l \in BuildLedger(rows, rules).lives
      \/ /\ l.last = Len(rows) - 1 /\ l.life = rows[Len(rows)].life
         /\ \E k \in BuildLedger(rows, rules).lives :
              k.first = l.first /\ ((l.gained > 0 /\ l.kit > 0) => k.kit = l.kit)
  BY <1>1, <1>5, <1>6, <1>7, EarlierStays
<1> QED
  BY <1>8, Zenon DEF Books

LEMMA BooksHold == TypeOK => BooksBalance
<1> SUFFICES ASSUME TypeOK, NEW books, books = BuildLedger(rows, rules)
             PROVE  /\ \A l \in books.lives :
                         /\ l.net = rows[l.last].cash - rows[l.base].cash
                         /\ l.kit >= 0 /\ l.gained >= 0 /\ l.other >= 0
                    /\ CurveNet(rows) = SumFunction([l \in books.lives |-> l.net])
                                        + SumFunction([a \in books.adjustments |-> a.amount])
                    /\ \A o \in Corrections :
                         /\ \A v \in View(rows, books, o).lives : \E l \in books.lives :
                              /\ v.price.first = l.first /\ v.price.net = l.net
                              /\ v.price.kit + v.price.other = l.kit + l.other
                              /\ v.price.other >= 0
                         /\ View(rows, books, o).profit =
                              View(rows, books, o).earned - View(rows, books, o).kit
                              - View(rows, books, o).other
                              + View(rows, books, o).unassigned.positive
                              + View(rows, books, o).unassigned.negative
  BY Zenon DEF BooksBalance, Books
<1>1. rows \in Seq(Row) /\ rules \in Int
  BY RowsTyped
<1>2. ASSUME NEW l \in books.lives
      PROVE  /\ l.net = rows[l.last].cash - rows[l.base].cash
             /\ l.kit >= 0 /\ l.gained >= 0 /\ l.other >= 0
  <2>1. /\ l.net = rows[l.last].cash - rows[l.base].cash
        /\ l.kit \in Nat /\ l.gained \in Nat /\ l.other \in Nat
    BY <1>1, NetIs
  <2> QED
    BY <2>1
<1>3. CurveNet(rows) = SumFunction([l \in books.lives |-> l.net])
                       + SumFunction([a \in books.adjustments |-> a.amount])
  BY <1>1, LedgerSums
<1>4. ASSUME NEW o \in Corrections, NEW v \in View(rows, books, o).lives
      PROVE  \E l \in books.lives :
               /\ v.price.first = l.first /\ v.price.net = l.net
               /\ v.price.kit + v.price.other = l.kit + l.other
               /\ v.price.other >= 0
  <2>1. View(rows, books, o).lives =
          {[price |-> l, confidence |-> Confidence(l, o)] :
             l \in {Priced(l, o) : l \in books.lives}}
    BY DEF View
  <2>2. PICK p \in {Priced(l, o) : l \in books.lives} :
          v = [price |-> p, confidence |-> Confidence(p, o)]
    BY <2>1
  <2>3. PICK l \in books.lives : p = Priced(l, o)
    BY <2>2
  <2>4. /\ p.first = l.first /\ p.net = l.net
        /\ p.kit + p.other = l.kit + l.other /\ p.other \in Nat
    BY <1>1, <2>3, PricedFacts
  <2>5. v.price = p
    BY <2>2
  <2>6. p.other >= 0
    BY <2>4
  <2> QED
    BY <2>3, <2>4, <2>5, <2>6, Zenon
<1>5. ASSUME NEW o \in Corrections
      PROVE  View(rows, books, o).profit =
               View(rows, books, o).earned - View(rows, books, o).kit
               - View(rows, books, o).other
               + View(rows, books, o).unassigned.positive
               + View(rows, books, o).unassigned.negative
  BY <1>1, ViewSums
<1> QED
  BY <1>2, <1>3, <1>4, <1>5, Zenon

\* Each life's net is what its curve did, lives and adjustments together are
\* what the whole curve did, and whatever prices are typed in no profit moves
\* and the view adds up (ledger_invariant_errors, apply_kit_override): of every
\* match, however long, with any balances.
THEOREM LedgerBalances == Spec => []BooksBalance
  BY TypeCorrect, BooksHold, PTL

\* "Every reading-to-reading change lands in exactly one bucket" (v1.py).
THEOREM BucketsPartition == Spec => []OneBucketEach
  BY TypeCorrect, BucketsHold, PTL

\* detect_kit prices one purchase: from the first fall, every instalment that
\* follows within the gap, and nothing after the first that does not.
THEOREM KitsArePurchases == Spec => []KitIsOnePurchase
  BY TypeCorrect, KitsHold, PTL

\* A reading that comes in leaves alone every life but the one it carries on,
\* and that one's price of a kit once it has been traded with: a reading that
\* starts a life changes nothing of the lives before it.
THEOREM HistoryIsSettled == Spec => []EarlierLivesStay
  BY TypeCorrect, LivesHold, PTL
=============================================================================
