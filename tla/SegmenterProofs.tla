--------------------------- MODULE SegmenterProofs --------------------------
(***************************************************************************)
(* Proofs about Segmenter, for every choice of its thresholds and bounds.  *)
(*                                                                         *)
(* A transaction that fails takes back the rows and leaves the memory, so  *)
(* the memory must be right about two versions of the rows at once: those  *)
(* of the transaction and those it may be thrown back to.  The inductive   *)
(* invariant Segmented says what holds of both: their rows are in order    *)
(* (Tidy), the memory is not behind them nor past a silence they end at    *)
(* (Beside), and every fact still to be fed is later than they are         *)
(* (Later).  As long as no transaction has failed, the memory and the      *)
(* rows of the transaction agree exactly (Agreed).                         *)
(***************************************************************************)
EXTENDS Segmenter, FiniteSetTheorems, SequenceTheorems, WellFoundedInduction, TLAPS

\* p and q are polls with a silence between them, among the polls P.
Silence(P, p, q) ==
  /\ p \in P /\ q \in P /\ q - p > StaleGap
  /\ \A o \in P : o <= p \/ q <= o

\* The rows of database d, for an agent that polled at the times P.
Tidy(d, P) ==
  /\ d = [matches |-> d.matches, samples |-> d.samples,
          spawns |-> d.spawns, events |-> d.events]
  /\ \A m \in DOMAIN d.matches : d.matches[m].start \in P
  /\ \A r \in d.samples : r.at \in P
  /\ IsFiniteSet(d.spawns)
  /\ \E b \in Nat : \A r \in d.samples : r.life <= b
  /\ \A r \in d.samples : r.match \in DOMAIN d.matches =>
       LET row == d.matches[r.match] IN
       row.start <= r.at /\ (row.closed => row.ended # None /\ r.at <= row.ended)
  /\ \A p, q \in P : Silence(P, p, q) =>
       \A r1, r2 \in d.samples :
         r1.match = r2.match => ~(r1.at <= p /\ q <= r2.at)
  /\ \A r1, r2 \in d.samples :
       r1.match = r2.match /\ r1.at < r2.at => r1.life <= r2.life

\* What memory m, last fed at time last, knows of the rows of its match in d.
Beside(m, last, d, P) ==
  m.match # 0 =>
    /\ m.match \in DOMAIN d.matches => ~d.matches[m.match].closed
    /\ \A r \in d.samples : r.match = m.match =>
         /\ r.at <= last /\ r.life <= m.life
         /\ \A p, q \in P : Silence(P, p, q) /\ r.at <= p => last <= p

SpawnsOf(d, m) == {p \in d.spawns : p.match = m}

\* No reading of d counts a life that no spawn of d began.
Counted(d) == \A r \in d.samples : r.life <= 1 + Cardinality(SpawnsOf(d, r.match))

\* Nothing has failed: memory m and rows d say the same.
Agreed(m, d) ==
  /\ OpenIn(d) = IF m.match = 0 THEN {} ELSE {m.match}
  /\ References(d)
  /\ m.match # 0 => m.life <= 1 + Cardinality(SpawnsOf(d, m.match))
  /\ Counted(d)

\* Fact g may be fed after fact f.
InTurn(f, g) ==
  /\ f.kind # "spawn" /\ g.kind # "spawn" => f.at <= g.at
  /\ f.kind = "spawn" /\ g.kind = "spawn" => f.at < g.at

\* The matches and readings of d are from no later than t.
UpTo(d, t) ==
  /\ \A m \in DOMAIN d.matches : d.matches[m].start <= t
  /\ \A r \in d.samples : r.at <= t

\* Fact f is later than what d holds.
Later(d, f) ==
  /\ f.kind # "spawn" => UpTo(d, f.at)
  /\ f.kind = "spawn" => \A p \in d.spawns : p.at < f.at

\* The facts that are fed but not committed, and those to be fed again.
Due == sent \o resend

DueInv ==
  /\ \A i, j \in DOMAIN Due : i < j => InTurn(Due[i], Due[j])
  /\ \A i \in DOMAIN Due :
       /\ Due[i].at <= now
       /\ Due[i].kind = "spawn" => Due[i].at <= spawned
       /\ Due[i].kind \in Polls => Due[i].at \in polls
       /\ Later(db, Due[i])

FactsInv ==
  /\ DueInv
  /\ \A i \in DOMAIN resend : Later(work, resend[i])
  /\ \A d \in {work, db} : UpTo(d, now) /\ \A p \in d.spawns : p.at <= spawned
  /\ polls \subseteq 0..now

RowsInv ==
  /\ Tidy(work, polls) /\ Tidy(db, polls)
  /\ References(db)
  /\ sent = <<>> => work = db

MemoryInv ==
  /\ mem.last # None => mem.last \in polls
  /\ mem.match # 0 => mem.last # None
  /\ Beside(mem, mem.last, work, polls)
  /\ Beside(mem, mem.last, db, polls)

AgreedInv ==
  ~failed =>
    /\ Agreed(mem, work)
    /\ Counted(db)
    /\ \A m1, m2 \in OpenIn(db) : m1 = m2

Segmented == TypeOK /\ FactsInv /\ RowsInv /\ MemoryInv /\ AgreedInv

-----------------------------------------------------------------------------
(* The handlers work on a memory, rows and a next identity.  What they rely *)
(* on and leave behind, in a context c: the committed rows, the spawns in   *)
(* the rows, the time the memory was last fed at, the time the rows go up   *)
(* to, the polls, the clock, and whether nothing has failed.                *)

Memory(next) ==
  [playing : 0..(ConfirmReads - 1), miss : 0..(MissThreshold - 1),
   match : 0..(next - 1), start : {None} \cup Times,
   last : {None} \cup Times, life : Nat \ {0}, seen : SUBSET Times,
   shape : {"none", "playing", "menu"}]

Rows(d, next, h) ==
  /\ DOMAIN d.matches \subseteq 1..(next - 1)
  /\ \A m \in DOMAIN d.matches : d.matches[m] \in MatchRows
  /\ d.samples \subseteq [match : 1..(next - 1), at : 0..h, life : Nat \ {0}]
  /\ d.spawns \subseteq [match : 1..(next - 1), at : 0..h]
  /\ d.events \subseteq 1..(next - 1)

Fed(s, c) ==
  /\ s = [mem |-> s.mem, rows |-> s.rows, next |-> s.next]
  /\ s.next \in Nat \ {0} /\ s.mem \in Memory(s.next)
  /\ Rows(s.rows, s.next, c.now) /\ Rows(c.db, s.next, c.now)
  /\ s.rows.spawns = c.spawns
  /\ UpTo(s.rows, c.upto)
  /\ Tidy(s.rows, c.polls)
  /\ Beside(s.mem, c.last, s.rows, c.polls)
  /\ Beside(s.mem, c.last, c.db, c.polls)
  /\ c.clean => Agreed(s.mem, s.rows)

LEMMA Thresholds ==
  /\ ConfirmReads \in Nat \ {0} /\ MissThreshold \in Nat \ {0} /\ StaleGap \in Nat \ {0}
  /\ MaxTime \in Nat /\ Grace \in Nat
BY RulesAssumption, BoundsAssumption

\* Only the counters of the memory change.
LEMMA CountersFed ==
  ASSUME NEW s, NEW c, Fed(s, c), NEW m \in Memory(s.next),
         m.match = s.mem.match, m.life = s.mem.life
  PROVE  Fed([mem |-> m, rows |-> s.rows, next |-> s.next], c)
BY DEF Fed, Beside, Agreed

\* Closing a match forgets how many polls missed it.
LEMMA CloseForgets ==
  ASSUME NEW d, NEW n, NEW at, NEW k, NEW g, NEW h,
         g = [playing |-> g.playing, miss |-> g.miss, match |-> g.match, start |-> g.start,
              last |-> g.last, life |-> g.life, seen |-> g.seen, shape |-> g.shape],
         h = [playing |-> g.playing, miss |-> k, match |-> g.match, start |-> g.start,
              last |-> g.last, life |-> g.life, seen |-> g.seen, shape |-> g.shape],
         g.match # 0
  PROVE  Close([mem |-> h, rows |-> d, next |-> n], at)
         = Close([mem |-> g, rows |-> d, next |-> n], at)
<1>1. h.match = g.match /\ h.match # 0
  OBVIOUS
<1>2. PICK w : w = [j \in DOMAIN d.matches |->
                      IF j = g.match
                        THEN [d.matches[j] EXCEPT !.closed = TRUE, !.ended = at]
                        ELSE d.matches[j]]
  OBVIOUS
<1>3. w = [j \in DOMAIN d.matches |->
             IF j = h.match THEN [d.matches[j] EXCEPT !.closed = TRUE, !.ended = at]
             ELSE d.matches[j]]
  BY <1>1, <1>2
<1>4. PICK s, t : /\ s = [mem |-> g, rows |-> d, next |-> n]
                  /\ t = [mem |-> h, rows |-> d, next |-> n]
  OBVIOUS
<1>5. Close(s, at) = [mem |-> [g EXCEPT !.match = 0, !.start = None, !.life = 1,
                                        !.seen = {}, !.miss = 0, !.playing = 0],
                      rows |-> [d EXCEPT !.matches = w], next |-> n]
  BY <1>2, <1>4 DEF Close
<1>6. Close(t, at) = [mem |-> [h EXCEPT !.match = 0, !.start = None, !.life = 1,
                                        !.seen = {}, !.miss = 0, !.playing = 0],
                      rows |-> [d EXCEPT !.matches = w], next |-> n]
  BY <1>1, <1>3, <1>4 DEF Close
<1>7. PICK u, v : /\ u = [g EXCEPT !.match = 0, !.start = None, !.life = 1,
                                   !.seen = {}, !.miss = 0, !.playing = 0]
                  /\ v = [h EXCEPT !.match = 0, !.start = None, !.life = 1,
                                   !.seen = {}, !.miss = 0, !.playing = 0]
  OBVIOUS
<1>8. u = [playing |-> 0, miss |-> 0, match |-> 0, start |-> None, last |-> g.last,
           life |-> 1, seen |-> {}, shape |-> g.shape]
  BY <1>7
<1>9. v = [playing |-> 0, miss |-> 0, match |-> 0, start |-> None, last |-> g.last,
           life |-> 1, seen |-> {}, shape |-> g.shape]
  BY <1>7
<1>10. PICK e : e = [d EXCEPT !.matches = w]
  OBVIOUS
<1>11. Close(s, at) = [mem |-> u, rows |-> e, next |-> n]
  BY <1>5, <1>7, <1>10
<1>12. Close(t, at) = [mem |-> v, rows |-> e, next |-> n]
  BY <1>6, <1>7, <1>10
<1>13. Close(t, at) = Close(s, at)
  BY <1>8, <1>9, <1>11, <1>12
<1> QED
  BY <1>4, <1>13

\* _close_match, at a time no earlier than the readings of the match.
LEMMA CloseFed ==
  ASSUME NEW s, NEW c, Fed(s, c), NEW at \in Times,
         \A r \in s.rows.samples : r.match = s.mem.match => r.at <= at
  PROVE  /\ Fed(Close(s, at), c)
         /\ Close(s, at).mem.match = 0 /\ Close(s, at).mem.last = s.mem.last
<1>1. CASE s.mem.match = 0
  BY <1>1 DEF Close
<1>2. CASE s.mem.match # 0
  <2>1. PICK m, d, n : m = s.mem /\ d = s.rows /\ n = s.next
    OBVIOUS
  <2>2. /\ s = [mem |-> m, rows |-> d, next |-> n] /\ n \in Nat \ {0} /\ m \in Memory(n)
        /\ Rows(d, n, c.now) /\ Rows(c.db, n, c.now)
        /\ d.spawns = c.spawns /\ UpTo(d, c.upto) /\ Tidy(d, c.polls)
        /\ c.clean => Agreed(m, d)
        /\ m.match # 0 /\ Beside(m, c.last, d, c.polls)
    BY <1>2, <2>1 DEF Fed
  <2>3. PICK w : w = [k \in DOMAIN d.matches |->
                        IF k = m.match
                          THEN [d.matches[k] EXCEPT !.closed = TRUE, !.ended = at]
                          ELSE d.matches[k]]
    OBVIOUS
  <2>4. PICK g : g = [m EXCEPT !.match = 0, !.start = None, !.life = 1,
                               !.seen = {}, !.miss = 0, !.playing = 0]
    OBVIOUS
  <2>5. PICK e : e = [matches |-> w, samples |-> d.samples,
                      spawns |-> d.spawns, events |-> d.events]
    OBVIOUS
  <2>6. [d EXCEPT !.matches = w] = e
    BY <2>2, <2>5 DEF Tidy
  <2>7. Close(s, at) = [mem |-> g, rows |-> e, next |-> n]
    <3>1. Close(s, at) = [mem |-> [m EXCEPT !.match = 0, !.start = None, !.life = 1,
                                            !.seen = {}, !.miss = 0, !.playing = 0],
                          rows |-> [d EXCEPT !.matches = w], next |-> n]
      BY <2>2, <2>3 DEF Close
    <3> QED
      BY <2>4, <2>6, <3>1
  <2>8. g = [playing |-> 0, miss |-> 0, match |-> 0, start |-> None, last |-> m.last,
             life |-> 1, seen |-> {}, shape |-> m.shape]
    BY <2>2, <2>4 DEF Memory
  <2>9. g \in Memory(n) /\ g.match = 0 /\ g.last = m.last
    BY <2>2, <2>8, Thresholds DEF Memory
  <2>10. ASSUME NEW k \in DOMAIN w
         PROVE  /\ k \in DOMAIN d.matches
                /\ w[k] \in MatchRows /\ w[k].start = d.matches[k].start
                /\ k = m.match => w[k].closed /\ w[k].ended = at
                /\ k # m.match => w[k] = d.matches[k]
    <3>1. k \in DOMAIN d.matches /\ d.matches[k] \in MatchRows
      BY <2>2, <2>3 DEF Rows
    <3>2. CASE k # m.match
      BY <2>3, <3>1, <3>2
    <3>3. CASE k = m.match
      <4>1. w[k] = [start |-> d.matches[k].start, closed |-> TRUE, ended |-> at]
        BY <2>3, <3>1, <3>3 DEF MatchRows
      <4> QED
        BY <3>1, <3>3, <4>1 DEF MatchRows
    <3> QED
      BY <3>2, <3>3
  <2>11. DOMAIN w = DOMAIN d.matches
    BY <2>3
  <2>12. /\ e.matches = w /\ e.samples = d.samples
         /\ e.spawns = d.spawns /\ e.events = d.events
    BY <2>5
  <2>13. Rows(e, n, c.now) /\ UpTo(e, c.upto)
    BY <2>2, <2>10, <2>11, <2>12 DEF Rows, UpTo
  <2>14. Tidy(e, c.polls)
    <3>1. ASSUME NEW r \in e.samples, r.match \in DOMAIN e.matches
          PROVE  LET row == e.matches[r.match] IN
                 row.start <= r.at /\ (row.closed => row.ended # None /\ r.at <= row.ended)
      <4>1. /\ d.matches[r.match].start <= r.at
            /\ d.matches[r.match].closed =>
                 d.matches[r.match].ended # None /\ r.at <= d.matches[r.match].ended
        BY <2>2, <2>11, <2>12, <3>1 DEF Tidy
      <4>2. CASE r.match # m.match
        BY <2>10, <2>12, <3>1, <4>1, <4>2
      <4>3. CASE r.match = m.match
        <5>1. r.at <= at /\ at # None
          BY <2>1, <2>12, <4>3, Thresholds DEF Times, None
        <5> QED
          BY <2>10, <2>12, <3>1, <4>1, <4>3, <5>1
      <4> QED
        BY <4>2, <4>3
    <3>2. \A k \in DOMAIN e.matches : e.matches[k].start \in c.polls
      BY <2>2, <2>10, <2>12 DEF Tidy
    <3> QED
      BY <2>2, <2>5, <2>12, <3>1, <3>2 DEF Tidy
  <2>15. ASSUME c.clean
         PROVE  Agreed(g, e)
    <3>1. Agreed(m, d)
      BY <2>2, <2>15
    <3>2. OpenIn(e) = {}
      <4>1. ASSUME NEW k \in OpenIn(e) PROVE FALSE
        <5>1. k \in DOMAIN w /\ ~w[k].closed
          BY <2>12 DEF OpenIn
        <5>2. k # m.match /\ k \in OpenIn(d)
          BY <2>10, <5>1 DEF OpenIn
        <5> QED
          BY <2>2, <3>1, <5>2 DEF Agreed
      <4> QED
        BY <4>1
    <3>3. References(e)
      BY <2>11, <2>12, <3>1 DEF Agreed, References
    <3>4. Counted(e)
      BY <2>12, <3>1 DEF Agreed, Counted, SpawnsOf
    <3> QED
      BY <2>9, <3>2, <3>3, <3>4 DEF Agreed
  <2>16. Beside(g, c.last, e, c.polls) /\ Beside(g, c.last, c.db, c.polls)
    BY <2>9 DEF Beside
  <2>17. Fed([mem |-> g, rows |-> e, next |-> n], c)
    BY <2>2, <2>9, <2>12, <2>13, <2>14, <2>15, <2>16 DEF Fed
  <2> QED
    BY <2>1, <2>7, <2>9, <2>17
<1> QED
  BY <1>1, <1>2

\* _open_match, at the time the rows go up to.
LEMMA OpenFed ==
  ASSUME NEW s, NEW c, Fed(s, c), NEW at \in Times, at \in c.polls, at <= c.upto,
         s.mem.match = 0
  PROVE  /\ Fed(Open(s, at), c)
         /\ Open(s, at).mem.match # 0
<1>1. PICK m, d, n : m = s.mem /\ d = s.rows /\ n = s.next
  OBVIOUS
<1>2. /\ s = [mem |-> m, rows |-> d, next |-> n] /\ n \in Nat \ {0} /\ m \in Memory(n)
      /\ Rows(d, n, c.now) /\ Rows(c.db, n, c.now)
      /\ d.spawns = c.spawns /\ UpTo(d, c.upto) /\ Tidy(d, c.polls)
      /\ c.clean => Agreed(m, d)
      /\ m.match = 0
  BY <1>1 DEF Fed
<1>3. PICK row : row = [start |-> at, closed |-> FALSE, ended |-> None]
  OBVIOUS
<1>4. PICK w : w = [k \in DOMAIN d.matches \cup {n} |->
                      IF k = n THEN row ELSE d.matches[k]]
  OBVIOUS
<1>5. PICK g : g = [m EXCEPT !.match = n, !.start = at, !.life = 1, !.seen = {},
                             !.miss = 0, !.playing = 0, !.shape = "none"]
  OBVIOUS
<1>6. PICK e : e = [matches |-> w, samples |-> d.samples,
                    spawns |-> d.spawns, events |-> d.events]
  OBVIOUS
<1>7. [d EXCEPT !.matches = w] = e
  BY <1>2, <1>6 DEF Tidy
<1>8. Open(s, at) = [mem |-> g, rows |-> e, next |-> n + 1]
  <2>1. Open(s, at) = [mem |-> [m EXCEPT !.match = n, !.start = at, !.life = 1, !.seen = {},
                                         !.miss = 0, !.playing = 0, !.shape = "none"],
                       rows |-> [d EXCEPT !.matches = w], next |-> n + 1]
    <3>1. s.mem = m /\ s.rows = d /\ s.next = n
      BY <1>2
    <3> QED
      BY <1>3, <1>4, <3>1 DEF Open
  <2> QED
    BY <1>5, <1>7, <2>1
<1>9. g = [playing |-> 0, miss |-> 0, match |-> n, start |-> at, last |-> m.last,
           life |-> 1, seen |-> {}, shape |-> "none"]
  BY <1>2, <1>5 DEF Memory
<1>10. g \in Memory(n + 1) /\ g.match = n /\ g.match # 0 /\ g.life = 1
  BY <1>2, <1>9, Thresholds DEF Memory
<1>11. /\ e.matches = w /\ e.samples = d.samples
       /\ e.spawns = d.spawns /\ e.events = d.events
  BY <1>6
<1>12. n \notin DOMAIN d.matches /\ n \notin DOMAIN c.db.matches
  BY <1>2 DEF Rows
<1>13. /\ DOMAIN w = DOMAIN d.matches \cup {n}
       /\ w[n] = row
       /\ \A k \in DOMAIN d.matches : w[k] = d.matches[k]
  BY <1>4, <1>12
<1>14. row \in MatchRows /\ row.start = at /\ ~row.closed
  BY <1>3 DEF MatchRows
<1>15. /\ \A r \in d.samples : r.match # n /\ r.match \in Nat
       /\ \A r \in c.db.samples : r.match # n
  BY <1>2 DEF Rows
<1>16. Rows(e, n + 1, c.now) /\ Rows(c.db, n + 1, c.now)
  <2>1. 1..(n - 1) \subseteq 1..(n + 1 - 1)
    BY <1>2
  <2>2. n \in 1..(n + 1 - 1)
    BY <1>2
  <2>3. Rows(c.db, n + 1, c.now)
    BY <1>2, <2>1 DEF Rows
  <2>4. /\ DOMAIN w \subseteq 1..(n + 1 - 1)
        /\ \A k \in DOMAIN w : w[k] \in MatchRows
    BY <1>2, <1>13, <1>14, <2>1, <2>2 DEF Rows
  <2>5. Rows(e, n + 1, c.now)
    BY <1>2, <1>11, <2>1, <2>4 DEF Rows
  <2> QED
    BY <2>3, <2>5
<1>17. UpTo(e, c.upto)
  BY <1>2, <1>11, <1>13, <1>14 DEF UpTo
<1>18. Tidy(e, c.polls)
  <2>1. ASSUME NEW r \in e.samples, r.match \in DOMAIN e.matches
        PROVE  LET rw == e.matches[r.match] IN
               rw.start <= r.at /\ (rw.closed => rw.ended # None /\ r.at <= rw.ended)
    <3>1. r.match \in DOMAIN d.matches /\ w[r.match] = d.matches[r.match]
      BY <1>11, <1>13, <1>15, <2>1
    <3> QED
      BY <1>2, <1>11, <2>1, <3>1 DEF Tidy
  <2>2. \A k \in DOMAIN e.matches : e.matches[k].start \in c.polls
    BY <1>2, <1>11, <1>13, <1>14 DEF Tidy
  <2> QED
    BY <1>2, <1>6, <1>11, <2>1, <2>2 DEF Tidy
<1>19. Beside(g, c.last, e, c.polls) /\ Beside(g, c.last, c.db, c.polls)
  BY <1>10, <1>11, <1>12, <1>13, <1>14, <1>15 DEF Beside
<1>20. ASSUME c.clean
       PROVE  Agreed(g, e)
  <2>1. Agreed(m, d)
    BY <1>2, <1>20
  <2>2. OpenIn(e) = {n}
    <3>1. OpenIn(d) = {}
      BY <1>2, <2>1 DEF Agreed
    <3>2. \A k \in DOMAIN d.matches : d.matches[k].closed
      BY <3>1 DEF OpenIn
    <3> QED
      BY <1>11, <1>13, <1>14, <3>2 DEF OpenIn
  <2>3. References(e)
    BY <1>11, <1>13, <2>1 DEF Agreed, References
  <2>4. Counted(e)
    BY <1>11, <2>1 DEF Agreed, Counted, SpawnsOf
  <2>5. Cardinality(SpawnsOf(e, n)) \in Nat
    <3>1. IsFiniteSet(SpawnsOf(e, n))
      BY <1>18, FS_Subset DEF Tidy, SpawnsOf
    <3> QED
      BY <3>1, FS_CardinalityType
  <2> QED
    BY <1>10, <2>2, <2>3, <2>4, <2>5 DEF Agreed
<1>21. Fed([mem |-> g, rows |-> e, next |-> n + 1], c)
  <2>1. n + 1 \in Nat \ {0} /\ e.spawns = c.spawns
    BY <1>2, <1>11
  <2> QED
    BY <1>10, <1>16, <1>17, <1>18, <1>19, <1>20, <2>1 DEF Fed
<1> QED
  BY <1>8, <1>10, <1>21

\* A reading, at the time of the poll being fed: the memory is not past a
\* silence that the match has readings before.
LEMMA SampleFed ==
  ASSUME NEW s, NEW c, Fed(s, c), NEW at \in c.polls, c.last = at, c.upto = at,
         c.polls \subseteq Nat, at <= c.now, c.now \in Nat, s.mem.match # 0
  PROVE  /\ Fed(AddSample(s, at), c)
         /\ AddSample(s, at).mem = s.mem
<1>1. CASE \E r \in s.rows.samples : r.match = s.mem.match /\ r.at = at
  BY <1>1 DEF AddSample
<1>2. CASE ~\E r \in s.rows.samples : r.match = s.mem.match /\ r.at = at
  <2>1. PICK m, d, n : m = s.mem /\ d = s.rows /\ n = s.next
    OBVIOUS
  <2>2. /\ s = [mem |-> m, rows |-> d, next |-> n] /\ n \in Nat \ {0} /\ m \in Memory(n)
        /\ Rows(d, n, c.now) /\ Rows(c.db, n, c.now)
        /\ d.spawns = c.spawns /\ UpTo(d, at) /\ Tidy(d, c.polls)
        /\ c.clean => Agreed(m, d)
        /\ m.match # 0 /\ Beside(m, at, d, c.polls) /\ Beside(m, at, c.db, c.polls)
    BY <2>1 DEF Fed
  <2>3. PICK r0 : r0 = [match |-> m.match, at |-> at, life |-> m.life]
    OBVIOUS
  <2>4. PICK x : x = {r0}
    OBVIOUS
  <2>5. PICK e : e = [matches |-> d.matches, samples |-> d.samples \cup x,
                      spawns |-> d.spawns, events |-> d.events]
    OBVIOUS
  <2>6. [d EXCEPT !.samples = d.samples \cup x] = e
    <3>1. d = [matches |-> d.matches, samples |-> d.samples,
               spawns |-> d.spawns, events |-> d.events]
      BY <2>2 DEF Tidy
    <3> QED
      BY <2>5, <3>1
  <2>7. AddSample(s, at) = [mem |-> m, rows |-> e, next |-> n]
    <3>1. s.mem = m /\ s.rows = d
      BY <2>1
    <3>2. AddSample(s, at) = [s EXCEPT !.rows.samples = @ \cup {r0}]
      BY <1>2, <2>3, <3>1, Zenon DEF AddSample
    <3>3. [s EXCEPT !.rows.samples = @ \cup x]
          = [mem |-> m, rows |-> [d EXCEPT !.samples = d.samples \cup x], next |-> n]
      BY <2>2
    <3> QED
      BY <2>4, <2>6, <3>2, <3>3
  <2>8. /\ e.matches = d.matches /\ e.samples = d.samples \cup {r0}
        /\ e.spawns = d.spawns /\ e.events = d.events
    BY <2>4, <2>5
  <2>9. /\ r0.match = m.match /\ r0.at = at /\ r0.life = m.life
        /\ r0 \in [match : 1..(n - 1), at : 0..c.now, life : Nat \ {0}]
        /\ at \in Nat /\ m.life \in Nat
    BY <2>2, <2>3 DEF Memory
  <2>10. Rows(e, n, c.now) /\ UpTo(e, c.upto)
    BY <2>2, <2>8, <2>9 DEF Rows, UpTo
  <2>11. \A r \in d.samples : r.at \in Nat /\ r.at <= at /\ r.life \in Nat
    BY <2>2 DEF Rows, UpTo
  <2>12. Tidy(e, c.polls)
    <3>1. \A r \in e.samples : r.at \in c.polls
      BY <2>2, <2>8, <2>9 DEF Tidy
    <3>2. \E b \in Nat : \A r \in e.samples : r.life <= b
      <4>1. PICK b \in Nat : \A r \in d.samples : r.life <= b
        BY <2>2 DEF Tidy
      <4>2. b + m.life \in Nat /\ m.life <= b + m.life
        BY <2>9
      <4>3. \A r \in d.samples : r.life <= b + m.life
        BY <2>9, <2>11, <4>1
      <4> QED
        BY <2>8, <2>9, <4>2, <4>3
    <3>3. ASSUME NEW r \in e.samples, r.match \in DOMAIN e.matches
          PROVE  LET row == e.matches[r.match] IN
                 row.start <= r.at /\ (row.closed => row.ended # None /\ r.at <= row.ended)
      <4>1. CASE r \in d.samples
        BY <2>2, <2>8, <3>3, <4>1 DEF Tidy
      <4>2. CASE r = r0
        <5>1. d.matches[m.match].start <= at
          BY <2>2, <2>8, <2>9, <3>3, <4>2 DEF UpTo
        <5>2. ~d.matches[m.match].closed
          BY <2>2, <2>8, <2>9, <3>3, <4>2 DEF Beside
        <5> QED
          BY <2>8, <2>9, <4>2, <5>1, <5>2
      <4> QED
        BY <2>8, <4>1, <4>2
    <3>4. ASSUME NEW p \in c.polls, NEW q \in c.polls, Silence(c.polls, p, q),
                 NEW r1 \in e.samples, NEW r2 \in e.samples, r1.match = r2.match,
                 r1.at <= p, q <= r2.at
          PROVE  FALSE
      <4>1. p \in Nat /\ q \in Nat /\ p < q
        BY <3>4, Thresholds DEF Silence
      <4>2. CASE r1 \in d.samples /\ r2 \in d.samples
        BY <2>2, <3>4, <4>2 DEF Tidy
      <4>3. CASE r1 \in d.samples /\ r2 = r0
        <5>1. at <= p
          BY <2>2, <2>9, <3>4, <4>3 DEF Beside
        <5> QED
          BY <2>9, <3>4, <4>1, <4>3, <5>1
      <4>4. CASE r1 = r0
        <5>1. r2.at \in Nat /\ r2.at <= at
          BY <2>8, <2>9, <2>11
        <5> QED
          BY <2>9, <3>4, <4>1, <4>4, <5>1
      <4> QED
        BY <2>8, <4>2, <4>3, <4>4
    <3>5. ASSUME NEW r1 \in e.samples, NEW r2 \in e.samples, r1.match = r2.match,
                 r1.at < r2.at
          PROVE  r1.life <= r2.life
      <4>1. CASE r1 \in d.samples /\ r2 \in d.samples
        BY <2>2, <3>5, <4>1 DEF Tidy
      <4>2. CASE r1 \in d.samples /\ r2 = r0
        BY <2>2, <2>9, <3>5, <4>2 DEF Beside
      <4>3. CASE r1 = r0
        BY <2>8, <2>9, <2>11, <3>5, <4>3
      <4> QED
        BY <2>8, <4>1, <4>2, <4>3
    <3> QED
      BY <2>2, <2>5, <2>8, <3>1, <3>2, <3>3, <3>4, <3>5 DEF Tidy
  <2>13. Beside(m, at, e, c.polls)
    <3>1. ASSUME NEW r \in e.samples, r.match = m.match
          PROVE  /\ r.at <= at /\ r.life <= m.life
                 /\ \A p, q \in c.polls : Silence(c.polls, p, q) /\ r.at <= p => at <= p
      BY <2>2, <2>8, <2>9, <3>1 DEF Beside
    <3>2. m.match \in DOMAIN e.matches => ~e.matches[m.match].closed
      BY <2>2, <2>8 DEF Beside
    <3> QED
      BY <3>1, <3>2 DEF Beside
  <2>14. ASSUME c.clean
         PROVE  Agreed(m, e)
    <3>1. Agreed(m, d)
      BY <2>2, <2>14
    <3>2. m.match \in DOMAIN d.matches
      BY <2>2, <3>1 DEF Agreed, OpenIn
    <3>3. References(e) /\ OpenIn(e) = OpenIn(d)
      BY <2>8, <2>9, <3>1, <3>2 DEF Agreed, References, OpenIn
    <3>4. Counted(e)
      BY <2>2, <2>8, <2>9, <3>1 DEF Agreed, Counted, SpawnsOf
    <3> QED
      BY <2>8, <3>1, <3>3, <3>4 DEF Agreed, SpawnsOf
  <2>15. Fed([mem |-> m, rows |-> e, next |-> n], c)
    BY <2>2, <2>8, <2>10, <2>12, <2>13, <2>14 DEF Fed
  <2> QED
    BY <2>1, <2>7, <2>15
<1> QED
  BY <1>1, <1>2

LEMMA EventFed ==
  ASSUME NEW s, NEW c, Fed(s, c)
  PROVE  /\ Fed(AddEvent(s), c)
         /\ AddEvent(s).mem = s.mem
<1>1. PICK m, d, n : m = s.mem /\ d = s.rows /\ n = s.next
  OBVIOUS
<1>2. /\ s = [mem |-> m, rows |-> d, next |-> n] /\ n \in Nat \ {0} /\ m \in Memory(n)
      /\ Rows(d, n, c.now) /\ Rows(c.db, n, c.now)
      /\ d.spawns = c.spawns /\ UpTo(d, c.upto) /\ Tidy(d, c.polls)
      /\ c.clean => Agreed(m, d)
      /\ Beside(m, c.last, d, c.polls) /\ Beside(m, c.last, c.db, c.polls)
  BY <1>1 DEF Fed
<1>3. PICK x : x = IF m.match = 0 THEN d.events ELSE d.events \cup {m.match}
  OBVIOUS
<1>4. PICK e : e = [matches |-> d.matches, samples |-> d.samples,
                    spawns |-> d.spawns, events |-> x]
  OBVIOUS
<1>5. [d EXCEPT !.events = x] = e
  BY <1>2, <1>4 DEF Tidy
<1>6. AddEvent(s) = [mem |-> m, rows |-> e, next |-> n]
  <2>1. AddEvent(s) = [mem |-> m, next |-> n,
                       rows |-> [d EXCEPT !.events = IF m.match = 0 THEN d.events
                                                     ELSE d.events \cup {m.match}]]
    BY <1>2 DEF AddEvent
  <2> QED
    BY <1>3, <1>5, <2>1
<1>7. /\ e.matches = d.matches /\ e.samples = d.samples
      /\ e.spawns = d.spawns /\ e.events = x
  BY <1>4
<1>8. Rows(e, n, c.now) /\ UpTo(e, c.upto)
  BY <1>2, <1>3, <1>7 DEF Rows, UpTo, Memory
<1>9. Tidy(e, c.polls)
  BY <1>2, <1>4, <1>7 DEF Tidy
<1>10. Beside(m, c.last, e, c.polls)
  BY <1>2, <1>7 DEF Beside
<1>11. ASSUME c.clean
       PROVE  Agreed(m, e)
  <2>1. Agreed(m, d)
    BY <1>2, <1>11
  <2>2. OpenIn(e) = OpenIn(d)
    BY <1>7 DEF OpenIn
  <2>3. m.match # 0 => m.match \in DOMAIN d.matches
    BY <2>1 DEF Agreed, OpenIn
  <2>4. References(e)
    BY <1>3, <1>7, <2>1, <2>3 DEF Agreed, References
  <2> QED
    BY <1>7, <2>1, <2>2, <2>4 DEF Agreed, Counted, SpawnsOf
<1>12. Fed([mem |-> m, rows |-> e, next |-> n], c)
  BY <1>2, <1>7, <1>8, <1>9, <1>10, <1>11 DEF Fed
<1> QED
  BY <1>1, <1>6, <1>12

\* Rows stay tidy when a poll is added to those they are from: it is later
\* than all of them, or one of them.
LEMMA TidyGrows ==
  ASSUME NEW d, NEW P, P \subseteq Nat, NEW t \in Nat, t \in P \/ \A o \in P : o < t,
         Tidy(d, P)
  PROVE  Tidy(d, P \cup {t})
<1>1. CASE t \in P
  <2>1. P \cup {t} = P
    BY <1>1
  <2> QED
    BY <2>1
<1>2. CASE \A o \in P : o < t
  <2>1. \A r \in d.samples : r.at \in P
    BY DEF Tidy
  <2>2. ASSUME NEW p \in P \cup {t}, NEW q \in P \cup {t}, Silence(P \cup {t}, p, q),
               NEW r1 \in d.samples, NEW r2 \in d.samples, r1.match = r2.match,
               r1.at <= p, q <= r2.at
        PROVE  FALSE
    <3>1. r2.at \in Nat /\ r2.at < t /\ p \in Nat /\ q \in Nat
      BY <1>2, <2>1
    <3>2. q \in P
      BY <2>2, <3>1
    <3>3. p < q
      BY <2>2, <3>1, Thresholds DEF Silence
    <3>4. p \in P
      BY <1>2, <2>2, <3>1, <3>2, <3>3
    <3>5. Silence(P, p, q)
      BY <2>2, <3>2, <3>4 DEF Silence
    <3> QED
      BY <2>2, <3>2, <3>4, <3>5 DEF Tidy
  <2> QED
    BY <2>1, <2>2 DEF Tidy
<1> QED
  BY <1>1, <1>2

\* A memory whose match survived AfterSilence is not past a silence that the
\* match has readings before.
LEMMA BesideGrows ==
  ASSUME NEW m, NEW d, NEW P, P \subseteq Nat, NEW t \in Nat, t \in P \/ \A o \in P : o < t,
         Tidy(d, P), UpTo(d, t), NEW last, Beside(m, last, d, P),
         m.match # 0 => last \in P /\ ~(t - last > StaleGap)
  PROVE  Beside(m, t, d, P \cup {t})
<1> SUFFICES ASSUME m.match # 0
             PROVE  Beside(m, t, d, P \cup {t})
  BY DEF Beside
<1>1. last \in P /\ last \in Nat /\ ~(t - last > StaleGap)
  OBVIOUS
<1>2. ASSUME NEW r \in d.samples, r.match = m.match,
             NEW p \in P \cup {t}, NEW q \in P \cup {t}, Silence(P \cup {t}, p, q),
             r.at <= p
      PROVE  t <= p
  <2>1. p \in Nat /\ q \in Nat /\ q - p > StaleGap /\ (t <= p \/ q <= t)
    BY <1>2 DEF Silence
  <2>2. CASE p \in P /\ q \in P
    <3>1. Silence(P, p, q)
      BY <1>2, <2>2 DEF Silence
    <3>2. last <= p
      BY <1>2, <2>2, <3>1 DEF Beside
    <3> QED
      BY <1>1, <2>1, <3>2, Thresholds
  <2>3. CASE p = t
    BY <2>3
  <2>4. CASE p \in P /\ q = t /\ q \notin P
    <3>1. last < q
      BY <1>1, <2>4
    <3>2. last <= p
      BY <1>1, <1>2, <2>1, <3>1 DEF Silence
    <3> QED
      BY <1>1, <2>1, <2>4, <3>2, Thresholds
  <2> QED
    BY <2>2, <2>3, <2>4
<1>3. \A r \in d.samples : r.match = m.match => r.at <= t /\ r.life <= m.life
  BY DEF UpTo, Beside
<1>4. m.match \in DOMAIN d.matches => ~d.matches[m.match].closed
  BY DEF Beside
<1> QED
  BY <1>2, <1>3, <1>4 DEF Beside

LEMMA ConfirmFed ==
  ASSUME NEW s, NEW c, Fed(s, c), NEW f \in Facts, f.at \in c.polls, f.at <= c.upto
  PROVE  Fed(Confirm(s, f), c)
<1>1. PICK streak : streak = IF f.kind = "menu" THEN 0 ELSE s.mem.playing + 1
  OBVIOUS
<1>2. s.mem \in Memory(s.next) /\ f.at \in Times
  BY DEF Fed, Facts
<1>3. streak \in Nat
  BY <1>1, <1>2, Thresholds DEF Memory
<1>4. CASE s.mem.match # 0
  BY <1>4 DEF Confirm
<1>5. CASE s.mem.match = 0 /\ streak >= ConfirmReads
  BY <1>1, <1>2, <1>5, OpenFed DEF Confirm
<1>6. CASE s.mem.match = 0 /\ ~(streak >= ConfirmReads)
  <2>1. Confirm(s, f) = [s EXCEPT !.mem.playing = streak]
    BY <1>1, <1>6 DEF Confirm
  <2>2. PICK m : m = [s.mem EXCEPT !.playing = streak]
    OBVIOUS
  <2>3. /\ m = [playing |-> streak, miss |-> s.mem.miss, match |-> s.mem.match,
                start |-> s.mem.start, last |-> s.mem.last, life |-> s.mem.life,
                seen |-> s.mem.seen, shape |-> s.mem.shape]
    BY <1>2, <2>2 DEF Memory
  <2>4. m \in Memory(s.next) /\ m.match = s.mem.match /\ m.life = s.mem.life
    BY <1>2, <1>3, <1>6, <2>3, Thresholds DEF Memory
  <2>5. [s EXCEPT !.mem.playing = streak] = [mem |-> m, rows |-> s.rows, next |-> s.next]
    BY <2>2 DEF Fed
  <2>6. Fed([mem |-> m, rows |-> s.rows, next |-> s.next], c)
    BY <2>4, CountersFed
  <2> QED
    BY <2>1, <2>5, <2>6
<1> QED
  BY <1>4, <1>5, <1>6

\* Misses are counted up to the threshold, where the match is closed.
LEMMA PlayFed ==
  ASSUME NEW s, NEW c, Fed(s, c), NEW f \in Facts, f.at \in c.polls, c.last = f.at,
         c.upto = f.at, c.polls \subseteq Nat, f.at <= c.now, c.now \in Nat, s.mem.match # 0
  PROVE  Fed(Play(s, f), c)
<1>1. s.mem \in Memory(s.next) /\ f.at \in Times
  BY DEF Fed, Facts
<1>2. ASSUME NEW k \in 0..(MissThreshold - 1)
      PROVE  /\ Fed([s EXCEPT !.mem.miss = k], c)
             /\ [s EXCEPT !.mem.miss = k].mem.match = s.mem.match
  <2>1. PICK m : m = [s.mem EXCEPT !.miss = k]
    OBVIOUS
  <2>2. /\ m = [playing |-> s.mem.playing, miss |-> k, match |-> s.mem.match,
                start |-> s.mem.start, last |-> s.mem.last, life |-> s.mem.life,
                seen |-> s.mem.seen, shape |-> s.mem.shape]
    BY <1>1, <2>1 DEF Memory
  <2>3. m \in Memory(s.next) /\ m.match = s.mem.match /\ m.life = s.mem.life
    BY <1>1, <2>2 DEF Memory
  <2>4. [s EXCEPT !.mem.miss = k] = [mem |-> m, rows |-> s.rows, next |-> s.next]
    BY <2>1 DEF Fed
  <2> QED
    BY <2>3, <2>4, CountersFed
<1>3. CASE f.kind = "menu"
  <2>1. PICK k \in Nat : k = s.mem.miss + 1
    BY <1>1, Thresholds DEF Memory
  <2>2. PICK missed : missed = [s EXCEPT !.mem.miss = k]
    OBVIOUS
  <2>3. missed.mem = [s.mem EXCEPT !.miss = k] /\ missed.rows = s.rows /\ missed.next = s.next
    BY <2>2 DEF Fed
  <2>4. missed.mem.miss = k
    BY <1>1, <2>3 DEF Memory
  <2>5. Play(s, f) = IF k >= MissThreshold THEN Close(missed, f.at) ELSE missed
    <3>1. [s EXCEPT !.mem.miss = @ + 1] = missed
      BY <2>1, <2>2
    <3> QED
      BY <1>3, <2>4, <3>1 DEF Play
  <2>6. CASE k >= MissThreshold
    <3>1. Close(missed, f.at) = Close(s, f.at)
      <4>1. PICK g, h : g = s.mem /\ h = missed.mem
        OBVIOUS
      <4>2. /\ g = [playing |-> g.playing, miss |-> g.miss, match |-> g.match,
                    start |-> g.start, last |-> g.last, life |-> g.life,
                    seen |-> g.seen, shape |-> g.shape]
            /\ h = [playing |-> g.playing, miss |-> k, match |-> g.match,
                    start |-> g.start, last |-> g.last, life |-> g.life,
                    seen |-> g.seen, shape |-> g.shape]
            /\ g.match # 0
        BY <1>1, <2>3, <4>1 DEF Memory
      <4>3. /\ s = [mem |-> g, rows |-> s.rows, next |-> s.next]
            /\ missed = [mem |-> h, rows |-> s.rows, next |-> s.next]
        BY <2>2, <2>3, <4>1 DEF Fed
      <4> QED
        BY <4>2, <4>3, CloseForgets
    <3>2. \A r \in s.rows.samples : r.match = s.mem.match => r.at <= f.at
      BY DEF Fed, UpTo
    <3> QED
      BY <1>1, <2>5, <2>6, <3>1, <3>2, CloseFed
  <2>7. CASE ~(k >= MissThreshold)
    <3>1. k \in 0..(MissThreshold - 1)
      BY <2>7, Thresholds
    <3> QED
      BY <1>2, <2>2, <2>5, <2>7, <3>1
  <2> QED
    BY <2>6, <2>7
<1>4. CASE f.kind # "menu"
  <2>1. 0 \in 0..(MissThreshold - 1)
    BY Thresholds
  <2>2. PICK held : held = [s EXCEPT !.mem.miss = 0]
    OBVIOUS
  <2>3. Fed(held, c) /\ held.mem.match # 0
    BY <1>2, <2>1, <2>2
  <2>4. Play(s, f) = IF f.kind = "playing" THEN AddSample(held, f.at) ELSE held
    BY <1>4, <2>2 DEF Play
  <2>5. Fed(AddSample(held, f.at), c)
    BY <2>3, SampleFed
  <2> QED
    BY <2>3, <2>4, <2>5
<1> QED
  BY <1>3, <1>4

LEMMA KeepPollFed ==
  ASSUME NEW s, NEW c, Fed(s, c), NEW f \in Facts
  PROVE  Fed(KeepPoll(s, f), c)
<1>1. PICK shape : shape = IF f.kind = "menu" THEN "menu" ELSE "playing"
  OBVIOUS
<1>2. s.mem \in Memory(s.next)
  BY DEF Fed
<1>3. PICK m : m = [s.mem EXCEPT !.shape = shape]
  OBVIOUS
<1>4. m = [playing |-> s.mem.playing, miss |-> s.mem.miss, match |-> s.mem.match,
           start |-> s.mem.start, last |-> s.mem.last, life |-> s.mem.life,
           seen |-> s.mem.seen, shape |-> shape]
  BY <1>2, <1>3 DEF Memory
<1>5. m \in Memory(s.next) /\ m.match = s.mem.match /\ m.life = s.mem.life
  BY <1>1, <1>2, <1>4 DEF Memory
<1>6. [s EXCEPT !.mem.shape = shape] = [mem |-> m, rows |-> s.rows, next |-> s.next]
  BY <1>3 DEF Fed
<1>7. Fed([s EXCEPT !.mem.shape = shape], c)
  BY <1>5, <1>6, CountersFed
<1>8. KeepPoll(s, f) = s \/ KeepPoll(s, f) = AddEvent([s EXCEPT !.mem.shape = shape])
  BY <1>1 DEF KeepPoll
<1> QED
  BY <1>7, <1>8, EventFed

\* A match is not carried over a silence of the poll being fed.
LEMMA SilenceFed ==
  ASSUME NEW s, NEW c, Fed(s, c), c.last = s.mem.last, NEW f \in Facts,
         s.mem.match # 0 => s.mem.last # None
  PROVE  /\ Fed(AfterSilence(s, f), c)
         /\ AfterSilence(s, f).mem.last = s.mem.last
         /\ AfterSilence(s, f).mem.match # 0 => ~(f.at - s.mem.last > StaleGap)
<1>1. CASE s.mem.match # 0 /\ s.mem.last # None /\ f.at - s.mem.last > StaleGap
  <2>1. AfterSilence(s, f) = Close(s, s.mem.last)
    BY <1>1 DEF AfterSilence
  <2>2. s.mem.last \in Times
    BY <1>1 DEF Fed, Memory
  <2>3. \A r \in s.rows.samples : r.match = s.mem.match => r.at <= s.mem.last
    BY <1>1 DEF Fed, Beside
  <2> QED
    BY <2>1, <2>2, <2>3, CloseFed
<1>2. CASE ~(s.mem.match # 0 /\ s.mem.last # None /\ f.at - s.mem.last > StaleGap)
  BY <1>2 DEF AfterSilence
<1> QED
  BY <1>1, <1>2

\* A whole poll.
LEMMA PresenceFed ==
  ASSUME NEW s, NEW c, NEW P, Fed(s, c), c.last = s.mem.last, c.polls = P, P \subseteq Nat,
         NEW f \in Facts, c.upto = f.at, f.at \in P \/ \A o \in P : o < f.at,
         c.now \in Nat, f.at <= c.now,
         s.mem.last # None => s.mem.last \in P, s.mem.match # 0 => s.mem.last # None,
         Tidy(c.db, P), UpTo(c.db, f.at),
         NEW after, after = [db |-> c.db, spawns |-> c.spawns, last |-> f.at,
                             upto |-> f.at, polls |-> P \cup {f.at}, now |-> c.now,
                             clean |-> c.clean]
  PROVE  Fed(Presence(s, f), after) /\ Presence(s, f).mem.last = f.at
<1>1. f.at \in Nat /\ f.at \in Times
  BY Thresholds DEF Facts, Times
<1>2. PICK quiet : quiet = AfterSilence(s, f)
  OBVIOUS
<1>3. /\ Fed(quiet, c) /\ quiet.mem.last = s.mem.last
      /\ quiet.mem.match # 0 => ~(f.at - s.mem.last > StaleGap)
  BY <1>2, SilenceFed
<1>4. quiet.mem.match # 0 => s.mem.match # 0
  <2>1. AfterSilence(s, f) = s \/ AfterSilence(s, f) = Close(s, s.mem.last)
    BY DEF AfterSilence
  <2>2. s.mem.match = 0 => Close(s, s.mem.last) = s
    BY DEF Close
  <2> QED
    BY <1>2, <2>1, <2>2
<1>5. Fed(quiet, after)
  <2>1. /\ Tidy(quiet.rows, P) /\ UpTo(quiet.rows, f.at)
        /\ Beside(quiet.mem, s.mem.last, quiet.rows, P)
        /\ Beside(quiet.mem, s.mem.last, c.db, P)
    BY <1>3 DEF Fed
  <2>2. quiet.mem.match # 0 => s.mem.last \in P /\ ~(f.at - s.mem.last > StaleGap)
    BY <1>3, <1>4
  <2>3. Tidy(quiet.rows, P \cup {f.at})
    BY <1>1, <2>1, TidyGrows
  <2>4. /\ Beside(quiet.mem, f.at, quiet.rows, P \cup {f.at})
        /\ Beside(quiet.mem, f.at, c.db, P \cup {f.at})
    BY <1>1, <2>1, <2>2, BesideGrows
  <2> QED
    BY <1>3, <2>1, <2>3, <2>4 DEF Fed
<1>6. PICK confirmed : confirmed = Confirm(quiet, f)
  OBVIOUS
<1>7. Fed(confirmed, after)
  BY <1>1, <1>5, <1>6, ConfirmFed
<1>8. PICK played : played = IF confirmed.mem.match = 0 THEN confirmed
                             ELSE KeepPoll(Play(confirmed, f), f)
  OBVIOUS
<1>9. Fed(played, after)
  <2>1. CASE confirmed.mem.match = 0
    BY <1>7, <1>8, <2>1
  <2>2. CASE confirmed.mem.match # 0
    <3>1. Fed(Play(confirmed, f), after)
      <4>1. /\ f.at \in after.polls /\ after.last = f.at /\ after.upto = f.at
            /\ after.polls \subseteq Nat /\ f.at <= after.now /\ after.now \in Nat
        BY <1>1
      <4> QED
        BY <1>7, <2>2, <4>1, PlayFed
    <3> QED
      BY <1>8, <2>2, <3>1, KeepPollFed
  <2> QED
    BY <2>1, <2>2
<1>10. Presence(s, f) = [played EXCEPT !.mem.last = f.at]
  BY <1>2, <1>6, <1>8 DEF Presence
<1>11. PICK m : m = [played.mem EXCEPT !.last = f.at]
  OBVIOUS
<1>12. played.mem \in Memory(played.next)
  BY <1>9 DEF Fed
<1>13. m = [playing |-> played.mem.playing, miss |-> played.mem.miss,
            match |-> played.mem.match, start |-> played.mem.start, last |-> f.at,
            life |-> played.mem.life, seen |-> played.mem.seen, shape |-> played.mem.shape]
  BY <1>11, <1>12 DEF Memory
<1>14. m \in Memory(played.next) /\ m.match = played.mem.match /\ m.life = played.mem.life
  BY <1>1, <1>12, <1>13 DEF Memory
<1>15. [played EXCEPT !.mem.last = f.at] = [mem |-> m, rows |-> played.rows, next |-> played.next]
  BY <1>9, <1>11 DEF Fed
<1>16. Fed([mem |-> m, rows |-> played.rows, next |-> played.next], after)
  BY <1>9, <1>14, CountersFed
<1> QED
  BY <1>10, <1>13, <1>15, <1>16

\* A spawn that is logged after every spawn in the rows.
LEMMA SpawnFed ==
  ASSUME NEW s, NEW c, Fed(s, c), NEW f \in Facts, c.now \in Nat, f.at <= c.now,
         \A p \in s.rows.spawns : p.at < f.at,
         NEW after, after = [db |-> c.db, spawns |-> Spawn(s, f).rows.spawns,
                             last |-> c.last, upto |-> c.upto, polls |-> c.polls,
                             now |-> c.now, clean |-> c.clean]
  PROVE  /\ Fed(Spawn(s, f), after)
         /\ Spawn(s, f).mem.last = s.mem.last /\ Spawn(s, f).mem.match = s.mem.match
         /\ \A p \in Spawn(s, f).rows.spawns : p \in s.rows.spawns \/ p.at = f.at
         /\ Spawn(s, f).rows.matches = s.rows.matches
         /\ Spawn(s, f).rows.samples = s.rows.samples
<1>1. f.at \in Nat /\ f.at \in Times
  BY Thresholds DEF Facts, Times
<1>2. ASSUME NEW u, u = [mem |-> u.mem, rows |-> u.rows, next |-> u.next],
             u.rows = [matches |-> u.rows.matches, samples |-> u.rows.samples,
                       spawns |-> u.rows.spawns, events |-> u.rows.events]
      PROVE  /\ AddEvent(u).rows.spawns = u.rows.spawns
             /\ AddEvent(u).rows.matches = u.rows.matches
             /\ AddEvent(u).rows.samples = u.rows.samples
  BY <1>2 DEF AddEvent
<1>3. PICK new \in BOOLEAN : new = /\ s.mem.match # 0
                                   /\ f.at \notin s.mem.seen
                                   /\ f.at > s.mem.start + Grace
  OBVIOUS
<1>4. CASE ~new
  <2>1. Spawn(s, f) = AddEvent(s)
    BY <1>3, <1>4, Zenon DEF Spawn
  <2>2. /\ AddEvent(s).rows.spawns = s.rows.spawns
        /\ AddEvent(s).rows.matches = s.rows.matches
        /\ AddEvent(s).rows.samples = s.rows.samples
    BY <1>2 DEF Fed, Tidy
  <2>3. Fed(s, after)
    BY <2>1, <2>2 DEF Fed
  <2> QED
    BY <2>1, <2>2, <2>3, EventFed
<1>5. CASE new
  <2>1. PICK m, d, n : m = s.mem /\ d = s.rows /\ n = s.next
    OBVIOUS
  <2>2. /\ s = [mem |-> m, rows |-> d, next |-> n] /\ n \in Nat \ {0} /\ m \in Memory(n)
        /\ Rows(d, n, c.now) /\ Rows(c.db, n, c.now)
        /\ d.spawns = c.spawns /\ UpTo(d, c.upto) /\ Tidy(d, c.polls)
        /\ c.clean => Agreed(m, d)
        /\ m.match # 0 /\ Beside(m, c.last, d, c.polls) /\ Beside(m, c.last, c.db, c.polls)
    BY <1>3, <1>5, <2>1, Zenon DEF Fed
  <2>3. PICK p0 : p0 = [match |-> m.match, at |-> f.at]
    OBVIOUS
  <2>4. PICK x, y, z : /\ x = d.spawns \cup {p0}
                       /\ y = m.seen \cup {f.at}
                       /\ z = m.life + 1
    OBVIOUS
  <2>5. PICK g : g = [playing |-> m.playing, miss |-> m.miss, match |-> m.match,
                      start |-> m.start, last |-> m.last, life |-> z, seen |-> y,
                      shape |-> m.shape]
    OBVIOUS
  <2>6. PICK e : e = [matches |-> d.matches, samples |-> d.samples,
                      spawns |-> x, events |-> d.events]
    OBVIOUS
  <2>7. PICK lived : lived = [mem |-> g, rows |-> e, next |-> n]
    OBVIOUS
  <2>8. Spawn(s, f) = AddEvent(lived)
    <3>1. [s EXCEPT !.mem.seen = @ \cup {f.at}, !.mem.life = @ + 1,
                    !.rows.spawns = @ \cup {p0}]
          = [s EXCEPT !.mem.seen = y, !.mem.life = z, !.rows.spawns = x]
      BY <2>2, <2>4
    <3>2. PICK u : u = [s EXCEPT !.mem.seen = y]
      OBVIOUS
    <3>3. PICK v : v = [u EXCEPT !.mem.life = z]
      OBVIOUS
    <3>4. [s EXCEPT !.mem.seen = y, !.mem.life = z, !.rows.spawns = x]
          = [v EXCEPT !.rows.spawns = x]
      BY <3>2, <3>3
    <3>5. PICK m1 : m1 = [m EXCEPT !.seen = y]
      OBVIOUS
    <3>6. PICK m2 : m2 = [m1 EXCEPT !.life = z]
      OBVIOUS
    <3>7. m1 = [playing |-> m.playing, miss |-> m.miss, match |-> m.match,
                start |-> m.start, last |-> m.last, life |-> m.life, seen |-> y,
                shape |-> m.shape]
      BY <2>2, <3>5 DEF Memory
    <3>8. m2 = g
      BY <2>5, <3>7, <3>6
    <3>9. u = [mem |-> m1, rows |-> d, next |-> n]
      BY <2>2, <3>2, <3>5
    <3>10. v = [mem |-> m2, rows |-> d, next |-> n]
      BY <3>9, <3>3, <3>6
    <3>11. [d EXCEPT !.spawns = x] = e
      BY <2>2, <2>6 DEF Tidy
    <3>12. [v EXCEPT !.rows.spawns = x] = [mem |-> m2, rows |-> [d EXCEPT !.spawns = x], next |-> n]
      BY <3>10
    <3>13. [v EXCEPT !.rows.spawns = x] = lived
      BY <2>7, <3>8, <3>11, <3>12
    <3>14. Spawn(s, f) = AddEvent([s EXCEPT !.mem.seen = @ \cup {f.at}, !.mem.life = @ + 1,
                                            !.rows.spawns = @ \cup {p0}])
      BY <1>3, <1>5, <2>1, <2>3, Zenon DEF Spawn
    <3> QED
      BY <3>1, <3>4, <3>13, <3>14
  <2>9. /\ lived.mem = g /\ lived.rows = e /\ lived.next = n
        /\ e.matches = d.matches /\ e.samples = d.samples
        /\ e.spawns = x /\ e.events = d.events
        /\ g.match = m.match /\ g.last = m.last /\ g.life = m.life + 1
    BY <2>4, <2>5, <2>6, <2>7
  <2>10. /\ AddEvent(lived).rows.spawns = x
         /\ AddEvent(lived).rows.matches = d.matches
         /\ AddEvent(lived).rows.samples = d.samples
    BY <1>2, <2>6, <2>7, <2>9
  <2>11. m.life \in Nat \ {0} /\ m.match \in 1..(n - 1)
    BY <2>2 DEF Memory
  <2>12. g \in Memory(n)
    <3>1. z \in Nat \ {0} /\ y \in SUBSET Times
      BY <1>1, <2>2, <2>4, <2>11 DEF Memory
    <3> QED
      BY <2>2, <2>5, <3>1 DEF Memory
  <2>13. p0 \in [match : 1..(n - 1), at : 0..c.now] /\ p0.match = m.match /\ p0.at = f.at
    BY <1>1, <2>3, <2>11
  <2>14. Rows(e, n, c.now) /\ UpTo(e, c.upto)
    BY <2>2, <2>4, <2>9, <2>13 DEF Rows, UpTo
  <2>15. IsFiniteSet(d.spawns) /\ IsFiniteSet(x)
    <3>1. IsFiniteSet(d.spawns)
      BY <2>2 DEF Tidy
    <3> QED
      BY <2>4, <3>1, FS_AddElement
  <2>16. Tidy(e, c.polls)
    BY <2>2, <2>6, <2>9, <2>15 DEF Tidy
  <2>17. \A r \in d.samples : r.life \in Nat
    BY <2>2 DEF Rows
  <2>18. Beside(g, c.last, e, c.polls) /\ Beside(g, c.last, c.db, c.polls)
    <3>1. \A r \in c.db.samples : r.life \in Nat
      BY <2>2 DEF Rows
    <3> QED
      BY <2>2, <2>9, <2>11, <2>17, <3>1 DEF Beside
  <2>19. \A k : /\ SpawnsOf(e, k) \subseteq x /\ IsFiniteSet(SpawnsOf(e, k))
                /\ IsFiniteSet(SpawnsOf(d, k))
                /\ Cardinality(SpawnsOf(d, k)) \in Nat /\ Cardinality(SpawnsOf(e, k)) \in Nat
                /\ Cardinality(SpawnsOf(d, k)) <= Cardinality(SpawnsOf(e, k))
    <3> TAKE k
    <3>1. /\ SpawnsOf(e, k) \subseteq x /\ SpawnsOf(d, k) \subseteq d.spawns
          /\ SpawnsOf(d, k) \subseteq SpawnsOf(e, k)
      BY <2>4, <2>9 DEF SpawnsOf
    <3>2. IsFiniteSet(SpawnsOf(e, k)) /\ IsFiniteSet(SpawnsOf(d, k))
      BY <2>15, <3>1, FS_Subset
    <3>3. Cardinality(SpawnsOf(d, k)) <= Cardinality(SpawnsOf(e, k))
      BY <3>1, <3>2, FS_Subset
    <3> QED
      BY <3>1, <3>2, <3>3, FS_CardinalityType
  <2>20. Cardinality(SpawnsOf(e, m.match)) = Cardinality(SpawnsOf(d, m.match)) + 1
    <3>1. SpawnsOf(e, m.match) = SpawnsOf(d, m.match) \cup {p0}
      BY <2>4, <2>9, <2>13 DEF SpawnsOf
    <3>2. p0 \notin SpawnsOf(d, m.match)
      BY <1>1, <2>1, <2>13 DEF SpawnsOf
    <3> QED
      BY <2>19, <3>1, <3>2, FS_AddElement
  <2>21. ASSUME c.clean
         PROVE  Agreed(g, e)
    <3>1. Agreed(m, d)
      BY <2>2, <2>21
    <3>2. OpenIn(e) = OpenIn(d) /\ References(e)
      BY <2>9, <3>1 DEF Agreed, References, OpenIn
    <3>3. g.life <= 1 + Cardinality(SpawnsOf(e, g.match))
      <4>1. m.life <= 1 + Cardinality(SpawnsOf(d, m.match))
        BY <2>2, <3>1 DEF Agreed
      <4> QED
        BY <2>9, <2>11, <2>19, <2>20, <4>1
    <3>4. Counted(e)
      <4>1. ASSUME NEW r \in d.samples
            PROVE  r.life <= 1 + Cardinality(SpawnsOf(e, r.match))
        <5>1. r.life <= 1 + Cardinality(SpawnsOf(d, r.match))
          BY <3>1 DEF Agreed, Counted
        <5>2. r.life \in Nat
          BY <2>17
        <5> QED
          BY <2>19, <5>1, <5>2
      <4> QED
        BY <2>9, <4>1 DEF Counted
    <3> QED
      BY <2>9, <3>1, <3>2, <3>3, <3>4 DEF Agreed
  <2>22. Fed(lived, after)
    <3>1. /\ after.db = c.db /\ after.last = c.last /\ after.upto = c.upto
          /\ after.polls = c.polls /\ after.now = c.now /\ after.clean = c.clean
          /\ after.spawns = x
      BY <2>8, <2>10
    <3> QED
      BY <2>2, <2>7, <2>9, <2>12, <2>14, <2>16, <2>18, <2>21, <3>1 DEF Fed
  <2>23. AddEvent(lived).mem = g /\ Fed(AddEvent(lived), after)
    BY <2>9, <2>22, EventFed
  <2> QED
    BY <2>1, <2>4, <2>8, <2>9, <2>10, <2>13, <2>23
<1> QED
  BY <1>4, <1>5

-----------------------------------------------------------------------------
(* Steps. *)

\* The largest of a bounded set of numbers.
LEMMA LargestMember ==
  ASSUME NEW S, S \subseteq Nat, S # {}, NEW b \in Nat, \A x \in S : x <= b
  PROVE  LastOf(S) \in S /\ \A y \in S : y <= LastOf(S)
<1>1. PICK T : T = {n \in Nat : \E x \in S : n = b - x}
  OBVIOUS
<1>2. T \subseteq Nat /\ T # {}
  <2>1. PICK x \in S : TRUE
    OBVIOUS
  <2>2. b - x \in Nat
    BY <2>1
  <2> QED
    BY <1>1, <2>1, <2>2
<1>3. PICK t \in T : \A s \in T : <<s, t>> \notin OpToRel(<, Nat)
  BY <1>2, WFMin, NatLessThanWellFounded
<1>4. ASSUME NEW s \in T PROVE t <= s
  <2>1. s < t => <<s, t>> \in OpToRel(<, Nat)
    BY <1>2 DEF OpToRel
  <2>2. ~(s < t)
    BY <1>3, <2>1, Zenon
  <2> QED
    BY <1>2, <2>2
<1>5. PICK x \in S : t = b - x
  BY <1>1, <1>3
<1>6. ASSUME NEW y \in S PROVE y <= x
  <2>1. b - y \in Nat /\ b - y \in T
    BY <1>1, <1>6
  <2>2. b - x <= b - y
    BY <1>4, <1>5, <2>1
  <2> QED
    BY <1>5, <1>6, <2>2
<1> QED
  BY <1>6, Zenon DEF LastOf

\* A handler starts from the memory and the rows as they are.
LEMMA StateFed ==
  ASSUME Segmented, NEW h \in Nat, now <= h, NEW t, UpTo(work, t),
         NEW c, c = [db |-> db, spawns |-> work.spawns, last |-> mem.last, upto |-> t,
                     polls |-> polls, now |-> h, clean |-> ~failed],
         NEW s, s = State
  PROVE  Fed(s, c) /\ s.mem = mem /\ s.rows = work /\ s.next = nextId
<1>1. now \in Nat
  BY Thresholds DEF Segmented, TypeOK, Times
<1>2. s = [mem |-> s.mem, rows |-> s.rows, next |-> s.next]
      /\ s.mem = mem /\ s.rows = work /\ s.next = nextId
  BY DEF State
<1>3. /\ c.db = db /\ c.spawns = work.spawns /\ c.last = mem.last /\ c.upto = t
      /\ c.polls = polls /\ c.now = h /\ c.clean = ~failed
  OBVIOUS
<1>4. nextId \in Nat \ {0} /\ mem \in Memory(nextId)
  BY DEF Segmented, TypeOK, Memory
<1>5. 0..now \subseteq 0..h
  BY <1>1
<1>6. Rows(work, nextId, h)
  BY <1>5 DEF Segmented, TypeOK, IsDatabase, Rows
<1>7. Rows(db, nextId, h)
  BY <1>5 DEF Segmented, TypeOK, IsDatabase, Rows
<1>8. /\ Tidy(work, polls) /\ Beside(mem, mem.last, work, polls)
      /\ Beside(mem, mem.last, db, polls)
      /\ ~failed => Agreed(mem, work)
  BY DEF Segmented, RowsInv, MemoryInv, AgreedInv
<1> QED
  BY <1>2, <1>3, <1>4, <1>6, <1>7, <1>8 DEF Fed

\* A fact that is fed: first for the first time.
LEMMA FirstOffered ==
  ASSUME Segmented, resend = <<>>, NEW f \in Offered
  PROVE  /\ f \in Facts /\ f.at \in Nat
         /\ Later(work, f) /\ Later(db, f)
         /\ f.kind \in Polls => \A o \in polls : o < f.at
         /\ f.kind \notin Polls => f.at <= now
         /\ f.kind # "spawn" => now <= f.at
         /\ f.kind = "spawn" => spawned < f.at
<1>1. f \in Fresher
  BY Zenon DEF Offered
<1>2. f \in Facts /\ f.at \in Nat /\ f.at \in Times
  BY <1>1, Thresholds DEF Fresher, Facts, Times
<1>3. now \in Nat /\ spawned \in Int
  BY Thresholds DEF Segmented, TypeOK, Times, None
<1>4. /\ f.kind \in Polls => now < f.at
      /\ f.kind \notin Polls => f.at <= now
      /\ f.kind # "spawn" => now <= f.at
      /\ f.kind = "spawn" => spawned < f.at
  BY <1>1, <1>2, <1>3, Thresholds DEF Fresher, Polls
<1>5. f.kind \in Polls => \A o \in polls : o < f.at
  BY <1>2, <1>3, <1>4 DEF Segmented, FactsInv, DueInv
<1>6. ASSUME NEW d \in {work, db}
      PROVE  Later(d, f)
  <2>1. UpTo(d, now) /\ \A p \in d.spawns : p.at <= spawned
    BY DEF Segmented, FactsInv, DueInv
  <2>2. /\ \A m \in DOMAIN d.matches : d.matches[m].start \in Int
        /\ \A r \in d.samples : r.at \in Int
        /\ \A p \in d.spawns : p.at \in Int
    BY DEF Segmented, TypeOK, IsDatabase, MatchRows, Times
  <2> QED
    BY <1>2, <1>3, <1>4, <2>1, <2>2 DEF Later, UpTo
<1> QED
  BY <1>2, <1>4, <1>5, <1>6

LEMMA DueTyped ==
  ASSUME TypeOK
  PROVE  /\ Due \in Seq(Facts) /\ Len(Due) = Len(sent) + Len(resend)
         /\ Len(sent) \in Nat /\ Len(resend) \in Nat
         /\ \A i \in 1..Len(sent) : Due[i] = sent[i]
         /\ \A i \in 1..Len(resend) : Due[Len(sent) + i] = resend[i]
<1>1. sent \in Seq(Facts) /\ resend \in Seq(Facts)
  BY DEF TypeOK
<1>2. Len(sent) \in Nat /\ Len(resend) \in Nat
  BY <1>1, LenProperties
<1>3. /\ Due \in Seq(Facts) /\ Len(Due) = Len(sent) + Len(resend)
      /\ \A i \in 1..(Len(sent) + Len(resend)) :
           Due[i] = IF i <= Len(sent) THEN sent[i] ELSE resend[i - Len(sent)]
  BY <1>1, ConcatProperties DEF Due
<1> QED
  BY <1>2, <1>3

\* ... or again.
LEMMA AgainOffered ==
  ASSUME Segmented, resend # <<>>, NEW f \in Offered
  PROVE  /\ f \in Facts /\ f.at \in Nat /\ f.at <= now
         /\ f = Due[Len(sent) + 1] /\ Len(resend) \in Nat \ {0}
         /\ Later(work, f) /\ Later(db, f)
         /\ f.kind \in Polls => f.at \in polls
         /\ f.kind = "spawn" => f.at <= spawned
<1>1. f = Head(resend) /\ resend \in Seq(Facts)
  BY Zenon DEF Offered, Segmented, TypeOK
<1>2. Len(resend) \in Nat \ {0} /\ f = resend[1]
  BY <1>1, EmptySeq
<1>3. f = Due[Len(sent) + 1] /\ Len(sent) + 1 \in 1..Len(Due)
  BY <1>2, DueTyped DEF Segmented
<1>4. DOMAIN Due = 1..Len(Due) /\ DOMAIN resend = 1..Len(resend)
  BY <1>1, DueTyped, LenProperties DEF Segmented
<1>5. f \in Facts
  BY <1>1, <1>2, ElementOfSeq
<1>6. f.at \in Nat
  BY <1>5 DEF Facts, Times
<1>7. /\ f.at <= now
      /\ f.kind = "spawn" => f.at <= spawned
      /\ f.kind \in Polls => f.at \in polls
      /\ Later(db, f)
  BY <1>3, <1>4 DEF Segmented, FactsInv, DueInv
<1>8. Later(work, f)
  BY <1>2, <1>4 DEF Segmented, FactsInv, DueInv
<1> QED
  BY <1>2, <1>3, <1>5, <1>6, <1>7, <1>8

\* Feeding the first fact to be fed again leaves what is due as it was.
LEMMA MovedOver ==
  ASSUME NEW S, NEW s \in Seq(S), NEW r \in Seq(S), r # <<>>
  PROVE  Append(s, Head(r)) \o Tail(r) = s \o r
<1>1. PICK a, b : a = Append(s, Head(r)) /\ b = Tail(r)
  OBVIOUS
<1>2. /\ Len(s) \in Nat /\ Len(r) \in Nat \ {0} /\ Head(r) = r[1]
      /\ Head(r) \in S
  BY EmptySeq, LenProperties, HeadTailProperties
<1>3. /\ a \in Seq(S) /\ Len(a) = Len(s) + 1
      /\ \A i \in 1..Len(s) : a[i] = s[i]
      /\ a[Len(s) + 1] = r[1]
  BY <1>1, <1>2, AppendProperties
<1>4. /\ b \in Seq(S) /\ Len(b) = Len(r) - 1
      /\ \A i \in 1..Len(b) : b[i] = r[i + 1]
  BY <1>1, HeadTailProperties
<1>5. /\ a \o b \in Seq(S) /\ Len(a \o b) = Len(a) + Len(b)
      /\ \A i \in 1..(Len(a) + Len(b)) :
           (a \o b)[i] = IF i <= Len(a) THEN a[i] ELSE b[i - Len(a)]
  BY <1>3, <1>4, ConcatProperties
<1>6. /\ s \o r \in Seq(S) /\ Len(s \o r) = Len(s) + Len(r)
      /\ \A i \in 1..(Len(s) + Len(r)) :
           (s \o r)[i] = IF i <= Len(s) THEN s[i] ELSE r[i - Len(s)]
  BY ConcatProperties
<1>7. ASSUME NEW i \in 1..(Len(s) + Len(r))
      PROVE  (a \o b)[i] = (s \o r)[i]
  <2>1. /\ i \in Nat /\ 1 <= i /\ i <= Len(s) + Len(r)
        /\ i \in 1..(Len(a) + Len(b))
    BY <1>2, <1>3, <1>4
  <2>2. (s \o r)[i] = IF i <= Len(s) THEN s[i] ELSE r[i - Len(s)]
    BY <1>6
  <2>3. (a \o b)[i] = IF i <= Len(a) THEN a[i] ELSE b[i - Len(a)]
    BY <1>5, <2>1
  <2>4. CASE i <= Len(s)
    <3>1. i \in 1..Len(s) /\ i <= Len(a)
      BY <1>2, <1>3, <2>1, <2>4
    <3> QED
      BY <1>3, <2>2, <2>3, <2>4, <3>1
  <2>5. CASE i = Len(s) + 1
    <3>1. i <= Len(a) /\ ~(i <= Len(s)) /\ i - Len(s) = 1
      BY <1>2, <1>3, <2>5
    <3>2. a[i] = r[1]
      BY <1>3, <2>5
    <3>3. (s \o r)[i] = r[1]
      <4>1. (s \o r)[i] = r[i - Len(s)]
        BY <2>2, <3>1, Zenon
      <4> QED
        BY <3>1, <4>1, Zenon
    <3>4. (a \o b)[i] = a[i]
      BY <2>3, <3>1, Zenon
    <3> QED
      BY <3>2, <3>3, <3>4, Zenon
  <2>6. CASE i > Len(s) + 1
    <3>1. Len(s) \in Nat /\ Len(r) \in Nat /\ Len(a) = Len(s) + 1 /\ Len(b) = Len(r) - 1
      BY <1>2, <1>3, <1>4
    <3>2. PICK k : k = i - Len(a)
      OBVIOUS
    <3>3. k \in 1..Len(b) /\ k + 1 = i - Len(s) /\ ~(i <= Len(a)) /\ ~(i <= Len(s))
      BY <2>1, <2>6, <3>1, <3>2
    <3> QED
      BY <1>4, <2>2, <2>3, <3>2, <3>3
  <2>7. Len(s) \in Nat
    BY <1>2
  <2>8. i <= Len(s) \/ i = Len(s) + 1 \/ i > Len(s) + 1
    BY <2>1, <2>7
  <2> QED
    BY <2>4, <2>5, <2>6, <2>8, Zenon
<1>8. Len(a \o b) = Len(s \o r)
  BY <1>2, <1>3, <1>4, <1>5, <1>6
<1>9. a \o b = s \o r
  <2>1. PICK u, v : u = a \o b /\ v = s \o r
    OBVIOUS
  <2>2. /\ u \in Seq(S) /\ v \in Seq(S) /\ Len(u) = Len(v)
        /\ \A i \in 1..Len(u) : u[i] = v[i]
    BY <1>5, <1>6, <1>7, <1>8, <2>1
  <2> QED
    BY <2>1, <2>2, SeqEqual
<1> QED
  BY <1>1, <1>9

\* What is due after a fact was fed, and how the fact stands to it.
LEMMA TakeAgain ==
  ASSUME Segmented, NEW f \in Offered, Take(f), resend # <<>>
  PROVE  /\ Due' = Due /\ sent' \in Seq(Facts) /\ resend' \in Seq(Facts) /\ sent' # <<>>
         /\ now' = now /\ spawned' = spawned /\ polls' = polls /\ db' = db
         /\ \A i \in DOMAIN resend' : Later(work, resend'[i]) /\ InTurn(f, resend'[i])
<1>1. /\ f \in Facts /\ f.at \in Nat /\ f.at <= now
      /\ f = Due[Len(sent) + 1] /\ Len(resend) \in Nat \ {0}
      /\ f.kind \in Polls => f.at \in polls
      /\ f.kind = "spawn" => f.at <= spawned
  BY AgainOffered
<1>2. sent \in Seq(Facts) /\ resend \in Seq(Facts) /\ f = Head(resend)
  BY Zenon DEF Offered, Segmented, TypeOK
<1>3. /\ sent' = Append(sent, f) /\ resend' = Tail(resend) /\ db' = db
  BY DEF Take
<1>4. Due' = Due
  BY <1>2, <1>3, MovedOver DEF Due
<1>5. now \in Nat /\ spawned \in Int
  BY Thresholds DEF Segmented, TypeOK, Times, None
<1>6. now' = now
  BY <1>1, <1>5 DEF Take
<1>7. spawned' = spawned
  BY <1>1, <1>5 DEF Take
<1>8. polls' = polls
  BY <1>1 DEF Take
<1>9. /\ sent' \in Seq(Facts) /\ resend' \in Seq(Facts) /\ sent' # <<>>
      /\ Len(resend') = Len(resend) - 1
      /\ \A i \in 1..Len(resend') : resend'[i] = resend[i + 1]
  <2>1. Len(sent') = Len(sent) + 1 /\ sent' \in Seq(Facts) /\ Len(sent) \in Nat
    BY <1>1, <1>2, <1>3, AppendProperties, LenProperties
  <2>2. sent' # <<>>
    BY <2>1, EmptySeq
  <2> QED
    BY <1>1, <1>2, <1>3, <2>1, <2>2, HeadTailProperties
<1>10. ASSUME NEW i \in DOMAIN resend'
       PROVE  Later(work, resend'[i]) /\ InTurn(f, resend'[i])
  <2>1. i \in 1..Len(resend') /\ resend'[i] = resend[i + 1] /\ i + 1 \in 1..Len(resend)
    BY <1>1, <1>9, LenProperties
  <2>2. i + 1 \in DOMAIN resend
    BY <1>2, <2>1, LenProperties
  <2>3. Later(work, resend[i + 1])
    BY <2>2 DEF Segmented, FactsInv, DueInv
  <2>4. /\ Due[Len(sent) + (i + 1)] = resend[i + 1] /\ Len(sent) \in Nat
        /\ Len(sent) + (i + 1) \in 1..Len(Due) /\ Len(sent) + 1 \in 1..Len(Due)
        /\ DOMAIN Due = 1..Len(Due)
    BY <1>1, <2>1, DueTyped, LenProperties DEF Segmented
  <2>5. InTurn(Due[Len(sent) + 1], Due[Len(sent) + (i + 1)])
    <3>1. Len(sent) + 1 < Len(sent) + (i + 1)
      BY <2>1, <2>4
    <3> QED
      BY <2>4, <3>1 DEF Segmented, FactsInv, DueInv
  <2> QED
    BY <1>1, <2>1, <2>3, <2>4, <2>5
<1> QED
  BY <1>3, <1>4, <1>6, <1>7, <1>8, <1>9, <1>10

LEMMA TakeFirst ==
  ASSUME Segmented, NEW f \in Offered, Take(f), resend = <<>>
  PROVE  /\ sent' \in Seq(Facts) /\ resend' = <<>> /\ sent' # <<>> /\ db' = db
         /\ Due \in Seq(Facts) /\ Due' = Append(Due, f)
         /\ now' \in Times /\ now <= now' /\ f.at <= now'
         /\ spawned' \in {None} \cup (0..now') /\ spawned <= spawned'
         /\ f.kind = "spawn" => f.at <= spawned'
         /\ polls' = IF f.kind \in Polls THEN polls \cup {f.at} ELSE polls
<1>1. /\ f \in Facts /\ f.at \in Nat /\ f.at \in Times
      /\ f.kind \notin Polls => f.at <= now
  BY FirstOffered DEF Facts
<1>2. sent \in Seq(Facts) /\ resend = <<>>
  BY DEF Segmented, TypeOK
<1>3. /\ sent' = Append(sent, f) /\ resend' = <<>> /\ db' = db
      /\ polls' = IF f.kind \in Polls THEN polls \cup {f.at} ELSE polls
  BY <1>2 DEF Take
<1>4. /\ now \in Times /\ now \in Nat
      /\ spawned \in {None} \cup (0..now) /\ spawned \in Int
  BY Thresholds DEF Segmented, TypeOK, Times, None
<1>5. now' \in Times /\ now <= now' /\ f.at <= now' /\ now' \in Nat
  BY <1>1, <1>4 DEF Take
<1>6. spawned' \in {None} \cup (0..now') /\ spawned <= spawned'
      /\ (f.kind = "spawn" => f.at <= spawned')
  BY <1>1, <1>4, <1>5 DEF Take, Polls
<1>7. Len(sent') = Len(sent) + 1 /\ sent' \in Seq(Facts) /\ Len(sent) \in Nat
  BY <1>1, <1>2, <1>3, AppendProperties, LenProperties
<1>8. sent' # <<>>
  BY <1>7, EmptySeq
<1>9. Due = sent /\ Due' = sent'
  BY <1>2, <1>3, <1>7, ConcatEmptySeq DEF Due
<1> QED
  BY <1>2, <1>3, <1>5, <1>6, <1>7, <1>8, <1>9

\* Taking a fact: the clocks move on, and what is due stays in turn.
LEMMA TakeFacts ==
  ASSUME Segmented, NEW f \in Offered, Take(f)
  PROVE  /\ f \in Facts /\ f.at \in Nat /\ Later(work, f) /\ Later(db, f)
         /\ sent' \in Seq(Facts) /\ resend' \in Seq(Facts) /\ sent' # <<>> /\ db' = db
         /\ now' \in Times /\ now' \in Nat /\ now <= now' /\ f.at <= now'
         /\ spawned' \in {None} \cup (0..now') /\ spawned' \in Int /\ spawned <= spawned'
         /\ f.kind = "spawn" => f.at <= spawned'
         /\ f.kind \in Polls => f.at \in polls \/ \A o \in polls : o < f.at
         /\ polls' = IF f.kind \in Polls THEN polls \cup {f.at} ELSE polls
         /\ polls \subseteq Nat /\ polls' \subseteq 0..now'
         /\ DueInv'
         /\ \A i \in DOMAIN resend' : Later(work, resend'[i]) /\ InTurn(f, resend'[i])
<1>1. /\ now \in Times /\ now \in Nat /\ polls \subseteq 0..now /\ polls \subseteq Nat
      /\ spawned \in {None} \cup (0..now) /\ spawned \in Int
  BY Thresholds DEF Segmented, TypeOK, FactsInv, Times, None
<1>2. CASE resend # <<>>
  <2>1. /\ f \in Facts /\ f.at \in Nat /\ f.at <= now
        /\ Later(work, f) /\ Later(db, f)
        /\ f.kind \in Polls => f.at \in polls
        /\ f.kind = "spawn" => f.at <= spawned
    BY <1>2, AgainOffered
  <2>2. /\ Due' = Due /\ sent' \in Seq(Facts) /\ resend' \in Seq(Facts) /\ sent' # <<>>
        /\ now' = now /\ spawned' = spawned /\ polls' = polls /\ db' = db
        /\ \A i \in DOMAIN resend' : Later(work, resend'[i]) /\ InTurn(f, resend'[i])
    BY <1>2, TakeAgain
  <2>3. polls' = IF f.kind \in Polls THEN polls \cup {f.at} ELSE polls
    BY <2>1, <2>2
  <2>4. DueInv'
    BY <2>2 DEF Segmented, FactsInv, DueInv
  <2>5. /\ now' \in Times /\ now' \in Nat /\ now <= now' /\ f.at <= now'
        /\ spawned' \in {None} \cup (0..now') /\ spawned' \in Int /\ spawned <= spawned'
        /\ polls \subseteq Nat /\ polls' \subseteq 0..now'
    BY <1>1, <2>1, <2>2
  <2>6. f.kind = "spawn" => f.at <= spawned'
    <3>1. f.kind = "spawn" => f.at <= spawned
      BY <2>1
    <3> QED
      BY <2>2, <3>1
  <2> QED
    BY <2>1, <2>2, <2>3, <2>4, <2>5, <2>6
<1>3. CASE resend = <<>>
  <2>1. /\ f \in Facts /\ f.at \in Nat
        /\ Later(work, f) /\ Later(db, f)
        /\ f.kind \in Polls => \A o \in polls : o < f.at
        /\ f.kind \notin Polls => f.at <= now
        /\ f.kind # "spawn" => now <= f.at
        /\ f.kind = "spawn" => spawned < f.at
    BY <1>3, FirstOffered
  <2>2. /\ sent' \in Seq(Facts) /\ resend' = <<>> /\ sent' # <<>> /\ db' = db
        /\ Due \in Seq(Facts) /\ Due' = Append(Due, f)
        /\ now' \in Times /\ now <= now' /\ f.at <= now'
        /\ spawned' \in {None} \cup (0..now') /\ spawned <= spawned'
        /\ f.kind = "spawn" => f.at <= spawned'
        /\ polls' = IF f.kind \in Polls THEN polls \cup {f.at} ELSE polls
    BY <1>3, TakeFirst
  <2>3. now' \in Nat /\ spawned' \in Int
    BY <2>2, Thresholds DEF Times, None
  <2>4. polls' \subseteq 0..now'
    <3>1. 0..now \subseteq 0..now' /\ f.at \in 0..now'
      BY <1>1, <2>1, <2>2, <2>3
    <3> QED
      BY <1>1, <2>2, <3>1
  <2>5. resend' \in Seq(Facts) /\ DOMAIN resend' = {}
    BY <2>2
  <2>6. DueInv'
    <3>1. PICK D, E : D = Due /\ E = Due'
      OBVIOUS
    <3>2. /\ D \in Seq(Facts) /\ Len(D) \in Nat /\ DOMAIN D = 1..Len(D)
      BY <2>2, <3>1, LenProperties
    <3>3. /\ E \in Seq(Facts) /\ DOMAIN E = 1..(Len(D) + 1)
          /\ \A i \in 1..Len(D) : E[i] = D[i]
          /\ E[Len(D) + 1] = f
      BY <2>1, <2>2, <3>1, <3>2, AppendProperties, LenProperties
    <3>4. /\ \A i, j \in DOMAIN D : i < j => InTurn(D[i], D[j])
          /\ \A i \in DOMAIN D :
               /\ D[i].at <= now
               /\ D[i].kind = "spawn" => D[i].at <= spawned
               /\ D[i].kind \in Polls => D[i].at \in polls
               /\ Later(db, D[i])
      BY <3>1 DEF Segmented, FactsInv, DueInv
    <3>5. \A i \in DOMAIN D : D[i].at \in Nat
      <4>1. \A i \in DOMAIN D : D[i] \in Facts
        BY <3>2, ElementOfSeq
      <4> QED
        BY <4>1, Thresholds DEF Facts, Times
    <3>6. ASSUME NEW i \in DOMAIN E
          PROVE  /\ E[i].at <= now'
                 /\ E[i].kind = "spawn" => E[i].at <= spawned'
                 /\ E[i].kind \in Polls => E[i].at \in polls'
                 /\ Later(db', E[i])
      <4>1. CASE i \in 1..Len(D)
        BY <1>1, <2>2, <2>3, <3>2, <3>3, <3>4, <3>5, <4>1
      <4>2. CASE i = Len(D) + 1
        BY <2>1, <2>2, <3>3, <4>2
      <4>3. i \in 1..Len(D) \/ i = Len(D) + 1
        BY <3>2, <3>3
      <4> QED
        BY <4>1, <4>2, <4>3
    <3>7. ASSUME NEW i \in DOMAIN E, NEW j \in DOMAIN E, i < j
          PROVE  InTurn(E[i], E[j])
      <4>1. i \in 1..Len(D) /\ (j \in 1..Len(D) \/ j = Len(D) + 1)
        BY <3>2, <3>3, <3>7
      <4>2. CASE j \in 1..Len(D)
        BY <3>2, <3>3, <3>4, <3>7, <4>1, <4>2
      <4>3. CASE j = Len(D) + 1
        <5>1. /\ D[i].at <= now /\ D[i].at \in Nat
              /\ D[i].kind = "spawn" => D[i].at <= spawned
          BY <3>2, <3>4, <3>5, <4>1
        <5>2. InTurn(D[i], f)
          BY <1>1, <2>1, <5>1 DEF InTurn
        <5> QED
          BY <3>3, <4>1, <4>3, <5>2
      <4> QED
        BY <4>1, <4>2, <4>3
    <3> QED
      BY <3>1, <3>6, <3>7 DEF DueInv
  <2> QED
    BY <1>1, <2>1, <2>2, <2>3, <2>4, <2>5, <2>6
<1> QED
  BY <1>2, <1>3

\* Whatever handler was called: what it leaves behind keeps the invariant.
LEMMA FeedStep ==
  ASSUME Segmented, NEW f \in Offered, Take(f), NEW s, Becomes(s), NEW c, Fed(s, c),
         c.db = db, c.last = s.mem.last, c.polls = polls', c.now = now', ~failed => c.clean,
         UpTo(s.rows, now'), \A p \in s.rows.spawns : p.at <= spawned',
         s.mem.last # None => s.mem.last \in polls', s.mem.match # 0 => s.mem.last # None,
         \A i \in DOMAIN resend' : Later(s.rows, resend'[i])
  PROVE  Segmented'
<1>1. /\ f \in Facts /\ f.at \in Nat
      /\ sent' \in Seq(Facts) /\ resend' \in Seq(Facts) /\ sent' # <<>> /\ db' = db
      /\ now' \in Times /\ now' \in Nat /\ now <= now' /\ f.at <= now'
      /\ spawned' \in {None} \cup (0..now') /\ spawned' \in Int /\ spawned <= spawned'
      /\ f.kind \in Polls => f.at \in polls \/ \A o \in polls : o < f.at
      /\ polls' = IF f.kind \in Polls THEN polls \cup {f.at} ELSE polls
      /\ polls \subseteq Nat /\ polls' \subseteq 0..now'
      /\ DueInv'
  BY TakeFacts
<1>2. mem' = s.mem /\ work' = s.rows /\ nextId' = s.next
  BY DEF Becomes
<1>3. failed' = failed /\ faults' = faults
  BY DEF Take
<1>4. TypeOK'
  <2>1. nextId' \in Nat \ {0} /\ mem' \in Memory(nextId')
    BY <1>2 DEF Fed
  <2>2. Rows(work', nextId', now') /\ Rows(db', nextId', now')
    BY <1>1, <1>2 DEF Fed
  <2>3. IsDatabase(work)' /\ IsDatabase(db)'
    BY <2>2 DEF Rows, IsDatabase
  <2>4. polls' \subseteq Times
    BY <1>1, Thresholds DEF Times
  <2>5. failed' \in BOOLEAN /\ faults' \in Nat
    BY <1>3 DEF Segmented, TypeOK
  <2> QED
    BY <1>1, <2>1, <2>3, <2>4, <2>5 DEF TypeOK, Memory
<1>5. FactsInv'
  <2>1. \A i \in DOMAIN resend' : Later(work', resend'[i])
    BY <1>2
  <2>2. UpTo(work', now') /\ \A p \in work'.spawns : p.at <= spawned'
    BY <1>2
  <2>3. UpTo(db', now') /\ \A p \in db'.spawns : p.at <= spawned'
    <3>1. UpTo(db, now) /\ \A p \in db.spawns : p.at <= spawned
      BY DEF Segmented, FactsInv
    <3>2. /\ \A m \in DOMAIN db.matches : db.matches[m].start \in Int
          /\ \A r \in db.samples : r.at \in Int
          /\ \A p \in db.spawns : p.at \in Int
          /\ now \in Int /\ spawned \in Int
      BY Thresholds DEF Segmented, TypeOK, IsDatabase, MatchRows, Times, None
    <3>3. UpTo(db, now')
      BY <1>1, <3>1, <3>2 DEF UpTo
    <3>4. \A p \in db.spawns : p.at <= spawned'
      BY <1>1, <3>1, <3>2
    <3> QED
      BY <1>1, <3>3, <3>4
  <2> QED
    BY <1>1, <2>1, <2>2, <2>3 DEF FactsInv
<1>6. RowsInv'
  <2>1. Tidy(work', polls')
    BY <1>2 DEF Fed
  <2>2. Tidy(db, polls) /\ References(db)
    BY DEF Segmented, RowsInv
  <2>3. Tidy(db, polls')
    <3>1. CASE f.kind \in Polls
      <4>1. Tidy(db, polls \cup {f.at})
        BY <1>1, <2>2, <3>1, TidyGrows
      <4> QED
        BY <1>1, <3>1, <4>1
    <3>2. CASE f.kind \notin Polls
      BY <1>1, <2>2, <3>2
    <3> QED
      BY <3>1, <3>2
  <2> QED
    BY <1>1, <2>1, <2>2, <2>3 DEF RowsInv
<1>7. MemoryInv'
  <2>1. Beside(mem', mem'.last, work', polls') /\ Beside(mem', mem'.last, db', polls')
    BY <1>1, <1>2 DEF Fed
  <2> QED
    BY <1>2, <2>1 DEF MemoryInv
<1>8. AgreedInv'
  <2>1. ~failed' => Agreed(mem', work')
    BY <1>2, <1>3 DEF Fed
  <2>2. ~failed => Counted(db) /\ \A m1, m2 \in OpenIn(db) : m1 = m2
    BY DEF Segmented, AgreedInv
  <2> QED
    BY <1>1, <1>3, <2>1, <2>2 DEF AgreedInv
<1> QED
  BY <1>4, <1>5, <1>6, <1>7, <1>8 DEF Segmented

\* A handler whose readings and matches go up to t, for an agent whose clock
\* is not behind t.
LEMMA UpToLater ==
  ASSUME NEW d, NEW n \in Nat, NEW h \in Nat, Rows(d, n, h), NEW t \in Int, NEW u \in Int,
         t <= u, UpTo(d, t)
  PROVE  UpTo(d, u)
<1>1. /\ \A m \in DOMAIN d.matches : d.matches[m].start \in Int
      /\ \A r \in d.samples : r.at \in Int
  BY Thresholds DEF Rows, MatchRows, Times
<1> QED
  BY <1>1 DEF UpTo

LEMMA PresenceStep ==
  ASSUME Segmented, FeedPresence
  PROVE  Segmented'
<1>1. PICK f \in Offered : f.kind \in Polls /\ Take(f) /\ Becomes(Presence(State, f))
  BY DEF FeedPresence
<1>2. /\ f \in Facts /\ f.at \in Nat /\ Later(work, f) /\ Later(db, f)
      /\ db' = db /\ now' \in Nat /\ now <= now' /\ f.at <= now' /\ spawned <= spawned'
      /\ spawned' \in Int
      /\ f.at \in polls \/ \A o \in polls : o < f.at
      /\ polls' = polls \cup {f.at} /\ polls \subseteq Nat
      /\ \A i \in DOMAIN resend' : Later(work, resend'[i]) /\ InTurn(f, resend'[i])
      /\ resend' \in Seq(Facts)
  BY <1>1, TakeFacts
<1>3. f.kind # "spawn" /\ UpTo(work, f.at) /\ UpTo(db, f.at)
  BY <1>1, <1>2 DEF Polls, Later
<1>4. PICK h, P, s : h = now' /\ P = polls /\ s = State
  OBVIOUS
<1>5. PICK c : c = [db |-> db, spawns |-> work.spawns, last |-> mem.last, upto |-> f.at,
                    polls |-> polls, now |-> h, clean |-> ~failed]
  OBVIOUS
<1>6. Fed(s, c) /\ s.mem = mem /\ s.rows = work /\ s.next = nextId
  BY <1>2, <1>3, <1>4, <1>5, StateFed
<1>7. PICK after : after = [db |-> c.db, spawns |-> c.spawns, last |-> f.at, upto |-> f.at,
                            polls |-> P \cup {f.at}, now |-> c.now, clean |-> c.clean]
  OBVIOUS
<1>8. PICK r : r = Presence(s, f)
  OBVIOUS
<1>9. Fed(r, after) /\ r.mem.last = f.at
  <2>1. Tidy(db, polls)
    BY DEF Segmented, RowsInv
  <2>2. /\ s.mem.last # None => s.mem.last \in polls
        /\ s.mem.match # 0 => s.mem.last # None
    BY <1>6 DEF Segmented, MemoryInv
  <2>3. /\ c.last = s.mem.last /\ c.polls = P /\ P \subseteq Nat /\ c.upto = f.at
        /\ f.at \in P \/ \A o \in P : o < f.at
        /\ c.now \in Nat /\ f.at <= c.now
        /\ s.mem.last # None => s.mem.last \in P
        /\ s.mem.match # 0 => s.mem.last # None
        /\ Tidy(c.db, P) /\ UpTo(c.db, f.at)
    BY <1>2, <1>3, <1>4, <1>5, <1>6, <2>1, <2>2
  <2>4. Fed(Presence(s, f), after) /\ Presence(s, f).mem.last = f.at
    BY <1>2, <1>6, <1>7, <2>3, PresenceFed
  <2> QED
    BY <1>8, <2>4
<1>10. /\ after.db = db /\ after.last = r.mem.last /\ after.polls = polls'
       /\ after.now = now' /\ after.clean = ~failed
       /\ after.spawns = work.spawns /\ after.upto = f.at
  BY <1>2, <1>4, <1>5, <1>7, <1>9
<1>11. /\ Rows(r.rows, r.next, h) /\ r.next \in Nat /\ UpTo(r.rows, f.at)
       /\ r.rows.spawns = work.spawns
  BY <1>4, <1>9, <1>10 DEF Fed
<1>12. UpTo(r.rows, now')
  BY <1>2, <1>4, <1>11, UpToLater
<1>13. \A p \in r.rows.spawns : p.at <= spawned'
  <2>1. \A p \in work.spawns : p.at <= spawned /\ p.at \in Int
    BY DEF Segmented, TypeOK, IsDatabase, FactsInv
  <2>2. spawned \in Int
    BY Thresholds DEF Segmented, TypeOK, Times, None
  <2> QED
    BY <1>2, <1>11, <2>1, <2>2
<1>14. ASSUME NEW i \in DOMAIN resend'
       PROVE  Later(r.rows, resend'[i])
  <2>1. PICK g : g = resend'[i]
    OBVIOUS
  <2>2. Later(work, g) /\ InTurn(f, g)
    BY <1>2, <2>1
  <2>3. g \in Facts
    BY <1>2, <2>1, ElementOfSeq, LenProperties
  <2>4. g.at \in Int
    BY <2>3, Thresholds DEF Facts, Times
  <2>5. g.kind # "spawn" => UpTo(r.rows, g.at)
    <3>1. g.kind # "spawn" => f.at <= g.at
      BY <1>3, <2>2 DEF InTurn
    <3> QED
      BY <1>2, <1>4, <1>11, <2>4, <3>1, UpToLater
  <2>6. g.kind = "spawn" => \A p \in r.rows.spawns : p.at < g.at
    BY <1>11, <2>2 DEF Later
  <2> QED
    BY <2>1, <2>5, <2>6 DEF Later
<1>15. r.mem.last # None /\ r.mem.last \in polls'
  BY <1>2, <1>9 DEF None
<1>16. Becomes(r)
  BY <1>1, <1>4, <1>8
<1> QED
  BY <1>1, <1>9, <1>10, <1>12, <1>13, <1>14, <1>15, <1>16, FeedStep

LEMMA SpawnStep ==
  ASSUME Segmented, FeedSpawn
  PROVE  Segmented'
<1>1. PICK f \in Offered : f.kind = "spawn" /\ Take(f) /\ Becomes(Spawn(State, f))
  BY DEF FeedSpawn
<1>2. /\ f \in Facts /\ f.at \in Nat /\ Later(work, f)
      /\ db' = db /\ now' \in Nat /\ now <= now' /\ f.at <= now' /\ spawned <= spawned'
      /\ spawned' \in Int /\ f.at <= spawned'
      /\ polls' = polls
      /\ \A i \in DOMAIN resend' : Later(work, resend'[i]) /\ InTurn(f, resend'[i])
      /\ resend' \in Seq(Facts)
  BY <1>1, TakeFacts DEF Polls
<1>3. UpTo(work, now) /\ now \in Nat
  BY Thresholds DEF Segmented, TypeOK, FactsInv, Times
<1>4. PICK h, s : h = now' /\ s = State
  OBVIOUS
<1>5. PICK c : c = [db |-> db, spawns |-> work.spawns, last |-> mem.last, upto |-> now,
                    polls |-> polls, now |-> h, clean |-> ~failed]
  OBVIOUS
<1>6. Fed(s, c) /\ s.mem = mem /\ s.rows = work /\ s.next = nextId
  BY <1>2, <1>3, <1>4, <1>5, StateFed
<1>7. PICK r : r = Spawn(s, f)
  OBVIOUS
<1>8. PICK after : after = [db |-> c.db, spawns |-> r.rows.spawns, last |-> c.last,
                            upto |-> c.upto, polls |-> c.polls, now |-> c.now,
                            clean |-> c.clean]
  OBVIOUS
<1>9. /\ Fed(r, after) /\ r.mem.last = mem.last /\ r.mem.match = mem.match
      /\ \A p \in r.rows.spawns : p \in work.spawns \/ p.at = f.at
      /\ r.rows.matches = work.matches /\ r.rows.samples = work.samples
  <2>1. c.now \in Nat /\ f.at <= c.now
    BY <1>2, <1>4, <1>5
  <2>2. \A p \in s.rows.spawns : p.at < f.at
    BY <1>1, <1>2, <1>6 DEF Later
  <2> QED
    BY <1>2, <1>6, <1>7, <1>8, <2>1, <2>2, SpawnFed
<1>10. /\ after.db = db /\ after.last = r.mem.last /\ after.polls = polls'
       /\ after.now = now' /\ after.clean = ~failed
  BY <1>2, <1>4, <1>5, <1>8, <1>9
<1>11. UpTo(r.rows, now')
  <2>1. Rows(work, nextId, now) /\ nextId \in Nat
    BY DEF Segmented, TypeOK, IsDatabase, Rows
  <2>2. UpTo(work, now')
    BY <1>2, <1>3, <2>1, UpToLater
  <2> QED
    BY <1>9, <2>2 DEF UpTo
<1>12. \A p \in r.rows.spawns : p.at <= spawned'
  <2>1. \A p \in work.spawns : p.at <= spawned /\ p.at \in Int
    BY DEF Segmented, TypeOK, IsDatabase, FactsInv
  <2>2. spawned \in Int
    BY Thresholds DEF Segmented, TypeOK, Times, None
  <2> QED
    BY <1>2, <1>9, <2>1, <2>2
<1>13. ASSUME NEW i \in DOMAIN resend'
       PROVE  Later(r.rows, resend'[i])
  <2>1. PICK g : g = resend'[i]
    OBVIOUS
  <2>2. Later(work, g) /\ InTurn(f, g)
    BY <1>2, <2>1
  <2>3. g.kind # "spawn" => UpTo(r.rows, g.at)
    BY <1>9, <2>2 DEF Later, UpTo
  <2>4. g.kind = "spawn" => \A p \in r.rows.spawns : p.at < g.at
    <3>1. g.kind = "spawn" => f.at < g.at
      BY <1>1, <2>2 DEF InTurn
    <3> QED
      BY <1>9, <2>2, <3>1 DEF Later
  <2> QED
    BY <2>1, <2>3, <2>4 DEF Later
<1>14. /\ r.mem.last # None => r.mem.last \in polls'
       /\ r.mem.match # 0 => r.mem.last # None
  BY <1>2, <1>9 DEF Segmented, MemoryInv
<1>15. Becomes(r)
  BY <1>1, <1>4, <1>7
<1> QED
  BY <1>1, <1>9, <1>10, <1>11, <1>12, <1>13, <1>14, <1>15, FeedStep

LEMMA StatusStep ==
  ASSUME Segmented, FeedStatus
  PROVE  Segmented'
<1>1. PICK f \in Offered : f.kind = "stopped" /\ Take(f) /\ Becomes(AgentStatus(State, f))
  BY DEF FeedStatus
<1>2. /\ f \in Facts /\ f.at \in Nat /\ Later(work, f)
      /\ db' = db /\ now' \in Nat /\ now <= now' /\ f.at <= now' /\ spawned <= spawned'
      /\ spawned' \in Int
      /\ polls' = polls
      /\ \A i \in DOMAIN resend' : Later(work, resend'[i]) /\ InTurn(f, resend'[i])
      /\ resend' \in Seq(Facts)
  BY <1>1, TakeFacts DEF Polls
<1>3. UpTo(work, f.at)
  BY <1>1, <1>2 DEF Later
<1>4. PICK h, s : h = now' /\ s = State
  OBVIOUS
<1>5. PICK c : c = [db |-> db, spawns |-> work.spawns, last |-> mem.last, upto |-> f.at,
                    polls |-> polls, now |-> h, clean |-> ~failed]
  OBVIOUS
<1>6. Fed(s, c) /\ s.mem = mem /\ s.rows = work /\ s.next = nextId
  BY <1>2, <1>3, <1>4, <1>5, StateFed
<1>7. PICK r : r = Close(s, f.at)
  OBVIOUS
<1>8. Fed(r, c) /\ r.mem.match = 0 /\ r.mem.last = mem.last
  <2>1. f.at \in Times
    BY <1>2 DEF Facts
  <2>2. \A q \in s.rows.samples : q.match = s.mem.match => q.at <= f.at
    BY <1>3, <1>6 DEF UpTo
  <2> QED
    BY <1>6, <1>7, <2>1, <2>2, CloseFed
<1>9. /\ c.db = db /\ c.last = r.mem.last /\ c.polls = polls'
      /\ c.now = now' /\ c.clean = ~failed /\ c.spawns = work.spawns /\ c.upto = f.at
  BY <1>2, <1>4, <1>5, <1>8
<1>10. /\ Rows(r.rows, r.next, h) /\ r.next \in Nat /\ UpTo(r.rows, f.at)
       /\ r.rows.spawns = work.spawns
  BY <1>4, <1>8, <1>9 DEF Fed
<1>11. UpTo(r.rows, now')
  BY <1>2, <1>4, <1>10, UpToLater
<1>12. \A p \in r.rows.spawns : p.at <= spawned'
  <2>1. \A p \in work.spawns : p.at <= spawned /\ p.at \in Int
    BY DEF Segmented, TypeOK, IsDatabase, FactsInv
  <2>2. spawned \in Int
    BY Thresholds DEF Segmented, TypeOK, Times, None
  <2> QED
    BY <1>2, <1>10, <2>1, <2>2
<1>13. ASSUME NEW i \in DOMAIN resend'
       PROVE  Later(r.rows, resend'[i])
  <2>1. PICK g : g = resend'[i]
    OBVIOUS
  <2>2. Later(work, g) /\ InTurn(f, g)
    BY <1>2, <2>1
  <2>3. g \in Facts
    BY <1>2, <2>1, ElementOfSeq, LenProperties
  <2>4. g.at \in Int
    BY <2>3, Thresholds DEF Facts, Times
  <2>5. g.kind # "spawn" => UpTo(r.rows, g.at)
    <3>1. g.kind # "spawn" => f.at <= g.at
      BY <1>1, <2>2 DEF InTurn
    <3> QED
      BY <1>2, <1>4, <1>10, <2>4, <3>1, UpToLater
  <2>6. g.kind = "spawn" => \A p \in r.rows.spawns : p.at < g.at
    BY <1>10, <2>2 DEF Later
  <2> QED
    BY <2>1, <2>5, <2>6 DEF Later
<1>14. /\ r.mem.last # None => r.mem.last \in polls'
       /\ r.mem.match # 0 => r.mem.last # None
  BY <1>2, <1>8 DEF Segmented, MemoryInv
<1>15. Becomes(r)
  BY <1>1, <1>4, <1>7 DEF AgentStatus
<1> QED
  BY <1>1, <1>8, <1>9, <1>11, <1>12, <1>13, <1>14, <1>15, FeedStep

LEMMA CommitStep ==
  ASSUME Segmented, Commit
  PROVE  Segmented'
<1>1. /\ db' = work /\ sent' = <<>> /\ work' = work /\ nextId' = nextId /\ mem' = mem
      /\ now' = now /\ spawned' = spawned /\ resend' = resend /\ polls' = polls
      /\ failed' = failed /\ faults' = faults /\ References(work)
  BY DEF Commit, agent
<1>2. TypeOK'
  <2>1. IsDatabase(work)' /\ IsDatabase(db)'
    BY <1>1 DEF Segmented, TypeOK, IsDatabase
  <2> QED
    BY <1>1, <2>1, EmptySeq DEF Segmented, TypeOK
<1>3. Due' = resend /\ resend \in Seq(Facts) /\ DOMAIN resend = 1..Len(resend)
  BY <1>1, ConcatEmptySeq, LenProperties DEF Segmented, TypeOK, Due
<1>4. ASSUME NEW i \in DOMAIN resend
      PROVE  /\ Len(sent) + i \in DOMAIN Due /\ resend[i] = Due[Len(sent) + i]
             /\ i \in Nat /\ Len(sent) \in Nat
  BY <1>3, DueTyped, LenProperties DEF Segmented
<1>5. DueInv'
  <2>1. ASSUME NEW i \in DOMAIN resend
        PROVE  /\ resend[i].at <= now
               /\ resend[i].kind = "spawn" => resend[i].at <= spawned
               /\ resend[i].kind \in Polls => resend[i].at \in polls
               /\ Later(work, resend[i])
    BY <1>4 DEF Segmented, FactsInv, DueInv
  <2>2. ASSUME NEW i \in DOMAIN resend, NEW j \in DOMAIN resend, i < j
        PROVE  InTurn(resend[i], resend[j])
    <3>1. /\ Len(sent) + i \in DOMAIN Due /\ Len(sent) + j \in DOMAIN Due
          /\ resend[i] = Due[Len(sent) + i] /\ resend[j] = Due[Len(sent) + j]
          /\ Len(sent) + i < Len(sent) + j
      BY <1>4, <2>2
    <3> QED
      BY <3>1 DEF Segmented, FactsInv, DueInv
  <2> QED
    BY <1>1, <1>3, <2>1, <2>2 DEF DueInv
<1>6. FactsInv'
  BY <1>1, <1>5 DEF Segmented, FactsInv
<1>7. RowsInv'
  BY <1>1 DEF Segmented, RowsInv
<1>8. MemoryInv'
  BY <1>1 DEF Segmented, MemoryInv
<1>9. AgreedInv'
  <2>1. ASSUME ~failed
        PROVE  Agreed(mem, work) /\ Counted(work) /\ \A m1, m2 \in OpenIn(work) : m1 = m2
    BY <2>1 DEF Segmented, AgreedInv, Agreed
  <2> QED
    BY <1>1, <2>1 DEF AgreedInv
<1> QED
  BY <1>2, <1>6, <1>7, <1>8, <1>9 DEF Segmented

\* A transaction that is thrown back: the rows are those committed, and its
\* facts are due as before.
LEMMA VainStep ==
  ASSUME Segmented, SentInVain, faults' \in Nat, failed' \in BOOLEAN,
         mem' \in Memory(nextId), MemoryInv', AgreedInv'
  PROVE  Segmented'
<1>1. /\ work' = db /\ db' = db /\ sent' = <<>> /\ resend' = Due
      /\ now' = now /\ spawned' = spawned /\ nextId' = nextId /\ polls' = polls
  BY DEF SentInVain, Due
<1>2. /\ Due \in Seq(Facts) /\ Due' = Due
  BY <1>1, DueTyped, ConcatEmptySeq DEF Segmented, Due
<1>3. TypeOK'
  <2>1. IsDatabase(work)' /\ IsDatabase(db)'
    BY <1>1 DEF Segmented, TypeOK, IsDatabase
  <2> QED
    BY <1>1, <1>2, <2>1, EmptySeq DEF Segmented, TypeOK, Memory
<1>4. FactsInv'
  <2>1. DueInv'
    BY <1>1, <1>2 DEF Segmented, FactsInv, DueInv
  <2>2. \A i \in DOMAIN resend' : Later(work', resend'[i])
    BY <1>1 DEF Segmented, FactsInv, DueInv
  <2> QED
    BY <1>1, <2>1, <2>2 DEF Segmented, FactsInv
<1>5. RowsInv'
  BY <1>1 DEF Segmented, RowsInv
<1> QED
  BY <1>3, <1>4, <1>5 DEF Segmented

LEMMA RollbackStep ==
  ASSUME Segmented, Rollback
  PROVE  Segmented'
<1>1. /\ SentInVain /\ failed' = TRUE /\ faults' \in Nat /\ mem' = mem
      /\ work' = db /\ db' = db /\ polls' = polls
  BY DEF Rollback, SentInVain, Segmented, TypeOK
<1>2. MemoryInv'
  BY <1>1 DEF Segmented, MemoryInv
<1>3. AgreedInv'
  BY <1>1 DEF AgreedInv
<1>4. mem' \in Memory(nextId)
  BY <1>1 DEF Segmented, TypeOK, Memory
<1> QED
  BY <1>1, <1>2, <1>3, <1>4, VainStep

\* The database refuses rows only after a transaction has failed.
LEMMA RefuseStep ==
  ASSUME Segmented, Refuse
  PROVE  Segmented'
<1>1. /\ SentInVain /\ ~References(work) /\ failed' = failed /\ faults' \in Nat
      /\ failed' \in BOOLEAN /\ mem' = mem
      /\ work' = db /\ db' = db /\ polls' = polls
  BY DEF Refuse, SentInVain, Segmented, TypeOK
<1>2. MemoryInv'
  BY <1>1 DEF Segmented, MemoryInv
<1>3. failed
  BY <1>1 DEF Segmented, AgreedInv, Agreed
<1>4. AgreedInv'
  BY <1>1, <1>3 DEF AgreedInv
<1>5. mem' \in Memory(nextId)
  BY <1>1 DEF Segmented, TypeOK, Memory
<1> QED
  BY <1>1, <1>2, <1>4, <1>5, VainStep

LEMMA FreshMemory ==
  ASSUME NEW n \in Nat \ {0}
  PROVE  Fresh \in Memory(n) /\ Fresh.match = 0 /\ Fresh.last = None
BY Thresholds DEF Fresh, Memory

\* restore(): what the rows of an open match tell.
LEMMA RestoredMemory ==
  ASSUME Segmented, NEW m \in OpenIn(db)
  PROVE  /\ Restored(m) \in Memory(nextId) /\ Restored(m).match = m
         /\ Restored(m).last \in polls
         /\ Beside(Restored(m), Restored(m).last, db, polls)
         /\ ~failed => Restored(m).life <= 1 + Cardinality(SpawnsOf(db, m))
<1>1. PICK d, P, n, h : d = db /\ P = polls /\ n = nextId /\ h = now
  OBVIOUS
<1>2. /\ Tidy(d, P) /\ Rows(d, n, h) /\ n \in Nat \ {0} /\ P \subseteq 0..h /\ h \in Times
      /\ h \in Nat /\ (~failed => Counted(d))
      /\ m \in DOMAIN d.matches /\ ~d.matches[m].closed
  BY <1>1, Thresholds DEF Segmented, TypeOK, IsDatabase, Rows, RowsInv, FactsInv, AgreedInv,
                          OpenIn, Times
<1>3. PICK R : R = {r \in d.samples : r.match = m}
  OBVIOUS
<1>4. PICK start : start = d.matches[m].start
  OBVIOUS
<1>5. start \in P /\ start \in Times /\ \A r \in R : start <= r.at
  BY <1>2, <1>3, <1>4 DEF Tidy, Rows, MatchRows
<1>6. PICK L : L = {1} \cup {r.life : r \in R}
  OBVIOUS
<1>7. PICK A : A = {start} \cup {r.at : r \in R}
  OBVIOUS
<1>8. PICK life, last : life = LastOf(L) /\ last = LastOf(A)
  OBVIOUS
<1>9. \A r \in R : r.life \in Nat \ {0} /\ r.at \in P /\ r.at \in Nat
  BY <1>2, <1>3 DEF Rows, Tidy
<1>10. life \in L /\ \A y \in L : y <= life
  <2>1. PICK b \in Nat : \A r \in d.samples : r.life <= b
    BY <1>2 DEF Tidy
  <2>2. L \subseteq Nat /\ 1 \in L
    BY <1>6, <1>9
  <2>3. b + 1 \in Nat /\ \A y \in L : y <= b + 1
    BY <1>3, <1>6, <1>9, <2>1
  <2> QED
    BY <1>8, <2>2, <2>3, LargestMember
<1>11. last \in A /\ \A y \in A : y <= last
  <2>1. A \subseteq P /\ A # {}
    BY <1>5, <1>7, <1>9
  <2>2. A \subseteq Nat /\ \A y \in A : y <= h
    BY <1>2, <2>1
  <2> QED
    BY <1>2, <1>8, <2>1, <2>2, LargestMember
<1>12. /\ life \in Nat \ {0} /\ last \in P /\ last \in Times /\ last \in Nat
       /\ \A r \in R : r.life <= life /\ r.at <= last
  <2>1. life \in Nat \ {0}
    BY <1>6, <1>9, <1>10
  <2>2. last \in P
    BY <1>5, <1>7, <1>9, <1>11
  <2>3. last \in Times /\ last \in Nat
    BY <1>2, <2>2, Thresholds DEF Times
  <2> QED
    BY <1>6, <1>7, <1>10, <1>11, <2>1, <2>2, <2>3
<1>13. PICK g : g = Restored(m)
  OBVIOUS
<1>14. g = [playing |-> 0, miss |-> 0, match |-> m, start |-> start, last |-> last,
            life |-> life, seen |-> {}, shape |-> "none"]
  <2>1. /\ LastOf({1} \cup {r.life : r \in {q \in d.samples : q.match = m}}) = life
        /\ LastOf({d.matches[m].start} \cup {r.at : r \in {q \in d.samples : q.match = m}}) = last
    BY <1>3, <1>4, <1>6, <1>7, <1>8
  <2>2. g = [Fresh EXCEPT !.match = m, !.start = start, !.life = life, !.last = last]
    BY <1>1, <1>4, <1>13, <2>1 DEF Restored
  <2> QED
    BY <2>2 DEF Fresh
<1>15. g \in Memory(n) /\ g.match = m /\ g.last = last /\ g.life = life
  <2>1. m \in 0..(n - 1)
    BY <1>2 DEF Rows
  <2> QED
    BY <1>5, <1>12, <1>14, <2>1, Thresholds DEF Memory
<1>16. Beside(g, last, d, P)
  <2>1. ASSUME NEW r \in d.samples, r.match = m
        PROVE  /\ r.at <= last /\ r.life <= life
               /\ \A p, q \in P : Silence(P, p, q) /\ r.at <= p => last <= p
    <3>1. r \in R
      BY <1>3, <2>1
    <3>2. ASSUME NEW p \in P, NEW q \in P, Silence(P, p, q), r.at <= p
          PROVE  last <= p
      <4>1. last <= p \/ q <= last
        BY <1>12, <3>2 DEF Silence
      <4>2. CASE last = start
        <5>1. p \in Nat /\ start \in Nat /\ r.at \in Nat /\ start <= r.at
          BY <1>2, <1>5, <1>9, <1>12, <3>1, <4>2
        <5> QED
          BY <3>2, <4>2, <5>1
      <4>3. ASSUME NEW r2 \in R, last = r2.at
            PROVE  last <= p
        <5>1. r2 \in d.samples /\ r2.match = r.match
          BY <1>3, <2>1
        <5>2. ~(r.at <= p /\ q <= r2.at)
          BY <1>2, <3>2, <5>1 DEF Tidy
        <5> QED
          BY <3>2, <4>1, <4>3, <5>2
      <4> QED
        BY <1>7, <1>11, <4>2, <4>3
    <3> QED
      BY <1>12, <3>1, <3>2
  <2> QED
    BY <1>2, <1>15, <2>1 DEF Beside
<1>17. ASSUME ~failed
       PROVE  life <= 1 + Cardinality(SpawnsOf(d, m))
  <2>1. CASE life = 1
    <3>1. IsFiniteSet(SpawnsOf(d, m))
      BY <1>2, FS_Subset DEF Tidy, SpawnsOf
    <3>2. Cardinality(SpawnsOf(d, m)) \in Nat
      BY <3>1, FS_CardinalityType
    <3> QED
      BY <2>1, <3>2
  <2>2. ASSUME NEW r \in R, life = r.life
        PROVE  life <= 1 + Cardinality(SpawnsOf(d, m))
    BY <1>2, <1>3, <1>17, <2>2 DEF Counted
  <2> QED
    BY <1>6, <1>10, <2>1, <2>2
<1> QED
  BY <1>1, <1>12, <1>13, <1>15, <1>16, <1>17

LEMMA RestartStep ==
  ASSUME Segmented, Restart
  PROVE  Segmented'
<1>1. /\ SentInVain /\ failed' = failed /\ faults' \in Nat /\ failed' \in BOOLEAN
      /\ work' = db /\ db' = db /\ polls' = polls /\ nextId \in Nat \ {0}
  BY DEF Restart, SentInVain, Segmented, TypeOK
<1>2. References(db) /\ (~failed => Counted(db) /\ \A m1, m2 \in OpenIn(db) : m1 = m2)
  BY DEF Segmented, RowsInv, AgreedInv
<1>3. CASE OpenIn(db) = {}
  <2>1. mem' = Fresh
    BY <1>3 DEF Restart
  <2>2. mem' \in Memory(nextId) /\ mem'.match = 0 /\ mem'.last = None
    BY <1>1, <2>1, FreshMemory
  <2>3. MemoryInv'
    BY <2>2 DEF MemoryInv, Beside
  <2>4. AgreedInv'
    BY <1>1, <1>2, <1>3, <2>2 DEF AgreedInv, Agreed
  <2> QED
    BY <1>1, <2>2, <2>3, <2>4, VainStep
<1>4. CASE OpenIn(db) # {}
  <2>1. PICK m \in OpenIn(db) : mem' = Restored(m)
    BY <1>4 DEF Restart
  <2>2. PICK g : g = Restored(m)
    OBVIOUS
  <2>3. /\ mem' = g /\ g \in Memory(nextId) /\ g.match = m /\ g.last \in polls
        /\ Beside(g, g.last, db, polls)
        /\ ~failed => g.life <= 1 + Cardinality(SpawnsOf(db, m))
    BY <2>1, <2>2, RestoredMemory
  <2>4. m # 0 /\ g.last # None
    <3>1. m \in 1..(nextId - 1)
      BY DEF Segmented, TypeOK, IsDatabase, OpenIn
    <3>2. polls \subseteq Nat
      BY Thresholds DEF Segmented, TypeOK, Times
    <3> QED
      BY <1>1, <2>3, <3>1, <3>2 DEF None
  <2>5. MemoryInv'
    BY <1>1, <2>3, <2>4 DEF MemoryInv
  <2>6. AgreedInv'
    <3>1. ASSUME ~failed
          PROVE  Agreed(g, db)
      <4>1. OpenIn(db) = {m}
        BY <1>2, <2>1, <3>1
      <4> QED
        BY <1>2, <2>3, <2>4, <3>1, <4>1 DEF Agreed
    <3> QED
      BY <1>1, <1>2, <2>3, <3>1 DEF AgreedInv
  <2> QED
    BY <1>1, <2>3, <2>5, <2>6, VainStep
<1> QED
  BY <1>3, <1>4

LEMMA InitSegmented ==
  ASSUME Init
  PROVE  Segmented
<1>1. /\ now = 0 /\ spawned = None /\ resend = <<>> /\ sent = <<>>
      /\ work = Empty /\ db = Empty /\ nextId = 1 /\ mem = Fresh
      /\ polls = {} /\ failed = FALSE /\ faults = 0
  BY DEF Init
<1>2. /\ Empty.matches = <<>> /\ Empty.samples = {} /\ Empty.spawns = {} /\ Empty.events = {}
      /\ DOMAIN Empty.matches = {} /\ OpenIn(Empty) = {}
  BY DEF Empty, OpenIn
<1>3. Fresh \in Memory(1) /\ Fresh.match = 0 /\ Fresh.last = None
  BY FreshMemory
<1>4. TypeOK
  <2>1. IsDatabase(work) /\ IsDatabase(db)
    BY <1>1, <1>2 DEF IsDatabase
  <2>2. now \in Times /\ polls \subseteq Times /\ spawned \in {None} \cup (0..now)
    BY <1>1, Thresholds DEF Times
  <2>3. resend \in Seq(Facts) /\ sent \in Seq(Facts)
    BY <1>1, EmptySeq
  <2>4. mem \in Memory(nextId) /\ nextId \in Nat \ {0} /\ failed \in BOOLEAN /\ faults \in Nat
    <3>1. mem \in Memory(nextId)
      BY <1>1, <1>3, Zenon
    <3>2. failed \in BOOLEAN
      BY Zenon DEF Init
    <3>3. nextId \in Nat \ {0} /\ faults \in Nat
      BY <1>1
    <3> QED
      BY <3>1, <3>2, <3>3
  <2> QED
    BY <2>1, <2>2, <2>3, <2>4 DEF TypeOK, Memory
<1>5. FactsInv
  <2>1. Due = <<>> /\ DOMAIN Due = {} /\ DOMAIN resend = {}
    <3>1. resend \in Seq(Facts)
      BY <1>1, EmptySeq
    <3> QED
      BY <1>1, <3>1, ConcatEmptySeq DEF Due
  <2> QED
    BY <1>1, <1>2, <2>1 DEF FactsInv, DueInv, UpTo
<1>6. Tidy(Empty, {})
  <2>1. \E b \in Nat : \A r \in Empty.samples : r.life <= b
    BY <1>2
  <2>2. IsFiniteSet(Empty.spawns)
    BY <1>2, FS_EmptySet
  <2>3. Empty = [matches |-> Empty.matches, samples |-> Empty.samples,
                 spawns |-> Empty.spawns, events |-> Empty.events]
    BY DEF Empty
  <2> QED
    BY <1>2, <2>1, <2>2, <2>3 DEF Tidy
<1>7. RowsInv /\ MemoryInv
  BY <1>1, <1>2, <1>3, <1>6 DEF RowsInv, MemoryInv, Beside, References
<1>8. AgreedInv
  BY <1>1, <1>2, <1>3 DEF AgreedInv, Agreed, Counted, References
<1> QED
  BY <1>4, <1>5, <1>7, <1>8 DEF Segmented

LEMMA SegmentedHolds == Spec => []Segmented
<1>1. Init => Segmented
  BY InitSegmented
<1>2. Segmented /\ [Next]_vars => Segmented'
  <2> SUFFICES ASSUME Segmented, [Next]_vars
               PROVE  Segmented'
    OBVIOUS
  <2>1. CASE FeedPresence
    BY <2>1, PresenceStep
  <2>2. CASE FeedSpawn
    BY <2>2, SpawnStep
  <2>3. CASE FeedStatus
    BY <2>3, StatusStep
  <2>4. CASE Commit
    BY <2>4, CommitStep
  <2>5. CASE Refuse
    BY <2>5, RefuseStep
  <2>6. CASE Rollback
    BY <2>6, RollbackStep
  <2>7. CASE Restart
    BY <2>7, RestartStep
  <2>8. CASE UNCHANGED vars
    BY <2>8 DEF vars, agent, Segmented, TypeOK, IsDatabase, FactsInv, DueInv, Due, RowsInv,
                MemoryInv, AgreedInv
  <2> QED
    BY <2>1, <2>2, <2>3, <2>4, <2>5, <2>6, <2>7, <2>8 DEF Next
<1> QED
  BY <1>1, <1>2, PTL DEF Spec

-----------------------------------------------------------------------------
(* Theorems. *)

\* The agent's clock and watermark, the transaction, the rows and the memory
\* have their types.  Counters of the memory stay below their thresholds, and
\* it never refers to a match that no row was ever made for.
THEOREM TypeCorrect == Spec => []TypeOK
<1>1. Segmented => TypeOK
  BY DEF Segmented
<1> QED
  BY <1>1, SegmentedHolds, PTL

\* A committed reading lies between the start and the end of its match
\* (_close_match stamps the poll, or the poll before the silence), although the
\* memory that closed the match may be ahead of rows that were thrown back.
THEOREM ReadingsStayInside == Spec => []ReadingsInside
<1>1. Segmented => ReadingsInside
  BY DEF Segmented, RowsInv, Tidy, References, ReadingsInside
<1> QED
  BY <1>1, SegmentedHolds, PTL

\* No match has readings on both sides of a silence longer than
\* STALE_MATCH_GAP_SEC: feed() closes it, and neither a failed transaction nor
\* a restored memory forgets when the agent was last heard.
THEOREM MatchesNotStretched == Spec => []NotStretched
<1>1. ASSUME Segmented
      PROVE  NotStretched
  <2>1. Tidy(db, polls) /\ polls \subseteq Nat
    BY <1>1, Thresholds DEF Segmented, RowsInv, TypeOK, Times
  <2>2. SUFFICES ASSUME NEW p \in polls, NEW q \in polls, Silence(polls, p, q),
                        NEW m \in DOMAIN db.matches, NEW r1 \in Readings(m), ~(r1.at <= p),
                        NEW r2 \in Readings(m)
                 PROVE  q <= r2.at
    BY DEF NotStretched, Silence
  <2>3. /\ r1 \in db.samples /\ r2 \in db.samples /\ r1.match = r2.match
        /\ r1.at \in polls /\ r2.at \in polls
    BY <2>1, <2>2 DEF Readings, Tidy
  <2>4. q <= r1.at
    BY <2>2, <2>3 DEF Silence
  <2>5. ~(r2.at <= p)
    BY <2>1, <2>2, <2>3, <2>4 DEF Tidy
  <2> QED
    BY <2>2, <2>3, <2>5 DEF Silence
<1> QED
  BY <1>1, SegmentedHolds, PTL

\* Along a match's readings its lives never count down, and as long as no
\* transaction failed none is counted that no stored spawn began -- although
\* restore() takes the count from the readings and not from the spawns.
THEOREM LivesAreInOrder == Spec => []LivesInOrder
<1>1. ASSUME Segmented
      PROVE  LivesInOrder
  <2>1. Tidy(db, polls) /\ (~failed => Counted(db))
    BY <1>1 DEF Segmented, RowsInv, AgreedInv
  <2> QED
    BY <2>1 DEF LivesInOrder, Readings, Tidy, Counted, SpawnsOf
<1> QED
  BY <1>1, SegmentedHolds, PTL

\* Between transactions, and as long as none failed, the memory's match is the
\* one open row, and without one no row is open.
THEOREM MemoryAndRowsAgree == Spec => []MemoryAgrees
<1>1. Segmented => MemoryAgrees
  BY DEF Segmented, RowsInv, AgreedInv, Agreed, MemoryAgrees
<1> QED
  BY <1>1, SegmentedHolds, PTL
=============================================================================
