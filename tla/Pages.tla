------------------------------- MODULE Pages -------------------------------
(***************************************************************************)
(* What the pages show, computed from what was derived or stored:          *)
(* History (domain/history.py), Analysis (domain/analysis.py), the XP of   *)
(* each match (api/app.py), the curve that is drawn (downsample.py), and   *)
(* the rules a match is read under (domain/rulesets/__init__.py).          *)
(*                                                                         *)
(* A match view, a life view, a reading and an XP row are records of the   *)
(* fields these functions look at.  A day is a number, and a week begins   *)
(* with a day that 7 divides.  Quotients are compared by multiplying out.  *)
(***************************************************************************)
EXTENDS Integers, Sequences, SequencesExt, FiniteSetsExt

CONSTANT None

\* The sum of a function over a set of the positions it is defined at.
Total(S, f) == SumFunctionOnSet(f, S)

-----------------------------------------------------------------------------
(* History. *)

RangeDays(range) == IF range = "7d" THEN 7 ELSE 30

\* range_start: inclusive, so that "7d" is today and the six days before it.
InRange(m, range, today) ==
  range = "all" \/ m.day >= today - (RangeDays(range) - 1)

\* The needle is looked for in the map and the build; a date or a key is found
\* in the same way.
Mentions(m, needle) == needle = "" \/ needle \in {m.map, m.build}

\* match_predicate.
Keep(m, f, today) ==
  /\ InRange(m, f.range, today)
  /\ f.map \in {"all", m.map}
  /\ f.build \in {"all"} \cup (IF m.build = None THEN {"unknown"} ELSE {m.build})
  /\ Mentions(m, f.search)

FilterMatches(matches, f, today) ==
  LET kept[i \in 0..Len(matches)] ==
        IF i = 0 THEN <<>>
        ELSE IF Keep(matches[i], f, today) THEN Append(kept[i - 1], matches[i])
        ELSE kept[i - 1]
  IN kept[Len(matches)]

\* totals_of the matches at these positions.
TotalsOf(matches, S) ==
  LET Of(field) == Total(S, [i \in S |-> matches[i][field]])
  IN [matches |-> Cardinality(S), lives |-> Of("lives"), kit |-> Of("kit"),
      earned |-> Of("earned"), other |-> Of("other"),
      spent |-> Of("kit") + Of("other"), between |-> Of("between"),
      profit |-> Of("profit")]

\* Where a bucket begins, which is also its key.
Anchor(matches, grouping, i) ==
  CASE grouping = "match" -> i
    [] grouping = "day"   -> matches[i].day
    [] grouping = "week"  -> matches[i].day - (matches[i].day % 7)

Agreed(S) == IF Cardinality(S) = 1 THEN CHOOSE x \in S : TRUE ELSE None

\* Mutation: a bucket is its anchor's neighbours too.
MembersRunning(matches, grouping, a) ==
  {i \in DOMAIN matches : Anchor(matches, grouping, i) <= a}

Members(matches, grouping, a) ==
  {i \in DOMAIN matches : Anchor(matches, grouping, i) = a}

Bucket(matches, members, profitBefore) ==
  [members |-> members, totals |-> TotalsOf(matches, members),
   cumulative |-> profitBefore + TotalsOf(matches, members).profit,
   map |-> Agreed({matches[i].map : i \in members}),
   build |-> Agreed({matches[i].build : i \in members})]

\* An earlier match has the same key: setdefault finds its group.
Joins(matches, grouping, i) ==
  \E j \in 1..(i - 1) : Anchor(matches, grouping, j) = Anchor(matches, grouping, i)

\* What match i makes of the buckets of those before it.
Group(matches, grouping, buckets, i) ==
  LET members == Members(matches, grouping, Anchor(matches, grouping, i))
      profitBefore == IF buckets = <<>> THEN 0 ELSE buckets[Len(buckets)].cumulative
  IN IF Joins(matches, grouping, i) THEN buckets
     ELSE Append(buckets, Bucket(matches, members, profitBefore))

\* build_buckets of matches in the order of their starts: one for each group, in
\* the order of their first matches.
BuildBuckets(matches, grouping) ==
  LET grown[i \in 0..Len(matches)] ==
        IF i = 0 THEN <<>> ELSE Group(matches, grouping, grown[i - 1], i)
  IN grown[Len(matches)]

\* Mutation: a bucket without a build ends what was known.
MarkForgetful(seen, build, i) ==
  [known |-> build,
   at |-> IF build # None /\ seen.known \notin {None, build}
            THEN seen.at \cup {i} ELSE seen.at]

\* One turn of build_markers.
Mark(seen, build, i) ==
  IF build = None THEN seen
  ELSE [known |-> build,
        at |-> IF seen.known \notin {None, build} THEN seen.at \cup {i} ELSE seen.at]

\* build_markers: the buckets at which the build changed.
BuildMarkers(buckets) ==
  LET seen[i \in 0..Len(buckets)] ==
        IF i = 0 THEN [known |-> None, at |-> {}]
        ELSE Mark(seen[i - 1], buckets[i].build, i)
  IN seen[Len(buckets)].at

\* The route of the page.
History(matches, f, grouping, today) ==
  LET rows == FilterMatches(matches, f, today)
      buckets == BuildBuckets(rows, grouping)
  IN [rows |-> rows, buckets |-> buckets, markers |-> BuildMarkers(buckets),
      totals |-> TotalsOf(rows, DOMAIN rows)]

-----------------------------------------------------------------------------
(* Analysis. *)

Metrics == {"kitCost", "spent", "earned", "profit", "lifeLength", "breakEven",
            "earnedPerMin", "profitPerMin", "otherOutflow"}

Value(v) == [ok |-> TRUE, value |-> v, reason |-> None]
Absent(reason) == [ok |-> FALSE, value |-> 0, reason |-> reason]

\* Lengths are in minutes here, and divide the amounts.
PerMinute(amount, length) ==
  IF length <= 0 THEN Absent("no-length") ELSE Value(amount \div length)

\* METRICS: a number, or the reason why there is none.
Read(metric, l) ==
  CASE metric = "kitCost"      -> IF l.hasKit THEN Value(l.kit) ELSE Absent("no-kit-price")
    [] metric = "spent"        -> Value(l.kit + l.other)
    [] metric = "earned"       -> Value(l.earned)
    [] metric = "profit"       -> Value(l.earned - l.kit - l.other)
    [] metric = "lifeLength"   -> Value(l.length)
    [] metric = "breakEven"    -> IF ~l.hasKit THEN Absent("no-kit-price")
                                  ELSE IF l.breakEven = None THEN Absent("not-recovered")
                                  ELSE Value(l.breakEven)
    [] metric = "earnedPerMin" -> PerMinute(l.earned, l.length)
    [] metric = "profitPerMin" -> PerMinute(l.earned - l.kit - l.other, l.length)
    [] metric = "otherOutflow" -> Value(l.other)

Reason(x, y, l) == IF Read(x, l).ok THEN Read(y, l).reason ELSE Read(x, l).reason

\* select_points: how many are left out for each reason ...
Excluded(lives, x, y) ==
  [r \in {"no-kit-price", "not-recovered", "no-length"} |->
     Cardinality({i \in DOMAIN lives : Reason(x, y, lives[i]) = r})]

\* ... and which are drawn.
Plotted(lives, x, y) ==
  {i \in DOMAIN lives : Read(x, lives[i]).ok /\ Read(y, lives[i]).ok}

\* correlate: the moments, n times over, so that r is sxy / sqrt(sxx * syy) and
\* the slope is sxy / sxx.
Correlate(lives, x, y, S) ==
  LET X == [i \in S |-> Read(x, lives[i]).value]
      Y == [i \in S |-> Read(y, lives[i]).value]
      n == Cardinality(S)
      Moment(f, g) == n * Total(S, [i \in S |-> f[i] * g[i]]) - Total(S, f) * Total(S, g)
  IN [n |-> n, sxy |-> Moment(X, Y), sxx |-> Moment(X, X), syy |-> Moment(Y, Y)]

MinPoints == 4

\* FLAT is a fifth: |r| < 1/5.
Flat(c) == 25 * c.sxy * c.sxy < c.sxx * c.syy

Unknown(flat) == [direction |-> "unknown", flat |-> flat]

\* Mutation: r is taken from the slope alone.
DescribeSlope(c) ==
  IF c.n < MinPoints THEN Unknown(None)
  ELSE IF c.sxx = 0 THEN Unknown("x")
  ELSE [direction |-> IF c.sxy > 0 THEN "up" ELSE IF c.sxy < 0 THEN "down" ELSE "flat",
        flat |-> None]

\* describe: which way the two went, or the axis on which there is no spread.
Describe(c) ==
  IF c.n < MinPoints THEN Unknown(None)
  ELSE IF c.sxx = 0 THEN Unknown("x")
  ELSE IF c.syy = 0 THEN Unknown("y")
  ELSE [direction |-> IF Flat(c) THEN "flat" ELSE IF c.sxy > 0 THEN "up" ELSE "down",
        flat |-> None]

Analyse(lives, x, y) == Describe(Correlate(lives, x, y, Plotted(lives, x, y)))

-----------------------------------------------------------------------------
(* The XP of one role. *)

\* Mutation: the first total ever read is a gain.
GainFromNothing(previous, row) ==
  IF row.total # None THEN row.total - (IF previous = None THEN 0 ELSE previous)
  ELSE row.delta

\* What one row adds to its match, or to none.
Gain(previous, row) ==
  IF row.total = None THEN row.delta
  ELSE IF previous = None THEN 0 ELSE row.total - previous

\* The totals the loop of xp() has seen before row i.
Previous(rows, i) ==
  LET seen == {j \in 1..(i - 1) : rows[j].total # None}
  IN IF seen = {} THEN None ELSE rows[Max(seen)].total

XpGains(rows, match) ==
  LET gain == [i \in DOMAIN rows |-> Gain(Previous(rows, i), rows[i])]
  IN Total({i \in DOMAIN rows : rows[i].match = match /\ gain[i] > 0}, gain)

-----------------------------------------------------------------------------
(* The curve that is drawn. *)

Buckets(limit) == Max({(limit - 2) \div 2, 1})

\* The readings between the first and the last that fall into bucket b.
InBucket(rows, limit, b) ==
  LET into(i) == (rows[i].t - rows[1].t) * Buckets(limit)
      span == rows[Len(rows)].t - rows[1].t
  IN {i \in 2..(Len(rows) - 1) : into(i) < b * span /\ into(i) >= (b - 1) * span}

Lowest(rows, S) ==
  Min({i \in S : \A j \in S : rows[i].c <= rows[j].c})

Highest(rows, S) ==
  Min({i \in S : \A j \in S : rows[i].c >= rows[j].c})

\* Mutation: every bucket gives its first reading.
ExtremesStride(rows, S) == IF S = {} THEN {} ELSE {Min(S)}

Extremes(rows, S) == IF S = {} THEN {} ELSE {Lowest(rows, S), Highest(rows, S)}

\* downsample: the positions of the readings that are drawn.
Downsample(rows, limit) ==
  IF Len(rows) <= limit THEN DOMAIN rows
  ELSE IF rows[Len(rows)].t = rows[1].t THEN 1..limit
  ELSE {1, Len(rows)} \cup
       UNION {Extremes(rows, InBucket(rows, limit, b)) : b \in 1..Buckets(limit)}

-----------------------------------------------------------------------------
(* The rules a match is read under. *)

Earlier(e, d) == e.from < d.from

\* register: in the order of the dates they took effect, after those that took
\* effect on the same date: the sort is stable and the registry was in order.
Register(registry, entry) ==
  LET ahead == {i \in DOMAIN registry : ~Earlier(entry, registry[i])}
  IN InsertAt(registry, Cardinality(ahead) + 1, entry)

\* Mutation: a match without a build is read under the newest rules.
SelectNewest(registry, build, start) ==
  LET claims == {i \in DOMAIN registry : build \in registry[i].builds}
  IN registry[IF claims # {} THEN Min(claims) ELSE Len(registry)].version

\* select: whoever claims the build, else the latest rules at the start of the
\* match, which a match always has, else the earliest there are.
Select(registry, build, start) ==
  LET claims == {i \in DOMAIN registry : build \in registry[i].builds}
      inForce == {i \in DOMAIN registry : registry[i].from <= start}
  IN registry[IF claims # {} THEN Min(claims)
              ELSE IF inForce # {} THEN Max(inForce) ELSE 1].version
=============================================================================
