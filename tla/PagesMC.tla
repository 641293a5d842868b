------------------------------ MODULE PagesMC ------------------------------
(***************************************************************************)
(* Histories as the account's owner brings them about, and what the pages  *)
(* must show of each.  Every behaviour follows one of the five stores; the *)
(* functions of Pages look at one at a time.                               *)
(***************************************************************************)
EXTENDS Pages, TLC

CONSTANTS
  MaxMatches, MaxLives, MaxXpRows, MaxReadings, MaxRules  \* bounds

\* Nothing is no number, no axis, no match and no reason.
ASSUME NoneAssumption ==
  /\ None \notin Int
  /\ None \notin {"x", "y", "m", "no-kit-price", "not-recovered", "no-length"}

VARIABLES
  matches,   \* match views, in the order of their starts
  lives,     \* life views
  xp,        \* rows of xp_events of one role and one PC, in order
  curve,     \* readings
  registry   \* registered rules, oldest first

vars == <<matches, lives, xp, curve, registry>>

\* Sunday to Monday is a step into the next week, and a week later is not a
\* week earlier.
Days == {6, 7, 13}
Today == 14
\* A match that pays on one map, one that does not on the other.
Played ==
  [day : Days, build : {"b1", "b2", None}, lives : {1}, map : {"m1"}, kit : {1},
   earned : {3}, other : {0}, between : {0}, profit : {2}]
  \cup [day : Days, build : {"b1", "b2", None}, lives : {1}, map : {"m2"}, kit : {2},
        earned : {0}, other : {1}, between : {1}, profit : {-2}]

\* A good life, a bad one, one that is over at once, one whose kit is unread.
Lived == {[hasKit |-> TRUE, kit |-> 2, other |-> 0, earned |-> 4, length |-> 2,
           breakEven |-> 1],
          [hasKit |-> TRUE, kit |-> 3, other |-> 1, earned |-> 2, length |-> 2,
           breakEven |-> None],
          [hasKit |-> TRUE, kit |-> 1, other |-> 2, earned |-> 0, length |-> 0,
           breakEven |-> None],
          [hasKit |-> FALSE, kit |-> 0, other |-> 1, earned |-> 2, length |-> 1,
           breakEven |-> None]}

\* Imported rows have a difference and no total; an agent's have a total.
XpRows ==
  [total : {None}, delta : 1..2, match : {"m", None}]
  \cup [total : 0..2, delta : {0}, match : {"m", None}]

Filters == [range : {"7d", "all"}, map : {"all", "m1"},
            build : {"all", "unknown", "b1"}, search : {"", "m2"}]

V1 == [version |-> 1, builds |-> {}, from |-> 0]

Init ==
  /\ matches = <<>> /\ lives = <<>> /\ xp = <<>> /\ curve = <<>>
  /\ registry = <<V1>>

Begun == matches # <<>> \/ lives # <<>> \/ xp # <<>> \/ curve # <<>>
         \/ registry # <<V1>>
Follows(store) == Begun => store # <<>>

\* A match is played, no earlier than the one before it.
Play ==
  /\ Follows(matches) /\ Len(matches) < MaxMatches
  /\ \E m \in Played :
       /\ matches # <<>> => m.day >= Last(matches).day
       /\ matches' = Append(matches, m)
  /\ UNCHANGED <<lives, xp, curve, registry>>

Live ==
  /\ Follows(lives) /\ Len(lives) < MaxLives
  /\ \E l \in Lived : lives' = Append(lives, l)
  /\ UNCHANGED <<matches, xp, curve, registry>>

ReadXp ==
  /\ Follows(xp) /\ Len(xp) < MaxXpRows
  /\ \E row \in XpRows : xp' = Append(xp, row)
  /\ UNCHANGED <<matches, lives, curve, registry>>

\* Polls come in time, with gaps.
Poll ==
  /\ Follows(curve) /\ Len(curve) < MaxReadings
  /\ \E gap \in IF curve = <<>> THEN {0} ELSE 1..2, c \in 0..2 :
       curve' = Append(curve, [t |-> gap + (IF gap = 0 THEN 0 ELSE Last(curve).t),
                               c |-> c])
  /\ UNCHANGED <<matches, lives, xp, registry>>

\* The next edition of the server knows rules of a build and a date.
Learn ==
  /\ Begun => registry # <<V1>>
  /\ Len(registry) < MaxRules
  /\ \E builds \in SUBSET {"b1", "b2"}, from \in 0..3 :
       registry' = Register(registry, [version |-> Len(registry) + 1,
                                       builds |-> builds, from |-> from])
  /\ UNCHANGED <<matches, lives, xp, curve>>

Next == Play \/ Live \/ ReadXp \/ Poll \/ Learn
Spec == Init /\ [][Next]_vars

-----------------------------------------------------------------------------
Groupings == {"match", "day", "week"}

\* Whatever is filtered and however it is grouped: each match is in one bucket,
\* the buckets add up to the totals beside them, and the line ends at their profit.
HistoryAddsUp ==
  \A f \in Filters, g \in Groupings :
    LET Agree(h) ==
          /\ \A i \in DOMAIN h.rows :
               Cardinality({b \in DOMAIN h.buckets : i \in h.buckets[b].members}) = 1
          /\ \A field \in {"matches", "lives", "spent", "profit"} :
               Total(DOMAIN h.buckets,
                     [b \in DOMAIN h.buckets |-> h.buckets[b].totals[field]])
               = h.totals[field]
          /\ h.buckets # <<>> => Last(h.buckets).cumulative = h.totals.profit
    IN Agree(History(matches, f, g, Today))

\* "A gap in metadata cannot manufacture a boundary", nor hide one: a bucket is
\* marked if and only if the last build that was known before it is another.
MarkersAreChanges ==
  \A g \in Groupings :
    LET buckets == BuildBuckets(matches, g)
    IN BuildMarkers(buckets) =
         {i \in DOMAIN buckets :
            \E j \in 1..(i - 1) :
              /\ None \notin {buckets[i].build, buckets[j].build}
              /\ buckets[i].build # buckets[j].build
              /\ \A k \in (j + 1)..(i - 1) : buckets[k].build = None}

Swapped(axis) == CASE axis = "x" -> "y" [] axis = "y" -> "x" [] OTHER -> None

\* Every life is drawn or left out for one reason ("counting one life twice would
\* make the exclusions add up to more lives than were filtered"); and exchanging
\* the axes changes the picture and not what is said of it, except that where
\* neither has any spread the first is named.
AnalysisAddsUp ==
  lives # <<>> => \A x, y \in Metrics :
    LET Agree(there, back) ==
          /\ there.direction = back.direction
          /\ there.flat = Swapped(back.flat) \/ (there.flat = "x" /\ back.flat = "x")
    IN /\ Agree(Analyse(lives, x, y), Analyse(lives, y, x))
       /\ Cardinality(Plotted(lives, x, y))
          + Total({"no-kit-price", "not-recovered", "no-length"}, Excluded(lives, x, y))
          = Len(lives)

\* What is attributed to matches and to none adds up to what the total grew by,
\* and to what was imported -- as long as the save file was not set back.
XpAddsUp ==
  LET totals == {i \in DOMAIN xp : xp[i].total # None}
      Grown == IF totals = {} THEN 0 ELSE xp[Max(totals)].total - xp[Min(totals)].total
  IN (\A i, j \in totals : i < j => xp[i].total <= xp[j].total) =>
       XpGains(xp, "m") + XpGains(xp, None)
       = Grown + Total(DOMAIN xp \ totals, [i \in DOMAIN xp |-> xp[i].delta])

\* "Every trough and every peak survives at full depth": the ends are drawn, and
\* no reading is lower, or higher, than all that is drawn within a bucket's width.
\* A chart of four points or more has no more of them than were asked for; "never
\* longer than `limit`" fails below that, where two ends and the lowest and highest
\* of one bucket are up to four.
ShapeSurvives ==
  curve # <<>> => \A limit \in 2..6 :
    LET D == Downsample(curve, limit)
        Near(i, d) == LET apart == curve[d].t - curve[i].t
                      IN Max({apart, -apart}) * Buckets(limit) <= Last(curve).t
    IN /\ {1, Len(curve)} \subseteq D
       /\ limit >= 4 => Cardinality(D) <= limit
       /\ \A i \in DOMAIN curve :
            /\ \E d \in D : Near(i, d) /\ curve[d].c <= curve[i].c
            /\ \E d \in D : Near(i, d) /\ curve[d].c >= curve[i].c

\* "v1 keeps everything before it": rules that become known change nothing for
\* matches that began before they took effect and whose build they do not claim.
RulesStay ==
  [][\A build \in {"b1", "b2", None}, start \in 0..3 :
       Select(registry', build, start) # Select(registry, build, start) =>
         \E i \in DOMAIN registry' :
           /\ registry'[i].version = Len(registry')
           /\ build \in registry'[i].builds \/ registry'[i].from <= start]_registry
=============================================================================
