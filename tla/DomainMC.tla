------------------------------ MODULE DomainMC ------------------------------
(***************************************************************************)
(* The ledger over every match that DerivedCache lets happen: its rules    *)
(* are MAX_PART_GAP_SEC.                                                   *)
(***************************************************************************)
EXTENDS DerivedCache, Ledger, TLC

\* The part of the rules that the ledger depends on: a number of seconds.
ASSUME RulesAssumption == Rules \subseteq Int

Symmetry == Permutations(Readers)

\* A derivation that hides nothing: its view is what it was given.
DeriveFreely(applied, readings, corrections) == <<applied, readings, corrections>>

\* The bounds of the run.  A match that nobody asks about or corrects may be any;
\* one that somebody does is of one life and one balance, and short: of the ledger
\* there is nothing to be seen in it, and what the cache does depends on the number
\* of its readings only.
Alone == changes = 0 /\ cache = Nothing /\ \A r \in Readers : request[r] = Idle
Short ==
  /\ Len(rows) <= 3
  /\ \A i \in DOMAIN rows : rows[i].cash = 0 /\ rows[i].life = 1
  /\ \A i \in 2..Len(rows) : rows[i].at - rows[i - 1].at = 2
  /\ overrides \in {<<>>, <<1>>}
BoundedSpec == Init /\ [][Next /\ (Alone' \/ Short')]_vars

Books == BuildLedger(rows, rules)

\* ledger_invariant_errors: each life's net is what its curve did, and lives
\* and adjustments together are what the whole curve did.  A correction only
\* relabels spending: whatever prices are typed in, no life's profit moves, no
\* life costs more than it spent, and the view still adds up.
BooksBalance ==
  LET books == Books
      Same(l, k) == /\ l.first = k.first /\ l.net = k.net
                    /\ l.kit + l.other = k.kit + k.other /\ l.other >= 0
  IN
  /\ \A l \in books.lives :
       /\ l.net = rows[l.last].cash - rows[l.base].cash
       /\ l.kit >= 0 /\ l.gained >= 0 /\ l.other >= 0
  /\ CurveNet(rows) = SumFunction([l \in books.lives |-> l.net])
                      + SumFunction([a \in books.adjustments |-> a.amount])
  /\ \A o \in Corrections :
       LET view == View(rows, books, o)
       IN /\ \A v \in view.lives : \E l \in books.lives : Same(v.price, l)
          /\ view.profit = view.earned - view.kit - view.other
                           + view.unassigned.positive + view.unassigned.negative

\* "Every reading-to-reading change lands in exactly one bucket" (v1.py): the
\* kit of a life, its trading, or the money no life is given.
OneBucketEach ==
  LET lives == Books.lives
      Buckets(i) ==
        {<<"kit", l>> : l \in {l \in lives : l.base < i /\ i <= l.floor}}
        \cup {<<"trade", l>> : l \in {l \in lives : l.floor < i /\ i <= l.last}}
        \cup {<<"between", l>> : l \in {l \in lives : Before(l.first) < i /\ i <= l.base}}
  IN \A i \in 2..Len(rows) : Change(rows, i) # 0 => Cardinality(Buckets(i)) = 1

\* A kit is one purchase: it begins with the life's first fall, its falls follow
\* each other within MAX_PART_GAP_SEC with nothing coming in between them, and
\* the fall after it does not.
KitIsOnePurchase ==
  \A l \in Books.lives : l.kit > 0 =>
    LET falls == Falls(rows, Before(l.first), l.last)
        Joined(p, q) ==
          /\ rows[q].at - rows[p].at <= rules
          /\ \A i \in (p + 1)..q : ~Rose(rows, i)
        Following(p) == {q \in falls : q > p /\ \A o \in falls : o <= p \/ q <= o}
    IN /\ Min(falls) = l.base + 1
       /\ l.floor \in falls
       /\ \A p \in falls : \A q \in Following(p) :
            /\ p < l.floor => Joined(p, q)
            /\ p = l.floor => ~Joined(p, q)

\* A new reading settles nothing but the life it belongs to: every other life is
\* as it was without it, in all its figures, and the life that goes on keeps the
\* price of its kit once it has traded.
EarlierLivesStay ==
  LET earlier == BuildLedger(Front(rows), rules).lives
      now == Books.lives
      GoesOn(l) == l.last = Len(rows) - 1 /\ l.life = rows[Len(rows)].life
      Continues(l, k) == /\ k.first = l.first
                         /\ (l.gained > 0 /\ l.kit > 0) => k.kit = l.kit
  IN Len(rows) > 1 =>
       \A l \in earlier :
         \/ l \in now
         \/ GoesOn(l) /\ \E k \in now : Continues(l, k)
=============================================================================
