------------------------------- MODULE Ledger -------------------------------
(***************************************************************************)
(* Ruleset v1's bookkeeping (domain/rulesets/v1.py) and what derive_match  *)
(* makes of it (domain/engine.py): one match's readings are cut into lives,*)
(* each with the kit it bought, what it earned and what else it spent, and *)
(* adjustments, the money that moved in no life.                           *)
(*                                                                         *)
(* A match's readings are a sequence in the order of their times; a life   *)
(* and an adjustment are named by positions in it.  load_readings gives no *)
(* game state and no map: every stored reading is in play, the last life   *)
(* ends with the last reading, and every adjustment is "unclassified".     *)
(***************************************************************************)
EXTENDS Integers, Sequences, SequencesExt, FiniteSetsExt

None == -1

-----------------------------------------------------------------------------
(* Kits. *)

Fell(rows, i) == rows[i].cash < rows[i - 1].cash
Rose(rows, i) == rows[i].cash > rows[i - 1].cash

Falls(rows, lo, hi) == {i \in (lo + 1)..hi : Fell(rows, i)}

\* Mutation: instalments are not bounded in time.
PartGreedy(rows, gap, kit, i) ==
  IF ~kit.open \/ rows[i].cash > rows[i - 1].cash THEN [kit EXCEPT !.open = FALSE]
  ELSE IF rows[i].cash >= rows[kit.at].cash THEN kit
  ELSE [kit EXCEPT !.at = i]

\* One turn of detect_kit's second loop: reading i joins the purchase, is
\* passed over, or ends it.
Part(rows, gap, kit, i) ==
  LET ended == [at |-> kit.at, open |-> FALSE]
  IN IF ~kit.open \/ Rose(rows, i) THEN ended
     ELSE IF rows[i].cash >= rows[kit.at].cash THEN kit
     ELSE IF rows[i].at - rows[kit.at].at > gap THEN ended
     ELSE [at |-> i, open |-> TRUE]

\* That loop, from the first fall on: the purchase as it is after each reading.
Parts(rows, gap, first, hi) ==
  LET kit[i \in first..hi] ==
        IF i = first THEN [at |-> first, open |-> TRUE]
        ELSE Part(rows, gap, kit[i - 1], i)
  IN kit

\* detect_kit on readings lo..hi: the reading before the first fall and the
\* last instalment; without a fall, both are None.
DetectKit(rows, gap, lo, hi) ==
  LET falls == Falls(rows, lo, hi)
      first == Min(falls)
  IN IF falls = {} THEN [from |-> None, at |-> None]
     ELSE [from |-> first - 1, at |-> Parts(rows, gap, first, hi)[hi].at]

-----------------------------------------------------------------------------
(* Lives. *)

\* The first readings of the runs that share a life number.
Starts(rows) == {i \in DOMAIN rows : i = 1 \/ rows[i].life # rows[i - 1].life}

LastOf(rows, s) ==
  LET later == {t \in Starts(rows) : t > s}
  IN IF later = {} THEN Len(rows) ELSE Min(later) - 1

\* Mutation: the previous life's closing balance is not looked at.
BeforeNothing(s) == s

\* Where a life's kit is looked for: a respawn's is paid between two lives.
Before(s) == IF s = 1 THEN 1 ELSE s - 1

Change(rows, i) == rows[i].cash - rows[i - 1].cash

\* Mutation: spending after the kit is not counted.
TradeGains(rows, from, to) ==
  [gained |-> SumFunction([i \in {i \in (from + 1)..to : Rose(rows, i)} |-> Change(rows, i)]),
   other |-> 0]

\* What came in and went out after the kit.
Trade(rows, from, to) ==
  [gained |-> SumFunction([i \in {i \in (from + 1)..to : Rose(rows, i)} |-> Change(rows, i)]),
   other |-> SumFunction([i \in {i \in (from + 1)..to : Fell(rows, i)} |-> -Change(rows, i)])]

\* Mutation: the whole match is searched.
BreakEvenAnywhere(rows, base, floor, last) ==
  LET back == {i \in (floor + 1)..Len(rows) : rows[i].cash >= rows[base].cash}
  IN IF rows[floor].cash >= rows[base].cash \/ back = {} THEN None ELSE Min(back)

\* The first reading of the life, after its kit, that is back at the baseline.
BreakEven(rows, base, floor, last) ==
  LET back == {i \in (floor + 1)..last : rows[i].cash >= rows[base].cash}
  IN IF rows[floor].cash >= rows[base].cash \/ back = {} THEN None ELSE Min(back)

\* A life from reading s to `last', with what was bought for it.
LifeOf(rows, s, last, bought) ==
  LET base == IF bought.from = None THEN s ELSE bought.from
      floor == IF bought.at = None THEN s ELSE bought.at
      trade == Trade(rows, floor, last)
      cost == rows[base].cash - rows[floor].cash
  IN [life |-> rows[s].life, first |-> s, last |-> last, base |-> base, floor |-> floor,
      kit |-> cost, gained |-> trade.gained, other |-> trade.other,
      net |-> trade.gained - cost - trade.other,
      even |-> BreakEven(rows, base, floor, last)]

Life(rows, gap, s) ==
  LifeOf(rows, s, LastOf(rows, s), DetectKit(rows, gap, Before(s), LastOf(rows, s)))

\* Between the last reading accounted for and a life's baseline.
Adjustments(rows, lives) ==
  LET gap(l) == [from |-> Before(l.first), to |-> l.base,
                 amount |-> rows[l.base].cash - rows[Before(l.first)].cash]
  IN {a \in {gap(l) : l \in lives} : a.from < a.to /\ a.amount # 0}

BuildLedger(rows, gap) ==
  LET lives == {Life(rows, gap, s) : s \in Starts(rows)}
  IN [lives |-> lives, adjustments |-> Adjustments(rows, lives)]

CurveNet(rows) == IF rows = <<>> THEN 0 ELSE rows[Len(rows)].cash - rows[1].cash

-----------------------------------------------------------------------------
(* Corrections and the view. *)

\* Mutation: a price above everything the life spent is taken as it is.
ApplyKitOverrideFreely(l, value) ==
  IF value <= 0 THEN l
  ELSE [l EXCEPT !.kit = value, !.other = l.kit + l.other - value,
                 !.net = l.gained - (l.kit + l.other)]

\* apply_kit_override: spending is relabelled, none is made.
ApplyKitOverride(l, value) ==
  LET observed == l.kit + l.other
      kit == IF value < observed THEN value ELSE observed
      other == observed - kit
  IN IF value <= 0 THEN l
     ELSE [l EXCEPT !.kit = kit, !.other = other, !.net = l.gained - kit - other]

\* overrides: a function from the life numbers that have a correction.
Priced(l, overrides) ==
  IF l.life \in DOMAIN overrides THEN ApplyKitOverride(l, overrides[l.life]) ELSE l

Confidence(l, overrides) ==
  IF l.life \in DOMAIN overrides THEN "manual"
  ELSE IF l.kit > 0 THEN "derived" ELSE "unknown"

Unassigned(adjustments) ==
  [positive |-> SumFunction([a \in {a \in adjustments : a.amount > 0} |-> a.amount]),
   negative |-> SumFunction([a \in {a \in adjustments : a.amount < 0} |-> a.amount])]

\* What a match comes to, of its ledger and its corrections.
View(rows, ledger, overrides) ==
  LET priced == {Priced(l, overrides) : l \in ledger.lives}
  IN [lives |-> {[price |-> l, confidence |-> Confidence(l, overrides)] : l \in priced},
      kit |-> SumFunction([l \in priced |-> l.kit]),
      earned |-> SumFunction([l \in priced |-> l.gained]),
      other |-> SumFunction([l \in priced |-> l.other]),
      unassigned |-> Unassigned(ledger.adjustments),
      profit |-> CurveNet(rows)]

\* derive_match.
DeriveMatch(gap, rows, overrides) == View(rows, BuildLedger(rows, gap), overrides)
=============================================================================
