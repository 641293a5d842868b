---------------------------- MODULE DerivedCache ----------------------------
(***************************************************************************)
(* Answers about one match while its facts, its corrections and the rules  *)
(* move (domain/cache.py, MatchCache.derive_all).                          *)
(*                                                                         *)
(* A request reads the match row, the revision of its readings, its        *)
(* corrections and the cached row in four queries, and on a miss the       *)
(* readings in a fifth; between any two of them other threads commit.  Of  *)
(* derive_all's matches one is followed: nothing it does for one depends   *)
(* on another.  Rules stand for their version and fingerprint; what derives*)
(* besides the ruleset's own module (engine.py, normalize.py) is taken to  *)
(* be the same in every edition of the server, as the cache takes it.      *)
(***************************************************************************)
EXTENDS Integers, Sequences, FiniteSets, FiniteSetsExt

CONSTANTS
  Derive(_, _, _), \* derive_match, of rules, readings and corrections
  Readers,         \* threads that answer requests
  Rules,           \* the rules that some edition of the server has
  Cash,            \* the balances the game reports
  Prices,          \* the prices people correct a kit to
  Steps,           \* the time between two readings
  MaxRows,         \* bound: readings of the match
  MaxLives,        \* bound: lives of the match
  MaxChanges       \* bound: corrections, restarts and drops of the cache

ASSUME BoundsAssumption == {MaxRows, MaxChanges} \subseteq Nat /\ MaxLives \in Nat \ {0}
ASSUME InputsAssumption ==
  Cash \subseteq Int /\ Prices \subseteq Int /\ Steps \subseteq Nat \ {0}

VARIABLES
  rows,      \* cash_samples of the match, in order
  imported,  \* the match comes from a file, not from an agent
  closed,    \* matches.closed
  overrides, \* corrections: a function on the lives that have one
  rules,     \* those of the running server
  cache,     \* the row of derived_matches, or Nothing
  request,   \* of each reader
  seen,      \* history: what was so since the request began
  changes

facts == <<rows, imported, closed, overrides, rules>>
vars == <<facts, cache, request, seen, changes>>

Nothing == [rules |-> "none"]

LifeNumbers == 1..MaxLives
Corrections == UNION {[L -> Prices] : L \in SUBSET LifeNumbers}
Reading == [at : Nat, cash : Cash, life : LifeNumbers]

Total(samples) == MapThenSumSet(LAMBDA i : samples[i].cash, DOMAIN samples)

\* Mutation: readings that add up to the same are the same.
RevisionOfTotal(samples) == [count |-> 0, total |-> Total(samples)]

\* _revisions: readings are only ever added, so that their number is as good as
\* the highest of their row identities.
Revision(samples) == [count |-> Len(samples), total |-> Total(samples)]

\* Mutation: corrections are not part of it.
KeyOfFacts(revision, corrections) == [revision |-> revision, overrides |-> <<>>]

\* input_hash: a hash is as good as what it is of.
Key(revision, corrections) == [revision |-> revision, overrides |-> corrections]

Idle == [stage |-> "idle"]

Stages == {"row", "revision", "overrides", "load", "write", "done"}

TypeOK ==
  /\ rows \in Seq(Reading) /\ {imported, closed} \subseteq BOOLEAN
  /\ overrides \in Corrections /\ rules \in Rules
  /\ cache = Nothing \/ (cache.rules \in Rules /\ closed)
  /\ \A r \in Readers : request[r] = Idle \/ request[r].stage \in Stages
  /\ changes \in 0..MaxChanges

\* A file's match is stored closed, in one transaction with its readings.
Init ==
  /\ \/ imported = FALSE /\ rows = <<>>
     \/ /\ imported = TRUE
        /\ rows \in {<<[at |-> 0, cash |-> c, life |-> 1]>> : c \in Cash}
  /\ closed = imported
  /\ overrides = <<>>
  /\ rules \in Rules
  /\ cache = Nothing
  /\ request = [r \in Readers |-> Idle]
  /\ seen = [r \in Readers |-> [counts |-> {}, overrides |-> {}]]
  /\ changes = 0

-----------------------------------------------------------------------------
(* The facts move. *)

Asking(r) == request[r].stage \notin {"idle", "done"}

\* What a request may answer with gets one more state of the facts.
Noted ==
  seen' = [r \in Readers |->
             IF Asking(r)
             THEN [counts |-> seen[r].counts \cup {Len(rows')},
                   overrides |-> seen[r].overrides \cup {overrides'}]
             ELSE seen[r]]

Changing == changes < MaxChanges /\ changes' = changes + 1

\* A reading is stored: later than the last, of the same life or the next.
Added ==
  /\ Len(rows) < MaxRows
  /\ \E step \in Steps, cash \in Cash, spawned \in BOOLEAN :
       LET last == rows[Len(rows)]
           life == IF rows = <<>> THEN 1 ELSE last.life + IF spawned THEN 1 ELSE 0
           at == IF rows = <<>> THEN 0 ELSE last.at + step
       IN /\ life <= MaxLives
          /\ rows' = Append(rows, [at |-> at, cash |-> cash, life |-> life])
  /\ UNCHANGED <<imported, closed, overrides, rules, cache, request, changes>>
  /\ Noted

\* An agent's reading, of the match it has open.
Ingest == ~imported /\ ~closed /\ Added

\* import_file, of a file that has grown since: its match is closed already.
Import == imported /\ Added

CloseMatch ==
  /\ ~closed
  /\ closed' = TRUE
  /\ UNCHANGED <<rows, imported, overrides, rules, cache, request, seen, changes>>

\* set_override: a price for a life, known or not, or none any more.
SetOverride ==
  /\ Changing
  /\ \E life \in LifeNumbers :
       \/ \E price \in Prices :
            overrides' = [l \in DOMAIN overrides \cup {life} |->
                            IF l = life THEN price ELSE overrides[l]]
       \/ overrides' = [l \in DOMAIN overrides \ {life} |-> overrides[l]]
  /\ UNCHANGED <<rows, imported, closed, rules, cache, request>>
  /\ Noted

\* The server is started again, with other rules perhaps.
Restart ==
  /\ Changing
  /\ rules' \in Rules
  /\ request' = [r \in Readers |-> Idle]
  /\ seen' = [r \in Readers |-> [counts |-> {}, overrides |-> {}]]
  /\ UNCHANGED <<rows, imported, closed, overrides, cache>>

\* drop: "a supported operation".
Drop ==
  /\ Changing
  /\ cache' = Nothing
  /\ UNCHANGED <<facts, request, seen>>

-----------------------------------------------------------------------------
(* A request. *)

Becomes(r, new) == request' = [request EXCEPT ![r] = new]

ReadRow(r) ==
  /\ ~Asking(r)
  /\ Becomes(r, [stage |-> "row", closed |-> closed])
  /\ seen' = [seen EXCEPT ![r] = [counts |-> {Len(rows)}, overrides |-> {overrides}]]
  /\ UNCHANGED <<facts, cache, changes>>

ReadRevision(r) ==
  /\ request[r].stage = "row"
  /\ Becomes(r, [stage |-> "revision", closed |-> request[r].closed,
                 revision |-> Revision(rows)])
  /\ UNCHANGED <<facts, cache, seen, changes>>

ReadOverrides(r) ==
  /\ request[r].stage = "revision"
  /\ Becomes(r, [stage |-> "overrides", closed |-> request[r].closed,
                 key |-> Key(request[r].revision, overrides), overrides |-> overrides])
  /\ UNCHANGED <<facts, cache, seen, changes>>

\* Mutation: the fingerprint is not compared.
HitUnderAnyRules(r) == cache # Nothing /\ cache.key = request[r].key

\* The cached row was built from what this request has read.
Hit(r) ==
  /\ cache # Nothing
  /\ cache.rules = rules
  /\ cache.key = request[r].key

ReadCache(r) ==
  /\ request[r].stage = "overrides"
  /\ Becomes(r, IF Hit(r) THEN [stage |-> "done", answer |-> cache.view]
                ELSE [stage |-> "load", closed |-> request[r].closed,
                      key |-> request[r].key, overrides |-> request[r].overrides])
  /\ UNCHANGED <<facts, cache, seen, changes>>

\* The readings are loaded now; a match that was open is not cached.
Load(r) ==
  LET view == Derive(rules, rows, request[r].overrides) IN
  /\ request[r].stage = "load"
  /\ Becomes(r, IF request[r].closed
                THEN [stage |-> "write", key |-> request[r].key, view |-> view]
                ELSE [stage |-> "done", answer |-> view])
  /\ UNCHANGED <<facts, cache, seen, changes>>

\* Mutation: the view is filed under the facts as they are now.
WriteKeyedLate(r) ==
  /\ request[r].stage = "write"
  /\ cache' = [rules |-> rules, key |-> Key(Revision(rows), overrides),
               view |-> request[r].view]
  /\ Becomes(r, [stage |-> "done", answer |-> request[r].view])
  /\ UNCHANGED <<facts, seen, changes>>

Write(r) ==
  /\ request[r].stage = "write"
  /\ cache' = [rules |-> rules, key |-> request[r].key, view |-> request[r].view]
  /\ Becomes(r, [stage |-> "done", answer |-> request[r].view])
  /\ UNCHANGED <<facts, seen, changes>>

-----------------------------------------------------------------------------
Next ==
  \/ Ingest
  \/ Import
  \/ CloseMatch
  \/ SetOverride
  \/ Restart
  \/ Drop
  \/ \E r \in Readers :
       \/ ReadRow(r)
       \/ ReadRevision(r)
       \/ ReadOverrides(r)
       \/ ReadCache(r)
       \/ Load(r)
       \/ Write(r)

Spec == Init /\ [][Next]_vars

-----------------------------------------------------------------------------
(* Properties. *)

\* "No way to be stale without being detected" (cache.py): a cached row whose
\* rules and key are today's holds what would be derived today, whoever wrote
\* it and however long ago it read its inputs.
CacheIsHonest ==
  (/\ cache # Nothing
   /\ cache.rules = rules
   /\ cache.key = Key(Revision(rows), overrides)) =>
     cache.view = Derive(rules, rows, overrides)

\* An answer, cached or not, is derived from readings and corrections that were
\* the match's while the request was being answered.
AnswersAreCurrent ==
  \A r \in Readers : request[r].stage = "done" =>
    \E n \in seen[r].counts, o \in seen[r].overrides :
      request[r].answer = Derive(rules, SubSeq(rows, 1, n), o)
=============================================================================
