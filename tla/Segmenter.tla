----------------------------- MODULE Segmenter -----------------------------
(***************************************************************************)
(* Cutting one agent's facts into matches and lives (segmentation.py).     *)
(*                                                                         *)
(* The segmenter's state is in memory.  The rows it decides on are written *)
(* by the transaction of the batch (Ingestor.ingest): a batch that fails   *)
(* leaves the database as it was and the memory as it is, and its facts    *)
(* come again; a server that starts rebuilds the memory from the rows.     *)
(*                                                                         *)
(* Facts reach feed() once each and in the agent's order, except for such  *)
(* retries: that is what Delivery shows.  Time is a number, and the clock  *)
(* of the gaming PC is not set back.  Map, faction, build and XP are left  *)
(* out: they decide no boundary.                                           *)
(***************************************************************************)
EXTENDS Integers, Sequences, FiniteSets

CONSTANTS
  ConfirmReads,  \* CONFIRM_READS
  MissThreshold, \* MISS_THRESHOLD
  Grace,         \* LIFE_SPAWN_GRACE_SEC
  StaleGap,      \* STALE_MATCH_GAP_SEC
  MaxTime,       \* bound: the last poll
  MaxBatch,      \* bound: facts of one transaction
  MaxFaults,     \* bound: failed transactions and restarts
  MayFail        \* TRUE: a transaction may fail without the server ending

ASSUME RulesAssumption ==
  /\ {ConfirmReads, MissThreshold, StaleGap} \subseteq Nat \ {0}
  /\ Grace \in Nat
ASSUME BoundsAssumption ==
  /\ {MaxTime, MaxBatch, MaxFaults} \subseteq Nat
  /\ MayFail \in BOOLEAN

VARIABLES
  \* the agent
  now,     \* its clock at the last poll
  spawned, \* the collector's spawn watermark
  resend,  \* facts sent in vain, to be fed first
  \* the ingest transaction
  sent,    \* the facts it has fed; no transaction if there are none
  work,    \* the database as the transaction sees it
  nextId,  \* the identity of the next match row: not rolled back
  \* the server
  db,      \* the committed rows
  mem,     \* AgentState
  \* history
  polls,   \* when the agent polled
  failed,  \* a transaction failed
  faults

agent == <<now, spawned, resend>>
vars == <<agent, sent, work, nextId, db, mem, polls, failed, faults>>

None == -1
Times == 0..MaxTime
Ids == 1..(MaxTime + 1)

\* game_state: "playing", "menu" (anything else), or "garbled": playing, with
\* a profit that does not parse.
Facts ==
  [kind : {"playing", "garbled", "menu", "spawn", "stopped"}, at : Times]

MatchRows == [start : Times, closed : BOOLEAN, ended : {None} \cup Times]

Fresh ==
  [playing |-> 0, miss |-> 0, match |-> 0, start |-> None, last |-> None,
   life |-> 1, seen |-> {}, shape |-> "none"]

IsDatabase(d) ==
  /\ DOMAIN d.matches \subseteq 1..(nextId - 1)
  /\ \A m \in DOMAIN d.matches : d.matches[m] \in MatchRows
  /\ d.samples \subseteq [match : 1..(nextId - 1), at : 0..now, life : Nat \ {0}]
  /\ d.spawns \subseteq [match : 1..(nextId - 1), at : 0..now]
  /\ d.events \subseteq 1..(nextId - 1)

TypeOK ==
  /\ now \in Times /\ spawned \in {None} \cup (0..now)
  /\ resend \in Seq(Facts) /\ sent \in Seq(Facts)
  /\ nextId \in Nat \ {0}
  /\ IsDatabase(work) /\ IsDatabase(db)
  /\ mem \in [playing : 0..(ConfirmReads - 1), miss : 0..(MissThreshold - 1),
              match : 0..(nextId - 1), start : {None} \cup Times,
              last : {None} \cup Times, life : Nat \ {0}, seen : SUBSET Times,
              shape : {"none", "playing", "menu"}]
  /\ polls \subseteq Times /\ failed \in BOOLEAN /\ faults \in Nat

\* The rows of matches, cash_samples and source_events.  Of the last only
\* what counts: the spawns marked new_life, and which matches rows refer to.
Empty == [matches |-> <<>>, samples |-> {}, spawns |-> {}, events |-> {}]

Init ==
  /\ now = 0 /\ spawned = None /\ resend = <<>>
  /\ sent = <<>> /\ work = Empty /\ nextId = 1
  /\ db = Empty /\ mem = Fresh
  /\ polls = {} /\ failed = FALSE /\ faults = 0

-----------------------------------------------------------------------------
(* Matches.  The handlers take the memory, the rows and the next identity    *)
(* as one record, and return them changed.                                   *)

State == [mem |-> mem, rows |-> work, next |-> nextId]

\* _open_match: a row with a new identity, and a memory that starts over.
Open(s, at) ==
  LET row == [start |-> at, closed |-> FALSE, ended |-> None] IN
  [mem |-> [s.mem EXCEPT !.match = s.next, !.start = at, !.life = 1, !.seen = {},
                         !.miss = 0, !.playing = 0, !.shape = "none"],
   rows |-> [s.rows EXCEPT !.matches =
               [m \in DOMAIN s.rows.matches \cup {s.next} |->
                  IF m = s.next THEN row ELSE s.rows.matches[m]]],
   next |-> s.next + 1]

\* _close_match: an UPDATE, of no row if the match is not there.
Close(s, at) ==
  LET old == s.rows.matches
      new == [m \in DOMAIN old |-> IF m = s.mem.match
                                   THEN [old[m] EXCEPT !.closed = TRUE, !.ended = at]
                                   ELSE old[m]]
  IN IF s.mem.match = 0 THEN s
     ELSE [s EXCEPT !.rows.matches = new,
                    !.mem.match = 0, !.mem.start = None, !.mem.life = 1,
                    !.mem.seen = {}, !.mem.miss = 0, !.mem.playing = 0]

\* Two readings of one match at one time are the same reading.
AddSample(s, at) ==
  IF \E r \in s.rows.samples : r.match = s.mem.match /\ r.at = at THEN s
  ELSE [s EXCEPT !.rows.samples =
          @ \cup {[match |-> s.mem.match, at |-> at, life |-> s.mem.life]}]

\* A source_events row; one without a match refers to nothing.
AddEvent(s) ==
  [s EXCEPT !.rows.events = IF s.mem.match = 0 THEN @ ELSE @ \cup {s.mem.match}]

-----------------------------------------------------------------------------
(* The handlers. *)

\* Mutation: silence is not looked at.
AfterSilenceDeaf(s, f) == s

\* A match is not stretched across an outage: it ended when last seen.
AfterSilence(s, f) ==
  IF /\ s.mem.match # 0 /\ s.mem.last # None
     /\ f.at - s.mem.last > StaleGap
  THEN Close(s, s.mem.last) ELSE s

\* Mutation: one read more than CONFIRM_READS.
ConfirmLate(s, f) ==
  LET streak == IF f.kind = "menu" THEN 0 ELSE s.mem.playing + 1 IN
  IF s.mem.match # 0 THEN s
  ELSE IF streak > ConfirmReads THEN Open(s, f.at)
  ELSE [s EXCEPT !.mem.playing = streak]

\* Without a match: CONFIRM_READS playing reads in a row start one.
Confirm(s, f) ==
  LET streak == IF f.kind = "menu" THEN 0 ELSE s.mem.playing + 1 IN
  IF s.mem.match # 0 THEN s
  ELSE IF streak >= ConfirmReads THEN Open(s, f.at)
  ELSE [s EXCEPT !.mem.playing = streak]

\* Mutation: the match is closed, but not at this poll.
PlayOn(s, f) ==
  IF f.kind = "menu"
  THEN LET missed == [s EXCEPT !.mem.miss = @ + 1] IN
       IF missed.mem.miss >= MissThreshold THEN Close(missed, None) ELSE missed
  ELSE LET held == [s EXCEPT !.mem.miss = 0] IN
       IF f.kind = "playing" THEN AddSample(held, f.at) ELSE held

\* With a match: a reading, or a step towards its end.
Play(s, f) ==
  IF f.kind = "menu"
  THEN LET missed == [s EXCEPT !.mem.miss = @ + 1] IN
       IF missed.mem.miss >= MissThreshold THEN Close(missed, f.at) ELSE missed
  ELSE LET held == [s EXCEPT !.mem.miss = 0] IN
       IF f.kind = "playing" THEN AddSample(held, f.at) ELSE held

\* A poll is kept in full when its shape changed or its money did not parse.
KeepPoll(s, f) ==
  LET shape == IF f.kind = "menu" THEN "menu" ELSE "playing" IN
  IF shape # s.mem.shape \/ f.kind = "garbled"
  THEN AddEvent([s EXCEPT !.mem.shape = shape]) ELSE s

Presence(s, f) ==
  LET confirmed == Confirm(AfterSilence(s, f), f)
      played == IF confirmed.mem.match = 0 THEN confirmed
                ELSE KeepPoll(Play(confirmed, f), f)
  IN [played EXCEPT !.mem.last = f.at]

\* Only a spawn well after the start of the match is a new life.
Spawn(s, f) ==
  LET new == /\ s.mem.match # 0
             /\ f.at \notin s.mem.seen
             /\ f.at > s.mem.start + Grace
      lived == [s EXCEPT !.mem.seen = @ \cup {f.at}, !.mem.life = @ + 1,
                         !.rows.spawns =
                            @ \cup {[match |-> s.mem.match, at |-> f.at]}]
  IN AddEvent(IF new THEN lived ELSE s)

\* Mutation: the match is forgotten, not closed.
AgentStatusDrop(s, f) == [s EXCEPT !.mem = Fresh]

\* The agent stops, or the game closed.
AgentStatus(s, f) == Close(s, f.at)

-----------------------------------------------------------------------------
(* Facts, transactions, restarts. *)

Polls == {"playing", "garbled", "menu"}

\* A poll comes in time or after an outage; a spawn was logged since the last
\* one reported and before the poll.
Fresher ==
  {f \in Facts :
     \/ f.kind \in Polls /\ f.at \in {now + 1, now + StaleGap + 1}
     \/ f.kind = "spawn" /\ f.at > spawned /\ f.at <= now
     \/ f.kind = "stopped" /\ f.at = now}

Offered == IF resend = <<>> THEN Fresher ELSE {Head(resend)}

Take(f) ==
  /\ Len(sent) < MaxBatch
  /\ sent' = Append(sent, f)
  /\ resend' = IF resend = <<>> THEN resend ELSE Tail(resend)
  /\ now' = IF f.at > now THEN f.at ELSE now
  /\ spawned' = IF f.kind = "spawn" /\ f.at > spawned THEN f.at ELSE spawned
  /\ polls' = IF f.kind \in Polls THEN polls \cup {f.at} ELSE polls
  /\ UNCHANGED <<db, failed, faults>>

Becomes(s) == mem' = s.mem /\ work' = s.rows /\ nextId' = s.next

FeedPresence ==
  \E f \in Offered : f.kind \in Polls /\ Take(f) /\ Becomes(Presence(State, f))

FeedSpawn ==
  \E f \in Offered : f.kind = "spawn" /\ Take(f) /\ Becomes(Spawn(State, f))

FeedStatus ==
  \E f \in Offered : f.kind = "stopped" /\ Take(f) /\ Becomes(AgentStatus(State, f))

\* Samples and events refer to match rows that are there.
References(d) ==
  /\ \A r \in d.samples : r.match \in DOMAIN d.matches
  /\ d.events \subseteq DOMAIN d.matches

Commit ==
  /\ sent # <<>>
  /\ References(work)
  /\ db' = work
  /\ sent' = <<>>
  /\ UNCHANGED <<agent, work, nextId, mem, polls, failed, faults>>

SentInVain ==
  /\ work' = db
  /\ sent' = <<>>
  /\ resend' = sent \o resend
  /\ UNCHANGED <<now, spawned, nextId, db, polls>>

\* The database refuses a row without its match, as often as it is sent.
Refuse ==
  /\ sent # <<>> /\ ~References(work)
  /\ SentInVain
  /\ UNCHANGED <<mem, failed, faults>>

\* The transaction fails for a reason of its own.
Rollback ==
  /\ MayFail /\ faults < MaxFaults
  /\ sent # <<>>
  /\ SentInVain
  /\ failed' = TRUE
  /\ faults' = faults + 1
  /\ UNCHANGED mem

LastOf(S) == CHOOSE x \in S : \A y \in S : y <= x

\* Mutation: a restored match starts its lives again.
RestoredYoung(m) ==
  LET readings == {r \in db.samples : r.match = m} IN
  [Fresh EXCEPT !.match = m, !.start = db.matches[m].start,
                !.last = LastOf({db.matches[m].start} \cup {r.at : r \in readings})]

\* restore(): the memory as an open match's rows tell it.
Restored(m) ==
  LET readings == {r \in db.samples : r.match = m} IN
  [Fresh EXCEPT !.match = m, !.start = db.matches[m].start,
                !.life = LastOf({1} \cup {r.life : r \in readings}),
                !.last = LastOf({db.matches[m].start} \cup {r.at : r \in readings})]

OpenIn(d) == {m \in DOMAIN d.matches : ~d.matches[m].closed}

\* The server ends and starts, in the middle of a transaction perhaps.
Restart ==
  /\ faults < MaxFaults
  /\ faults' = faults + 1
  /\ SentInVain
  /\ IF OpenIn(db) = {} THEN mem' = Fresh
     ELSE \E m \in OpenIn(db) : mem' = Restored(m)
  /\ UNCHANGED failed

-----------------------------------------------------------------------------
Next ==
  \/ FeedPresence
  \/ FeedSpawn
  \/ FeedStatus
  \/ Commit
  \/ Refuse
  \/ Rollback
  \/ Restart

Spec == Init /\ [][Next]_vars

-----------------------------------------------------------------------------
(* Properties. *)

Readings(m) == {r \in db.samples : r.match = m}

\* Every stored reading lies inside its match, from its start to its end,
\* whatever batches failed and came again and whenever the server restarted.
ReadingsInside ==
  \A r \in db.samples :
    LET row == db.matches[r.match] IN
    row.start <= r.at /\ (row.closed => row.ended # None /\ r.at <= row.ended)

\* No match is stretched across an outage: none has readings on both sides of a
\* silence longer than STALE_MATCH_GAP_SEC, though the polls before and after it
\* came in batches that failed, or on either side of a restart.
NotStretched ==
  \A p, q \in polls :
    (q - p > StaleGap /\ \A o \in polls : o <= p \/ q <= o) =>
      \A m \in DOMAIN db.matches :
        \/ \A r \in Readings(m) : r.at <= p
        \/ \A r \in Readings(m) : q <= r.at

\* A match's lives are counted upwards along its readings, and -- as long as no
\* transaction failed -- none is counted that no stored spawn began.
LivesInOrder ==
  \A m \in DOMAIN db.matches : \A r \in Readings(m) :
    /\ \A q \in Readings(m) : r.at < q.at => r.life <= q.life
    /\ ~failed => r.life <= 1 + Cardinality({p \in db.spawns : p.match = m})

\* Between transactions the memory and the rows agree which match is open, and
\* it is one at most: "State is a cache, not a record" -- as long as no
\* transaction failed.
MemoryAgrees ==
  (sent = <<>> /\ ~failed) =>
    OpenIn(db) = IF mem.match = 0 THEN {} ELSE {mem.match}

\* "commits together or not at all" (ingest.py): after a batch that failed,
\* what the segmenter writes refers to what is there.
RetryIsSound == sent # <<>> => References(work)
=============================================================================
