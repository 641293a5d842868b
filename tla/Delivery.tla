----------------------------- MODULE Delivery ------------------------------
(***************************************************************************)
(* How one fact gets from a gaming PC into the server's database.          *)
(*                                                                         *)
(* The agent's outbox (outbox.py) is a queue on disk: appended to by the   *)
(* collector thread, read by the uplink thread (uplink.py) and, while the  *)
(* process exits, by the main thread's last drain() as well.  The server   *)
(* (ingest.py) gates every fact on its (agent, sequence) number, applies   *)
(* the new ones and answers with a cursor.  Requests and answers get lost, *)
(* time out and arrive late; the agent crashes and comes back.             *)
(*                                                                         *)
(* A fact is its sequence number.  Time is left out: a wait is a stutter,  *)
(* a timeout may happen whenever an answer is outstanding.                 *)
(***************************************************************************)
EXTENDS Naturals, FiniteSets

CONSTANTS
  MaxSeq,      \* bound: the collector records at most this many facts
  BatchSize,   \* uplink.BATCH_SIZE
  WalkLimit,   \* the LIMIT of the scan in Ingest._advance_cursor
  GapWriteOff, \* TRUE: this server; FALSE: one without the gap-closing fix
  TornReplies, \* TRUE: an answer may break off in the middle of its body
  MaxFaults,   \* bound: failed exchanges, crashes and shutdowns
  MaxLate      \* bound: abandoned batches still on their way at once

ASSUME MaxSeqAssumption == MaxSeq \in Nat
ASSUME BatchAssumption == BatchSize \in Nat \ {0}
ASSUME WalkAssumption == WalkLimit \in Nat /\ BatchSize <= WalkLimit
ASSUME SwitchAssumption == GapWriteOff \in BOOLEAN /\ TornReplies \in BOOLEAN
ASSUME BoundsAssumption == MaxFaults \in Nat /\ MaxLate \in Nat

VARIABLES
  \* the agent's disk
  outbox,        \* sequence numbers held
  nextSeq,       \* meta.next_seq
  ackedThrough,  \* meta.acked_through
  \* the agent's process
  running,       \* "up", "stopping" (stop is set) or "down"
  pc,            \* per caller: which exchange it makes next, or is in
  stage,         \* per caller: "idle", "sent" or "answered"
  batch,         \* per caller: the facts of the exchange
  reply,         \* per caller: the Ack it got
  progress,      \* per caller: drain() deleted something, or nothing is held
  told,          \* Uplink._told_server is set
  \* the network
  late,          \* batches nobody waits for that may still reach the server
  \* the server's database
  stored,        \* ingested_envelopes of this agent
  cursor,        \* agents.acked_through
  fed,           \* how often each fact went through Segmenter.feed
  \* the model
  faults         \* failures so far

disk == <<outbox, nextSeq, ackedThrough>>
calls == <<pc, stage, batch, reply, progress, told>>
server == <<stored, cursor, fed>>
vars == <<disk, running, calls, late, server, faults>>

Seqs == 1..MaxSeq

\* Who talks to the server: the uplink thread, and main()'s drain on exit.
Callers == {"uplink", "exit"}

NoReply == [acked |-> 0, accepted |-> {}, duplicates |-> {}]

TypeOK ==
  /\ outbox \subseteq Seqs
  /\ nextSeq \in 1..(MaxSeq + 1)
  /\ ackedThrough \in 0..MaxSeq
  /\ running \in {"up", "stopping", "down"}
  /\ pc \in [Callers -> {"off", "sync", "drain", "beat", "done", "dead"}]
  /\ stage \in [Callers -> {"idle", "sent", "answered"}]
  /\ batch \in [Callers -> SUBSET Seqs]
  /\ reply \in [Callers -> [acked : 0..MaxSeq, accepted : SUBSET Seqs,
                            duplicates : SUBSET Seqs]]
  /\ progress \in [Callers -> BOOLEAN]
  /\ told \in BOOLEAN
  /\ late \subseteq SUBSET Seqs
  /\ stored \subseteq Seqs
  /\ cursor \in 0..MaxSeq
  /\ fed \in [Seqs -> Nat]
  /\ faults \in Nat

Init ==
  /\ outbox = {}
  /\ nextSeq = 1
  /\ ackedThrough = 0
  /\ running = "down"
  /\ pc = [c \in Callers |-> "off"]
  /\ stage = [c \in Callers |-> "idle"]
  /\ batch = [c \in Callers |-> {}]
  /\ reply = [c \in Callers |-> NoReply]
  /\ progress = [c \in Callers |-> FALSE]
  /\ told = FALSE
  /\ late = {}
  /\ stored = {}
  /\ cursor = 0
  /\ fed = [s \in Seqs |-> 0]
  /\ faults = 0

-----------------------------------------------------------------------------
(* The outbox. *)

First(b) == CHOOSE s \in b : \A t \in b : s <= t
Last(b) == CHOOSE s \in b : \A t \in b : t <= s

\* Mutation: the newest rows first.
PendingNewest ==
  {s \in outbox : Cardinality({t \in outbox : t > s}) < BatchSize}

\* Outbox.pending: the BatchSize lowest sequence numbers held.
Pending == {s \in outbox : Cardinality({t \in outbox : t < s}) < BatchSize}

\* Mutation: the number is consumed in a transaction of its own.
AppendTorn ==
  /\ running # "down"
  /\ nextSeq <= MaxSeq
  /\ nextSeq' = nextSeq + 1
  /\ \/ outbox' = outbox \cup {nextSeq}
     \/ outbox' = outbox
  /\ UNCHANGED <<ackedThrough, running, calls, late, server, faults>>

\* Outbox.append: the row and the number it consumes, in one transaction.
Append ==
  /\ running # "down"
  /\ nextSeq <= MaxSeq
  /\ outbox' = outbox \cup {nextSeq}
  /\ nextSeq' = nextSeq + 1
  /\ UNCHANGED <<ackedThrough, running, calls, late, server, faults>>

\* Mutation: off by one, the acknowledged row itself is kept.
AckBelow(through) ==
  /\ outbox' = {s \in outbox : s >= through}
  /\ ackedThrough' = IF through > ackedThrough THEN through ELSE ackedThrough

\* Outbox.ack: forget everything at or below `through'.
Ack(through) ==
  /\ outbox' = {s \in outbox : s > through}
  /\ ackedThrough' = IF through > ackedThrough THEN through ELSE ackedThrough

-----------------------------------------------------------------------------
(* The server. *)

\* Mutation: the cursor waits for the gap to be filled.
WriteOffNever(b) == cursor

\* The gap below a batch's lowest number is written off: the agent holds
\* nothing below the head of its queue.
WriteOff(b) ==
  IF GapWriteOff /\ b # {} /\ First(b) > cursor + 1 THEN First(b) - 1
                                                   ELSE cursor

\* Mutation: acknowledges the next number expected, not the last one held.
WalkPast(from, have) ==
  CHOOSE c \in (from + 1)..(from + WalkLimit + 1) :
    /\ (from + 1)..(c - 1) \subseteq have
    /\ c = from + WalkLimit + 1 \/ c \notin have

\* The walk of _advance_cursor over the contiguous numbers in `have', at most
\* WalkLimit of them.
Walk(from, have) ==
  CHOOSE c \in from..(from + WalkLimit) :
    /\ (from + 1)..c \subseteq have
    /\ c = from + WalkLimit \/ c + 1 \notin have

\* Mutation: no envelope gate.
IngestUngated(b) ==
  /\ stored' = stored \cup b
  /\ fed' = [s \in Seqs |-> IF s \in b THEN fed[s] + 1 ELSE fed[s]]
  /\ cursor' = Walk(WriteOff(b), stored')

\* Mutation: acknowledges the batch, without looking at what it has.
IngestHighest(b) ==
  /\ stored' = stored \cup b
  /\ fed' = [s \in Seqs |-> IF s \in b \ stored THEN fed[s] + 1 ELSE fed[s]]
  /\ cursor' = IF b = {} THEN cursor ELSE Last(b)

\* Ingest.ingest: one transaction per batch.
Ingest(b) ==
  /\ stored' = stored \cup b
  /\ fed' = [s \in Seqs |-> IF s \in b \ stored THEN fed[s] + 1 ELSE fed[s]]
  /\ cursor' = Walk(WriteOff(b), stored')

\* The request of caller c is handled and its answer sent: a batch, an empty
\* batch (heartbeat) or a read of the cursor.
Serve(c) ==
  /\ stage[c] = "sent"
  /\ \/ /\ pc[c] = "sync"
        /\ reply' = [reply EXCEPT ![c] = [NoReply EXCEPT !.acked = cursor]]
        /\ UNCHANGED server
     \/ /\ pc[c] \in {"drain", "beat"}
        /\ Ingest(batch[c])
        /\ reply' = [reply EXCEPT ![c] =
                       [acked |-> cursor', accepted |-> batch[c] \ stored,
                        duplicates |-> batch[c] \cap stored]]
  /\ stage' = [stage EXCEPT ![c] = "answered"]
  /\ UNCHANGED <<disk, running, pc, batch, progress, told, late, faults>>

\* A batch whose sender has given up, or died, reaches the server after all.
LateArrives(b) ==
  /\ late' = late \ {b}
  /\ Ingest(b)
  /\ UNCHANGED <<disk, running, calls, faults>>

LateLost(b) ==
  /\ late' = late \ {b}
  /\ UNCHANGED <<disk, running, calls, server, faults>>

-----------------------------------------------------------------------------
(* The callers: Uplink.run, and the drain() of a stopping main(). *)

\* Where a caller goes when its drain() returns.
AfterDrain(c) == IF c = "uplink" THEN "beat" ELSE "done"

\* Uplink.run goes round its loop again, unless stop is set.
Again(next) == IF running = "stopping" THEN "done" ELSE next

\* The end of a turn: re-read the cursor if facts are held and none moved.
AfterTurn(c) == IF progress[c] THEN Again("drain") ELSE "sync"

\* sync_cursor's and heartbeat's request.
Ask(c) ==
  /\ stage[c] = "idle"
  /\ pc[c] \in {"sync", "beat"}
  /\ stage' = [stage EXCEPT ![c] = "sent"]
  /\ batch' = [batch EXCEPT ![c] = {}]
  /\ UNCHANGED <<disk, running, pc, reply, progress, told, late, server, faults>>

\* Uplink.flush_once's request.
Send(c) ==
  /\ stage[c] = "idle"
  /\ pc[c] = "drain"
  /\ outbox # {}
  /\ stage' = [stage EXCEPT ![c] = "sent"]
  /\ batch' = [batch EXCEPT ![c] = Pending]
  /\ UNCHANGED <<disk, running, pc, reply, progress, told, late, server, faults>>

\* flush_once finds nothing to send, so drain() returns.
NothingToSend(c) ==
  /\ stage[c] = "idle"
  /\ pc[c] = "drain"
  /\ outbox = {}
  /\ pc' = [pc EXCEPT ![c] = AfterDrain(c)]
  /\ progress' = [progress EXCEPT ![c] = TRUE]
  /\ UNCHANGED <<disk, running, stage, batch, reply, told, late, server, faults>>

\* Mutation: an idle agent has nothing to say.
SkipBeatAlways(c) ==
  /\ stage[c] = "idle"
  /\ pc[c] = "beat"
  /\ pc' = [pc EXCEPT ![c] = AfterTurn(c)]
  /\ progress' = [progress EXCEPT ![c] = FALSE]
  /\ UNCHANGED <<disk, running, stage, batch, reply, told, late, server, faults>>

\* Something was posted less than a heartbeat interval ago.
SkipBeat(c) ==
  /\ stage[c] = "idle"
  /\ pc[c] = "beat"
  /\ told
  /\ pc' = [pc EXCEPT ![c] = AfterTurn(c)]
  /\ progress' = [progress EXCEPT ![c] = FALSE]
  /\ UNCHANGED <<disk, running, stage, batch, reply, told, late, server, faults>>

\* Mutation: only the cursor is proof of delivery.
SettledByCursor(c) == reply[c].acked

\* What flush_once acknowledges to the outbox: the server's cursor or, when
\* that deletes nothing, the whole batch if the server accounts for it.
Accounted(c) ==
  /\ reply[c].accepted \cup reply[c].duplicates = batch[c]
  /\ batch[c] = First(batch[c])..Last(batch[c])

Settled(c) ==
  IF {s \in outbox : s <= reply[c].acked} = {} /\ Accounted(c)
    THEN Last(batch[c])
    ELSE reply[c].acked

\* The exchange is over, one way or another.
HangUp(c) ==
  /\ stage' = [stage EXCEPT ![c] = "idle"]
  /\ batch' = [batch EXCEPT ![c] = {}]
  /\ reply' = [reply EXCEPT ![c] = NoReply]

\* The answer to a batch.  flush_once's return value is the number of rows
\* deleted: drain() goes on while that is positive and rows are left.
Flushed(c) ==
  /\ pc[c] = "drain"
  /\ Ack(Settled(c))
  /\ told' = TRUE
  /\ IF outbox' # outbox /\ outbox' # {}
       THEN UNCHANGED pc
       ELSE pc' = [pc EXCEPT ![c] = AfterDrain(c)]
  /\ progress' = [progress EXCEPT ![c] = @ \/ outbox' # outbox \/ outbox' = {}]

\* The answer to a read of the cursor: forget what the server is ahead by.
Synced(c) ==
  /\ pc[c] = "sync"
  /\ IF reply[c].acked > ackedThrough THEN Ack(reply[c].acked)
                                      ELSE UNCHANGED <<outbox, ackedThrough>>
  /\ pc' = [pc EXCEPT ![c] = Again("drain")]
  /\ progress' = [progress EXCEPT ![c] = FALSE]
  /\ UNCHANGED told

\* The answer to a heartbeat.
Beaten(c) ==
  /\ pc[c] = "beat"
  /\ IF reply[c].acked > ackedThrough THEN Ack(reply[c].acked)
                                      ELSE UNCHANGED <<outbox, ackedThrough>>
  /\ told' = TRUE
  /\ pc' = [pc EXCEPT ![c] = AfterTurn(c)]
  /\ progress' = [progress EXCEPT ![c] = FALSE]

HandleReply(c) ==
  /\ stage[c] = "answered"
  /\ Flushed(c) \/ Synced(c) \/ Beaten(c)
  /\ HangUp(c)
  /\ UNCHANGED <<nextSeq, running, late, server, faults>>

-----------------------------------------------------------------------------
(* What goes wrong. *)

\* Batches and heartbeats that may still arrive if their senders go away.
InFlight(C) == {batch[c] : c \in {d \in C : stage[d] = "sent" /\ pc[d] # "sync"}}

\* Any of the requests in flight from C stays on its way; the rest are lost.
Abandon(C) ==
  \E on \in SUBSET InFlight(C) :
    /\ Cardinality(late \cup on) <= MaxLate
    /\ late' = late \cup on

\* The exception run() catches makes it re-read the cursor; one in that very
\* read is ignored; main() ignores the one of its last drain.
AfterFailure(c) ==
  CASE c = "exit" -> "done"
    [] c = "uplink" /\ pc[c] = "sync" -> Again("drain")
    [] OTHER -> "sync"

\* A refused connection, an error status, a timeout, a lost answer.
GiveUp(c) ==
  /\ stage[c] \in {"sent", "answered"}
  /\ faults < MaxFaults
  /\ faults' = faults + 1
  /\ Abandon({c})
  /\ pc' = [pc EXCEPT ![c] = AfterFailure(c)]
  /\ HangUp(c)
  /\ progress' = [progress EXCEPT ![c] = FALSE]
  /\ UNCHANGED <<disk, running, told, server>>

\* The answer breaks off in its body: http.client.IncompleteRead, which is
\* none of the exceptions run() catches, so the uplink thread ends.
TornReply(c) ==
  /\ TornReplies
  /\ stage[c] = "answered"
  /\ faults < MaxFaults
  /\ faults' = faults + 1
  /\ pc' = [pc EXCEPT ![c] = IF c = "uplink" /\ pc[c] # "sync" THEN "dead"
                                                          ELSE AfterFailure(c)]
  /\ HangUp(c)
  /\ progress' = [progress EXCEPT ![c] = FALSE]
  /\ UNCHANGED <<disk, running, told, late, server>>

\* The process is gone: only the disk and what it had sent remain.
ProcessEnds ==
  /\ running' = "down"
  /\ Abandon(Callers)
  /\ pc' = [c \in Callers |-> "off"]
  /\ stage' = [c \in Callers |-> "idle"]
  /\ batch' = [c \in Callers |-> {}]
  /\ reply' = [c \in Callers |-> NoReply]
  /\ progress' = [c \in Callers |-> FALSE]
  /\ told' = FALSE
  /\ UNCHANGED <<disk, server>>

Crash ==
  /\ running # "down"
  /\ faults < MaxFaults
  /\ faults' = faults + 1
  /\ ProcessEnds

\* main(): the threads start, and run() begins by reading the cursor.
Boot ==
  /\ running = "down"
  /\ running' = "up"
  /\ pc' = [pc EXCEPT !["uplink"] = "sync"]
  /\ UNCHANGED <<disk, stage, batch, reply, progress, told, late, server, faults>>

\* SIGINT or SIGTERM.
Stop ==
  /\ running = "up"
  /\ faults < MaxFaults
  /\ faults' = faults + 1
  /\ running' = "stopping"
  /\ UNCHANGED <<disk, calls, late, server>>

\* The threads were joined, or five seconds were up: the last drain, with the
\* uplink thread possibly still in an exchange of its own.
DrainOnExit ==
  /\ running = "stopping"
  /\ pc["exit"] = "off"
  /\ pc' = [pc EXCEPT !["exit"] = "drain"]
  /\ UNCHANGED <<disk, running, stage, batch, reply, progress, told, late, server,
                 faults>>

Exit ==
  /\ pc["exit"] = "done"
  /\ ProcessEnds
  /\ UNCHANGED faults

-----------------------------------------------------------------------------
CallerStep(c) ==
  \/ Ask(c) \/ Send(c) \/ NothingToSend(c) \/ SkipBeat(c)
  \/ HandleReply(c)

Next ==
  \/ Append
  \/ \E c \in Callers : CallerStep(c) \/ Serve(c) \/ GiveUp(c) \/ TornReply(c)
  \/ \E b \in late : LateArrives(b) \/ LateLost(b)
  \/ Boot \/ Stop \/ DrainOnExit \/ Exit \/ Crash

Spec == Init /\ [][Next]_vars

\* The threads are scheduled, the server answers what reaches it unless one
\* of the finitely many faults intervenes, and the agent is started again.
Fairness ==
  /\ \A c \in Callers : WF_vars(CallerStep(c)) /\ WF_vars(Serve(c))
  /\ WF_vars(Boot) /\ WF_vars(DrainOnExit) /\ WF_vars(Exit)

FairSpec == Spec /\ Fairness

-----------------------------------------------------------------------------
(* Properties. *)

\* A fact that was recorded is in the outbox until the server has stored it:
\* whatever is lost, delayed or crashes, it is somewhere ("the only copy of a
\* fact until the server acknowledges it", outbox.py).
NothingLost == 1..(nextSeq - 1) \subseteq outbox \cup stored

\* A stored fact went through the segmenter once and any other never did,
\* however often it was sent (the envelope gate of Ingest.ingest).
ExactlyOnce == \A s \in Seqs : fed[s] = IF s \in stored THEN 1 ELSE 0

\* An acknowledged number is one the server has, together with every number
\* before it, and the agent never believes in a higher one.
AckIsStored == ackedThrough <= cursor /\ 1..cursor \subseteq stored

\* The segmenter, which depends on order, is fed in the agent's order: what a
\* batch adds is newer than everything applied before, even when an older
\* batch of a caller that gave up arrives afterwards.
AppliedInOrder ==
  [][\A s \in stored' \ stored, t \in stored : t < s]_vars

\* Delivery implements the stream of FactStream.
Stream == INSTANCE FactStream WITH produced <- nextSeq - 1,
                                   delivered <- cursor,
                                   forgotten <- ackedThrough
ImplementsStream == Stream!Spec

\* The outbox runs empty again and again: no queue is wedged behind lost
\* answers, crashes or a shutdown.
OutboxDrains == []<>(outbox = {})

\* A booted agent tells the server so even with nothing to report, unless it
\* is shut down first (heartbeat_due starts out true).
AnnouncesItself == (running = "up") ~> (told \/ running # "up")

\* "Ship facts until asked to stop.  Never raises" (uplink.py, Uplink.run).
NeverRaises == running = "up" => pc["uplink"] # "dead"
=============================================================================
