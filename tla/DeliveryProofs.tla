--------------------------- MODULE DeliveryProofs ---------------------------
(***************************************************************************)
(* Proofs about Delivery, for every number of facts, batch size, walk      *)
(* limit and number of faults.  The inductive invariant IInv says that     *)
(* both ends hold intervals: the agent the numbers it was not told to      *)
(* forget, the server a prefix of the stream, and every batch on its way   *)
(* is a piece of the stream that begins no later than where that prefix    *)
(* ends.                                                                   *)
(***************************************************************************)
EXTENDS DeliveryRestore, FiniteSetTheorems, WellFoundedInduction, TLAPS

\* A batch as flush_once cuts it from the head of the queue, for a server that
\* has 1..have and an agent about to write number next.
Piece(b, have, next) ==
  \E lo, hi \in Seqs :
    /\ lo <= hi /\ b = lo..hi
    /\ hi - lo < BatchSize
    /\ lo <= have + 1 /\ hi < next

Segment(b) == Piece(b, cursor, nextSeq)

OutboxInv == outbox = (ackedThrough + 1)..(nextSeq - 1)

ServerInv ==
  /\ stored = 1..cursor
  /\ ackedThrough <= cursor /\ cursor < nextSeq
  /\ ExactlyOnce

CallInv ==
  \A c \in Callers :
    /\ pc[c] # "off" => running # "down"
    /\ stage[c] # "idle" => pc[c] \in {"sync", "drain", "beat"}
    /\ stage[c] # "idle" /\ pc[c] = "drain" => Segment(batch[c])
    /\ stage[c] # "idle" /\ pc[c] # "drain" => batch[c] = {}
    /\ stage[c] = "answered" =>
         /\ reply[c].acked <= cursor
         /\ pc[c] = "drain" => batch[c] \subseteq 1..cursor

LateInv == \A b \in late : b = {} \/ Segment(b)

IInv == TypeOK /\ OutboxInv /\ ServerInv /\ CallInv /\ LateInv

-----------------------------------------------------------------------------
(* The operators. *)

LEMMA IntervalEnds ==
  ASSUME NEW lo \in Nat, NEW hi \in Nat, lo <= hi
  PROVE  First(lo..hi) = lo /\ Last(lo..hi) = hi
<1>1. \E s \in lo..hi : \A t \in lo..hi : s <= t
  OBVIOUS
<1>2. \E s \in lo..hi : \A t \in lo..hi : t <= s
  OBVIOUS
<1>3. First(lo..hi) \in lo..hi /\ \A t \in lo..hi : First(lo..hi) <= t
  BY <1>1 DEF First
<1>4. Last(lo..hi) \in lo..hi /\ \A t \in lo..hi : t <= Last(lo..hi)
  BY <1>2 DEF Last
<1> QED
  BY <1>3, <1>4

\* pending() cuts a segment off the head of an outbox without holes.
LEMMA PendingIsHead ==
  ASSUME NEW a \in Nat, NEW n \in Nat, a + 1 <= n, outbox = (a + 1)..n
  PROVE  \E h \in (a + 1)..n : Pending = (a + 1)..h /\ h - (a + 1) < BatchSize
<1> DEFINE below(s) == {t \in outbox : t < s}
<1>1. ASSUME NEW s \in outbox
      PROVE  Cardinality(below(s)) = s - (a + 1)
  <2>1. below(s) = (a + 1)..(s - 1)
    OBVIOUS
  <2>2. Cardinality((a + 1)..(s - 1)) = IF a + 1 > s - 1 THEN 0 ELSE s - 1 - (a + 1) + 1
    BY FS_Interval
  <2>3. s \in Nat /\ a + 1 <= s
    OBVIOUS
  <2>4. Cardinality((a + 1)..(s - 1)) = s - (a + 1)
    BY <2>2, <2>3
  <2> QED
    BY <2>1, <2>4
<1>2. Pending = {s \in outbox : s - (a + 1) < BatchSize}
  BY <1>1 DEF Pending
<1>3. PICK h \in Nat : h = IF a + BatchSize < n THEN a + BatchSize ELSE n
  BY BatchAssumption
<1>4. Pending = (a + 1)..h
  BY <1>2, <1>3, BatchAssumption
<1> QED
  BY <1>3, <1>4, BatchAssumption

\* The walk over a prefix ends at its end, if that is within its limit.
LEMMA WalkPrefix ==
  ASSUME NEW m \in Nat, NEW from \in Nat, from <= m, m - from <= WalkLimit
  PROVE  Walk(from, 1..m) = m
<1> DEFINE P(c) == /\ (from + 1)..c \subseteq 1..m
                   /\ c = from + WalkLimit \/ c + 1 \notin 1..m
<1>1. m \in from..(from + WalkLimit) /\ P(m)
  BY WalkAssumption
<1>2. ASSUME NEW c \in from..(from + WalkLimit), P(c)
      PROVE  c = m
  <2>1. c <= m
    <3>1. CASE c = from
      BY <3>1
    <3>2. CASE c > from
      <4>1. c \in (from + 1)..c
        BY <3>2, WalkAssumption
      <4> QED
        BY <4>1, <1>2
    <3> QED
      BY <3>1, <3>2, WalkAssumption
  <2>2. c >= m
    BY <1>2, WalkAssumption
  <2> QED
    BY <2>1, <2>2, WalkAssumption
<1>3. \E c \in from..(from + WalkLimit) : P(c)
  BY <1>1
<1>4. Walk(from, 1..m) \in from..(from + WalkLimit) /\ P(Walk(from, 1..m))
  BY <1>3 DEF Walk
<1> QED
  BY <1>2, <1>4

\* A piece stays one while the server gains facts and the agent writes more.
LEMMA PieceMonotone ==
  ASSUME NEW b, NEW h1 \in Nat, NEW h2 \in Nat, NEW n1 \in Nat, NEW n2 \in Nat,
         Piece(b, h1, n1), h1 <= h2, n1 <= n2
  PROVE  Piece(b, h2, n2)
BY MaxSeqAssumption DEF Piece, Seqs

\* One ingest transaction extends the server's prefix by what is new in the
\* batch, and the cursor follows it to its end.
LEMMA IngestExtends ==
  ASSUME IInv, NEW b, b = {} \/ Segment(b), Ingest(b)
  PROVE  /\ cursor' \in 0..MaxSeq /\ cursor <= cursor' /\ cursor' < nextSeq
         /\ stored' = 1..cursor' /\ stored' \subseteq Seqs
         /\ b \subseteq 1..cursor'
         /\ fed' \in [Seqs -> Nat]
         /\ \A s \in Seqs : fed'[s] = IF s \in stored' THEN 1 ELSE 0
<1> USE MaxSeqAssumption, BatchAssumption, WalkAssumption
<1>1. /\ cursor \in 0..MaxSeq /\ stored = 1..cursor /\ cursor < nextSeq
      /\ nextSeq \in 1..(MaxSeq + 1) /\ fed \in [Seqs -> Nat]
      /\ \A s \in Seqs : fed[s] = IF s \in stored THEN 1 ELSE 0
  BY DEF IInv, TypeOK, ServerInv, ExactlyOnce
<1>2. b \subseteq Seqs
  BY DEF Segment, Piece, Seqs
<1>3. /\ fed' \in [Seqs -> Nat]
      /\ \A s \in Seqs : fed'[s] = IF s \in stored' THEN 1 ELSE 0
  BY <1>1, <1>2 DEF Ingest
<1>4. CASE b = {}
  <2>1. stored' = 1..cursor
    BY <1>1, <1>4 DEF Ingest
  <2>2. WriteOff(b) = cursor
    BY <1>4 DEF WriteOff
  <2>3. Walk(cursor, 1..cursor) = cursor
    BY <1>1, WalkPrefix
  <2>4. cursor' = cursor
    BY <2>1, <2>2, <2>3 DEF Ingest
  <2> QED
    BY <1>1, <1>3, <1>4, <2>1, <2>4 DEF Seqs
<1>5. CASE Segment(b)
  <2>1. PICK lo \in Seqs, hi \in Seqs :
          /\ lo <= hi /\ b = lo..hi /\ hi - lo < BatchSize
          /\ lo <= cursor + 1 /\ hi < nextSeq
    BY <1>5 DEF Segment, Piece
  <2>2. PICK m \in Nat : m = IF hi > cursor THEN hi ELSE cursor
    BY <1>1, <2>1 DEF Seqs
  <2>3. stored' = 1..m
    BY <1>1, <2>1, <2>2 DEF Ingest, Seqs
  <2>4. First(b) = lo
    BY <2>1, IntervalEnds DEF Seqs
  <2>5. WriteOff(b) = cursor
    BY <1>1, <2>1, <2>4 DEF WriteOff, Seqs
  <2>6. cursor <= m /\ m - cursor <= WalkLimit
    BY <1>1, <2>1, <2>2 DEF Seqs
  <2>7. Walk(cursor, 1..m) = m
    BY <1>1, <2>2, <2>6, WalkPrefix
  <2>8. cursor' = m
    BY <2>3, <2>5, <2>7 DEF Ingest
  <2> QED
    BY <1>1, <1>3, <2>1, <2>2, <2>3, <2>8 DEF Seqs
<1> QED
  BY <1>4, <1>5

-----------------------------------------------------------------------------
(* The invariant is inductive: one lemma per group of actions. *)

LEMMA InitInv == Init => IInv
<1> SUFFICES ASSUME Init PROVE IInv
  OBVIOUS
<1> USE MaxSeqAssumption DEF Init
<1>1. TypeOK
  <2>1. NoReply \in [acked : 0..MaxSeq, accepted : SUBSET Seqs,
                     duplicates : SUBSET Seqs]
    BY DEF NoReply
  <2>2. /\ outbox \subseteq Seqs /\ late \subseteq SUBSET Seqs /\ stored \subseteq Seqs
        /\ nextSeq \in 1..(MaxSeq + 1) /\ ackedThrough \in 0..MaxSeq
        /\ cursor \in 0..MaxSeq /\ faults \in Nat /\ fed \in [Seqs -> Nat]
    OBVIOUS
  <2> QED
    BY <2>1, <2>2 DEF TypeOK
<1>2. OutboxInv /\ ServerInv
  BY DEF OutboxInv, ServerInv, ExactlyOnce, Seqs
<1>3. CallInv /\ LateInv
  BY DEF CallInv, LateInv
<1> QED
  BY <1>1, <1>2, <1>3 DEF IInv

LEMMA AppendInv == IInv /\ Append => IInv'
<1> SUFFICES ASSUME IInv, Append PROVE IInv'
  OBVIOUS
<1> USE MaxSeqAssumption
<1>1. TypeOK'
  BY DEF IInv, TypeOK, Append, Seqs, calls, server
<1>2. OutboxInv' /\ ServerInv'
  BY DEF IInv, TypeOK, OutboxInv, ServerInv, ExactlyOnce, Append, server, Seqs
<1>3. ASSUME NEW b, Segment(b)
      PROVE  Segment(b)'
  BY <1>3, PieceMonotone DEF IInv, TypeOK, Segment, Append, server
<1>4. CallInv'
  BY <1>3, PieceMonotone DEF IInv, TypeOK, CallInv, Segment, Append, server, calls
<1>5. LateInv'
  BY <1>3, PieceMonotone DEF IInv, TypeOK, LateInv, Segment, Append, server
<1> QED
  BY <1>1, <1>2, <1>4, <1>5 DEF IInv

\* The steps of a caller that neither send facts nor touch the disk.
LEMMA QuietInv ==
  ASSUME IInv, NEW c \in Callers,
         Ask(c) \/ NothingToSend(c) \/ SkipBeat(c)
  PROVE  IInv'
<1> USE DEF disk, server, calls
<1>1. UNCHANGED <<disk, running, reply, told, late, server, faults>>
  BY DEF Ask, NothingToSend, SkipBeat
<1>2. TypeOK'
  BY <1>1 DEF IInv, TypeOK, Ask, NothingToSend, SkipBeat, AfterDrain, AfterTurn, Again
<1>3. OutboxInv' /\ ServerInv' /\ LateInv'
  BY <1>1 DEF IInv, OutboxInv, ServerInv, ExactlyOnce, LateInv, Segment
<1>4. CallInv'
  <2>2. CASE Ask(c)
    BY <1>1, <2>2 DEF IInv, TypeOK, CallInv, Segment, Ask
  <2>3. CASE NothingToSend(c)
    BY <1>1, <2>3 DEF IInv, TypeOK, CallInv, Segment, NothingToSend
  <2>4. CASE SkipBeat(c)
    BY <1>1, <2>4 DEF IInv, TypeOK, CallInv, Segment, SkipBeat
  <2> QED
    BY <2>2, <2>3, <2>4
<1> QED
  BY <1>2, <1>3, <1>4 DEF IInv

\* What flush_once sends is a segment: the head of an outbox without holes.
LEMMA SendInv ==
  ASSUME IInv, NEW c \in Callers, Send(c)
  PROVE  IInv'
<1> USE MaxSeqAssumption DEF disk, server, calls
<1>1. UNCHANGED <<disk, running, pc, reply, progress, told, late, server, faults>>
  BY DEF Send
<1>2. Segment(Pending)
  <2>1. /\ ackedThrough \in Nat /\ nextSeq - 1 \in Nat /\ nextSeq \in 1..(MaxSeq + 1)
        /\ outbox = (ackedThrough + 1)..(nextSeq - 1)
        /\ ackedThrough <= cursor /\ cursor \in Nat
    BY DEF IInv, TypeOK, OutboxInv, ServerInv
  <2>2. ackedThrough + 1 <= nextSeq - 1
    BY <2>1 DEF Send
  <2>3. PICK h \in (ackedThrough + 1)..(nextSeq - 1) :
          Pending = (ackedThrough + 1)..h /\ h - (ackedThrough + 1) < BatchSize
    BY <2>1, <2>2, PendingIsHead
  <2>4. ackedThrough + 1 \in Seqs /\ h \in Seqs
    BY <2>1, <2>2 DEF Seqs
  <2> QED
    BY <2>1, <2>3, <2>4 DEF Segment, Piece
<1>3. TypeOK'
  <2>1. Pending \subseteq Seqs
    BY DEF Pending, IInv, TypeOK
  <2> QED
    BY <1>1, <2>1 DEF IInv, TypeOK, Send
<1>4. OutboxInv' /\ ServerInv' /\ LateInv'
  BY <1>1 DEF IInv, OutboxInv, ServerInv, ExactlyOnce, LateInv, Segment
<1>5. CallInv'
  BY <1>1, <1>2 DEF IInv, TypeOK, CallInv, Segment, Send
<1> QED
  BY <1>3, <1>4, <1>5 DEF IInv

\* Whatever is acknowledged to the outbox, the server has.
LEMMA SettledIsStored ==
  ASSUME IInv, NEW c \in Callers, stage[c] = "answered", pc[c] = "drain"
  PROVE  Settled(c) \in 0..cursor
<1> USE MaxSeqAssumption
<1>1. Segment(batch[c]) /\ batch[c] \subseteq 1..cursor
  BY DEF IInv, CallInv
<1>2. PICK lo \in Seqs, hi \in Seqs : lo <= hi /\ batch[c] = lo..hi
  BY <1>1 DEF Segment, Piece
<1>3. Last(batch[c]) = hi
  BY <1>2, IntervalEnds DEF Seqs
<1>4. hi \in 0..cursor
  BY <1>1, <1>2 DEF Seqs
<1>5. reply[c].acked \in 0..cursor
  BY DEF IInv, TypeOK, CallInv
<1> QED
  BY <1>3, <1>4, <1>5 DEF Settled

\* Acknowledging up to a number the server has leaves an outbox without holes.
LEMMA AckKeeps ==
  ASSUME IInv, NEW n \in 0..cursor, Ack(n)
  PROVE  /\ outbox' = (ackedThrough' + 1)..(nextSeq - 1)
         /\ outbox' \subseteq Seqs
         /\ ackedThrough' \in 0..MaxSeq
         /\ ackedThrough <= ackedThrough' /\ ackedThrough' <= cursor
BY MaxSeqAssumption DEF IInv, TypeOK, OutboxInv, ServerInv, Ack, Seqs

\* The answer is acted upon.
LEMMA HandleReplyInv ==
  ASSUME IInv, NEW c \in Callers, HandleReply(c)
  PROVE  IInv'
<1> USE MaxSeqAssumption DEF server
<1>1. /\ stage[c] = "answered"
      /\ HangUp(c)
      /\ UNCHANGED <<nextSeq, running, late, server, faults>>
  BY DEF HandleReply
<1>2. /\ outbox' = (ackedThrough' + 1)..(nextSeq - 1)
      /\ outbox' \subseteq Seqs
      /\ ackedThrough' \in 0..MaxSeq
      /\ ackedThrough' <= cursor
  <2>0. reply[c].acked \in 0..cursor
    BY <1>1 DEF IInv, TypeOK, CallInv
  <2>1. CASE UNCHANGED <<outbox, ackedThrough>>
    BY <2>1 DEF IInv, TypeOK, OutboxInv, ServerInv
  <2>2. CASE Flushed(c)
    BY <1>1, <2>2, SettledIsStored, AckKeeps DEF Flushed
  <2>3. CASE Synced(c)
    BY <2>0, <2>1, <2>3, AckKeeps DEF Synced
  <2>4. CASE Beaten(c)
    BY <2>0, <2>1, <2>4, AckKeeps DEF Beaten
  <2> QED
    BY <2>2, <2>3, <2>4 DEF HandleReply
<1>3. /\ pc' \in [Callers -> {"off", "sync", "drain", "beat", "done", "dead"}]
      /\ \A d \in Callers \ {c} : pc'[d] = pc[d]
      /\ progress' \in [Callers -> BOOLEAN] /\ told' \in BOOLEAN
  <2>1. CASE Flushed(c)
    BY <2>1 DEF Flushed, IInv, TypeOK, AfterDrain
  <2>2. CASE Synced(c)
    BY <2>2 DEF Synced, IInv, TypeOK, Again
  <2>3. CASE Beaten(c)
    BY <2>3 DEF Beaten, IInv, TypeOK, AfterTurn, Again
  <2> QED
    BY <2>1, <2>2, <2>3 DEF HandleReply
<1>4. TypeOK'
  <2>1. NoReply \in [acked : 0..MaxSeq, accepted : SUBSET Seqs,
                     duplicates : SUBSET Seqs]
    BY DEF NoReply
  <2> QED
    BY <1>1, <1>2, <1>3, <2>1 DEF HangUp, IInv, TypeOK
<1>5. OutboxInv' /\ ServerInv' /\ LateInv'
  BY <1>1, <1>2 DEF IInv, OutboxInv, ServerInv, ExactlyOnce, LateInv, Segment
<1>6. CallInv'
  BY <1>1, <1>3 DEF IInv, TypeOK, CallInv, Segment, HangUp
<1> QED
  BY <1>4, <1>5, <1>6 DEF IInv

\* What an ingest transaction leaves alone stays true while the cursor grows.
LEMMA GrowthInv ==
  ASSUME IInv, cursor' \in Nat, cursor <= cursor',
         UNCHANGED <<disk, running, pc, batch>>,
         UNCHANGED stage /\ UNCHANGED reply
  PROVE  CallInv' /\ (\A b : b = {} \/ Segment(b) => b = {} \/ Segment(b)')
<1> USE DEF disk
<1>1. ASSUME NEW b, Segment(b) PROVE Segment(b)'
  BY <1>1, PieceMonotone DEF IInv, TypeOK, Segment
<1>2. ASSUME NEW d \in Callers, Segment(batch[d]) PROVE Segment(batch[d])'
  BY <1>2, PieceMonotone DEF IInv, TypeOK, Segment
<1>3. CallInv'
  BY <1>2 DEF IInv, TypeOK, CallInv
<1> QED
  BY <1>1, <1>3

LEMMA ServeInv ==
  ASSUME IInv, NEW c \in Callers, Serve(c)
  PROVE  IInv'
<1> USE MaxSeqAssumption DEF disk, server
<1>1. /\ stage[c] = "sent"
      /\ stage' = [stage EXCEPT ![c] = "answered"]
      /\ UNCHANGED <<disk, running, pc, batch, progress, told, late, faults>>
  BY DEF Serve
<1>2. CASE pc[c] = "sync"
  <2>1. /\ reply' = [reply EXCEPT ![c] = [NoReply EXCEPT !.acked = cursor]]
        /\ UNCHANGED server
    BY <1>2 DEF Serve
  <2>2. [NoReply EXCEPT !.acked = cursor] \in
          [acked : 0..MaxSeq, accepted : SUBSET Seqs, duplicates : SUBSET Seqs]
        /\ [NoReply EXCEPT !.acked = cursor].acked = cursor
    BY DEF NoReply, IInv, TypeOK
  <2>3. TypeOK'
    BY <1>1, <2>1, <2>2 DEF IInv, TypeOK
  <2>4. OutboxInv' /\ ServerInv' /\ LateInv'
    BY <1>1, <2>1 DEF IInv, OutboxInv, ServerInv, ExactlyOnce, LateInv, Segment
  <2>5. CallInv'
    BY <1>1, <1>2, <2>1, <2>2 DEF IInv, TypeOK, CallInv, Segment
  <2> QED
    BY <2>3, <2>4, <2>5 DEF IInv
<1>3. CASE pc[c] \in {"drain", "beat"}
  <2>1. /\ Ingest(batch[c])
        /\ reply' = [reply EXCEPT ![c] =
                       [acked |-> cursor', accepted |-> batch[c] \ stored,
                        duplicates |-> batch[c] \cap stored]]
    BY <1>3 DEF Serve
  <2>2. batch[c] = {} \/ Segment(batch[c])
    BY <1>1 DEF IInv, CallInv
  <2>3. /\ cursor' \in 0..MaxSeq /\ cursor <= cursor' /\ cursor' < nextSeq
        /\ stored' = 1..cursor' /\ stored' \subseteq Seqs
        /\ batch[c] \subseteq 1..cursor'
        /\ fed' \in [Seqs -> Nat]
        /\ \A s \in Seqs : fed'[s] = IF s \in stored' THEN 1 ELSE 0
    BY <2>1, <2>2, IngestExtends
  <2>4. TypeOK'
    BY <1>1, <2>1, <2>3 DEF IInv, TypeOK
  <2>5. OutboxInv' /\ ServerInv'
    BY <1>1, <2>3 DEF IInv, TypeOK, OutboxInv, ServerInv, ExactlyOnce
  <2>6. ASSUME NEW b, Segment(b) PROVE Segment(b)'
    BY <1>1, <2>3, <2>6, PieceMonotone DEF IInv, TypeOK, Segment
  <2>7. LateInv'
    BY <1>1, <2>6 DEF IInv, LateInv
  <2>8. ASSUME NEW d \in Callers, Segment(batch[d]) PROVE Segment(batch[d])'
    BY <1>1, <2>3, <2>8, PieceMonotone DEF IInv, TypeOK, Segment
  <2>9. CallInv'
    BY <1>1, <2>1, <2>3, <2>8 DEF IInv, TypeOK, CallInv
  <2> QED
    BY <2>4, <2>5, <2>7, <2>9 DEF IInv
<1> QED
  BY <1>2, <1>3 DEF Serve

LEMMA LateInvariant ==
  ASSUME IInv, NEW b \in late, LateArrives(b) \/ LateLost(b)
  PROVE  IInv'
<1> USE MaxSeqAssumption DEF disk, server, calls
<1>1. /\ late' = late \ {b}
      /\ UNCHANGED <<disk, running, calls, faults>>
  BY DEF LateArrives, LateLost
<1>2. CASE LateLost(b)
  BY <1>1, <1>2 DEF LateLost, IInv, TypeOK, OutboxInv, ServerInv, ExactlyOnce, CallInv,
                    LateInv, Segment
<1>3. CASE LateArrives(b)
  <2>1. b = {} \/ Segment(b)
    BY DEF IInv, LateInv
  <2>2. /\ cursor' \in 0..MaxSeq /\ cursor <= cursor' /\ cursor' < nextSeq
        /\ stored' = 1..cursor' /\ stored' \subseteq Seqs
        /\ fed' \in [Seqs -> Nat]
        /\ \A s \in Seqs : fed'[s] = IF s \in stored' THEN 1 ELSE 0
    BY <1>3, <2>1, IngestExtends DEF LateArrives
  <2>3. TypeOK'
    BY <1>1, <2>2 DEF IInv, TypeOK
  <2>4. OutboxInv' /\ ServerInv'
    BY <1>1, <2>2 DEF IInv, TypeOK, OutboxInv, ServerInv, ExactlyOnce
  <2>5. CallInv' /\ LateInv'
    BY <1>1, <2>2, GrowthInv DEF IInv, TypeOK, LateInv
  <2> QED
    BY <2>3, <2>4, <2>5 DEF IInv
<1> QED
  BY <1>2, <1>3

\* Giving up, torn answers: the batch may stay on its way.
LEMMA FailureInv ==
  ASSUME IInv, NEW c \in Callers, GiveUp(c) \/ TornReply(c)
  PROVE  IInv'
<1> USE MaxSeqAssumption DEF disk, server
<1>1. /\ stage[c] \in {"sent", "answered"}
      /\ HangUp(c)
      /\ faults' = faults + 1
      /\ progress' = [progress EXCEPT ![c] = FALSE]
      /\ UNCHANGED <<disk, running, told, server>>
  BY DEF GiveUp, TornReply
<1>2. \E p \in {"sync", "drain", "done", "dead"} : pc' = [pc EXCEPT ![c] = p]
  BY DEF GiveUp, TornReply, AfterFailure, Again, Callers
<1>3. \A b \in late' \ late : b \subseteq Seqs /\ (b = {} \/ Segment(b))
  <2>1. late' \subseteq late \cup InFlight({c})
    BY DEF GiveUp, TornReply, Abandon
  <2>2. \A b \in InFlight({c}) : b = batch[c]
    BY DEF InFlight
  <2>3. batch[c] \subseteq Seqs /\ (batch[c] = {} \/ Segment(batch[c]))
    BY <1>1 DEF IInv, TypeOK, CallInv
  <2> QED
    BY <2>1, <2>2, <2>3
<1>4. TypeOK'
  <2>1. NoReply \in [acked : 0..MaxSeq, accepted : SUBSET Seqs,
                     duplicates : SUBSET Seqs]
    BY DEF NoReply
  <2>2. late' \subseteq SUBSET Seqs
    BY <1>3 DEF IInv, TypeOK
  <2> QED
    BY <1>1, <1>2, <2>1, <2>2 DEF HangUp, IInv, TypeOK
<1>5. OutboxInv' /\ ServerInv'
  BY <1>1 DEF IInv, OutboxInv, ServerInv, ExactlyOnce
<1>6. CallInv'
  BY <1>1, <1>2 DEF IInv, TypeOK, CallInv, Segment, HangUp
<1>7. LateInv'
  BY <1>1, <1>3 DEF IInv, LateInv, Segment
<1> QED
  BY <1>4, <1>5, <1>6, <1>7 DEF IInv

\* Only the disk and what was sent survive the process.
LEMMA ProcessEndsInv ==
  ASSUME IInv, Crash \/ Exit
  PROVE  IInv'
<1> USE MaxSeqAssumption DEF disk, server
<1>1. /\ ProcessEnds
      /\ faults' \in Nat
  BY DEF Crash, Exit, IInv, TypeOK
<1>2. \A b \in late' \ late : b \subseteq Seqs /\ (b = {} \/ Segment(b))
  <2>1. late' \subseteq late \cup InFlight(Callers)
    BY <1>1 DEF ProcessEnds, Abandon
  <2>2. ASSUME NEW b \in InFlight(Callers)
        PROVE  b \subseteq Seqs /\ (b = {} \/ Segment(b))
    <3>1. PICK d \in Callers : b = batch[d] /\ stage[d] = "sent"
      BY DEF InFlight
    <3> QED
      BY <3>1 DEF IInv, TypeOK, CallInv
  <2> QED
    BY <2>1, <2>2
<1>3. TypeOK'
  <2>1. NoReply \in [acked : 0..MaxSeq, accepted : SUBSET Seqs,
                     duplicates : SUBSET Seqs]
    BY DEF NoReply
  <2>2. late' \subseteq SUBSET Seqs
    BY <1>2 DEF IInv, TypeOK
  <2> QED
    BY <1>1, <2>1, <2>2 DEF ProcessEnds, IInv, TypeOK
<1>4. OutboxInv' /\ ServerInv'
  BY <1>1 DEF ProcessEnds, IInv, OutboxInv, ServerInv, ExactlyOnce
<1>5. CallInv'
  BY <1>1 DEF ProcessEnds, CallInv
<1>6. LateInv'
  BY <1>1, <1>2 DEF ProcessEnds, IInv, LateInv, Segment
<1> QED
  BY <1>3, <1>4, <1>5, <1>6 DEF IInv

LEMMA LifeInv ==
  ASSUME IInv, Boot \/ Stop \/ DrainOnExit
  PROVE  IInv'
<1> USE DEF disk, server, calls
<1>1. /\ UNCHANGED <<disk, stage, batch, reply, progress, told, late, server>>
      /\ faults' \in Nat
      /\ running' \in {"up", "stopping"}
  BY DEF Boot, Stop, DrainOnExit, IInv, TypeOK
<1>2. TypeOK'
  BY <1>1 DEF IInv, TypeOK, Boot, Stop, DrainOnExit
<1>3. OutboxInv' /\ ServerInv' /\ LateInv'
  BY <1>1 DEF IInv, OutboxInv, ServerInv, ExactlyOnce, LateInv, Segment
<1>4. CallInv'
  <2>1. CASE Boot
    BY <1>1, <2>1 DEF IInv, TypeOK, CallInv, Segment, Boot
  <2>2. CASE Stop
    BY <1>1, <2>2 DEF IInv, CallInv, Segment, Stop
  <2>3. CASE DrainOnExit
    BY <1>1, <2>3 DEF IInv, TypeOK, CallInv, Segment, DrainOnExit
  <2> QED
    BY <2>1, <2>2, <2>3
<1> QED
  BY <1>2, <1>3, <1>4 DEF IInv

LEMMA StutterInv == IInv /\ UNCHANGED vars => IInv'
BY DEF vars, disk, calls, server, IInv, TypeOK, OutboxInv, ServerInv, ExactlyOnce,
       CallInv, LateInv, Segment

LEMMA NextInv == IInv /\ [Next]_vars => IInv'
<1> SUFFICES ASSUME IInv, [Next]_vars PROVE IInv'
  OBVIOUS
<1>1. CASE Append
  BY <1>1, AppendInv
<1>2. ASSUME NEW c \in Callers, CallerStep(c)
      PROVE  IInv'
  BY <1>2, QuietInv, SendInv, HandleReplyInv DEF CallerStep
<1>3. ASSUME NEW c \in Callers, Serve(c)
      PROVE  IInv'
  BY <1>3, ServeInv
<1>4. ASSUME NEW c \in Callers, GiveUp(c) \/ TornReply(c)
      PROVE  IInv'
  BY <1>4, FailureInv
<1>5. ASSUME NEW b \in late, LateArrives(b) \/ LateLost(b)
      PROVE  IInv'
  BY <1>5, LateInvariant
<1>6. CASE Boot \/ Stop \/ DrainOnExit
  BY <1>6, LifeInv
<1>7. CASE Exit \/ Crash
  BY <1>7, ProcessEndsInv
<1>8. CASE UNCHANGED vars
  BY <1>8, StutterInv
<1> QED
  BY <1>1, <1>2, <1>3, <1>4, <1>5, <1>6, <1>7, <1>8 DEF Next

LEMMA Invariance == Spec => []IInv
BY InitInv, NextInv, PTL DEF Spec

-----------------------------------------------------------------------------
(* The theorems. *)

\* Every variable keeps its type.
THEOREM TypeCorrect == Spec => []TypeOK
<1>1. IInv => TypeOK
  BY DEF IInv
<1> QED
  BY <1>1, Invariance, PTL

\* A recorded fact is held by the agent or stored by the server: the outbox
\* never lets go of the only copy.
THEOREM NothingIsLost == Spec => []NothingLost
<1>1. IInv => NothingLost
  BY MaxSeqAssumption
     DEF IInv, TypeOK, OutboxInv, ServerInv, NothingLost
<1> QED
  BY <1>1, Invariance, PTL

\* The envelope gate makes the effect of a fact happen exactly once.
THEOREM EffectsHappenOnce == Spec => []ExactlyOnce
<1>1. IInv => ExactlyOnce
  BY DEF IInv, ServerInv
<1> QED
  BY <1>1, Invariance, PTL

\* An acknowledgement covers only what the server has.
THEOREM AcksAreHonest == Spec => []AckIsStored
<1>1. IInv => AckIsStored
  BY DEF IInv, ServerInv, AckIsStored
<1> QED
  BY <1>1, Invariance, PTL

\* The segmenter is fed in the agent's order, late batches included.
THEOREM FactsAreAppliedInOrder == Spec => AppliedInOrder
<1>1. IInv /\ IInv' => \A s \in stored' \ stored, t \in stored : t < s
  BY DEF IInv, TypeOK, ServerInv
<1> QED
  BY <1>1, Invariance, PTL DEF Spec, AppliedInOrder

-----------------------------------------------------------------------------
(* Delivery implements FactStream. *)

\* Which of the three counters of the stream a step may move.
LEMMA StepMoves ==
  ASSUME IInv, [Next]_vars
  PROVE  \/ UNCHANGED <<nextSeq, cursor, ackedThrough>>
         \/ nextSeq' = nextSeq + 1 /\ UNCHANGED <<cursor, ackedThrough>>
         \/ cursor <= cursor' /\ UNCHANGED <<nextSeq, ackedThrough>>
         \/ ackedThrough <= ackedThrough' /\ UNCHANGED <<nextSeq, cursor>>
<1> USE DEF disk, server
<1>1. CASE Append
  BY <1>1 DEF Append
<1>2. ASSUME NEW c \in Callers, Ask(c) \/ Send(c) \/ NothingToSend(c) \/ SkipBeat(c)
      PROVE  UNCHANGED <<nextSeq, cursor, ackedThrough>>
  BY <1>2 DEF Ask, Send, NothingToSend, SkipBeat
<1>3. ASSUME NEW c \in Callers, HandleReply(c)
      PROVE  ackedThrough <= ackedThrough' /\ UNCHANGED <<nextSeq, cursor>>
  <2>1. stage[c] = "answered" /\ UNCHANGED <<nextSeq, cursor>>
    BY <1>3 DEF HandleReply
  <2>2. reply[c].acked \in 0..cursor
    BY <2>1 DEF IInv, TypeOK, CallInv
  <2>3. CASE Flushed(c)
    BY <2>1, <2>3, SettledIsStored, AckKeeps DEF Flushed
  <2>4. CASE Ack(reply[c].acked)
    BY <2>1, <2>2, <2>4, AckKeeps
  <2>5. CASE UNCHANGED ackedThrough
    BY <2>1, <2>5 DEF IInv, TypeOK
  <2> QED
    BY <1>3, <2>3, <2>4, <2>5 DEF HandleReply, Synced, Beaten
<1>4. ASSUME NEW c \in Callers, Serve(c)
      PROVE  cursor <= cursor' /\ UNCHANGED <<nextSeq, ackedThrough>>
  <2>1. CASE pc[c] = "sync"
    BY <1>4, <2>1 DEF Serve, IInv, TypeOK
  <2>2. CASE pc[c] \in {"drain", "beat"}
    BY <1>4, <2>2, IngestExtends DEF Serve, IInv, CallInv
  <2> QED
    BY <1>4, <2>1, <2>2 DEF Serve
<1>5. ASSUME NEW b \in late, LateArrives(b)
      PROVE  cursor <= cursor' /\ UNCHANGED <<nextSeq, ackedThrough>>
  BY <1>5, IngestExtends DEF LateArrives, IInv, LateInv
<1>6. ASSUME NEW b \in late, LateLost(b)
      PROVE  UNCHANGED <<nextSeq, cursor, ackedThrough>>
  BY <1>6 DEF LateLost
<1>7. ASSUME NEW c \in Callers, GiveUp(c) \/ TornReply(c)
      PROVE  UNCHANGED <<nextSeq, cursor, ackedThrough>>
  BY <1>7 DEF GiveUp, TornReply
<1>8. CASE Boot \/ Stop \/ DrainOnExit \/ Exit \/ Crash
  BY <1>8 DEF Boot, Stop, DrainOnExit, Exit, Crash, ProcessEnds
<1>9. CASE UNCHANGED vars
  BY <1>9 DEF vars
<1> QED
  BY <1>1, <1>2, <1>3, <1>4, <1>5, <1>6, <1>7, <1>8, <1>9 DEF Next, CallerStep

\* Every behaviour of the agent, the network and the server is a behaviour of
\* the in-order, hole-free, forget-after-delivery stream.
THEOREM DeliveryImplementsStream == Spec => ImplementsStream
<1>1. Init => Stream!Init
  BY DEF Init, Stream!Init
<1>2. IInv /\ IInv' /\ [Next]_vars => [Stream!Next]_Stream!vars
  <2> SUFFICES ASSUME IInv, IInv', [Next]_vars
               PROVE  [Stream!Next]_Stream!vars
    OBVIOUS
  <2>1. /\ nextSeq \in Nat \ {0} /\ cursor \in Nat /\ ackedThrough \in Nat
        /\ cursor' \in Nat /\ ackedThrough' \in Nat
        /\ ackedThrough' <= cursor' /\ cursor' < nextSeq'
    <3>1. TypeOK /\ TypeOK' /\ ServerInv'
      BY DEF IInv
    <3>2. nextSeq \in Nat \ {0} /\ cursor \in Nat /\ ackedThrough \in Nat
      BY <3>1, MaxSeqAssumption DEF TypeOK
    <3>3. nextSeq' \in Nat /\ cursor' \in Nat /\ ackedThrough' \in Nat
      BY <3>1, MaxSeqAssumption DEF TypeOK
    <3>4. ackedThrough' <= cursor' /\ cursor' < nextSeq'
      BY <3>1 DEF ServerInv
    <3> QED
      BY <3>2, <3>3, <3>4
  <2>2. CASE UNCHANGED <<nextSeq, cursor, ackedThrough>>
    BY <2>2 DEF Stream!vars
  <2>3. CASE nextSeq' = nextSeq + 1 /\ UNCHANGED <<cursor, ackedThrough>>
    BY <2>1, <2>3 DEF Stream!Next, Stream!Produce
  <2>4. CASE cursor <= cursor' /\ UNCHANGED <<nextSeq, ackedThrough>>
    BY <2>1, <2>4 DEF Stream!Next, Stream!Deliver, Stream!vars
  <2>5. CASE ackedThrough <= ackedThrough' /\ UNCHANGED <<nextSeq, cursor>>
    BY <2>1, <2>5 DEF Stream!Next, Stream!Forget, Stream!vars
  <2> QED
    BY <2>2, <2>3, <2>4, <2>5, StepMoves
<1> QED
  BY <1>1, <1>2, Invariance, PTL DEF Spec, ImplementsStream, Stream!Spec

-----------------------------------------------------------------------------
(***************************************************************************)
(* Proofs about DeliveryRestore, for every number of facts, batch size,    *)
(* walk limit, number of faults and of restores.                           *)
(*                                                                         *)
(* After a restore the server is behind what the agent was told: the       *)
(* invariant of DeliveryProofs, that the server holds a prefix of the      *)
(* stream and every batch begins no later than where it ends, is gone.     *)
(* What is left of it are three agreements with the agent.  What the agent *)
(* has let go of was stored in some life of the database; a number up to   *)
(* the cursor, in the present database and in the backup alike, is there   *)
(* or let go of; and a batch under way, of this life or an earlier one,    *)
(* was cut from the head of the queue, so that whatever lies below it is   *)
(* let go of and may be written off.                                       *)
(***************************************************************************)

\* A state of the database, of now or of the backup, for an agent that has let
\* go of everything up to `acked' and writes number `next'.
Life(d, acked, next, seen) ==
  /\ d.stored \subseteq Seqs /\ d.cursor \in 0..MaxSeq /\ d.fed \in [Seqs -> Nat]
  /\ d.cursor < next /\ \A s \in d.stored : s < next
  /\ d.stored \subseteq seen
  /\ \A s \in 1..d.cursor : s \in d.stored \/ s <= acked
  /\ GapWriteOff => d.stored \subseteq 1..d.cursor
  /\ \A s \in Seqs : d.fed[s] = IF s \in d.stored THEN 1 ELSE 0

\* One exchange: place p, stage t, facts b and answer r of a caller.
Exchange(p, t, b, r, acked, next, seen) ==
  /\ t # "idle" => p \in {"sync", "drain", "beat"}
  /\ t # "idle" /\ p = "drain" => Piece(b, acked, next)
  /\ t # "idle" /\ p # "drain" => b = {}
  /\ t = "answered" =>
       /\ r.acked < next
       /\ 1..r.acked \subseteq seen
       /\ p = "drain" => b \subseteq seen

QueueInv ==
  /\ OutboxInv /\ ackedThrough < nextSeq
  /\ 1..ackedThrough \subseteq ever

LivesInv ==
  /\ Life(Database, ackedThrough, nextSeq, ever)
  /\ Life(backup, ackedThrough, nextSeq, ever)

ExchangeInv ==
  \A c \in Callers :
    /\ pc[c] # "off" => running # "down"
    /\ Exchange(pc[c], stage[c], batch[c], reply[c], ackedThrough, nextSeq, ever)

UnderWayInv == \A b \in late : b = {} \/ Piece(b, ackedThrough, nextSeq)

RInv == TypeOK /\ QueueInv /\ LivesInv /\ ExchangeInv /\ UnderWayInv

-----------------------------------------------------------------------------
(* The operators. *)

\* A set of numbers that is not empty has a least one.
LEMMA LeastMember ==
  ASSUME NEW S, S \subseteq Nat, S # {}
  PROVE  \E m \in S : \A s \in S : m <= s
<1>1. PICK m \in S : \A s \in S : <<s, m>> \notin OpToRel(<, Nat)
  BY WFMin, NatLessThanWellFounded
<1>2. ASSUME NEW s \in S PROVE m <= s
  <2>1. s < m => <<s, m>> \in OpToRel(<, Nat)
    BY DEF OpToRel
  <2>2. ~(s < m)
    BY <1>1, <2>1, Zenon
  <2> QED
    BY <2>2
<1> QED
  BY <1>2

\* A walk that stopped at c, before a hole that is not in the batch, is past it.
LEMMA NothingBetween ==
  ASSUME NEW lo \in Nat, NEW hi \in Nat, NEW w \in Nat, NEW c \in Nat,
         lo <= w + 1, w <= c, c + 1 \notin lo..hi, NEW s \in lo..hi
  PROVE  s <= c
OBVIOUS

\* The walk never passes a number the server has not got, and ends before one
\* unless its limit does.
LEMMA WalkStops ==
  ASSUME NEW have, NEW from \in Nat
  PROVE  /\ Walk(from, have) \in from..(from + WalkLimit)
         /\ (from + 1)..Walk(from, have) \subseteq have
         /\ \/ Walk(from, have) = from + WalkLimit
            \/ Walk(from, have) + 1 \notin have
<1> USE WalkAssumption
<1> DEFINE P(c) == /\ (from + 1)..c \subseteq have
                   /\ c = from + WalkLimit \/ c + 1 \notin have
           holes == {h \in (from + 1)..(from + WalkLimit) : h \notin have}
<1>1. \E c \in from..(from + WalkLimit) : P(c)
  <2>1. CASE holes = {}
    <3>1. (from + 1)..(from + WalkLimit) \subseteq have
      BY <2>1
    <3>2. from + WalkLimit \in from..(from + WalkLimit)
      OBVIOUS
    <3> QED
      BY <3>1, <3>2
  <2>2. CASE holes # {}
    <3>1. PICK m \in holes : \A h \in holes : m <= h
      <4>1. holes \subseteq Nat
        OBVIOUS
      <4> QED
        BY <2>2, <4>1, LeastMember
    <3>2. m - 1 \in from..(from + WalkLimit) /\ m - 1 + 1 = m /\ m \notin have
      BY <3>1
    <3>3. (from + 1)..(m - 1) \subseteq have
      BY <3>1
    <3> QED
      BY <3>2, <3>3
  <2> QED
    BY <2>1, <2>2
<1>2. Walk(from, have) \in from..(from + WalkLimit) /\ P(Walk(from, have))
  BY <1>1 DEF Walk
<1> QED
  BY <1>2

\* What is said of a database stays true while the agent lets go of more,
\* writes more, and more has been stored.
LEMMA LifeMonotone ==
  ASSUME NEW d, NEW a1 \in Nat, NEW a2 \in Nat, NEW n1 \in Nat, NEW n2 \in Nat,
         NEW e1, NEW e2, Life(d, a1, n1, e1),
         a1 <= a2, n1 <= n2, e1 \subseteq e2
  PROVE  Life(d, a2, n2, e2)
<1>1. d.cursor \in Nat /\ d.stored \subseteq Nat
  BY MaxSeqAssumption DEF Life, Seqs
<1>2. \A s \in 1..d.cursor : s \in d.stored \/ s <= a2
  BY <1>1 DEF Life
<1>3. \A s \in d.stored : s < n2
  BY <1>1 DEF Life
<1>4. d.cursor < n2 /\ d.stored \subseteq e2
  BY <1>1 DEF Life
<1> QED
  BY <1>2, <1>3, <1>4 DEF Life

LEMMA ExchangeMonotone ==
  ASSUME NEW p, NEW t, NEW b, NEW r, r.acked \in Nat,
         NEW a1 \in Nat, NEW a2 \in Nat, NEW n1 \in Nat, NEW n2 \in Nat,
         NEW e1, NEW e2, Exchange(p, t, b, r, a1, n1, e1),
         a1 <= a2, n1 <= n2, e1 \subseteq e2
  PROVE  Exchange(p, t, b, r, a2, n2, e2)
BY PieceMonotone DEF Exchange

\* One ingest transaction, of a batch of this life or of an earlier one: what
\* it writes off the agent has let go of, and the cursor ends beyond
\* everything the server has.
LEMMA IngestHonest ==
  ASSUME RInv, NEW b, b = {} \/ Piece(b, ackedThrough, nextSeq), Ingest(b)
  PROVE  /\ Life(Database', ackedThrough, nextSeq, ever \cup stored')
         /\ cursor' \in 0..MaxSeq /\ cursor' < nextSeq
         /\ b \subseteq stored' /\ stored' \subseteq Seqs /\ fed' \in [Seqs -> Nat]
         /\ 1..cursor' \subseteq ever \cup stored'
<1> USE MaxSeqAssumption, BatchAssumption, WalkAssumption
<1>1. /\ stored \subseteq Seqs /\ cursor \in 0..MaxSeq /\ fed \in [Seqs -> Nat]
      /\ cursor < nextSeq /\ \A s \in stored : s < nextSeq
      /\ stored \subseteq ever
      /\ \A s \in 1..cursor : s \in stored \/ s <= ackedThrough
      /\ GapWriteOff => stored \subseteq 1..cursor
      /\ \A s \in Seqs : fed[s] = IF s \in stored THEN 1 ELSE 0
  BY DEF RInv, LivesInv, Life, Database
<1>2. /\ ackedThrough \in Nat /\ nextSeq \in 1..(MaxSeq + 1)
      /\ 1..ackedThrough \subseteq ever
  BY DEF RInv, TypeOK, QueueInv
<1>3. b \subseteq Seqs /\ \A s \in b : s < nextSeq
  BY <1>2 DEF Piece, Seqs
<1>4. /\ stored' = stored \cup b
      /\ fed' = [s \in Seqs |-> IF s \in b \ stored THEN fed[s] + 1 ELSE fed[s]]
      /\ cursor' = Walk(WriteOff(b), stored')
  BY DEF Ingest
<1>5. /\ fed' \in [Seqs -> Nat]
      /\ \A s \in Seqs : fed'[s] = IF s \in stored' THEN 1 ELSE 0
  BY <1>1, <1>3, <1>4
<1>6. /\ WriteOff(b) \in 0..MaxSeq /\ cursor <= WriteOff(b) /\ WriteOff(b) < nextSeq
      /\ \A s \in (cursor + 1)..WriteOff(b) : s <= ackedThrough
      /\ GapWriteOff => \A s \in b : First(b) <= WriteOff(b) + 1
  <2>1. CASE b = {}
    BY <1>1, <2>1 DEF WriteOff
  <2>2. CASE Piece(b, ackedThrough, nextSeq)
    <3>1. PICK lo \in Seqs, hi \in Seqs :
            /\ lo <= hi /\ b = lo..hi /\ lo <= ackedThrough + 1 /\ hi < nextSeq
      BY <2>2 DEF Piece
    <3>2. First(b) = lo /\ b # {}
      BY <3>1, IntervalEnds DEF Seqs
    <3> QED
      BY <1>1, <1>2, <3>1, <3>2 DEF WriteOff, Seqs
  <2> QED
    BY <2>1, <2>2
<1>7. PICK w \in Nat : w = WriteOff(b)
  BY <1>6
<1>8. /\ cursor' \in w..(w + WalkLimit)
      /\ (w + 1)..cursor' \subseteq stored'
      /\ cursor' = w + WalkLimit \/ cursor' + 1 \notin stored'
  BY <1>4, <1>7, WalkStops
<1>9. cursor' \in 0..MaxSeq /\ cursor' < nextSeq
  <2>1. CASE cursor' = w
    BY <1>6, <1>7, <2>1
  <2>2. CASE cursor' # w
    <3>1. cursor' \in stored'
      BY <1>7, <1>8, <2>2
    <3>2. \A s \in stored' : s \in Nat /\ s < nextSeq
      BY <1>1, <1>3, <1>4 DEF Seqs
    <3> QED
      BY <1>2, <3>1, <3>2
  <2> QED
    BY <2>1, <2>2
<1>10. \A s \in 1..cursor' : s \in stored' \/ s <= ackedThrough
  BY <1>1, <1>4, <1>6, <1>7, <1>8
<1>11. ASSUME GapWriteOff
       PROVE  stored' \subseteq 1..cursor'
  <2>1. ASSUME NEW s \in b PROVE s <= cursor'
    <3>1. PICK lo \in Seqs, hi \in Seqs :
            /\ lo <= hi /\ b = lo..hi /\ hi - lo < BatchSize
      BY <2>1 DEF Piece
    <3>2. First(b) = lo /\ b # {}
      BY <3>1, IntervalEnds DEF Seqs
    <3>3. lo <= w + 1
      BY <1>6, <1>7, <1>11, <3>2
    <3>4. CASE cursor' = w + WalkLimit
      BY <3>1, <3>3, <3>4, <2>1 DEF Seqs
    <3>5. CASE cursor' + 1 \notin stored'
      <4>1. cursor' + 1 \notin lo..hi
        BY <1>4, <3>1, <3>5
      <4>2. w \in Nat
        BY <1>7
      <4>3. w <= cursor'
        BY <1>7, <1>8
      <4>4. cursor' \in Nat
        BY <1>9
      <4>5. lo \in Nat /\ hi \in Nat
        BY <3>1 DEF Seqs
      <4>6. s \in lo..hi
        BY <2>1, <3>1
      <4> QED
        BY <3>3, <4>1, <4>2, <4>3, <4>4, <4>5, <4>6, NothingBetween
    <3> QED
      BY <1>8, <3>4, <3>5
  <2>2. ASSUME NEW s \in stored PROVE s <= cursor'
    BY <1>1, <1>6, <1>7, <1>8, <1>11, <2>2
  <2>3. stored' \subseteq Seqs
    BY <1>1, <1>3, <1>4
  <2>4. ASSUME NEW s \in stored' PROVE s \in 1..cursor'
    <3>1. s \in 1..MaxSeq /\ s <= cursor'
      BY <1>4, <2>1, <2>2, <2>3 DEF Seqs
    <3> QED
      BY <1>9, <3>1
  <2> QED
    BY <2>4
<1>12. 1..cursor' \subseteq ever \cup stored'
  BY <1>2, <1>9, <1>10
<1>13. Database' = [stored |-> stored', cursor |-> cursor', fed |-> fed']
  BY DEF Database
<1>14. Life(Database', ackedThrough, nextSeq, ever \cup stored')
  BY <1>1, <1>3, <1>4, <1>5, <1>9, <1>10, <1>11, <1>13 DEF Life
<1> QED
  BY <1>1, <1>3, <1>4, <1>5, <1>9, <1>12, <1>14

-----------------------------------------------------------------------------
(* The invariant is inductive: one lemma per group of actions. *)

\* What a step leaves alone stays true, and what it touches it must show.
LEMMA Kept ==
  ASSUME RInv, TypeOK', OutboxInv',
         ackedThrough <= ackedThrough', ackedThrough' < nextSeq', nextSeq <= nextSeq',
         backup' = backup, ever \subseteq ever', 1..ackedThrough' \subseteq ever',
         Life(Database', ackedThrough', nextSeq', ever'),
         \A c \in Callers :
           /\ pc'[c] # "off" => running' # "down"
           /\ \/ stage'[c] = "idle"
              \/ /\ pc'[c] = pc[c] /\ stage'[c] = stage[c]
                 /\ batch'[c] = batch[c] /\ reply'[c] = reply[c]
              \/ Exchange(pc'[c], stage'[c], batch'[c], reply'[c],
                          ackedThrough', nextSeq', ever'),
         \A b \in late' : b \in late \/ b = {} \/ Piece(b, ackedThrough', nextSeq')
  PROVE  RInv'
<1>1. /\ ackedThrough \in Nat /\ nextSeq \in Nat
      /\ ackedThrough' \in Nat /\ nextSeq' \in Nat
      /\ \A c \in Callers : reply[c].acked \in Nat
  BY MaxSeqAssumption DEF RInv, TypeOK
<1>2. QueueInv'
  BY DEF QueueInv
<1>3. LivesInv'
  <2>1. Life(backup, ackedThrough, nextSeq, ever)
    BY DEF RInv, LivesInv
  <2>2. Life(backup, ackedThrough', nextSeq', ever')
    BY <1>1, <2>1, LifeMonotone
  <2> QED
    BY <2>2 DEF LivesInv
<1>4. ExchangeInv'
  <2> SUFFICES ASSUME NEW c \in Callers
               PROVE  Exchange(pc'[c], stage'[c], batch'[c], reply'[c],
                               ackedThrough', nextSeq', ever')
    BY DEF ExchangeInv
  <2>1. CASE stage'[c] = "idle"
    BY <2>1 DEF Exchange
  <2>2. CASE /\ pc'[c] = pc[c] /\ stage'[c] = stage[c]
             /\ batch'[c] = batch[c] /\ reply'[c] = reply[c]
    <3>1. Exchange(pc[c], stage[c], batch[c], reply[c], ackedThrough, nextSeq, ever)
      BY DEF RInv, ExchangeInv
    <3>2. Exchange(pc[c], stage[c], batch[c], reply[c], ackedThrough', nextSeq', ever')
      BY <1>1, <3>1, ExchangeMonotone
    <3> QED
      BY <2>2, <3>2
  <2> QED
    BY <2>1, <2>2
<1>5. UnderWayInv'
  <2> SUFFICES ASSUME NEW b \in late'
               PROVE  b = {} \/ Piece(b, ackedThrough', nextSeq')
    BY DEF UnderWayInv
  <2>1. CASE b \in late
    <3>1. b = {} \/ Piece(b, ackedThrough, nextSeq)
      BY <2>1 DEF RInv, UnderWayInv
    <3> QED
      BY <1>1, <3>1, PieceMonotone
  <2> QED
    BY <2>1
<1> QED
  BY <1>2, <1>3, <1>4, <1>5 DEF RInv

\* A step that leaves the server alone adds nothing to what it ever stored.
LEMMA ServerRests ==
  ASSUME RInv, UNCHANGED server, ever' = ever \cup stored'
  PROVE  /\ ever' = ever
         /\ Database' = Database
         /\ Life(Database', ackedThrough, nextSeq, ever')
<1>1. Life(Database, ackedThrough, nextSeq, ever)
  BY DEF RInv, LivesInv
<1>2. stored \subseteq ever
  BY <1>1 DEF Life, Database
<1>3. ever' = ever /\ Database' = Database
  BY <1>2 DEF server, Database
<1> QED
  BY <1>1, <1>3

LEMMA NoReplyTyped ==
  NoReply \in [acked : 0..MaxSeq, accepted : SUBSET Seqs, duplicates : SUBSET Seqs]
BY MaxSeqAssumption DEF NoReply

LEMMA RestoreInitInv == RestoreInit => RInv
<1> SUFFICES ASSUME RestoreInit PROVE RInv
  OBVIOUS
<1> USE MaxSeqAssumption
<1>1. Init /\ backup = Database /\ ever = {}
  BY DEF RestoreInit
<1>2. TypeOK
  BY <1>1, InitInv DEF IInv
<1>3. Database = [stored |-> {}, cursor |-> 0, fed |-> [s \in Seqs |-> 0]]
  BY <1>1 DEF Init, Database
<1>4. Life(Database, 0, 1, {})
  BY <1>3 DEF Life
<1>5. QueueInv /\ LivesInv
  BY <1>1, <1>4 DEF Init, QueueInv, OutboxInv, LivesInv
<1>6. ExchangeInv /\ UnderWayInv
  BY <1>1 DEF Init, ExchangeInv, UnderWayInv, Exchange
<1> QED
  BY <1>2, <1>5, <1>6 DEF RInv

LEMMA RestoreAppend ==
  ASSUME RInv, Step(Append)
  PROVE  RInv'
<1> USE MaxSeqAssumption
<1>1. /\ nextSeq <= MaxSeq /\ nextSeq' = nextSeq + 1
      /\ outbox' = outbox \cup {nextSeq}
      /\ UNCHANGED <<ackedThrough, running, calls, late, server, faults, backup>>
      /\ ever' = ever \cup stored'
  BY DEF Step, Append
<1>2. /\ ackedThrough \in Nat /\ nextSeq \in Nat \ {0} /\ ackedThrough < nextSeq
      /\ outbox = (ackedThrough + 1)..(nextSeq - 1) /\ 1..ackedThrough \subseteq ever
  BY DEF RInv, TypeOK, QueueInv, OutboxInv
<1>3. TypeOK'
  BY <1>1 DEF RInv, TypeOK, Seqs, calls, server
<1>4. OutboxInv'
  BY <1>1, <1>2 DEF OutboxInv
<1>5. ever' = ever /\ Life(Database', ackedThrough, nextSeq, ever')
  BY <1>1, ServerRests
<1>6. Life(Database', ackedThrough', nextSeq', ever')
  BY <1>1, <1>2, <1>5, LifeMonotone
<1>7. \A c \in Callers :
        /\ pc'[c] # "off" => running' # "down"
        /\ pc'[c] = pc[c] /\ stage'[c] = stage[c]
        /\ batch'[c] = batch[c] /\ reply'[c] = reply[c]
  BY <1>1 DEF RInv, ExchangeInv, calls
<1> QED
  BY <1>1, <1>2, <1>3, <1>4, <1>5, <1>6, <1>7, Kept

\* A step that touches neither the disk nor the server.
LEMMA KeptAtRest ==
  ASSUME RInv, TypeOK', UNCHANGED <<disk, server, backup>>, ever' = ever \cup stored',
         \A c \in Callers :
           /\ pc'[c] # "off" => running' # "down"
           /\ \/ stage'[c] = "idle"
              \/ /\ pc'[c] = pc[c] /\ stage'[c] = stage[c]
                 /\ batch'[c] = batch[c] /\ reply'[c] = reply[c]
              \/ Exchange(pc'[c], stage'[c], batch'[c], reply'[c],
                          ackedThrough, nextSeq, ever),
         \A b \in late' : b \in late \/ b = {} \/ Piece(b, ackedThrough, nextSeq)
  PROVE  RInv'
<1>1. UNCHANGED <<outbox, ackedThrough, nextSeq>>
  BY DEF disk
<1>2. /\ ackedThrough \in Nat /\ nextSeq \in Nat /\ ackedThrough < nextSeq
      /\ 1..ackedThrough \subseteq ever /\ OutboxInv
  BY MaxSeqAssumption DEF RInv, TypeOK, QueueInv
<1>3. OutboxInv'
  BY <1>1, <1>2 DEF OutboxInv
<1>4. ever' = ever /\ Life(Database', ackedThrough, nextSeq, ever')
  BY ServerRests
<1>5. /\ ackedThrough <= ackedThrough' /\ ackedThrough' < nextSeq' /\ nextSeq <= nextSeq'
      /\ backup' = backup /\ ever \subseteq ever' /\ 1..ackedThrough' \subseteq ever'
      /\ Life(Database', ackedThrough', nextSeq', ever')
  BY <1>1, <1>2, <1>4
<1>6. \A c \in Callers :
        /\ pc'[c] # "off" => running' # "down"
        /\ \/ stage'[c] = "idle"
           \/ /\ pc'[c] = pc[c] /\ stage'[c] = stage[c]
              /\ batch'[c] = batch[c] /\ reply'[c] = reply[c]
           \/ Exchange(pc'[c], stage'[c], batch'[c], reply'[c],
                       ackedThrough', nextSeq', ever')
  BY <1>1, <1>4
<1>7. \A b \in late' : b \in late \/ b = {} \/ Piece(b, ackedThrough', nextSeq')
  BY <1>1
<1> QED
  BY <1>3, <1>5, <1>6, <1>7, Kept

LEMMA RestoreQuiet ==
  ASSUME RInv, NEW c \in Callers,
         Step(Ask(c)) \/ Step(NothingToSend(c)) \/ Step(SkipBeat(c))
  PROVE  RInv'
<1> USE DEF disk, server, calls
<1>1. /\ UNCHANGED <<disk, running, reply, told, late, server, faults, backup>>
      /\ ever' = ever \cup stored'
      /\ Ask(c) \/ NothingToSend(c) \/ SkipBeat(c)
  BY DEF Step, Ask, NothingToSend, SkipBeat
<1>2. TypeOK'
  BY <1>1 DEF RInv, TypeOK, Ask, NothingToSend, SkipBeat, AfterDrain, AfterTurn, Again
<1>3. ASSUME NEW d \in Callers
      PROVE  /\ pc'[d] # "off" => running' # "down"
             /\ \/ stage'[d] = "idle"
                \/ /\ pc'[d] = pc[d] /\ stage'[d] = stage[d]
                   /\ batch'[d] = batch[d] /\ reply'[d] = reply[d]
                \/ Exchange(pc'[d], stage'[d], batch'[d], reply'[d],
                            ackedThrough, nextSeq, ever)
  <2>1. CASE Ask(c)
    BY <1>1, <2>1 DEF RInv, TypeOK, ExchangeInv, Exchange, Ask
  <2>2. CASE NothingToSend(c) \/ SkipBeat(c)
    BY <1>1, <2>2 DEF RInv, TypeOK, ExchangeInv, NothingToSend, SkipBeat
  <2> QED
    BY <1>1, <2>1, <2>2
<1> QED
  BY <1>1, <1>2, <1>3, KeptAtRest

\* What flush_once sends begins right above what was let go of.
LEMMA RestoreSend ==
  ASSUME RInv, NEW c \in Callers, Step(Send(c))
  PROVE  RInv'
<1> USE MaxSeqAssumption DEF disk, server
<1>1. /\ UNCHANGED <<disk, running, pc, reply, progress, told, late, server, faults, backup>>
      /\ ever' = ever \cup stored'
      /\ pc[c] = "drain" /\ outbox # {}
      /\ stage' = [stage EXCEPT ![c] = "sent"]
      /\ batch' = [batch EXCEPT ![c] = Pending]
  BY DEF Step, Send
<1>2. Piece(Pending, ackedThrough, nextSeq)
  <2>1. /\ ackedThrough \in Nat /\ nextSeq - 1 \in Nat /\ nextSeq \in 1..(MaxSeq + 1)
        /\ outbox = (ackedThrough + 1)..(nextSeq - 1)
    BY DEF RInv, TypeOK, QueueInv, OutboxInv
  <2>2. ackedThrough + 1 <= nextSeq - 1
    BY <1>1, <2>1
  <2>3. PICK h \in (ackedThrough + 1)..(nextSeq - 1) :
          Pending = (ackedThrough + 1)..h /\ h - (ackedThrough + 1) < BatchSize
    BY <2>1, <2>2, PendingIsHead
  <2>4. ackedThrough + 1 \in Seqs /\ h \in Seqs
    BY <2>1, <2>2 DEF Seqs
  <2> QED
    BY <2>1, <2>3, <2>4 DEF Piece
<1>3. TypeOK'
  <2>1. Pending \subseteq Seqs
    BY DEF Pending, RInv, TypeOK
  <2> QED
    BY <1>1, <2>1 DEF RInv, TypeOK
<1>4. ASSUME NEW d \in Callers
      PROVE  /\ pc'[d] # "off" => running' # "down"
             /\ \/ stage'[d] = "idle"
                \/ /\ pc'[d] = pc[d] /\ stage'[d] = stage[d]
                   /\ batch'[d] = batch[d] /\ reply'[d] = reply[d]
                \/ Exchange(pc'[d], stage'[d], batch'[d], reply'[d],
                            ackedThrough, nextSeq, ever)
  BY <1>1, <1>2 DEF RInv, TypeOK, ExchangeInv, Exchange
<1> QED
  BY <1>1, <1>3, <1>4, KeptAtRest

\* Whatever is acknowledged to the outbox was stored in some life, with all
\* that comes before it.
LEMMA SettledWasStored ==
  ASSUME RInv, NEW c \in Callers, stage[c] = "answered", pc[c] = "drain"
  PROVE  Settled(c) \in 0..(nextSeq - 1) /\ 1..Settled(c) \subseteq ever
<1> USE MaxSeqAssumption
<1>1. /\ Piece(batch[c], ackedThrough, nextSeq) /\ batch[c] \subseteq ever
      /\ reply[c].acked < nextSeq /\ 1..reply[c].acked \subseteq ever
  BY DEF RInv, ExchangeInv, Exchange
<1>2. /\ ackedThrough \in Nat /\ nextSeq \in Nat /\ reply[c].acked \in Nat
      /\ 1..ackedThrough \subseteq ever
  BY DEF RInv, TypeOK, QueueInv
<1>3. PICK lo \in Seqs, hi \in Seqs :
        lo <= hi /\ batch[c] = lo..hi /\ lo <= ackedThrough + 1 /\ hi < nextSeq
  BY <1>1 DEF Piece
<1>4. Last(batch[c]) = hi
  BY <1>3, IntervalEnds DEF Seqs
<1>5. 1..hi \subseteq ever
  BY <1>1, <1>2, <1>3 DEF Seqs
<1>6. CASE Settled(c) = hi
  BY <1>2, <1>3, <1>5, <1>6 DEF Seqs
<1>7. CASE Settled(c) = reply[c].acked
  BY <1>1, <1>2, <1>7
<1> QED
  BY <1>4, <1>6, <1>7 DEF Settled

LEMMA RestoreAck ==
  ASSUME RInv, NEW n \in 0..(nextSeq - 1), 1..n \subseteq ever, Ack(n)
  PROVE  /\ outbox' = (ackedThrough' + 1)..(nextSeq - 1)
         /\ outbox' \subseteq Seqs
         /\ ackedThrough' \in 0..MaxSeq
         /\ ackedThrough <= ackedThrough' /\ ackedThrough' < nextSeq
         /\ 1..ackedThrough' \subseteq ever
<1> USE MaxSeqAssumption
<1>1. /\ outbox = (ackedThrough + 1)..(nextSeq - 1)
      /\ ackedThrough \in Nat /\ nextSeq \in 1..(MaxSeq + 1) /\ ackedThrough < nextSeq
      /\ 1..ackedThrough \subseteq ever
  BY DEF RInv, TypeOK, QueueInv, OutboxInv
<1>2. /\ outbox' = {s \in outbox : s > n}
      /\ ackedThrough' = IF n > ackedThrough THEN n ELSE ackedThrough
  BY DEF Ack
<1>3. outbox' = (ackedThrough' + 1)..(nextSeq - 1)
  BY <1>1, <1>2
<1>4. /\ ackedThrough' \in 0..MaxSeq /\ ackedThrough <= ackedThrough'
      /\ ackedThrough' < nextSeq /\ 1..ackedThrough' \subseteq ever
  BY <1>1, <1>2
<1>5. outbox' \subseteq Seqs
  BY <1>2 DEF RInv, TypeOK
<1> QED
  BY <1>3, <1>4, <1>5

LEMMA RestoreHandleReply ==
  ASSUME RInv, NEW c \in Callers, Step(HandleReply(c))
  PROVE  RInv'
<1> USE MaxSeqAssumption
<1>1. /\ stage[c] = "answered" /\ HangUp(c)
      /\ Flushed(c) \/ Synced(c) \/ Beaten(c)
      /\ UNCHANGED <<nextSeq, running, late, server, faults, backup>>
      /\ ever' = ever \cup stored'
  BY DEF Step, HandleReply
<1>2. /\ ackedThrough \in 0..MaxSeq /\ nextSeq \in Nat /\ ackedThrough < nextSeq
      /\ outbox = (ackedThrough + 1)..(nextSeq - 1) /\ outbox \subseteq Seqs
      /\ 1..ackedThrough \subseteq ever
      /\ reply[c].acked \in 0..(nextSeq - 1) /\ 1..reply[c].acked \subseteq ever
  BY <1>1 DEF RInv, TypeOK, QueueInv, OutboxInv, ExchangeInv, Exchange
<1>3. /\ outbox' = (ackedThrough' + 1)..(nextSeq - 1)
      /\ outbox' \subseteq Seqs
      /\ ackedThrough' \in 0..MaxSeq
      /\ ackedThrough <= ackedThrough' /\ ackedThrough' < nextSeq
      /\ 1..ackedThrough' \subseteq ever
  <2>1. CASE UNCHANGED <<outbox, ackedThrough>>
    BY <1>2, <2>1
  <2>2. CASE Ack(reply[c].acked)
    BY <1>2, <2>2, RestoreAck
  <2>3. CASE Flushed(c)
    BY <1>1, <2>3, SettledWasStored, RestoreAck DEF Flushed
  <2> QED
    BY <1>1, <2>1, <2>2, <2>3 DEF Synced, Beaten
<1>4. /\ pc' \in [Callers -> {"off", "sync", "drain", "beat", "done", "dead"}]
      /\ \A d \in Callers \ {c} : pc'[d] = pc[d]
      /\ progress' \in [Callers -> BOOLEAN] /\ told' \in BOOLEAN
  <2>1. CASE Flushed(c)
    BY <2>1 DEF Flushed, RInv, TypeOK, AfterDrain
  <2>2. CASE Synced(c)
    BY <2>2 DEF Synced, RInv, TypeOK, Again
  <2>3. CASE Beaten(c)
    BY <2>3 DEF Beaten, RInv, TypeOK, AfterTurn, Again
  <2> QED
    BY <1>1, <2>1, <2>2, <2>3
<1>5. TypeOK'
  BY <1>1, <1>3, <1>4, NoReplyTyped DEF HangUp, RInv, TypeOK, server
<1>6. OutboxInv'
  BY <1>1, <1>3 DEF OutboxInv
<1>7. ever' = ever /\ Life(Database', ackedThrough', nextSeq', ever')
  <2>1. ever' = ever /\ Life(Database', ackedThrough, nextSeq, ever')
    BY <1>1, ServerRests
  <2> QED
    BY <1>1, <1>2, <1>3, <2>1, LifeMonotone
<1>8. \A d \in Callers :
        /\ pc'[d] # "off" => running' # "down"
        /\ \/ stage'[d] = "idle"
           \/ /\ pc'[d] = pc[d] /\ stage'[d] = stage[d]
              /\ batch'[d] = batch[d] /\ reply'[d] = reply[d]
  <2>1. pc[c] # "off"
    BY <1>1 DEF Flushed, Synced, Beaten
  <2> QED
    BY <1>1, <1>4, <2>1 DEF HangUp, RInv, TypeOK, ExchangeInv
<1>9. /\ nextSeq <= nextSeq' /\ ackedThrough' < nextSeq'
      /\ backup' = backup /\ ever \subseteq ever' /\ 1..ackedThrough' \subseteq ever'
      /\ \A b \in late' : b \in late
  BY <1>1, <1>2, <1>3, <1>7
<1> QED
  BY <1>3, <1>5, <1>6, <1>7, <1>8, <1>9, Kept

\* An ingest transaction touches the server and what it ever stored.
LEMMA KeptByIngest ==
  ASSUME RInv, TypeOK', NEW b, b = {} \/ Piece(b, ackedThrough, nextSeq), Ingest(b),
         UNCHANGED <<disk, running, pc, batch, backup>>, ever' = ever \cup stored',
         \A c \in Callers :
           \/ stage'[c] = stage[c] /\ reply'[c] = reply[c]
           \/ Exchange(pc[c], stage'[c], batch[c], reply'[c],
                       ackedThrough, nextSeq, ever'),
         late' \subseteq late
  PROVE  RInv'
<1>1. UNCHANGED <<outbox, ackedThrough, nextSeq>>
  BY DEF disk
<1>2. /\ ackedThrough \in Nat /\ nextSeq \in Nat /\ ackedThrough < nextSeq
      /\ 1..ackedThrough \subseteq ever /\ OutboxInv
  BY MaxSeqAssumption DEF RInv, TypeOK, QueueInv
<1>3. OutboxInv'
  BY <1>1, <1>2 DEF OutboxInv
<1>4. Life(Database', ackedThrough, nextSeq, ever')
  BY IngestHonest
<1>5. /\ ackedThrough <= ackedThrough' /\ ackedThrough' < nextSeq' /\ nextSeq <= nextSeq'
      /\ backup' = backup /\ ever \subseteq ever' /\ 1..ackedThrough' \subseteq ever'
      /\ Life(Database', ackedThrough', nextSeq', ever')
  BY <1>1, <1>2, <1>4
<1>6. \A c \in Callers :
        /\ pc'[c] # "off" => running' # "down"
        /\ \/ stage'[c] = "idle"
           \/ /\ pc'[c] = pc[c] /\ stage'[c] = stage[c]
              /\ batch'[c] = batch[c] /\ reply'[c] = reply[c]
           \/ Exchange(pc'[c], stage'[c], batch'[c], reply'[c],
                       ackedThrough', nextSeq', ever')
  <2>1. \A c \in Callers : pc[c] # "off" => running # "down"
    BY DEF RInv, ExchangeInv
  <2> QED
    BY <1>1, <2>1
<1>7. \A d \in late' : d \in late \/ d = {} \/ Piece(d, ackedThrough', nextSeq')
  OBVIOUS
<1> QED
  BY <1>3, <1>5, <1>6, <1>7, Kept

LEMMA RestoreServe ==
  ASSUME RInv, NEW c \in Callers, Step(Serve(c))
  PROVE  RInv'
<1> USE MaxSeqAssumption
<1>1. /\ stage[c] = "sent"
      /\ stage' = [stage EXCEPT ![c] = "answered"]
      /\ UNCHANGED <<disk, running, pc, batch, progress, told, late, faults, backup>>
      /\ ever' = ever \cup stored'
  BY DEF Step, Serve
<1>2. CASE pc[c] = "sync"
  <2>1. /\ reply' = [reply EXCEPT ![c] = [NoReply EXCEPT !.acked = cursor]]
        /\ UNCHANGED server
    BY <1>2 DEF Step, Serve
  <2>2. cursor \in 0..MaxSeq /\ cursor < nextSeq /\ 1..cursor \subseteq ever
    BY DEF RInv, TypeOK, QueueInv, LivesInv, Life, Database
  <2>3. [NoReply EXCEPT !.acked = cursor] \in
          [acked : 0..MaxSeq, accepted : SUBSET Seqs, duplicates : SUBSET Seqs]
        /\ [NoReply EXCEPT !.acked = cursor].acked = cursor
    BY <2>2 DEF NoReply
  <2>4. TypeOK'
    BY <1>1, <2>1, <2>3 DEF RInv, TypeOK, disk, server
  <2>5. reply'[c].acked = cursor /\ \A d \in Callers \ {c} : reply'[d] = reply[d]
    BY <2>1, <2>3 DEF RInv, TypeOK
  <2>6. Exchange(pc[c], "answered", batch[c], reply'[c], ackedThrough, nextSeq, ever)
    BY <1>1, <1>2, <2>2, <2>5 DEF RInv, ExchangeInv, Exchange
  <2>7. ASSUME NEW d \in Callers
        PROVE  /\ pc'[d] # "off" => running' # "down"
               /\ \/ stage'[d] = "idle"
                  \/ /\ pc'[d] = pc[d] /\ stage'[d] = stage[d]
                     /\ batch'[d] = batch[d] /\ reply'[d] = reply[d]
                  \/ Exchange(pc'[d], stage'[d], batch'[d], reply'[d],
                              ackedThrough, nextSeq, ever)
    BY <1>1, <2>5, <2>6 DEF RInv, TypeOK, ExchangeInv
  <2> QED
    BY <1>1, <2>1, <2>4, <2>7, KeptAtRest
<1>3. CASE pc[c] \in {"drain", "beat"}
  <2>1. /\ Ingest(batch[c])
        /\ reply' = [reply EXCEPT ![c] =
                       [acked |-> cursor', accepted |-> batch[c] \ stored,
                        duplicates |-> batch[c] \cap stored]]
    BY <1>3 DEF Step, Serve
  <2>2. batch[c] = {} \/ Piece(batch[c], ackedThrough, nextSeq)
    BY <1>1 DEF RInv, ExchangeInv, Exchange
  <2>3. /\ cursor' \in 0..MaxSeq /\ cursor' < nextSeq
        /\ batch[c] \subseteq stored' /\ stored' \subseteq Seqs /\ fed' \in [Seqs -> Nat]
        /\ 1..cursor' \subseteq ever'
    BY <1>1, <2>1, <2>2, IngestHonest
  <2>4. TypeOK'
    BY <1>1, <2>1, <2>3 DEF RInv, TypeOK, disk
  <2>5. reply'[c].acked = cursor' /\ \A d \in Callers \ {c} : reply'[d] = reply[d]
    BY <2>1 DEF RInv, TypeOK
  <2>6. Exchange(pc[c], "answered", batch[c], reply'[c], ackedThrough, nextSeq, ever')
    <3>1. Exchange(pc[c], "sent", batch[c], reply[c], ackedThrough, nextSeq, ever)
      BY <1>1 DEF RInv, ExchangeInv
    <3> QED
      BY <1>1, <1>3, <2>3, <2>5, <3>1 DEF Exchange
  <2>7. \A d \in Callers :
           \/ stage'[d] = stage[d] /\ reply'[d] = reply[d]
           \/ Exchange(pc[d], stage'[d], batch[d], reply'[d],
                       ackedThrough, nextSeq, ever')
    BY <1>1, <2>5, <2>6 DEF RInv, TypeOK
  <2> QED
    BY <1>1, <2>1, <2>2, <2>4, <2>7, KeptByIngest
<1> QED
  BY <1>2, <1>3 DEF Step, Serve

\* A batch of an earlier life arrives, or is lost.
LEMMA RestoreLate ==
  ASSUME RInv, NEW b \in late, Step(LateArrives(b)) \/ Step(LateLost(b))
  PROVE  RInv'
<1> USE MaxSeqAssumption
<1>1. /\ late' = late \ {b}
      /\ UNCHANGED <<disk, running, calls, faults, backup>>
      /\ ever' = ever \cup stored'
  BY DEF Step, LateArrives, LateLost
<1>2. b = {} \/ Piece(b, ackedThrough, nextSeq)
  BY DEF RInv, UnderWayInv
<1>3. CASE Step(LateLost(b))
  <2>1. UNCHANGED server
    BY <1>3 DEF Step, LateLost
  <2>2. TypeOK'
    BY <1>1, <2>1 DEF RInv, TypeOK, disk, calls, server
  <2> QED
    BY <1>1, <2>1, <2>2, KeptAtRest DEF calls, RInv, ExchangeInv
<1>4. CASE Step(LateArrives(b))
  <2>1. Ingest(b)
    BY <1>4 DEF Step, LateArrives
  <2>2. /\ cursor' \in 0..MaxSeq /\ stored' \subseteq Seqs /\ fed' \in [Seqs -> Nat]
    BY <1>2, <2>1, IngestHonest
  <2>3. TypeOK'
    BY <1>1, <2>2 DEF RInv, TypeOK, disk, calls
  <2> QED
    BY <1>1, <1>2, <2>1, <2>3, KeptByIngest DEF calls
<1> QED
  BY <1>3, <1>4

LEMMA RestoreFailure ==
  ASSUME RInv, NEW c \in Callers, Step(GiveUp(c)) \/ Step(TornReply(c))
  PROVE  RInv'
<1>1. /\ GiveUp(c) \/ TornReply(c)
      /\ stage[c] \in {"sent", "answered"}
      /\ HangUp(c)
      /\ faults' = faults + 1
      /\ progress' = [progress EXCEPT ![c] = FALSE]
      /\ UNCHANGED <<disk, running, told, server, backup>>
      /\ ever' = ever \cup stored'
  BY DEF Step, GiveUp, TornReply
<1>2. \E p \in {"sync", "drain", "done", "dead"} : pc' = [pc EXCEPT ![c] = p]
  BY <1>1 DEF GiveUp, TornReply, AfterFailure, Again, Callers
<1>3. \A b \in late' :
        \/ b \in late
        \/ b \subseteq Seqs /\ (b = {} \/ Piece(b, ackedThrough, nextSeq))
  <2>1. late' \subseteq late \cup InFlight({c})
    BY <1>1 DEF GiveUp, TornReply, Abandon
  <2>2. \A b \in InFlight({c}) : b = batch[c]
    BY DEF InFlight
  <2>3. batch[c] \subseteq Seqs /\ (batch[c] = {} \/ Piece(batch[c], ackedThrough, nextSeq))
    BY <1>1 DEF RInv, TypeOK, ExchangeInv, Exchange
  <2> QED
    BY <2>1, <2>2, <2>3
<1>4. TypeOK'
  <2>1. late' \subseteq SUBSET Seqs
    BY <1>3 DEF RInv, TypeOK
  <2> QED
    BY <1>1, <1>2, <2>1, NoReplyTyped DEF HangUp, RInv, TypeOK, disk, server
<1>5. \A d \in Callers :
        /\ pc'[d] # "off" => running' # "down"
        /\ \/ stage'[d] = "idle"
           \/ /\ pc'[d] = pc[d] /\ stage'[d] = stage[d]
              /\ batch'[d] = batch[d] /\ reply'[d] = reply[d]
  <2>1. pc[c] # "off"
    BY <1>1 DEF RInv, ExchangeInv, Exchange
  <2> QED
    BY <1>1, <1>2, <2>1 DEF HangUp, RInv, TypeOK, ExchangeInv
<1> QED
  BY <1>1, <1>3, <1>4, <1>5, KeptAtRest

LEMMA RestoreProcessEnds ==
  ASSUME RInv, Step(Crash) \/ Step(Exit)
  PROVE  RInv'
<1>1. /\ ProcessEnds /\ faults' \in Nat
      /\ UNCHANGED <<disk, server, backup>>
      /\ ever' = ever \cup stored'
  BY DEF Step, Crash, Exit, ProcessEnds, RInv, TypeOK
<1>2. \A b \in late' :
        \/ b \in late
        \/ b \subseteq Seqs /\ (b = {} \/ Piece(b, ackedThrough, nextSeq))
  <2>1. late' \subseteq late \cup InFlight(Callers)
    BY <1>1 DEF ProcessEnds, Abandon
  <2>2. ASSUME NEW b \in InFlight(Callers)
        PROVE  b \subseteq Seqs /\ (b = {} \/ Piece(b, ackedThrough, nextSeq))
    <3>1. PICK d \in Callers : b = batch[d] /\ stage[d] = "sent"
      BY DEF InFlight
    <3> QED
      BY <3>1 DEF RInv, TypeOK, ExchangeInv, Exchange
  <2> QED
    BY <2>1, <2>2
<1>3. TypeOK'
  <2>1. late' \subseteq SUBSET Seqs
    BY <1>2 DEF RInv, TypeOK
  <2> QED
    BY <1>1, <2>1, NoReplyTyped DEF ProcessEnds, RInv, TypeOK, disk, server
<1>4. \A c \in Callers : pc'[c] = "off" /\ stage'[c] = "idle"
  BY <1>1 DEF ProcessEnds
<1> QED
  BY <1>1, <1>2, <1>3, <1>4, KeptAtRest

LEMMA RestoreProcessLife ==
  ASSUME RInv, Step(Boot) \/ Step(Stop) \/ Step(DrainOnExit)
  PROVE  RInv'
<1> USE DEF calls
<1>1. /\ UNCHANGED <<disk, stage, batch, reply, progress, told, late, server, backup>>
      /\ faults' \in Nat /\ running' \in {"up", "stopping"}
      /\ ever' = ever \cup stored'
      /\ Boot \/ Stop \/ DrainOnExit
  BY DEF Step, Boot, Stop, DrainOnExit, RInv, TypeOK
<1>2. TypeOK'
  BY <1>1 DEF RInv, TypeOK, Boot, Stop, DrainOnExit, disk, server
<1>3. ASSUME NEW c \in Callers
      PROVE  /\ pc'[c] # "off" => running' # "down"
             /\ \/ stage'[c] = "idle"
                \/ /\ pc'[c] = pc[c] /\ stage'[c] = stage[c]
                   /\ batch'[c] = batch[c] /\ reply'[c] = reply[c]
  <2>1. pc[c] = "off" => stage[c] = "idle"
    BY DEF RInv, TypeOK, ExchangeInv, Exchange
  <2>2. running = "down" => pc[c] = "off"
    BY DEF RInv, ExchangeInv
  <2>3. CASE Boot
    BY <1>1, <2>1, <2>2, <2>3 DEF RInv, TypeOK, Boot
  <2>4. CASE Stop
    BY <1>1, <2>4 DEF Stop
  <2>5. CASE DrainOnExit
    BY <1>1, <2>1, <2>5 DEF RInv, TypeOK, DrainOnExit
  <2> QED
    BY <1>1, <2>3, <2>4, <2>5
<1> QED
  BY <1>1, <1>2, <1>3, KeptAtRest

\* The backup is what the database is.
LEMMA BackupInv ==
  ASSUME RInv, Backup
  PROVE  RInv'
<1>1. UNCHANGED <<vars, ever>> /\ backup' = Database
  BY DEF Backup
<1>2. TypeOK' /\ QueueInv' /\ ExchangeInv' /\ UnderWayInv' /\ Database' = Database
  BY <1>1 DEF RInv, TypeOK, QueueInv, OutboxInv, ExchangeInv, UnderWayInv, Database,
              vars, disk, calls, server
<1>3. Life(Database, ackedThrough, nextSeq, ever)
  BY DEF RInv, LivesInv
<1>4. LivesInv'
  BY <1>1, <1>2, <1>3 DEF LivesInv, vars, disk
<1> QED
  BY <1>2, <1>4 DEF RInv

\* The database is what the backup was: the agent has only let go of more
\* since, and the server has only stored more.
LEMMA RestoreInv ==
  ASSUME RInv, Restore
  PROVE  RInv'
<1>1. /\ stored' = backup.stored /\ cursor' = backup.cursor /\ fed' = backup.fed
      /\ faults' = faults + 1
      /\ UNCHANGED <<disk, running, calls, late, backup, ever>>
  BY DEF Restore
<1>2. Life(backup, ackedThrough, nextSeq, ever)
  BY DEF RInv, LivesInv
<1>3. TypeOK'
  BY <1>1, <1>2 DEF RInv, TypeOK, Life, disk, calls
<1>4. QueueInv' /\ ExchangeInv' /\ UnderWayInv'
  BY <1>1 DEF RInv, QueueInv, OutboxInv, ExchangeInv, UnderWayInv, disk, calls
<1>5. LivesInv'
  <2>1. Database' = [stored |-> backup.stored, cursor |-> backup.cursor,
                     fed |-> backup.fed]
    BY <1>1 DEF Database
  <2>2. Life(Database', ackedThrough, nextSeq, ever)
    BY <1>2, <2>1 DEF Life
  <2> QED
    BY <1>1, <1>2, <2>2 DEF LivesInv, disk
<1> QED
  BY <1>3, <1>4, <1>5 DEF RInv

LEMMA RestoreStutter == RInv /\ UNCHANGED restoreVars => RInv'
BY DEF restoreVars, vars, disk, calls, server, RInv, TypeOK, QueueInv, OutboxInv,
       LivesInv, Database, ExchangeInv, UnderWayInv

LEMMA RestoreNextInv == RInv /\ [RestoreNext]_restoreVars => RInv'
<1> SUFFICES ASSUME RInv, [RestoreNext]_restoreVars PROVE RInv'
  OBVIOUS
<1>1. CASE Step(Next)
  <2>1. CASE Append
    BY <1>1, <2>1, RestoreAppend DEF Step
  <2>2. ASSUME NEW c \in Callers, CallerStep(c)
        PROVE  RInv'
    BY <1>1, <2>2, RestoreQuiet, RestoreSend, RestoreHandleReply DEF CallerStep, Step
  <2>3. ASSUME NEW c \in Callers, Serve(c)
        PROVE  RInv'
    BY <1>1, <2>3, RestoreServe DEF Step
  <2>4. ASSUME NEW c \in Callers, GiveUp(c) \/ TornReply(c)
        PROVE  RInv'
    BY <1>1, <2>4, RestoreFailure DEF Step
  <2>5. ASSUME NEW b \in late, LateArrives(b) \/ LateLost(b)
        PROVE  RInv'
    BY <1>1, <2>5, RestoreLate DEF Step
  <2>6. CASE Boot \/ Stop \/ DrainOnExit
    BY <1>1, <2>6, RestoreProcessLife DEF Step
  <2>7. CASE Exit \/ Crash
    BY <1>1, <2>7, RestoreProcessEnds DEF Step
  <2> QED
    BY <1>1, <2>1, <2>2, <2>3, <2>4, <2>5, <2>6, <2>7 DEF Step, Next
<1> QED
  BY <1>1, BackupInv, RestoreInv, RestoreStutter DEF RestoreNext

LEMMA RestoreInvariance == RestoreSpec => []RInv
BY RestoreInitInv, RestoreNextInv, PTL DEF RestoreSpec

-----------------------------------------------------------------------------
(* The theorems. *)

\* What the agent has deleted from its outbox was stored in some life of the
\* server's database: no restore, and no batch or answer of before one, makes
\* Outbox.ack let go of a fact no server ever had.
THEOREM ForgottenWasOnceStored == RestoreSpec => []ForgottenWasStored
<1>1. RInv => ForgottenWasStored
  BY MaxSeqAssumption DEF RInv, TypeOK, QueueInv, OutboxInv, ForgottenWasStored
<1> QED
  BY <1>1, RestoreInvariance, PTL

\* The numbers that _advance_cursor writes off are numbers the agent does not
\* hold any more: the cursor covers nothing that is still to be delivered.
THEOREM WriteOffIsHonest == RestoreSpec => []CursorHonest
<1>1. ASSUME RInv, NEW s \in 1..cursor
      PROVE  s \in stored \/ s \notin outbox
  <2>1. s \in stored \/ s <= ackedThrough
    BY <1>1 DEF RInv, LivesInv, Life, Database
  <2>2. ackedThrough \in Nat /\ outbox = (ackedThrough + 1)..(nextSeq - 1)
    BY <1>1 DEF RInv, TypeOK, QueueInv, OutboxInv
  <2> QED
    BY <2>1, <2>2
<1>2. RInv => CursorHonest
  BY <1>1 DEF CursorHonest
<1> QED
  BY <1>2, RestoreInvariance, PTL

\* With the gap closing of _advance_cursor, which is there, the cursor covers
\* everything the server has, in the first life of its database or a later one.
THEOREM CursorIsNeverWedged ==
  ASSUME GapWriteOff
  PROVE  RestoreSpec => []CursorNotWedged
<1>1. RInv => CursorNotWedged
  BY MaxSeqAssumption
     DEF RInv, TypeOK, LivesInv, Life, Database, CursorNotWedged
<1> QED
  BY <1>1, RestoreInvariance, PTL

\* In each life of the database a stored fact went through Segmenter.feed once
\* and any other never did, whatever was sent again after the restore.
THEOREM EffectsHappenOnceInEachLife == RestoreSpec => []ExactlyOnce
<1>1. RInv => ExactlyOnce
  BY DEF RInv, LivesInv, Life, Database, ExactlyOnce
<1> QED
  BY <1>1, RestoreInvariance, PTL
=============================================================================
