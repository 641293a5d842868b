----------------------------- MODULE LiveFeed ------------------------------
(***************************************************************************)
(* How a committed change reaches a browser page, and what the page misses *)
(* when its connection breaks.                                             *)
(*                                                                         *)
(* The server appends every change to a published log (api_events) in the  *)
(* transaction that makes the change, and after the commit hands it to the *)
(* event loop, which puts it on the bounded queue of every socket of the   *)
(* owner (Hub in api/app.py).  A page keeps the number of the last event   *)
(* it saw and, when it reconnects, is sent what it missed or told to start *)
(* again from a snapshot (the live route, and useLive in ui live.ts).      *)
(*                                                                         *)
(* One page of one account is modelled; "theirs" is an event of anybody    *)
(* else.  An event is its number, its kind is log[number].                 *)
(***************************************************************************)
EXTENDS Integers, Sequences, FiniteSets

CONSTANTS
  Published,        \* bound: the kinds of events that ingest publishes; "void" if
                    \* its transactions may fail
  MaxSeq,           \* bound: numbers the log hands out
  MaxBatch,         \* bound: events of one ingest transaction
  Capacity,         \* Hub.capacity
  MaxReplay,        \* MAX_REPLAY_EVENTS
  Retention,        \* API_EVENT_RETENTION
  TrimEvery,        \* retention // 4
  HandshakeCommits, \* bound: events committed while one handshake reads
  WireSize,         \* bound: frames the socket takes before send blocks
  MaxFaults         \* bound: lost connections, restarts, failed requests

ASSUME PublishedAssumption ==
  Published \subseteq {"theirs", "start", "sample", "end", "other", "void"}
ASSUME SizesAssumption ==
  /\ {MaxSeq, MaxFaults, HandshakeCommits} \subseteq Nat
  /\ {MaxBatch, Capacity, MaxReplay, TrimEvery, WireSize} \subseteq Nat \ {0}
ASSUME RetentionAssumption ==
  Retention \in Nat /\ Retention >= MaxReplay + HandshakeCommits

VARIABLES
  \* the database
  log,        \* kinds by number; "void": the transaction was rolled back
  trimmed,    \* the events up to this one are deleted
  \* the server process
  phase,      \* per publishing thread: "idle", "publish" or "trim"
  unheard,    \* per publishing thread: committed events not yet published
  sinceTrim,  \* Ingestor._since_trim
  loop,       \* fan-out calls scheduled on the event loop
  conn,       \* the socket: "closed", "latest" or "oldest" (the handshake
              \* has read that), "open"
  current,    \* what the handshake read as the latest number
  oldest,     \* and as the oldest
  queue,      \* the socket's queue in the Hub
  wire,       \* frames sent and not received
  \* the page
  cursor,     \* cursor.current, the last number seen
  live,       \* the readings in liveSamples
  snap,       \* the snapshot on the page holds everything up to here
  fetch,      \* the request for a snapshot: "none", "asked" or "answered"
  answer,     \* what the answer holds
  liveKey,    \* liveMatchKey
  \* history
  base,       \* the number in the page's first hello
  replaying,  \* frames of the handshake not yet received
  wanted,     \* the events that the request for a snapshot is to bring
  overtaken,  \* left behind by a thread that announced a higher number first
  untold,     \* announced while nobody listened, or covered by starting again
  \* and, of these, what nobody will tell the page again:
  cutOff,     \* in a replay whose hello arrived and whose connection broke
  passedBy,   \* overtaken, and the connection broke in between
  failed,     \* wanted of a request that failed
  faults

database == <<log, trimmed>>
threads == <<phase, unheard, sinceTrim>>
handshake == <<current, oldest>>
socket == <<conn, handshake, queue, wire, replaying>>
request == <<fetch, answer, wanted>>
page == <<cursor, live, snap, liveKey, base>>
losses == <<cutOff, passedBy, failed>>
vars == <<database, threads, loop, socket, request, page, untold, overtaken, losses, faults>>

Publishers == {"ingest", "override"}
Kinds == {"theirs", "start", "sample", "end", "other", "void"}
Mine == {"start", "sample", "end", "other"}
Seqs == 1..MaxSeq
None == -1

Event(s) == [type |-> "event", seq |-> s, resync |-> FALSE]
TooSlow == [type |-> "resync", seq |-> 0, resync |-> TRUE]
Hello(s, again) == [type |-> "hello", seq |-> s, resync |-> again]

MaxOf(S) == CHOOSE x \in S : \A y \in S : y <= x

HistoryOK ==
  {wanted, untold, overtaken, cutOff, passedBy, failed} \subseteq SUBSET (1..Len(log))

TypeOK ==
  /\ log \in Seq(Kinds) /\ Len(log) <= MaxSeq
  /\ trimmed \in 0..Len(log)
  /\ phase \in [Publishers -> {"idle", "publish", "trim"}]
  /\ unheard \in [Publishers -> Seq(1..Len(log))]
  /\ sinceTrim \in Nat
  /\ loop \in Seq(Seq(1..Len(log)))
  /\ conn \in {"closed", "latest", "oldest", "open"}
  /\ current \in 0..Len(log) /\ oldest \in 0..Len(log)
  /\ \A i \in DOMAIN queue : queue[i] \in {TooSlow} \cup {Event(s) : s \in Seqs}
  /\ Len(queue) <= Capacity
  /\ \A i \in DOMAIN wire : wire[i].type \in {"hello", "event", "resync"}
  /\ replaying \in 0..Len(wire)
  /\ cursor \in {None} \cup (0..Len(log))
  /\ live \subseteq 1..Len(log)
  /\ snap \in 0..Len(log) /\ answer \in 0..Len(log)
  /\ fetch \in {"none", "asked", "answered"}
  /\ liveKey \in 0..Len(log)
  /\ base \in {None} \cup (0..Len(log))
  /\ HistoryOK
  /\ faults \in 0..MaxFaults

\* The page is mounted: its queries are out, its socket not yet open.
Init ==
  /\ log = <<>> /\ trimmed = 0
  /\ phase = [p \in Publishers |-> "idle"]
  /\ unheard = [p \in Publishers |-> <<>>]
  /\ sinceTrim = 0
  /\ loop = <<>>
  /\ conn = "closed" /\ current = 0 /\ oldest = 0
  /\ queue = <<>> /\ wire = <<>> /\ replaying = 0
  /\ cursor = None /\ live = {} /\ snap = 0 /\ liveKey = 0
  /\ fetch = "asked" /\ answer = 0
  /\ base = None
  /\ wanted = {} /\ overtaken = {} /\ untold = {}
  /\ cutOff = {} /\ passedBy = {} /\ failed = {}
  /\ faults = 0

-----------------------------------------------------------------------------
(* The published log. *)

Stored == {s \in DOMAIN log : s > trimmed /\ log[s] # "void"}
Own == {s \in DOMAIN log : log[s] \in Mine}
Latest == MaxOf({0} \cup Stored)
Oldest == IF Stored = {} THEN 0 ELSE CHOOSE s \in Stored : \A t \in Stored : s <= t

\* The account's matches are numbered; the match an event belongs to.
Match(s) == Cardinality({t \in 1..s : log[t] = "start"})
Playing(l) ==
  \E s \in DOMAIN l : /\ l[s] = "start"
                      /\ \A t \in DOMAIN l : t > s => l[t] # "end"

\* One ingest transaction's events, in an order the segmenter produces.
Batches ==
  {b \in UNION {[1..n -> Published \ {"void"}] : n \in 1..MaxBatch} :
     \A i \in DOMAIN b :
       LET before == log \o SubSeq(b, 1, i - 1) IN
       /\ b[i] = "start" => ~Playing(before)
       /\ b[i] \in {"sample", "end"} => Playing(before)
       /\ b[i] = "other" => \E s \in DOMAIN before : before[s] = "start"}

\* Room for n more numbers within the bounds.
Room(n) ==
  /\ Len(log) + n <= MaxSeq
  /\ conn \in {"latest", "oldest"} => Len(log) + n <= current + HandshakeCommits

\* The write lock is released at the commit and on_published is called after
\* that: another thread may commit, and announce what it committed, in between.
Commit(p, b) ==
  /\ phase[p] = "idle" /\ Room(Len(b))
  /\ log' = log \o b
  /\ phase' = [phase EXCEPT ![p] = "publish"]
  /\ unheard' = [unheard EXCEPT ![p] = [i \in DOMAIN b |-> Len(log) + i]]
  /\ UNCHANGED <<trimmed, sinceTrim, loop, socket, request, page, untold, overtaken, losses, faults>>

IngestCommits == \E b \in Batches : Commit("ingest", b)

\* Ingestor.set_override: one event, for a match that exists.
OverrideCommits ==
  /\ \E s \in DOMAIN log : log[s] = "start"
  /\ Commit("override", <<"other">>)

\* Mutation: the event is announced before the transaction is over.
RollbackHeard ==
  /\ "void" \in Published
  /\ phase["ingest"] = "idle" /\ Room(1)
  /\ log' = Append(log, "void")
  /\ loop' = Append(loop, <<Len(log) + 1>>)
  /\ UNCHANGED <<trimmed, threads, socket, request, page, untold, overtaken, losses, faults>>

\* A transaction that fails leaves a number nobody has.
Rollback ==
  /\ "void" \in Published
  /\ phase["ingest"] = "idle" /\ Room(1)
  /\ log' = Append(log, "void")
  /\ UNCHANGED <<trimmed, threads, loop, socket, request, page, untold, overtaken, losses, faults>>

\* Hub.publish schedules the fan-out, or drops the events if no browser of
\* anybody is subscribed; those of other accounts come and go.
Schedule(events) ==
  \/ loop' = Append(loop, events) /\ UNCHANGED untold
  \/ /\ conn = "closed"
     /\ untold' = untold \cup {events[i] : i \in DOMAIN events}
     /\ UNCHANGED loop

\* What the other thread has committed before this one and not announced.
LeftBehind(p) ==
  {s \in DOMAIN log :
     \E q \in Publishers \ {p} :
       \E i \in DOMAIN unheard[q], j \in DOMAIN unheard[p] :
         s = unheard[q][i] /\ s < unheard[p][j]}

Publish(p) ==
  /\ phase[p] = "publish"
  /\ Schedule(unheard[p])
  /\ unheard' = [unheard EXCEPT ![p] = <<>>]
  /\ LET n == IF p = "ingest" THEN sinceTrim + Len(unheard[p]) ELSE sinceTrim
         full == p = "ingest" /\ n >= TrimEvery
     IN /\ sinceTrim' = IF full THEN 0 ELSE n
        /\ phase' = [phase EXCEPT ![p] = IF full THEN "trim" ELSE "idle"]
  /\ overtaken' = overtaken \cup LeftBehind(p)
  /\ UNCHANGED <<database, socket, request, page, losses, faults>>

\* Database.trim_events, in a transaction of its own.
Trim ==
  /\ phase["ingest"] = "trim"
  /\ trimmed' = MaxOf({trimmed, Latest - Retention})
  /\ phase' = [phase EXCEPT !["ingest"] = "idle"]
  /\ UNCHANGED <<log, unheard, sinceTrim, loop, socket, request, page, untold, overtaken, losses, faults>>

-----------------------------------------------------------------------------
(* The event loop: fan-out, the live route. *)

\* The events of a sequence that are among S, in their order.
Kept(events, S) ==
  LET upto[n \in 0..Len(events)] ==
        IF n = 0 THEN <<>>
        ELSE IF events[n] \in S THEN Append(upto[n - 1], events[n])
        ELSE upto[n - 1]
  IN upto[Len(events)]

\* Mutation: everybody's events go to everybody.
MineOfAll(events) == events

\* The part of a fan-out that is addressed to this account.
MineOf(events) == Kept(events, {s \in DOMAIN log : log[s] # "theirs"})

\* Mutation: what does not fit is dropped, and nobody is told.
DeliverSilently(events) ==
  IF Len(queue) + Len(events) <= Capacity
  THEN queue \o [i \in DOMAIN events |-> Event(events[i])]
  ELSE queue

\* Mutation: the reader is told, but keeps the stale front of its queue.
DeliverUnbounded(events) ==
  IF Len(queue) + Len(events) <= Capacity
  THEN queue \o [i \in DOMAIN events |-> Event(events[i])]
  ELSE Append(queue, TooSlow)

\* Hub._deliver: at the first event that does not fit the whole queue is
\* replaced by one frame, and the rest of the events is dropped with it.
Deliver(events) ==
  IF Len(queue) + Len(events) <= Capacity
  THEN queue \o [i \in DOMAIN events |-> Event(events[i])]
  ELSE <<TooSlow>>

\* Nothing else runs on the loop while the handshake reads the database.
Fanout ==
  /\ loop # <<>> /\ conn \in {"closed", "open"}
  /\ loop' = Tail(loop)
  /\ queue' = IF conn = "open" THEN Deliver(MineOf(Head(loop))) ELSE queue
  /\ UNCHANGED <<database, threads, conn, handshake, wire, replaying,
                 request, page, untold, overtaken, losses, faults>>

\* The page connects: the route subscribes, then reads the latest number.
Connect ==
  /\ conn = "closed"
  /\ conn' = "latest" /\ current' = Latest
  /\ UNCHANGED <<database, threads, loop, oldest, queue, wire, replaying,
                 request, page, untold, overtaken, losses, faults>>

ReadOldest ==
  /\ conn = "latest"
  /\ conn' = "oldest" /\ oldest' = Oldest
  /\ UNCHANGED <<database, threads, loop, current, queue, wire, replaying,
                 request, page, untold, overtaken, losses, faults>>

\* Mutation: the width of the gap is not looked at.
BehindNotFar ==
  /\ cursor # None
  /\ cursor > current \/ (oldest # 0 /\ cursor < oldest - 1)

\* The gap cannot be replayed: the page is ahead, too far back, or older than
\* what is retained.
Behind ==
  /\ cursor # None
  /\ \/ cursor > current
     \/ current - cursor > MaxReplay
     \/ oldest # 0 /\ cursor < oldest - 1

\* The account's retained events after the page's cursor, in order.
Missed == Kept([i \in DOMAIN log |-> i], {s \in Stored \cap Own : s > cursor})

Replay ==
  IF cursor = None \/ Behind THEN <<>>
  ELSE SubSeq(Missed, 1, IF Len(Missed) < MaxReplay THEN Len(Missed) ELSE MaxReplay)

\* hello, then the replay; the socket is subscribed since Connect.
Greet ==
  /\ conn = "oldest"
  /\ conn' = "open"
  /\ wire' = <<Hello(current, Behind)>> \o [i \in DOMAIN Replay |-> Event(Replay[i])]
  /\ replaying' = Len(Replay) + 1
  /\ current' = 0 /\ oldest' = 0
  /\ UNCHANGED <<database, threads, loop, queue, request, page, untold, overtaken, losses, faults>>

\* One message of the queue is sent.  The 25 s ping changes nothing.
Send ==
  /\ conn = "open" /\ queue # <<>> /\ Len(wire) < WireSize
  /\ wire' = Append(wire, Head(queue))
  /\ queue' = Tail(queue)
  /\ UNCHANGED <<database, threads, loop, conn, handshake, replaying,
                 request, page, untold, overtaken, losses, faults>>

-----------------------------------------------------------------------------
(* The page. *)

\* The revision goes up: the queries run again, those under way are aborted.
Bump(S) == fetch' = "asked" /\ answer' = 0 /\ wanted' = wanted \cup S

\* Mutation: the refetch is left out.
StartAgainKeepsOld == live' = live /\ untold' = untold \cup DOMAIN log /\ UNCHANGED request

\* The page throws away its readings and asks for a snapshot.
StartAgain == live' = {} /\ untold' = untold \cup DOMAIN log /\ Bump(DOMAIN log)

\* A reading at or before the last one held of its match is ignored.
Plotted(s) ==
  IF \E t \in live : Match(t) = Match(s) /\ t >= s THEN live ELSE live \cup {s}

\* Mutation: the end of a match is not acted on.
LiveAfterDeaf(s) ==
  CASE log[s] \in {"start", "sample"} -> Match(s)
    [] OTHER -> liveKey

\* What an event does to liveMatchKey.
LiveAfter(s) ==
  CASE log[s] \in {"start", "sample"} -> Match(s)
    [] log[s] = "end" -> IF liveKey = Match(s) THEN 0 ELSE liveKey
    [] OTHER -> liveKey

ReceiveHello(f) ==
  /\ f.type = "hello"
  /\ cursor' = f.seq
  /\ base' = IF base = None THEN f.seq ELSE base
  /\ IF f.resync THEN StartAgain ELSE UNCHANGED <<live, untold, request>>
  /\ UNCHANGED liveKey

ReceiveResync(f) ==
  /\ f.type = "resync"
  /\ StartAgain
  /\ UNCHANGED <<cursor, liveKey, base>>

\* A reading is drawn; anything structural has the snapshot fetched again.
ReceiveEvent(f) ==
  /\ f.type = "event"
  /\ cursor' = f.seq
  /\ liveKey' = LiveAfter(f.seq)
  /\ IF log[f.seq] = "sample" THEN live' = Plotted(f.seq) /\ UNCHANGED request
     ELSE Bump({f.seq}) /\ UNCHANGED live
  /\ UNCHANGED <<base, untold>>

Receive ==
  /\ conn = "open" /\ wire # <<>>
  /\ LET f == Head(wire) IN ReceiveHello(f) \/ ReceiveResync(f) \/ ReceiveEvent(f)
  /\ wire' = Tail(wire)
  /\ replaying' = IF replaying > 0 THEN replaying - 1 ELSE 0
  /\ UNCHANGED <<database, threads, loop, conn, handshake, queue, snap, overtaken, losses, faults>>

\* The server answers the page's queries from what is committed.
Answer ==
  /\ fetch = "asked"
  /\ fetch' = "answered" /\ answer' = Len(log)
  /\ UNCHANGED <<database, threads, loop, socket, wanted, page, untold, overtaken, losses, faults>>

\* The answer is on the page, with the readings since.
Land ==
  /\ fetch = "answered"
  /\ fetch' = "none" /\ answer' = 0 /\ wanted' = {}
  /\ snap' = answer
  /\ UNCHANGED <<database, threads, loop, socket, cursor, live, liveKey, base,
                 untold, overtaken, losses, faults>>

-----------------------------------------------------------------------------
(* Failures. *)

\* On the present connection, or due to be put on it.
OnItsWay(s) ==
  /\ conn = "open"
  /\ \/ \E i \in DOMAIN wire : wire[i] = Event(s) \/ wire[i].resync
     \/ \E i \in DOMAIN queue : queue[i] \in {Event(s), TooSlow}
     \/ \E i \in DOMAIN loop : \E j \in DOMAIN loop[i] : loop[i][j] = s
     \/ \E p \in Publishers : \E j \in DOMAIN unheard[p] : unheard[p][j] = s

\* At or below the cursor the page will not ask for an event again.
Disconnected ==
  /\ conn' = "closed" /\ current' = 0 /\ oldest' = 0
  /\ queue' = <<>> /\ wire' = <<>> /\ replaying' = 0
  /\ cutOff' = cutOff \cup
       {s \in Own : s <= cursor /\ \E i \in 1..replaying : wire[i] = Event(s)}
  /\ passedBy' = passedBy \cup {s \in overtaken \cap Own : s <= cursor /\ OnItsWay(s)}
  /\ UNCHANGED failed

\* The connection breaks, in the middle of its handshake perhaps; what was on
\* it is gone.
Drop ==
  /\ conn # "closed" /\ faults < MaxFaults
  /\ Disconnected
  /\ faults' = faults + 1
  /\ UNCHANGED <<database, threads, loop, request, page, untold, overtaken>>

\* The server process ends, between a commit and its announcement perhaps.
Restart ==
  /\ faults < MaxFaults
  /\ Disconnected
  /\ loop' = <<>>
  /\ phase' = [p \in Publishers |-> "idle"]
  /\ unheard' = [p \in Publishers |-> <<>>]
  /\ sinceTrim' = 0
  /\ faults' = faults + 1
  /\ UNCHANGED <<database, request, page, untold, overtaken>>

\* useQuery keeps what it had, and nothing asks again.
FetchFail ==
  /\ fetch # "none" /\ faults < MaxFaults
  /\ fetch' = "none" /\ answer' = 0 /\ wanted' = {}
  /\ failed' = failed \cup wanted
  /\ faults' = faults + 1
  /\ UNCHANGED <<database, threads, loop, socket, page, untold, overtaken, cutOff, passedBy>>

-----------------------------------------------------------------------------
Next ==
  \/ IngestCommits
  \/ OverrideCommits
  \/ Rollback
  \/ \E p \in Publishers : Publish(p)
  \/ Trim
  \/ Fanout
  \/ Connect
  \/ ReadOldest
  \/ Greet
  \/ Send
  \/ Receive
  \/ Answer
  \/ Land
  \/ Drop
  \/ Restart
  \/ FetchFail

Spec == Init /\ [][Next]_vars

\* The threads, the event loop and the page run; the page reconnects with a
\* back-off for ever, and a request is answered or fails.  Nobody has to play,
\* and nothing has to fail.
FairSpec ==
  /\ Spec
  /\ \A p \in Publishers : WF_vars(Publish(p))
  /\ WF_vars(Trim) /\ WF_vars(Fanout)
  /\ WF_vars(Connect) /\ WF_vars(ReadOldest) /\ WF_vars(Greet)
  /\ WF_vars(Send) /\ WF_vars(Receive)
  /\ WF_vars(Answer) /\ WF_vars(Land)

-----------------------------------------------------------------------------
(* What the page shows. *)

\* The account's events the page has undertaken to show.
Promised == {s \in Own : base # None /\ s > base}

Shown(s) == s <= snap \/ s \in live

BeingFetched(s) == fetch = "asked" \/ (fetch = "answered" /\ s <= answer)

\* What the page is never told again of, by the three ways there are to lose it.
Lost == cutOff \cup passedBy \cup failed

Cared(s) == Shown(s) \/ BeingFetched(s) \/ OnItsWay(s)

\* What live.ts rests on, a client that remembers the last number it saw, and
\* the three ways in which that number is not enough: whatever of its account's
\* events lies at or below the cursor is on the page, about to be fetched or
\* still on the connection -- or was in a replay that broke behind its hello, or
\* overtaken when the connection broke, or wanted of a request that failed.
\* Nothing else is forgotten, whatever was trimmed, dropped by a full queue, or
\* lost with a connection or the server.
NothingSkipped ==
  \A s \in Promised \ Lost : s <= cursor => Cared(s)

\* An open connection misses nothing either: but for the same three ways an
\* event above the cursor is on the connection or about to be put there, even if
\* it was committed while the handshake was reading.
NothingMissedLive ==
  conn = "open" => \A s \in Promised \ Lost : Cared(s)

\* live.ts: "a client that remembers the last one it saw knows exactly where it
\* is", of a client whose requests are answered; and database.py, of one that
\* "saw the higher number permanently blind to the lower one": "Serialising
\* writers removes that window".  The cursor is taken from hello, ahead of the
\* replay, and what is serialised is the writing, not the announcing.
KnowsWhereItIs ==
  \A s \in Promised \ failed : s <= cursor => Cared(s)

\* No frame names an event of another account or one that was rolled back, and
\* nothing of either is on the page (Hub._fanout, the replay's WHERE clause,
\* "persist before publishing").
OnlyOwnAndStored ==
  /\ \A i \in DOMAIN queue : queue[i].type = "event" => queue[i].seq \in Own
  /\ \A i \in DOMAIN wire : wire[i].type = "event" => wire[i].seq \in Own
  /\ live \subseteq Own

\* Nothing is in motion between the log and the page.
Quiet ==
  /\ conn = "open" /\ wire = <<>> /\ queue = <<>> /\ loop = <<>>
  /\ \A p \in Publishers : phase[p] # "publish"

\* What live.ts calls liveMatchKey, "the match currently being played, if one
\* is", at rest: no match that ended and the one being played, as far as the page
\* was told -- an event it was never sent, or that a snapshot stands for, does not
\* set the key.
LiveKeyIsCurrent ==
  Quiet =>
    LET told == Own \ (cutOff \cup passedBy \cup untold) IN
    /\ \A s \in told : log[s] = "end" => liveKey # Match(s)
    /\ Playing(log)
         => \A s \in Promised \cap told :
              Match(s) = Match(Len(log)) /\ log[s] \in {"start", "sample"}
                => liveKey = Match(s)

\* Everything published reaches the page in the end, through a bounded number
\* of broken connections, restarts and failed requests, but for what those three
\* ways have lost.
PageCatchesUp == <>[](cursor # None /\ \A s \in Promised \ Lost : Shown(s))
=============================================================================
