# profitdog in TLA+

A verification project kept beside the code of profitdog: TLA+ modules of the
parts in which order, failure and concurrency decide whether the numbers on the
page are true, TLC runs on small instances, and TLAPS proofs of what matters
most. Paths below are relative to the repository.

1. [The system](#1-the-system): components, state, operations, hard behaviour
2. [The modules](#2-the-modules) and how they correspond to the code
3. [The runs](#3-the-runs): what each asks, its bounds and why they are enough
4. [Fairness](#4-fairness)
5. [Where the code and what is said of it
   differ](#5-where-the-code-and-what-is-said-of-it-differ)
6. [What is proved](#6-what-is-proved), from which assumptions, along which argument
7. [What is only model-checked](#7-what-is-only-model-checked)
8. [What is not modelled, and why](#8-what-is-not-modelled-and-why)
9. [Plan](#9-plan)

Run everything from `tla/`: `tlc -config Delivery.cfg Delivery.tla`,
`tlapm DeliveryProofs.tla`. `PROJECT.json` names, for every definition, the
lines it models, for every run its properties, and for every property a mutant
of the code that breaks it. Operators whose comment begins with *Mutation:* are
those mutants; nothing in a module's `Next` refers to them.

## 1. The system

profitdog follows what a player of a shooter earns and spends. An **agent** on
the gaming PC observes the game every few seconds and writes each observation
as a numbered *fact* into an outbox on disk. An **uplink** thread posts the
facts to a **server**, which gates them (each takes effect once), cuts them into
matches and lives, stores the readings, and publishes what changed to the
**pages** that are open. Costs and profits are never stored as facts: they are
derived from the readings by a *ruleset*, and cached.

```
 game ─▶ collector ─▶ outbox ─▶ uplink ══HTTP══▶ ingest ─▶ segmenter ─▶ rows
                      (disk)    (thread)         (gate)    (memory)      │  │
                                                    │                    │  ▼
                                                    ▼                    │ ruleset ─▶ engine ─▶ cache ─▶ REST
                                               published log             │                               │
                                                    │ after the commit   │                               │
                                                    ▼                    │                               ▼
                                                   hub ══websocket══▶ useLive ═══ "ask again" ═══▶ useQuery (page)
```

### Components

| component | state | operations | what is hard | what makes it correct | module |
|---|---|---|---|---|---|
| Outbox (`agent/…/outbox.py`) | rows by sequence number; `next_seq`, `acked_through` in `meta` | `append`, `pending`, `ack` | two threads delete from it; a crash anywhere | a number without a row never exists; nothing is deleted that the server lacks | `Delivery` |
| Uplink and process life (`uplink.py`, `__main__.py`) | the exchange in progress, back-off, when it last spoke | `run`, `drain`, `flush_once`, `sync_cursor`, `heartbeat`, the drain on exit | lost, late and torn answers; the last drain beside a thread that is not done | every fact arrives, once, in order; the queue runs empty | `Delivery`, `DeliveryRestore` |
| Ingest (`ingest.py`) | `ingested_envelopes`, `agents.acked_through` | `ingest`, `_advance_cursor`, `cursor_for` | duplicates, late batches, a database put back to a backup | the cursor covers what is stored and nothing else, and is never stuck | `Delivery`, `DeliveryRestore` |
| Segmenter (`segmentation.py`) | `AgentState` per agent, in memory | `feed`, its handlers, `restore` | memory beside a transaction that may fail; a restart in mid-match; outages | readings inside their match, lives in order, memory agrees with the rows | `Segmenter` |
| Published log (`db/database.py`, `ingest.py`) | `api_events` | `write_event`, `trim_events`, latest, oldest | announced after the commit, trimmed at any time, numbers with holes | what is trimmed is noticed by whoever needed it | `LiveFeed` |
| Hub and live socket (`api/app.py`) | a bounded queue per socket | `publish`, fan-out, the handshake and its replay | three reads while others commit; overflow | no silent loss; no one else's events | `LiveFeed` |
| Live page (`ui/src/lib/live.ts`) | cursor, readings, snapshot request, live match | `useLive`, `useQuery` | the connection breaks with frames on it | what lies below the cursor is shown or being fetched, and what is lost is lost in known ways | `LiveFeed` |
| Ruleset v1 (`domain/rulesets/v1.py`) | none (pure) | `detect_kit`, `build_ledger`, `apply_kit_override` | kits paid in instalments across the border of two lives | the books balance; every change is counted once | `Ledger` |
| Engine (`domain/engine.py`) | none | `derive_match`, `derive_all` | the same answer from two code paths | the view adds up to the curve | `Ledger` |
| Derived cache (`domain/cache.py`) | `derived_matches` | `derive_all`, `drop` | five queries per answer, none in a common transaction | no row is stale undetected | `DerivedCache` |
| Corrections (`ingest.py`, `api/app.py`) | `overrides` | `set_override` | on a thread of its own | profit does not move | `DerivedCache`, `Ledger`, `LiveFeed` |
| Importer (`importer.py`) | the rows of matches from files | `import_file` | a closed match that still grows; matches nobody owns | such growth is seen by the cache | `DerivedCache`, `Accounts` (partly) |
| Accounts and sign-in (`auth.py`, `api/app.py`, `config.py`) | users, sessions; the flow cookie of a browser | login, callback, `upsert_google_user`, logout | a callback reads, decides and writes in separate transactions; addresses change hands | whoever is signed in is in their own account, unless an address moves in mid-sign-in | `Accounts` |
| Ownership (`ownership.py`) | `user_id` of agents, matches, events | `ensure_owner` at every start | adopts what an unlinked agent uploaded, under a setting that may change | an owner is never replaced | `Accounts` |
| Linking (`linking.py`, `credentials.py`, `auth.py`) | link codes, credentials, the file on the PC | start, approve, poll, redeem, revoke, upload | the code is consumed before its answer arrives; the file is never checked | an agent reports into its owner's account; there is always a way back for a PC | `Linking` |
| Collector (`collector.py`) | watermarks, the last value sent of each kind, whether the game was running | the poll loop, its two ways out | fact and watermark in one transaction; a session lost in mid-game | no spawn is reported twice or late, and the end of a game that this process announced is | `Collector` |
| Steam session helper (`adapters/steamsession.py`, `richpresence.py`) | child process, pump thread, the lines between them | `init`, `read`, `shutdown` | a helper that hangs, dies or answers late | one helper at most, and the AppID is let go of | `Collector` |
| Local sources (`adapters/mapinfo.py`, `rolexp.py`) | none | `spawn_events`, `read_role_xp` | files in the middle of a write | – | `Collector` (what a read may return) |
| Ruleset registry (`domain/rulesets/__init__.py`) | registered rulesets | `register`, `select` | builds claimed, unknown, missing | new rules leave earlier matches alone | `Pages` |
| History, analysis, XP, the drawn curve (`domain/history.py`, `analysis.py`, `api/app.py`, `downsample.py`) | none | filters, buckets, markers; selection and correlation; gains; downsampling | gaps in metadata, axes without spread, small limits | what is shown apart adds up | `Pages`, `PagesMC` (partly) |
| PC status (`agents.py`) | none | `describe` | clocks | – | not modelled (section 8) |
| Normalisation (`normalize.py`) | none | parsing | – | – | inputs of the models |
| Schema (`db/schema.py`) | – | migrations | – | the foreign keys are used by `Segmenter`, the unique keys by `Accounts` | partly |
| Wire protocol, the other REST routes, HTML, rest of the UI, benchmark, tools | – | – | – | – | not modelled (section 8) |

### How they interact

* **Calls.** The collector calls `Outbox.append`; the uplink calls `pending` and
  `ack`; `Ingest.ingest` calls `Segmenter.feed` for every new fact and
  `write_event` for every change, in one transaction.
* **Messages.** Three requests from agent to server (a batch, an empty batch as
  a heartbeat, a read of the cursor) and their answers; frames from the server
  to a page (`hello`, events, `resync`), and the page's queries. The collector and
  its Steam helper exchange lines over two pipes. An agent that is being linked
  asks for a code and polls; a browser goes to Google and comes back.
* **Shared state.** The outbox is shared by the uplink thread and, while the
  process ends, by `main()`. The database is shared by all server threads;
  writers hold one lock until the commit, readers hold nothing. The hub's queues
  belong to the event loop.
* **Callbacks.** `on_published` runs after the commit, outside the lock, and
  hands the events to the event loop with `call_soon_threadsafe`.

### What is hard

The list of hazards with their lines is in `PROJECT.json`. In short: answers
that are lost after the request took effect; requests that arrive after their
sender gave up; a server older than the agent's memory of it; a transaction that
is rolled back beside a memory that is not; a code that is used up by an answer
nobody received; a credential looked up before and used after its agent was
adopted; a child process that only dies when someone thinks of it; announcements
that happen after the commit they announce; a reader that combines several
queries into one answer; and thresholds, limits and bounded queues at their
boundary.

## 2. The modules

| module | what it is | uses |
|---|---|---|
| `FactStream` | what delivery promises: one stream, delivered in order and without holes, forgotten only once delivered | – |
| `Delivery` | outbox, uplink, network, gate and cursor; implements `FactStream` | `FactStream` |
| `DeliveryRestore` | `Delivery` with a server that is put back to a backup | `Delivery` |
| `DeliveryProofs` | theorems about `Delivery` and `DeliveryRestore` | `DeliveryRestore` |
| `LiveFeed` | log, hub, socket, page | – |
| `LiveFeedProofs` | theorems about `LiveFeed` | `LiveFeed` |
| `Segmenter` | matches and lives, the transaction around them, restarts | – |
| `SegmenterProofs` | theorems about `Segmenter` | `Segmenter` |
| `Ledger` | ruleset v1 and the engine, as operators | – |
| `DerivedCache` | answers while facts, corrections and rules move | – |
| `DomainMC` | gives `DerivedCache` its derivation, and states the ledger's properties over its readings | `DerivedCache`, `Ledger` |
| `SumProofs` | lemmas about sums over finite sets | – |
| `DomainProofs` | theorems about `DerivedCache` and `Ledger` | `DomainMC`, `SumProofs` |
| `Accounts` | people, addresses, accounts, sessions, the server's starts | – |
| `Linking` | `Accounts` with PCs, link codes, credentials, uploads | `Accounts` |
| `LinkingProofs` | theorems about `Linking`, and about who is signed in | `Linking` |
| `Collector` | the collector's thread, the helper that holds the Steam session, the game, the outbox's watermarks | – |
| `CollectorProofs` | theorems about `Collector` | `Collector` |
| `Pages` | what the pages compute, and `register` and `select`, as operators | – |
| `PagesMC` | the histories those operators are checked on, and the properties | `Pages` |
| `PagesProofs` | theorems about `Pages` | `PagesMC`, `SumProofs` |

The modules meet end to end. `Collector` shows which facts are recorded and
`Linking` that somebody's account takes them; `Delivery` shows that facts reach
`feed()` once each and in the agent's order; `Segmenter` starts from that.
`Segmenter` and `Ledger` show what is stored and derived; `LiveFeed` shows that
the page hears of it, `Pages` that what it then shows adds up.

### Delivery

A fact is its sequence number: what it says is of no consequence here.

| in the model | in the code |
|---|---|
| `outbox`, `nextSeq`, `ackedThrough` | the `outbox` table and the two `meta` rows |
| `pc`, `stage`, `batch`, `reply` per caller | where the uplink thread (`Uplink.run`) or `main()`'s last `drain()` is: `sync` is `sync_cursor`, `drain` is `flush_once`, `beat` is `heartbeat`; `sent` and `answered` split one `_request` into its three moments |
| `progress` | `moved` and `held` of one turn of `run` |
| `told` | `_told_server` is recent: `heartbeat_due` is false |
| `late` | requests whose sender has stopped waiting |
| `stored`, `cursor`, `fed` | `ingested_envelopes`, `agents.acked_through`, and how often `feed` saw each fact |
| `Append`, `Ack`, `Pending` | `Outbox.append`, `ack`, `pending` |
| `Ingest`, `WriteOff`, `Walk` | `Ingestor.ingest`, the gap closing and the walk of `_advance_cursor` |
| `Flushed`, `Settled`, `Accounted`, `Synced`, `Beaten` | what `flush_once`, `sync_cursor`, `heartbeat` do with an answer |
| `GiveUp`, `TornReply` | the exceptions of a request: those that `run` catches, and the one it does not |
| `Crash`, `Stop`, `DrainOnExit`, `Exit`, `Boot` | the life of the agent's process |

One transaction is one action; a request is three (it is sent, it is served, its
answer is acted upon), because other actors move in between. Back-off and
intervals are stutters: a timeout may strike whenever an answer is outstanding.
`DeliveryRestore` adds a backup that may be taken at any moment and restored at
any other, and a history variable of what any life of the server stored.

### LiveFeed

One page of one account; everybody else's events are one kind, `theirs`.

| in the model | in the code |
|---|---|
| `log`, `trimmed` | `api_events`: `"void"` is a number a rolled-back transaction consumed |
| `phase`, `unheard`, `sinceTrim` | the thread of an ingest and the one of a correction, between commit, `on_published` and `trim_events` |
| `loop` | callbacks scheduled by `call_soon_threadsafe` |
| `conn`, `current`, `oldest` | where the live route is in its handshake (`subscribe` and `latest`, `oldest`, hello) and what it has read |
| `queue`, `wire`, `replaying` | the socket's `asyncio.Queue`; frames in TCP; how many of them are hello and replay |
| `cursor`, `live`, `liveKey`, `fetch`, `snap` | `cursor.current`, `liveSamples`, `liveMatchKey`, the page's queries and what they brought |
| `Behind`, `Missed`, `Replay`, `Greet` | the handshake's decision and its answer |
| `Deliver`, `Fanout`, `Kept` | `Hub._deliver`, `Hub._fanout` and its filter (which the replay's WHERE clause repeats) |
| `ReceiveHello`, `ReceiveResync`, `ReceiveEvent`, `Plotted`, `LiveAfter` | the branches of `useLive`'s message handler |
| `Drop`, `Restart`, `FetchFail` | a socket that closes at any moment, its handshake and replay included; the server's process ends; a query fails (`live.ts:267`) |
| `overtaken`, `cutOff`, `passedBy`, `wanted`, `failed`, `untold` | history: events left behind by a thread that announced a higher number first; those lost with a replay whose hello had arrived; those overtaken when the connection broke; those a request was to bring, and did not; those the page was spared |

The lock is released at the commit and each thread announces afterwards, so that
both may have something to announce, in either order. The handshake reads the
database in the event loop, so nothing is fanned out
meanwhile, but threads commit. `wire` has a bound of its own (`WireSize`), after
which `send` blocks: that is what fills a queue.

### Segmenter

| in the model | in the code |
|---|---|
| `mem` | `AgentState`: streaks, open match, last poll, life, spawns seen, shape of the last poll kept |
| `db`, `work`, `nextId` | the rows as committed, as the transaction in progress sees them, and the identity column that no rollback takes back |
| `sent`, `resend` | the batch so far; the facts of batches that failed |
| `FeedPresence` = `AfterSilence`, `Confirm`, `Play`, `KeepPoll` | `_presence` from top to bottom |
| `FeedSpawn`, `FeedStatus` | `_spawn`, `_agent_status` |
| `Open`, `Close` | `_open_match`, `_close_match` |
| `Commit`, `Refuse`, `Rollback` | the end of `Database.write`'s transaction: committed, refused by a foreign key, failed otherwise |
| `Restart`, `Restored` | a new process and `restore()` |

The handlers are operators on one record of memory, rows and next identity, so
that a handler's calls compose in the order the code makes them. What decides no
boundary (map, faction, build, XP) is left out.

### Ledger, DerivedCache, DomainMC

`Ledger` has no state. Loops with a running total are sums over sets of
positions; the one loop whose turns depend on each other, the second loop of
`detect_kit`, is a function from the turn to its outcome (`Parts`). Readings
come from `load_readings`, which gives neither game state nor map: every stored
reading is in play and every adjustment is "unclassified".

`DerivedCache` follows one match. Its facts (`rows`, `closed`, `overrides`,
`rules`) are moved by `Ingest`, `Import`, `CloseMatch`, `SetOverride`,
`Restart`; a request goes through `ReadRow`, `ReadRevision`, `ReadOverrides`,
`ReadCache`, `Load`, `Write`, one query each, between which everything else may
move. A revision keeps the number of readings for the highest row identity, a
hash is what it is of, and the `rules` stand for version and fingerprint. What
a derivation computes is a CONSTANT operator: the proof holds for each, and the
run takes the one that hides least, whose view *is* its inputs.

`BoundedSpec` of `DomainMC` is `Spec` within the bounds of the run (section 3).
`DomainMC` runs the ledger over every match that `DerivedCache` can bring about,
so that the readings the properties quantify over come from actions and not from
a set written down for the purpose.

### Accounts and Linking

An account is the position of its row in `users`; a code and a credential are
the positions of theirs. Tokens and secrets are what they stand for.

| in the model | in the code |
|---|---|
| `address`, `Move` | Google: the verified address of a person, which a workspace may give to another at any moment (`db/schema.py:77-80`); `crossed` remembers that it did so while a sign-in with it was under way |
| `users`, `owner`, `archive` | the `users` table; `agents.user_id`; the `user_id` of matches and events written without a credential |
| `Start`, `EnsureOwner`, `Adopt` | `create_app` and `ensure_owner`, with `PROFITDOG_OWNER_EMAIL` chosen anew at every start |
| `tab[t].step` | where one `auth_callback` is: at Google, then before each of its queries and writes (`FindSubject`, `FindAddress`, `Upsert`, `CreateSession`) |
| `cookie` | the flow cookie, one per browser, which a second tab's login replaces |
| `Unique` | the two UNIQUE columns: a write that violates one is a 500 |
| `agentOf`, `file` | the agent id in the outbox; the sealed credential file, which may be there, absent or unreadable |
| `pc`, `call` | the agent before its threads start: `link()` polling, one exchange per code; afterwards `running` |
| `codes`, `creds` | `link_codes`, `agent_credentials` |
| `Redeem`, `Issue` | `redeem_link`, one transaction: its four refusals or waits, and the credential |
| `CheckUpload`, `StoreUpload` | `require_agent`, and `ingest` on a thread afterwards: revocations, starts and links come between |
| `unwelcome`, `Relink` | uploads are refused; a person starts the agent with `--relink` |
| `Crash`, `NewOutbox`, `Spoil`, `Expire`, `Revoke`, `Repeat` | process ends, outbox replaced, file no longer opened by Windows, code too old, credential revoked, poll delivered twice |

Two assumptions: approving the code of a PC that belongs to
somebody else is a mistake and counted as a fault; only the process that asked
for a code polls for it, because only it has the device secret.

### Collector

| in the model | in the code |
|---|---|
| `col`, `after` | where `Collector.run` is: the head of its loop, `init` waiting for the hello, `read` asking and receiving, reporting, `_release`, the wait without a game or after a loss, the `finally` |
| `session`, `helper` | `SteamSession` and its children, in the order of their start: what each is doing, whether Steam takes its process for the game, its stdin, the commands and lines in its pipes |
| `first` | the helpers of an earlier agent process have lower numbers: their pipes are closed |
| `Inits`, `Reads`, `ShutsDown`, `Dead` | `RichPresence.init`, `read`, `shutdown`; only the end of the process gives the AppID back, and `_pump` turns it into a last line |
| `Loses`, `Release`, `Finish`, `Kill` | `SessionLost` and the three steps of `shutdown`: end of file, wait, kill |
| `Report`, `EmitSpawn`, `EmitXp`, `EmitValues` | `_emit_presence`, `_emit_spawns`, `_emit_xp`, `_emit_map` (the same as experience on another value) |
| `stamps` | the times of the game's spawns: a list, in which two may have one time |
| `mark`, `xpSent` | the watermarks in `meta`, written in the transaction of their fact; a poll compares with the mark as it was before the poll |
| `status`, `opener` | the last `agent_status` that opens or ends a match (`"started"` does neither, `segmentation.py:381`), and the helper whose session announced the last game |
| `Raise`, `Finally` | an exception of a source or the outbox, which `run` does not catch; `stopped`, then the release |
| `Leave`, `Crash`, `Boot` | `main()` waits five seconds for its threads; the process is killed; it is started again, and knows nothing of a game that an earlier process announced |

A timeout is a failure when the helper was merely slow, and free when it is
stuck, so the number of slow answers is bounded and the number of stuck ones is
that of the failures.

### Pages, PagesMC

`Pages` has no state; its operators are sums, sets of positions and selections,
and functions of the turn for the loops that filter, group and mark.
Lengths are whole minutes and a quotient is a whole one; `|r| < 1/5` is compared
by multiplying out, so there is no rounding. `PagesMC` gives each operator its
input by actions (a match is played, a life ended, experience read, a reading
filed, a ruleset learned) so that everything quantified over is a history the
system can have: matches in order, polls in time, experience of one role of one
PC, a first ruleset that is in force from the beginning.

## 3. The runs

| run | asks | instance |
|---|---|---|
| `delivery` | is a fact ever lost or applied twice; does `Delivery` implement `FactStream`, which has order and honest acknowledgement in it | 4 facts, batches of 2, walk of 3, 3 faults, 1 late batch |
| `delivery_restore` | does the cursor stay honest and free after a restore; does everything arrive in the end | 4 facts, 2 faults, 1 late batch, liveness |
| `live_feed` | does the page ever forget or miss what it was told, but in the three ways it may; does it see only its own; is the match it calls live the one being played | 3 events of all kinds, one to a transaction, queue of 1, replay of 1, log of 2, 2 faults |
| `live_feed_catches_up` | does it catch up in the end | 2 events, batches of 2, queue of 1, replay of 2, 3 faults, liveness |
| `segmenter` | are readings, lives and matches cut soundly through failures and restarts | polls up to time 5, thresholds of 2, batches of 2, 2 faults |
| `domain` | do the books balance, whatever was bought and corrected; is a cached row ever stale undetected, an answer ever from no time | up to 5 readings, 2 lives, 4 balances, 3 prices; where somebody asks or corrects 3 readings, 2 readers, 2 editions of the rules, 2 changes |
| `linking` | is anybody ever in another's account; does an agent ever report into two; is a PC ever left without a way back | 2 people, 2 addresses, 1 browser with 2 tabs, 2 sign-ins, 1 address that moves, 2 agent ids, 1 PC, 1 failure, liveness |
| `collector` | is a helper ever left behind or its answer mistaken; is a spawn reported twice; is the end of a game that was announced announced too | 2 games, 2 spawns, 1 change of the save file, 2 helpers, 2 failures, liveness |
| `pages` | does what the pages show apart add up; do new rules leave earlier matches alone | 3 matches, 5 lives, 4 experience rows, 6 readings, 4 rulesets |
| `uplink_dies`, `segmenter_retry`, `live_feed_blind` | sentences of the repository that the code does not keep (section 5) | as small as shows it |

Why the bounds are enough for the cases to happen:

* **Delivery.** With batches of 2 and a walk of 3, four facts make two full
  batches; the walk reaches its limit before the stored numbers do. Three faults
  allow for a lost answer, a crash with the request still on its way, and a
  shutdown. One late batch is enough to arrive between two newer ones; in
  `delivery_restore` it arrives after a restore and in front of the agent's own
  first batch. What does not depend on the bounds is proved (section 6).
* **LiveFeed.** A queue of one overflows at the second event, a replay of one
  makes a gap of two too wide, a log of two is trimmed past a disconnected
  page's cursor. Three events are a start, a reading or a correction and an end,
  or two of these around a hole; two of them are announced in the wrong order.
  Two faults are what it takes to lose part of a replay: a connection that
  breaks before and one that breaks in it. `live_feed_catches_up` has a third,
  and a replay of two, so that one may be cut in its middle; that nothing is
  skipped does not depend on the bounds, it is proved. `RetentionAssumption`
  states what the code's numbers (2,000 replayed, 20,000 retained) give: what
  may be replayed is never trimmed during one handshake.
* **Segmenter.** With both thresholds at 2 a streak can begin, be broken and be
  reached; time 5 holds a match, an outage and a second match; a batch of 2 can
  open a match and put a reading into it, which is what a rollback must undo.
  Every poll is either in time or after an outage: a silence is longer than
  `StaleGap` or it is not, and nothing else about it is ever looked at.
* **Ledger.** Five readings hold a purchase in two instalments, a rise, a
  respawn, and a purchase between two lives. Balances 0..3 and prices 0, 1 and 4
  stand for no correction, one below what a life spent, and one above all it
  can have spent. Steps of 1 and 2 around `MAX_PART_GAP_SEC = 1` are at the
  border and beyond it.
* **DerivedCache.** Two readers are what an overwritten row takes; two changes
  are a correction and its withdrawal, or other rules and the old ones again.
  One run checks both modules: a match may be any as long as nobody asks about it or
  corrects it (`Alone`), and is otherwise one of three readings of one balance
  (`Short`), because the cache sees no more of the readings than how many there
  are and what they add up to.
  The number of readers and of changes is unbounded in the proof of the main
  properties.
* **Linking.** Two tabs and two sign-ins are what it takes to decide on one row
  twice; two people and one moved address, for a row to be found under an
  address that is no longer its person's. Two agent ids let one PC come back as
  another; one PC is enough for two codes of one agent, because a process that
  ends leaves its code behind, approved or not. One failure is one lost
  answer, one crash, one revocation, or one mistaken approval: liveness asks what
  becomes of a PC after each. Safety does not depend on the
  bounds: it is proved (section 6).
* **Collector.** A second helper is the claim after a loss; a second game is
  what a session may be carried into by mistake; two spawns, that one of a
  poll's is written and the agent dies before the next, which may have the same
  time. Two failures are a stuck helper and a crash, or two helpers lost one
  after the other. When all helpers are used up a claim fails, as it does when
  Steam does not run.
* **Pages.** Three matches make a build known, unknown and known again; five
  lives, four points (`MIN_POINTS`) and one left out; six readings, two buckets
  with readings at and around their border; four rulesets, two that claim builds
  between two that do not. Every behaviour fills one store, because no
  operator looks at two.

The switches (`GapWriteOff`, `TornReplies`, `MayFail`) say of a run which faults
it allows; `GapWriteOff` is there for the older server without the gap closing,
which wedges. `LiveFeed` has none.
Properties that are proved for every value of the constants (section 6) are not
repeated in a run when another property of the run needs them to hold anyway:
`TypeOK`, `AckIsStored` and `AppliedInOrder` of `Delivery`, `TypeOK` of
`DerivedCache`, `LinkTypeOK`, `CredentialsFollowOwner`, `CodesAreSingleUse` and
`OwnersStay` of `Linking`. That every fact arrives needs no property of its own:
`OutboxDrains` says the queue runs empty, and `ForgottenWasStored` that nothing
leaves it otherwise than by being stored.
`CHECK_DEADLOCK FALSE` is given where the model comes to rest because its bounds
are used up: no more facts, no more faults, nobody asking, a history complete.

## 4. Fairness

Fairness is weak throughout and never given to what people, the game or failures
do: no fact has to be recorded, no one has to play, correct a price or
stop the agent.

* `RestoreFairSpec`: the steps of each caller (threads are scheduled, and every
  wait of `run` is bounded by `MAX_BACKOFF_SEC`), `Serve` (a request that reaches
  a running server is answered, or one of the finitely many faults strikes first),
  `Boot` (the agent is started with the PC), `DrainOnExit` and `Exit` (`main()`
  waits at most five seconds for its threads). Late batches have none: they may
  never arrive. Faults are finite, as any liveness under failures requires: with
  a network that always fails nothing arrives, and the code promises nothing else.
* `FairSpec` of `LiveFeed`: publishing, trimming, fan-out, handshake, sending,
  receiving, the page's requests, which are answered unless one of finitely many
  faults strikes. The page reconnects for ever with a bounded
  back-off (`live.ts`), which is what fairness of `Connect` says. Commits,
  disconnections, restarts and failing requests have none.
* `FairSpec` of `Linking`: the server is started again when it is down
  (`Start`); the steps of a link in progress, each of which has a timeout or a
  deadline (`Poll`, `PollAnswered`, `PollLost`, `GiveUp`, and `Redeem` for a
  poll that its sender still waits for); uploads (`CheckUpload`, `StoreUpload`).
  Nothing in the code starts an agent that has ended, or starts one that is
  refused with `--relink`: that is the person's, and no part of the
  specification. It is a hypothesis of the property (`PersonActs`): for a PC
  whose person starts it and does what it says, `NobodyIsStranded` shows that
  this leads out of every lost answer, used up code, revoked credential and
  replaced outbox; of a PC whose person does not it says nothing. Nobody has to
  sign in or approve anything: the property is content with a PC that shows a
  code which is still good.
* `FairSpec` of `Collector`: the collector's thread, `main()`'s way out, and the
  steps of each helper that is not stuck. A call into Steam that is stuck may stay
  so, nobody has to play, and nobody has to start the agent again.

## 5. Where the code and what is said of it differ

Each of the first three is a run whose property is the quoted sentence and which
finds it violated; `PROJECT.json` has them under `findings`.

1. **`uplink_dies`.** *"Never raises"* (`Uplink.run`). An answer that breaks off
   in its body is `http.client.IncompleteRead`, which is none of the three
   exceptions the loop catches. The thread ends; the collector goes on and facts
   queue until the agent is restarted. `sync_cursor` is safe: both of its callers
   catch everything.
2. **`segmenter_retry`.** *"Commits together or not at all"* (`ingest.py`). The
   rows do, the memory does not: a match opened by a batch that is rolled back
   stays open in memory under an identity whose row is gone. The batch is sent
   again, its first reading refers to that identity, the foreign key refuses it,
   and so every time until the server is restarted. This is why `MemoryAgrees`,
   and the second half of `LivesInOrder`, are stated for histories in which no
   transaction failed.
3. **`live_feed_blind`.** A client that remembers the last number it saw *"knows
   exactly where it is"* (`live.ts:20-22`), and *"Serialising writers removes
   that window rather than narrowing it"* (`db/database.py:25-28`, of a client
   that saw the higher number and is blind to the lower). The lock is released
   at the commit and events are announced after it (`ingest.py:352-354`,
   `518-519`), so that a reading can be announced before a correction that was
   committed before it. A page that was sent the higher number and then lost its
   connection does not ask for the lower one (`passedBy`). There are two more
   ways to lose an event that lies below the cursor, which the run leaves to
   `live_feed`. The `hello` carries the latest number, and the page takes it as
   its cursor (`live.ts:142`) before the replay it announces has arrived; a
   connection that breaks in between takes the rest of the gap with it
   (`cutOff`). And a request that fails after an event was received leaves the
   old snapshot on the page; nothing asks again until the next structural event
   (`live.ts:267`, `failed`). `NothingSkipped`, `NothingMissedLive` and
   `PageCatchesUp` say that nothing is lost in any other way, on every schedule.

More sentences are too strong, and the models say where. They have no run of
their own; the runs check what does hold.

* *"Everything the backup lost is still in the outbox waiting to be sent again"*
  (`uplink.py:42-46`). What was stored and acknowledged after the backup was
  taken is deleted from the outbox, and the backup lacks it. What holds is
  `ForgottenWasStored`, `CursorHonest` and `CursorNotWedged`: nothing
  unacknowledged is lost, and the cursor neither lies nor gets stuck.
* *"Its life count is still the number of lives it has"*
  (`segmentation.py:20-21`, of a restart in mid-match). `restore()` takes the
  highest life of the *readings* (`segmentation.py:119`); a spawn stored after
  the last reading is not counted, and the lives that follow are numbered one
  too low. They stay in order, which is what `LivesInOrder` says.
* *"That row is claimed"*, of *"a row that has no subject yet"*
  (`auth.py:229-231`). The row is looked for in one query and claimed in a later
  transaction whose `WHERE` names the id and not `google_sub IS NULL`
  (`auth.py:253-263`). When the address changes hands in between and its new
  holder signs in first, the earlier callback writes its subject over theirs,
  and the account with all that is in it is another person's.
  `SignedInAsOneself` and `AccountsKeepPeople` therefore end with the first
  address that changes hands while a sign-in with it is under way (`crossed`);
  the window is the time between two requests of one callback.
* *"Never longer than `limit`"* (`downsample.py:35-36`) fails for the limits 2
  and 3, which the route admits (`api/app.py:485`): there is one bucket at
  least, whose lowest and highest point come to the two ends, up to four in all.
  `ShapeSurvives` bounds the number of points from a limit of four on.

Seen while modelling, and without a run of their own because the repository does
not say otherwise, or because the model takes the other side as its assumption:

* After a `resync` the page keeps `liveMatchKey`; if the end of the match was
  among the events it was spared, a finished match is shown as live until the
  next one starts (`live.ts:144-157`). `LiveKeyIsCurrent` speaks of the events the
  page was told.
* A game that was announced by a process that has ended is announced over by
  nobody: a new process begins with `game_was_running = False`
  (`collector.py:224-225`), and `"started"` ends nothing
  (`segmentation.py:381`). The match is closed when readings come after a gap.
  `EndIsReported` is for games that the running process has announced.
* The fingerprint of a ruleset covers the ruleset's own module. An edit of
  `engine.py` or `normalize.py` that changes what is derived leaves cached rows
  in use. `DerivedCache` takes those to be the same in every edition, as the code
  does.
* The match of an agent that never returns stays open: only a later fact of the
  same agent closes it.
* `link()`'s poll does not catch the exception of a server that cannot be reached
  for a moment, so that a link someone is approving ends (`linking.py:111`); and
  the answer to the successful poll, if it is lost, leaves the code consumed and
  the PC without a credential (`auth.py:599`). Neither strands the PC: it is
  started again and shows a new code.
* `users.email` is UNIQUE, so an address is a key after all, although the schema
  says *"never as the key"* (`schema.py:77-80`). When an address has moved to
  somebody new while the old row still has it, or two first sign-ins of one
  person meet, the write violates a constraint that `auth_callback` does not
  catch, and the answer is a 500. `SignedInAsOneself` holds because of that key;
  the person at the new address cannot sign in until the other has signed in
  under another address.
* The collector's `finally` reports `stopped` before it releases the session
  (`collector.py:283-285`). An outbox that does not take the fact keeps the helper
  alive as long as the agent's process. More generally an exception of a source
  ends the collector's thread, while the process goes on with its uplink: `main()`
  waits as long as any of its threads lives.
* `main()` waits five seconds; the collector may be waiting fifteen for a read or
  thirty for a hello. A helper that is stuck in a call into Steam then survives
  the agent. `AppIDIsFreed` leaves out both this and the state before.
* A helper that is killed during `init`, or two that are in it at once, leave
  `steam_appid.txt` behind (`richpresence.py:459-491`).
* A spawn is passed over when the breadcrumb files turn over between two polls:
  the watermark is the time of a later one. `SpawnsOnce` says that none is
  reported twice or late, not that each is. The same goes for the second of two with
  one time when the agent dies between them (`collector.py:142-147`).
* The experience of all PCs of an account is one sequence of totals
  (`api/app.py:573-595`): with two PCs that read different save files the
  differences are between the files. `XpAddsUp` is for one PC.
* Where two rulesets claim one build, the earlier wins (`select`); nothing
  refuses the second.
* `analysis.py` compares a sum of squares with 0 in floating point: an axis
  whose values are equal but not representable may be taken to have spread. The
  model computes with whole numbers, there as where `analysis.py:121` divides
  (rounded down) and where `v1.py:573` cuts a fractional price to a whole one
  (prices are whole).
* A bucket of the history is keyed by the beginning of its day or week with the UTC
  offset of the match (`history.py:121-156`), so that one with a clock change
  becomes two. In `Pages` a day is a number.

## 6. What is proved

The proofs are for every value of the constants, with the named assumptions
of the modules and nothing else.

### Delivery (`DeliveryProofs`)

| theorem | says |
|---|---|
| `TypeCorrect` | `Spec => []TypeOK` |
| `NothingIsLost` | `Spec => []NothingLost` |
| `EffectsHappenOnce` | `Spec => []ExactlyOnce` |
| `AcksAreHonest` | `Spec => []AckIsStored` |
| `FactsAreAppliedInOrder` | `Spec => AppliedInOrder` |
| `DeliveryImplementsStream` | `Spec => ImplementsStream`, the refinement |

None of the properties is inductive: from a state in which only `NothingLost`
holds, an answer that names a number the server does not have would delete a
fact. The inductive invariant says what both ends look like:

* `OutboxInv`: the outbox is the interval from `ackedThrough + 1` to
  `nextSeq - 1`. It never has a hole, which is why a batch is a piece of the
  stream and why deleting up to a number deletes what the number says.
* `ServerInv`: what is stored is `1..cursor`, the cursor is between
  `ackedThrough` and `nextSeq`, and each stored fact was fed once.
* `CallInv`, `LateInv`: every batch on its way, or abandoned and still on its way,
  is an interval no longer than `BatchSize` that begins no later than just
  after the cursor; an answer that waits to be acted upon names no number
  above the cursor, and by then the batch it answers is stored.

`IntervalEnds`, `PendingIsHead` and `WalkPrefix` are about the operators: the
`BatchSize` lowest members of an interval are its beginning; a walk over `1..n`
that starts at most `WalkLimit` below `n` ends at `n`. The heart is
`IngestExtends`: a batch of that form, however late, leaves the server with a
longer prefix or the same one. That is where `BatchSize <= WalkLimit`
(`WalkAssumption`) is used: the walk must reach the end of a batch, or the
stored numbers would run ahead of the cursor. The code has 500 and 50,000.
Everything the theorems say follows from `IInv`; the refinement takes, for
every action, the step of `FactStream` it is, most of them none.

Assumptions: `MaxSeqAssumption`, `BatchAssumption`, `WalkAssumption`,
`SwitchAssumption`, `BoundsAssumption`, each a type or the inequality above.

### A server put back to a backup (`DeliveryProofs`)

| theorem | says |
|---|---|
| `ForgottenWasOnceStored` | `RestoreSpec => []ForgottenWasStored` |
| `WriteOffIsHonest` | `RestoreSpec => []CursorHonest` |
| `CursorIsNeverWedged` | `GapWriteOff` gives `RestoreSpec => []CursorNotWedged` |
| `EffectsHappenOnceInEachLife` | `RestoreSpec => []ExactlyOnce` |

Nothing of `ServerInv` survives a restore: the server holds no prefix any more,
and a batch of its former life may begin above where the cursor now is. What the
invariant `RInv` says instead is about the agent:

* `QueueInv`: the outbox is still an interval, and what is below it some life of
  the server stored;
* `LivesInv`: the database of now and the backup are each such that a number up
  to the cursor is stored or let go of by the agent, and what is stored was fed
  once (`Life`). It is said of both, because a restore makes one of the other;
* `ExchangeInv`, `UnderWayInv`: a batch, whichever life it was sent to, begins at
  or below the head of the queue (`Piece`). What the server writes off below a
  batch is therefore below the queue. This is the reason why `_advance_cursor`
  may write off a gap it cannot know anything about, and it is why the agent
  must always send from its head.

`CursorIsNeverWedged` is the only one that needs the gap closing; with the older
server (`GapWriteOff` off) it is false and the others hold.

### Derived cache (`DomainProofs`)

| theorem | says |
|---|---|
| `TypeCorrect` | `Spec => []TypeOK`; part of it is that only closed matches are cached |
| `CacheHonesty` | `Spec => []CacheIsHonest` |
| `AnswersCurrency` | `Spec => []AnswersAreCurrent` |

The obvious invariant, that a row's view is what its key says, is false: the
readings are loaded by a later query than the revision they are filed under,
and an import may come between. `Honest` says instead (`Filed`) that a key's
number of readings is never ahead of the facts, and that if it is not behind
them either, the view is theirs. A row whose view is ahead of its key is then
behind the facts, and since readings are only added, the number never
comes again: no request asks for such a key any more. Of the
key only the number of readings is used; the sum adds nothing the proof needs.
`imported => closed` carries the other half: an agent's match gets no reading
after it is closed, and an open match is never written.

`AnswersCurrency` has an invariant of its own, `Current`, about what moved since
a request began: at each of its steps, what it has read so far it read at some
moment of the request (`Witnessed`), and the number of readings a revision gives
is one of those the request saw. A cached row comes from another request; that
its view is of the readings its key counts is `RowWasLoaded`, a fact about the
past of the row which no other property states.

`Derive` is a CONSTANT operator, so the theorems are about every ruleset.
Assumptions: `BoundsAssumption`, `InputsAssumption`.

### The ledger (`DomainProofs`, `SumProofs`)

| theorem | says |
|---|---|
| `LedgerBalances` | `Spec => []BooksBalance` |
| `BucketsPartition` | `Spec => []OneBucketEach` |
| `KitsArePurchases` | `Spec => []KitIsOnePurchase` |
| `HistoryIsSettled` | `Spec => []EarlierLivesStay` |

These hold of every match: any number of readings, of any balances, at any
times, with any gap of instalments (`Rules` are whole numbers) and any prices
typed in. They are statements about what the ledger makes of one state's
readings; of the behaviour they need only that the readings are typed and the
lives never count down (`TypeOK`).

* **The kit.** `Found` is the loop invariant of `detect_kit`: each fall before
  the last instalment is joined by the next one, within the gap and with no rise
  in between (`JoinedBy`); while the loop looks for more, nothing has happened
  since; once it does not, the next fall joins no more. `FoundStep` is one turn,
  `FoundAll` all of them.
* **Where lives lie.** The lives cover the readings (`LivesCover`) and share none
  (`OneLifeEach`); the reading a life's money is counted from is one of its own
  or the last of the life before, and its kit ends among its own (`LifeShape`). A
  change between two readings is therefore kit or trade of the later reading's
  life, or lies between the two lives, which is `OneBucketEach`.
* **The sums.** Inside a life the trades are the rises less the falls
  (`TradeBalance`); the net of each life and what lies between it and the one
  before telescope, start by start, to the difference of the last and the first
  balance (`StartsSum`, `NetIs`, `LedgerSums`).
* **Corrections.** A price moves an amount between `kit` and `other` and never
  more than was spent (`Repriced`, `PricedFacts`); what the view adds up is the
  sum of its lives' (`ViewSums`).
* **A further reading.** Two matches of which one begins like the other agree on
  every life that ends before they part (`LifeAgrees`, `EarlierStays`). When the
  new reading begins a life, that is every life there was, in all its figures;
  when it carries one on, every other one, and the price of that one is settled
  once it has gained something (`KitStays`).

`SumProofs` carries the sums. The library's folds choose an element at each turn
by CHOOSE, so nothing follows from their definition at once: `SumIsFold` shows
that the fold exists, `SumWithout` and `SumAdd` that the order does not matter,
`SumPlus`, `SumImage`, `SumSplit` and `SumSupport` what the proofs add up with.
Assumptions: `BoundsAssumption`, `InputsAssumption`, `RulesAssumption`.

### What the pages show (`PagesProofs`, `SumProofs`)

| theorem | says |
|---|---|
| `HistoryBalances` | `Spec => []HistoryAddsUp` |
| `MarkersAreHonest` | `Spec => []MarkersAreChanges` |
| `AnalysisBalances` | `Spec => []AnalysisAddsUp` |
| `XpBalances` | `Spec => []XpAddsUp` |
| `PeaksSurvive` | `Spec => []ShapeSurvives` |
| `OldRulesStay` | `Spec => RulesStay` |

The invariant `PagesTyped` is about the stores: sequences of any length whose
records hold any amounts, readings in the order of their times (`InTime`), and
some rules that are in force from the beginning (`SomeFirst`). What a page
computes is shown for every such store by the loop invariants of the functions:

* `Grown`, of `build_buckets`: after match `k` the buckets are separate, hold
  every match that has a key seen so far (`Covered`) and their totals, and the
  last one's line is at what they come to. A match whose key is new opens a
  bucket with all matches of that key. That the totals of separate buckets add
  up is `SeparateSum`, for any measure that adds over separate sets (`Additive`).
* `LastKnown`, of `build_markers`: what is remembered is the build of the last
  bucket that had one, however many had none since.
* `EachLifeOnce` and `MomentsExchanged`: a metric is a number or one of three
  reasons, so that those drawn and those left out for each reason are separate;
  exchanging the axes exchanges the moments and keeps `sxy`.
* `GainsTelescope`: the gains of the rows with totals come to the last total
  less the first, whatever matches they belong to; `GainsNonneg` is where the
  condition enters that the save file was not set back.
* `StepThere` and `Apart`: every reading between the ends falls into one bucket,
    two in one bucket are no further apart than it is wide. `ShapeStays` holds for
  every limit from 2 on, and counts what is drawn for those from 4 on.
* `InsertIs` and `SelectStays`: registering puts the new rules at one position
  and moves the others up together; rules that do not claim a build and were not
  in force do not come between those that are asked. Where among the others they
  are put does not matter to it.

Assumption: `NoneAssumption`, that the value that stands for nothing is none of
the others.

### Linking (`LinkingProofs`)

| theorem | says |
|---|---|
| `TypeCorrect` | `Spec => []LinkTypeOK`: what a PC, a code, a credential or a sign-in refers to is a row that is there |
| `CredentialsAreTheOwners` | `Spec => []CredentialsFollowOwner` |
| `UploadsAreTheOwners` | `Spec => []UploadsFollowOwner` |
| `CodesAreUsedOnce` | `Spec => []CodesAreSingleUse` |
| `OwnersAreKept` | `Spec => OwnersStay`, of every step |

An upload is authorised by one query and stored by a later transaction, a code
is approved long before it is redeemed, and a start of the server in between may
adopt the agent. `UploadsFollowOwner` alone is not inductive: the credential that
was looked up might stand for anybody. The invariant `IInv` adds

* `CredentialsFollowOwner`, so that whatever was looked up stands for the owner;
  it is kept because `redeem_link` issues to an owner or to the first one, and
  because nothing (`OwnersStay`) replaces an owner, so that time between the two
  steps of an upload is harmless;
* `IssuedForSpent`: a credential's code is used up, which gives
  `CodesAreSingleUse` when a code that is not used up is redeemed;
* `RunningWithCredential`: a running agent has a credential, whatever became of
  its file since;
* `LinkTypeOK`: all of these are rows that are there.

There is one lemma per action or group of actions that touch the same variables
(`AccountStep`, `IssueStep`, `RedeemStep`, `StoreUploadStep`, ...), and
`LinksGrow`, `AppendProperties` and `RowWritten` say once what appending and
rewriting a row does to the rest. Assumptions: `PeopleAssumption`,
`AddressAssumption`, `AgentsAssumption`, `SettingsAssumption`,
`BoundsAssumption`: types, and that there are an agent and an address for
everyone.

### Signing in (`LinkingProofs`)

| theorem | says |
|---|---|
| `EverybodyIsOneself` | `Spec => []SignedInAsOneself` |
| `AccountsKeepPeople` | `Spec => [][~crossed => PeopleStay]_vars`: no row that has a subject gets another |

A callback decides on a row in one transaction and writes it in another. The
invariant `Vetted` says of every sign-in under way what it has read that is
still so (`Agrees`): Google's address for the person; for a known subject, that
the row is that person's; for a row to be claimed by its address, that it has
that address still and nobody else's subject. That a second person may not have
claimed it in between rests on addresses being one person's at a time
(`OneHolderEach`), and on the address not having moved since it was read.
Addresses may move at any moment; when one does while a sign-in with it is under
way, nothing in the code keeps `Vetted` (section 5), so the invariant is
`Settled`, which is `crossed \/ Vetted`, and both theorems, like the property,
speak of the time before that. That the row found earlier is still that person's
rests on `PeopleStay`. The types and the assumptions are those of the section
above.

### Collector (`CollectorProofs`)

| theorem | says |
|---|---|
| `TypeCorrect` | `Spec => []TypeOK` |
| `NobodyLeftBehind` | `Spec => []NoneLeftBehind` |
| `AnswersMatchQuestions` | `Spec => []AskedAlone` |
| `SpawnsReportedOnce` | `Spec => []SpawnsOnce` |

Lines between the collector and its helper carry no numbers, so that an answer
belongs to its question must follow from the order of things. `Talks` says what
a helper has said and has still to say for each place the collector's thread can
be at: while a hello is awaited at most the hello (`Greeting`), while an answer
is awaited at most one answer to one question (`Polled`), otherwise nothing at
all (`Resting`), and in each case the last line once the process is gone
(`Says`). It is inductive because every answer that does not come in time costs
the session its helper. `Marked` puts the watermark between what is reported and
what is still to be reported of a poll, where two of one time may lie on either
side of it; `SpawnsOnce` alone says nothing of the next report. Assumption:
`BoundsAssumption`.

### Segmenter (`SegmenterProofs`)

| theorem | says |
|---|---|
| `TypeCorrect` | `Spec => []TypeOK` |
| `ReadingsStayInside` | `Spec => []ReadingsInside` |
| `MatchesNotStretched` | `Spec => []NotStretched` |
| `LivesAreInOrder` | `Spec => []LivesInOrder` |
| `MemoryAndRowsAgree` | `Spec => []MemoryAgrees` |

A transaction that fails takes the rows back and leaves the memory. The memory
has then to be right about two versions of the rows: those of the transaction
and those it may be thrown back to. The invariant `Segmented` says what holds of
both, and only while no transaction failed that they agree:

* `FactsInv`: the facts that wait for the end of the transaction or come again
  after one that failed are in the order of their times, and none of them is
  older than the rows it will meet. A retry repeats facts the memory has seen
  already, never facts the rows have;
* `RowsInv`: the rows of both versions are in order (`Tidy`): readings inside
  their match, none on both sides of a silence, lives that never count down;
* `MemoryInv`: the memory is not behind either version, nor past a silence they
  end at (`Beside`). Its open match may be one that is not there any more;
* `AgreedInv`: while no transaction failed, memory and rows agree exactly.

Each handler is proved once against one contract (`Fed`): given an order between
memory, rows and fact, it leaves the same order. `feed` is their composition, so
the proof follows the calls of the code. Assumptions: `RulesAssumption`,
`BoundsAssumption`: thresholds, bounds and batches are numbers, the thresholds
not 0.

### LiveFeed (`LiveFeedProofs`)

| theorem | says |
|---|---|
| `TypeCorrect` | `Spec => []TypeOK` |
| `OnlyOwnIsTold` | `Spec => []OnlyOwnAndStored` |
| `NothingIsSkipped` | `Spec => []NothingSkipped` |
| `NothingIsMissedLive` | `Spec => []NothingMissedLive` |

No schedule is excluded: threads announce in any order, connections break
anywhere, requests fail. Queues, replays, logs and batches may have any size, so
that overflow, resync and trimming are all in the proof. What such schedules may
cost, and all that they may cost, is in the properties: an event is exempt once
it is in `cutOff`, `passedBy` or `failed`.

`NothingSkipped` speaks of the cursor, and a message that is received moves it:
to be inductive it has to speak of what the page is about to be told, too. An
event the page is owed is in one of a chain of places: in the log after the
number a handshake has read, in what a thread has committed and not announced,
in a callback, in the socket's queue, on the wire, or on the page. `Followed` is
`Placed /\ Told`. `Placed` is where things are:

* `Framed` (types, and what the frames name: every event in the queue, on the wire
  or on the page is the account's own and stored; a hello is a first frame);
* `RiseInv`: what is about to be announced is in its order, or its lower part is
  marked as overtaken (`InTurn`). This is where the order of announcements
  enters;
* `RetainedInv`: what is trimmed lies `Retention` below something stored, and a
  handshake is no further than `HandshakeCommits` behind, so that what it may
  have to replay is there (`RetentionAssumption`);
* `CursorInv`: a page has a cursor once it has had a hello, and before that it
  shows nothing live; `WantedInv`: what a request is to bring.

`Told` is what follows for an owed event. It is `Safe` when it is shown, wanted
of a request or lost. At or below the cursor it is that, or on its way
(`CursorTold`, `DrawnShown`); on an open connection it is that or somewhere on
the chain (`SocketHears`, and `HandshakeHears` before that); and nothing on the
wire or in the queue comes before an event the page needs first, unless that one
was overtaken (`WireOrder`, `QueueOrder`, `ReplayWhole`). A `resync` counts for
every event.

That the match a page calls live is the one being played (`LiveKeyIsCurrent`) is
checked and not proved.

The filter (`KeptFacts`) and the largest member of a bounded set (`LargestMember`)
have lemmas of their own; the filter is a recursive function,
because the provers cannot expand the library's `SelectSeq`.
Assumptions: `PublishedAssumption`, `SizesAssumption`, `RetentionAssumption`.

## 7. What is only model-checked

* **Liveness** (`OutboxDrains`, `AnnouncesItself`, `PageCatchesUp`,
  `NobodyIsStranded`, `AppIDIsFreed`, `EndIsReported`): fairness and ENABLED are
  out of the prover's reach.
* **`LiveKeyIsCurrent`**: the page sets and clears the live match by the order
  of events, so that its proof would need of every schedule in what order each
  event is told.

Every other invariant and action property of a passing run is proved. What the
proofs of the ledger and the pages rest on instead of the library's induction
theorems is in `SumProofs`: `SubsetInduction` and `IntervalInduction` take a
set of the values for which something holds, where those take an operator.

## 8. What is not modelled, and why

* **PC status** (`agents.py`): one comparison of a row with a clock, for a page.
* **`steam_appid.txt`, the DLL and its versions** (`richpresence.py`): files and
  foreign calls; what `init` and `read` may come to is modelled.
* **The rest of the history and analysis pages**: labels, captions, the best
  match, paging.
* **Sweeps of old codes and sessions, times of last use**: nothing depends on
  them.
* **Conversions** (`normalize.py`, the adapters, the wire dataclasses): they
  parse and print. What they return is an input of the models; a profit that does
  not parse is `garbled` in `Segmenter`.
* **Clocks that are set back**: time only advances in `Segmenter`. With a clock
  that goes back, readings of one match can collide and are dropped
  (`segmentation.py:240`).
* **Several server processes**: one owns the database, and its writers hold one
  lock.
* **Backup of the published log**: restoring is modelled for facts only. A page
  that is ahead of a restored log is recognised only until the server has handed
  out the numbers the page has already seen (`api/app.py:655`).
* **A page's first load**: events between its first queries and its first
  `hello` are in neither; `Promised` begins with the `hello`.
* **REST routes, pages, the rest of the UI, benchmark, tools, build files**:
  queries, configuration, HTML, rendering.

## 9. Plan

In this order:

1. **LiveRestore**: the published log restored from a backup, with a page ahead
   of it.
2. **Abstract specifications**: a published log that a page follows (for
   `LiveFeed`), an ordered set of disjoint matches (for `Segmenter`), an account
   as a set of people, agents and facts (for `Linking`).
3. **Composition**: `Collector`'s facts as the inputs of `Segmenter`, whose guard
   on older spawns is the other half of `SpawnsOnce`.
