----------------------------- MODULE Collector -----------------------------
(***************************************************************************)
(* The collector (collector.py), the child process that holds the Steam    *)
(* session for it (adapters/steamsession.py, richpresence.py), and what    *)
(* they read: the game's process, its breadcrumbs and its save file.       *)
(*                                                                         *)
(* While a process is registered with Steam under the game's AppID, Steam  *)
(* takes the game to be running.  Only the end of that process undoes it,  *)
(* so the collector keeps a helper for it, and must never leave one behind.*)
(* The parent and the child share two pipes and nothing else; a helper is  *)
(* its position in the order in which helpers were started.                *)
(***************************************************************************)
EXTENDS Naturals, Sequences

CONSTANTS
  MaxGames,    \* bound: how often the game is started
  MaxSpawns,   \* bound: spawns in the breadcrumbs
  MaxXp,       \* bound: changes of the save file
  MaxHelpers,  \* bound: helpers that can be started
  MaxFaults    \* bound: failures

ASSUME BoundsAssumption ==
  {MaxGames, MaxSpawns, MaxXp, MaxHelpers, MaxFaults} \subseteq Nat

VARIABLES
  \* the game
  game,        \* its client is running
  games,       \* how often it was started
  stamps,      \* the times of its spawns so far; two may share one
  save,        \* what the save file says
  \* the agent's process
  agent,       \* "up", "stopping" or "down"
  col,         \* where the collector's thread is in run()
  after,       \* where it goes on once a session is shut down
  session,     \* its SteamSession: the helper it is about, or none
  first,       \* the first helper of this process
  wasRunning,  \* game_was_running
  view,        \* the spawns of this poll that are still to be reported: which they are
  \* the helpers
  helper,
  \* the outbox
  reported,    \* spawn facts, in their order: which spawns they are
  mark,        \* watermark:spawn_at, a time; 0 when there is none
  xpSent,      \* the last xp fact, which is also watermark:xp
  status,      \* the last agent_status that opens or ends anything
  \* the model
  opener,      \* history: the helper of the last game_open
  faults

world == <<game, games, stamps, save>>
thread == <<col, after, session, wasRunning, view>>
outbox == <<reported, mark, xpSent, status>>
vars == <<world, agent, first, thread, helper, outbox, opener, faults>>

spawned == Len(stamps)

Helpers == DOMAIN helper
None == 0
Off == {"off", "ended", "dead"}

TypeOK ==
  /\ game \in BOOLEAN /\ games \in 0..MaxGames
  /\ stamps \in Seq(1..MaxSpawns) /\ spawned <= MaxSpawns /\ save \in 0..MaxXp
  /\ agent \in {"up", "stopping", "down"}
  /\ col \in {"look", "hello", "ask", "recv", "report", "spawns",
              "closing", "idle", "lost", "finally"} \cup Off
  /\ after \in {"idle", "lost", "ended"}
  /\ session \in Helpers \cup {None} /\ first \in 1..(Len(helper) + 1)
  /\ wasRunning \in BOOLEAN /\ view \subseteq 1..spawned
  /\ helper \in Seq([at : {"starting", "claimed", "serving", "stuck", "ending",
                           "killed", "gone"},
                     holds : BOOLEAN, eof : BOOLEAN, todo : 0..1,
                     lines : Seq({"ok", "data", "error", "exit"})])
  /\ Len(helper) <= MaxHelpers
  /\ reported \in Seq(1..spawned) /\ mark \in {0} \cup {stamps[i] : i \in 1..spawned}
  /\ xpSent \in 0..save /\ status \in {"none", "open", "closed", "stopped"}
  /\ opener \in Helpers \cup {None}
  /\ faults \in 0..MaxFaults

Init ==
  /\ game = FALSE /\ games = 0 /\ stamps = <<>> /\ save = 0
  /\ agent = "up" /\ first = 1
  /\ col = "look" /\ after = "idle" /\ session = None
  /\ wasRunning = FALSE /\ view = {}
  /\ helper = <<>>
  /\ reported = <<>> /\ mark = 0 /\ xpSent = 0 /\ status = "none"
  /\ opener = None
  /\ faults = 0

Fault == faults < MaxFaults /\ faults' = faults + 1
NoFault == UNCHANGED faults
Quiet == UNCHANGED <<world, agent, first, outbox, opener>>
To(place) == col' = place /\ UNCHANGED <<after, session, wasRunning, view>>

-----------------------------------------------------------------------------
(* The helper: helper_main and RichPresence. *)

\* Only process exit takes the AppID back; the pump turns it into a last line.
Dead(h) == [h EXCEPT !.at = "gone", !.holds = FALSE, !.todo = 0,
                     !.lines = Append(@, "exit")]

Becomes(i, h) ==
  /\ helper' = [helper EXCEPT ![i] = h]
  /\ Quiet /\ UNCHANGED thread

\* RichPresence.init: a session from here on; or no DLL, no Steam, no accessor.
Inits(h) == {[h EXCEPT !.at = "claimed", !.holds = TRUE],
             [h EXCEPT !.at = "ending", !.lines = Append(@, "error")]}

\* helper_main up to the session.
Claim(i) ==
  /\ helper[i].at = "starting"
  /\ \E h \in Inits(helper[i]) : Becomes(i, h)
  /\ NoFault

\* The hello; into a pipe that nobody holds any more it is an OSError.
Greet(i) ==
  /\ helper[i].at = "claimed"
  /\ Becomes(i, IF i < first THEN [helper[i] EXCEPT !.at = "ending"]
                ELSE [helper[i] EXCEPT !.at = "serving", !.lines = Append(@, "ok")])
  /\ NoFault

\* RichPresence.shutdown ends the session and unloads the library, and Steam
\* takes no notice: the process still has the AppID.
ShutsDown(h) == [h EXCEPT !.at = "ending"]

\* RichPresence.read: a poll, or whatever the foreign library makes of it.
Reads(h) == {[h EXCEPT !.todo = 0, !.lines = Append(@, "data")],
             ShutsDown([h EXCEPT !.todo = 0, !.lines = Append(@, "error")])}

\* A command: the answer, or the error after which the loop is left.
Answer(i) ==
  /\ helper[i].at = "serving" /\ helper[i].todo > 0
  /\ \E h \in Reads(helper[i]) : Becomes(i, h)
  /\ NoFault

\* End of file on stdin ends the loop.
SeeEof(i) ==
  /\ helper[i].at = "serving" /\ helper[i].todo = 0 /\ helper[i].eof
  /\ Becomes(i, ShutsDown(helper[i]))
  /\ NoFault

\* The process is gone, at the end of its program or because it was killed.
Exit(i) ==
  /\ helper[i].at \in {"ending", "killed"}
  /\ Becomes(i, Dead(helper[i]))
  /\ NoFault

\* It crashes, or a call into Steam does not return.
Fail(i) ==
  /\ helper[i].at \in {"starting", "claimed", "serving", "ending"}
  /\ \/ Becomes(i, Dead(helper[i]))
     \/ Becomes(i, [helper[i] EXCEPT !.at = "stuck"])
  /\ Fault

-----------------------------------------------------------------------------
(* The collector: SteamSession's three methods. *)

\* init(): Popen, and a queue of its own; or an OSError.
Start ==
  \/ /\ Len(helper) < MaxHelpers
     /\ helper' = Append(helper, [at |-> "starting", holds |-> FALSE, eof |-> FALSE,
                                  todo |-> 0, lines |-> <<>>])
     /\ session' = Len(helper) + 1
     /\ col' = "hello" /\ UNCHANGED <<after, wasRunning, view>>
  \/ /\ To("lost") /\ UNCHANGED helper

\* shutdown() begins with the end of file; Finish and Kill are the rest of it.
ShutDown == helper' = [helper EXCEPT ![session].eof = TRUE]

\* _release, if there is a session, and what comes after it.
Release(next) ==
  /\ col' = "closing" /\ after' = next
  /\ IF session = None THEN UNCHANGED helper ELSE ShutDown
  /\ UNCHANGED <<session, wasRunning, view>>

\* Mutation: a lost session is given up and not shut down.
LosesForgetting ==
  /\ col' = "lost" /\ session' = None
  /\ UNCHANGED <<after, wasRunning, view, helper>>

\* Mutation: after a timeout the same helper is asked again.
LosesPatiently ==
  /\ IF col = "recv" /\ helper[session].at # "gone"
       THEN To("look") /\ UNCHANGED helper
       ELSE Release("lost")

\* Mutation: a lost session is taken for the end of the game.
LosesTrack ==
  /\ col' = "closing" /\ after' = "lost" /\ wasRunning' = FALSE
  /\ ShutDown /\ UNCHANGED <<session, view>>

\* SessionLost, and init() that fails: both shut the helper down first.
Loses == Release("lost")

\* _recv in init(): the hello, a refusal, the sentinel, or no answer in time.
Hello ==
  /\ col = "hello"
  /\ \/ /\ helper[session].lines # <<>>
        /\ helper' = [helper EXCEPT ![session].lines = Tail(@)]
        /\ Head(helper[session].lines) = "ok"
        /\ col' = "ask" /\ wasRunning' = TRUE /\ UNCHANGED <<after, session, view>>
        /\ status' = "open" /\ opener' = session
        /\ UNCHANGED <<reported, mark, xpSent>> /\ NoFault
     \/ /\ helper[session].lines # <<>>
        /\ Head(helper[session].lines) # "ok"
        /\ Loses /\ UNCHANGED <<outbox, opener>> /\ NoFault
     \/ /\ helper[session].lines = <<>>
        /\ Loses /\ UNCHANGED <<outbox, opener>>
        /\ IF helper[session].at = "stuck" THEN NoFault ELSE Fault
  /\ UNCHANGED <<world, agent, first>>

\* _send: a helper that is gone is no longer asked.
Ask ==
  /\ col = "ask"
  /\ \/ /\ helper[session].at # "gone"
        /\ helper' = [helper EXCEPT ![session].todo = 1]
        /\ To("recv")
     \/ /\ helper[session].at \in {"ending", "gone"}
        /\ Loses
  /\ Quiet /\ NoFault

\* _recv in read().
Recv ==
  /\ col = "recv"
  /\ \/ /\ helper[session].lines # <<>>
        /\ Head(helper[session].lines) = "data"
        /\ helper' = [helper EXCEPT ![session].lines = Tail(@)]
        /\ To("report") /\ NoFault
     \/ /\ helper[session].lines # <<>>
        /\ Head(helper[session].lines) # "data"
        /\ Loses /\ NoFault
     \/ /\ helper[session].lines = <<>>
        /\ Loses
        /\ IF helper[session].at = "stuck" THEN NoFault ELSE Fault
  /\ Quiet

\* The wait of shutdown() ends with the helper, at once or after the kill ...
Finish ==
  /\ col = "closing"
  /\ session # None => \/ helper[session].at = "gone"
                       \/ helper[session].at = "killed" /\ faults < MaxFaults
  /\ faults' = IF session # None /\ helper[session].at = "killed" THEN faults + 1
               ELSE faults
  /\ col' = after /\ session' = None
  /\ UNCHANGED <<after, wasRunning, view, helper>> /\ Quiet

\* Mutation: the wait has no end.
KillNever == FALSE

\* ... which comes when it has not ended within STOP_TIMEOUT_SEC.
Kill ==
  /\ col = "closing" /\ session # None
  /\ helper[session].at \notin {"killed", "gone"}
  /\ helper' = [helper EXCEPT ![session].at = "killed"]
  /\ UNCHANGED thread /\ Quiet /\ NoFault

-----------------------------------------------------------------------------
(* The collector: run(). *)

\* game_running() says yes when it cannot know.
GameRunning(seen) == IF seen = game THEN NoFault ELSE seen /\ Fault

\* The head of the loop.
Look ==
  /\ col = "look"
  /\ \/ agent = "stopping" /\ To("finally") /\ UNCHANGED helper /\ NoFault
     \/ /\ agent = "up"
        /\ \E seen \in BOOLEAN :
             /\ GameRunning(seen)
             /\ \/ ~seen /\ Release("idle")
                \/ seen /\ session = None /\ Start
                \/ seen /\ session # None /\ To("ask") /\ UNCHANGED helper
  /\ Quiet

\* read_role_xp: nothing where there is no file, or it is being written.
ReadRoleXp(xp) ==
  \/ xp = save /\ NoFault
  \/ xp = None /\ save # xpSent /\ Fault

\* _emit_xp: what was read, if it was read and is another than before.
EmitXp ==
  \E xp \in {None, save} :
    /\ ReadRoleXp(xp)
    /\ xpSent' = IF xp = None THEN xpSent ELSE xp

\* No game: say so if there was one, and watch the save file.
Idle ==
  /\ col = "idle"
  /\ status' = IF wasRunning THEN "closed" ELSE status
  /\ EmitXp
  /\ col' = "look" /\ wasRunning' = FALSE
  /\ UNCHANGED <<after, session, view, helper, world, agent, first, reported, mark,
                 opener>>

\* "steam_unavailable", which neither opens nor ends anything, and a wait.
Lost ==
  /\ col = "lost"
  /\ To("look") /\ Quiet /\ UNCHANGED helper /\ NoFault

\* spawn_events: what can be read of the breadcrumbs, whose files may be in the
\* middle of a write, locked, or turned over.  It is a list in the order of
\* their times, and keeps two that have the same.
SpawnEvents == SUBSET (1..spawned)

\* _emit_presence, then _emit_spawns as far as what is newer than the watermark,
\* which is read once for the whole list.
Report ==
  /\ col = "report"
  /\ \E seen \in SpawnEvents : view' = {s \in seen : stamps[s] > mark}
  /\ col' = "spawns"
  /\ UNCHANGED <<after, session, wasRunning, helper>> /\ Quiet /\ NoFault

Earliest(S) == CHOOSE s \in S : \A r \in S : s <= r

\* Mutation: the watermark is written when all of them are reported.
EmitSpawnMarkLast ==
  /\ col = "spawns" /\ view # {}
  /\ reported' = Append(reported, Earliest(view))
  /\ mark' = IF \E r \in view : r # Earliest(view) THEN mark ELSE stamps[Earliest(view)]
  /\ view' = view \ {Earliest(view)}
  /\ UNCHANGED <<col, after, session, wasRunning, world, agent, first, helper,
                 xpSent, status, opener, faults>>

\* Mutation: the watermark is rounded up.
EmitSpawnMarkUp ==
  /\ col = "spawns" /\ view # {}
  /\ reported' = Append(reported, Earliest(view))
  /\ mark' = stamps[Earliest(view)] + 1
  /\ view' = view \ {Earliest(view)}
  /\ UNCHANGED <<col, after, session, wasRunning, world, agent, first, helper,
                 xpSent, status, opener, faults>>

\* One turn of _emit_spawns: a fact and its watermark, in one transaction.
EmitSpawn ==
  /\ col = "spawns" /\ view # {}
  /\ reported' = Append(reported, Earliest(view))
  /\ mark' = stamps[Earliest(view)]
  /\ view' = view \ {Earliest(view)}
  /\ UNCHANGED <<col, after, session, wasRunning, world, agent, first, helper,
                 xpSent, status, opener, faults>>

\* _wait_while_running ends with the game, which the loop then sees for itself.
WaitWhileRunning == To("look")

\* _emit_map, which is the same on another value, _emit_xp, and the wait.
EmitValues ==
  /\ col = "spawns" /\ view = {}
  /\ EmitXp /\ WaitWhileRunning
  /\ UNCHANGED <<world, agent, first, helper, reported, mark, status, opener>>

\* Reading a source or writing to the outbox raises, and run() does not catch
\* it: in a poll, in saying what there is to say, or in saying "game_open".
Raise ==
  /\ \/ /\ col \in {"report", "spawns", "idle", "lost"}
        /\ UNCHANGED <<wasRunning, helper>>
     \/ /\ col = "hello" /\ helper[session].lines # <<>>
        /\ Head(helper[session].lines) = "ok"
        /\ helper' = [helper EXCEPT ![session].lines = Tail(@)]
        /\ wasRunning' = TRUE
  /\ col' = "finally" /\ view' = {}
  /\ UNCHANGED <<after, session>> /\ Quiet /\ Fault

\* The finally: "stopped", and then the release -- if the outbox takes it.
Finally ==
  /\ col = "finally"
  /\ \/ Release("ended") /\ status' = "stopped" /\ NoFault
     \/ To("dead") /\ UNCHANGED <<helper, status>> /\ Fault
  /\ UNCHANGED <<world, agent, first, reported, mark, xpSent, opener>>

-----------------------------------------------------------------------------
(* The agent's process, and the game. *)

Stop ==
  /\ agent = "up" /\ agent' = "stopping"
  /\ UNCHANGED <<world, first, thread, helper, outbox, opener>> /\ Fault

\* Every helper finds the end of its stdin; what it does then is its own affair.
ProcessEnds ==
  /\ agent' = "down"
  /\ col' = "off" /\ session' = None /\ wasRunning' = FALSE /\ view' = {}
  /\ helper' = [i \in Helpers |-> [helper[i] EXCEPT !.eof = TRUE]]
  /\ first' = Len(helper) + 1
  /\ UNCHANGED <<after, world, outbox, opener>>

\* main() waits five seconds for its threads and no longer.
Leave == agent = "stopping" /\ ProcessEnds /\ NoFault

Crash == agent # "down" /\ ProcessEnds /\ Fault

\* A new process: of a game that an earlier one has announced it knows nothing,
\* and "started", which it says, ends none.
Boot ==
  /\ agent = "down" /\ agent' = "up"
  /\ To("look")
  /\ UNCHANGED <<world, first, helper, outbox, opener, faults>>

GameStarts ==
  /\ ~game /\ games < MaxGames
  /\ game' = TRUE /\ games' = games + 1
  /\ UNCHANGED <<stamps, save, agent, first, thread, helper, outbox, opener, faults>>

GameEnds ==
  /\ game /\ game' = FALSE
  /\ UNCHANGED <<games, stamps, save, agent, first, thread, helper, outbox, opener, faults>>

\* A spawn, at the time of the one before it or later: of times no more than
\* their order matters.
GameSpawns ==
  /\ game /\ spawned < MaxSpawns
  /\ LET newest == IF stamps = <<>> THEN 0 ELSE stamps[spawned]
     IN \E t \in {newest, newest + 1} : t \in 1..MaxSpawns /\ stamps' = Append(stamps, t)
  /\ UNCHANGED <<game, games, save, agent, first, thread, helper, outbox, opener, faults>>

\* The game writes its save file, also when its window is gone.
GameSaves ==
  /\ games > 0 /\ save < MaxXp /\ save' = save + 1
  /\ UNCHANGED <<game, games, stamps, agent, first, thread, helper, outbox, opener, faults>>

-----------------------------------------------------------------------------
RunStep ==
  \/ Look \/ Idle \/ Lost \/ Hello \/ Ask \/ Recv \/ Report
  \/ EmitSpawn \/ EmitValues \/ Finally \/ Finish \/ Kill

Next ==
  \/ RunStep \/ Raise
  \/ \E i \in Helpers : \/ Claim(i) \/ Greet(i) \/ Answer(i) \/ SeeEof(i)
                        \/ Exit(i) \/ Fail(i)
  \/ Stop \/ Leave \/ Crash \/ Boot
  \/ GameStarts \/ GameEnds \/ GameSpawns \/ GameSaves

Spec == Init /\ [][Next]_vars

\* Threads and processes run; a call into Steam that is stuck may stay so, and
\* nobody has to play, or to start the agent again.
FairSpec ==
  /\ Spec
  /\ WF_vars(RunStep) /\ WF_vars(Leave)
  /\ \A i \in 1..MaxHelpers :
       WF_vars(i \in Helpers /\ (Claim(i) \/ Greet(i) \/ Answer(i) \/ SeeEof(i) \/ Exit(i)))

-----------------------------------------------------------------------------
\* steamsession.py: "a helper that outlives this call is exactly the bug the
\* whole module exists to fix".  Of the helpers of a process at most the one of
\* its session is alive and not killed; those of an earlier one have their end
\* of file.
NoneLeftBehind ==
  \A i \in Helpers :
    \/ i = session
    \/ helper[i].at \in {"killed", "gone"}
    \/ i < first /\ helper[i].eof

\* Before a read is asked for, nothing of an earlier one is on its way: a late
\* answer is never taken for the answer to a later poll.
AskedAlone ==
  col = "ask" => helper[session].todo = 0 /\ helper[session].lines \in {<<>>, <<"exit">>}

\* A spawn is reported once and in the order of the game's clock, across
\* crashes between its fact and the next, also when two have one time.
SpawnsOnce ==
  \A i, j \in DOMAIN reported : i < j => reported[i] < reported[j]

\* Stuck in Steam when its agent ended without the time to kill it.
Orphan(i) == i < first /\ helper[i].at = "stuck"

\* When the game is over Steam is told so, whatever became of the agent -- but
\* for an orphan, and a thread whose last words the outbox did not take.
AppIDIsFreed ==
  <>[]~game => <>[](\A i \in Helpers : helper[i].holds => Orphan(i) \/ col = "dead")

\* The game that this process has announced is announced to be over, whichever
\* of its sessions are lost meanwhile, and what the game saves on its way out,
\* and later, is reported all the same.  A game announced by a process that has
\* ended is not: the next one knows nothing of it.
EndIsReported ==
  <>[]~game =>
    <>[](((status = "open" => opener < first) /\ xpSent = save) \/ col \in Off)
=============================================================================
