--------------------------- MODULE CollectorProofs ---------------------------
(***************************************************************************)
(* No helper is left behind alive, no late answer is taken for the answer  *)
(* to a later poll, and no spawn is reported twice or out of order: for    *)
(* any number of games, spawns, helpers and failures.                      *)
(*                                                                         *)
(* The pipes have no message identities.  That an answer belongs to its    *)
(* question holds because a session is dropped with its pipe whenever an   *)
(* answer is late: what a helper has said and has still to say is settled  *)
(* by where the collector's thread is.                                     *)
(***************************************************************************)
EXTENDS Collector, SequenceTheorems, WellFoundedInduction, TLAPS

Process == [at : {"starting", "claimed", "serving", "stuck", "ending", "killed", "gone"},
            holds : BOOLEAN, eof : BOOLEAN, todo : 0..1,
            lines : Seq({"ok", "data", "error", "exit"})]

\* What is unread of a helper: L, and the sentinel once its process is gone.
Says(h, L) == h.lines = IF h.at = "gone" THEN Append(L, "exit") ELSE L

\* Of a helper whose hello is awaited: nothing yet, the hello, or a refusal.
Greeting(h) ==
  /\ h.todo = 0
  /\ h.at \in {"starting", "claimed"} => h.lines = <<>>
  /\ \E L \in {<<>>, <<"ok">>, <<"error">>} : Says(h, L)

\* Of one that said hello and has answered all it was asked.
Resting(h) ==
  /\ h.todo = 0 /\ h.at \notin {"starting", "claimed"}
  /\ Says(h, <<>>)

\* Of one that was asked: the question, or the answer, or it ended with neither.
Polled(h) ==
  /\ h.at \notin {"starting", "claimed"}
  /\ \/ h.todo = 1 /\ h.at # "gone" /\ h.lines = <<>>
     \/ h.todo = 0 /\ \E L \in {<<>>, <<"data">>, <<"error">>} : Says(h, L)

InStep(place, h) ==
  /\ place = "hello" => Greeting(h)
  /\ place \in {"look", "ask", "report", "spawns"} => Resting(h)
  /\ place = "recv" => Polled(h)

Talks ==
  /\ agent = "down" => col = "off" /\ session = None
  /\ col \in {"hello", "ask", "recv"} => session # None
  /\ col \in {"idle", "lost"} => session = None
  /\ session # None => InStep(col, helper[session])

\* The spawns are in the order of their times, all that is reported is not after
\* the watermark, and all that is still to be reported of this poll is behind it.
Marked ==
  /\ \A i, j \in 1..spawned : i < j => stamps[i] <= stamps[j]
  /\ \A i \in DOMAIN reported : stamps[reported[i]] <= mark
  /\ \A i \in DOMAIN reported : \A s \in view : reported[i] < s
  /\ SpawnsOnce

Orderly == TypeOK /\ NoneLeftBehind /\ Talks /\ Marked

-----------------------------------------------------------------------------
LEMMA OrderlyInit == Init => Orderly
<1> SUFFICES ASSUME Init PROVE Orderly
  OBVIOUS
<1>1. TypeOK
  <2>1. {0, 1} \subseteq Nat /\ 0 \in 0..MaxGames /\ 0 \in 0..MaxSpawns /\ 0 \in 0..MaxXp
        /\ 0 \in 0..MaxHelpers /\ 0 \in 0..MaxFaults /\ 0 \in 0..0
    BY BoundsAssumption
  <2>2. helper = <<>> /\ Len(helper) = 0 /\ reported = <<>> /\ stamps = <<>> /\ Len(stamps) = 0
    BY DEF Init
  <2>3. {game, wasRunning} \subseteq BOOLEAN
    BY Zenon DEF Init
  <2> QED
    BY <2>1, <2>2, <2>3, BoundsAssumption DEF Init, TypeOK, None, spawned
<1>2. NoneLeftBehind
  BY DEF Init, NoneLeftBehind, Helpers
<1>3. Talks
  BY DEF Init, Talks
<1>4. Marked
  BY DEF Init, Marked, SpawnsOnce, spawned
<1> QED
  BY <1>1, <1>2, <1>3, <1>4 DEF Orderly

\* Of some spawns one is the earliest: what Earliest chooses is there.
LEMMA EarliestIsFirst ==
  ASSUME NEW S, S \subseteq Nat, S # {}
  PROVE  Earliest(S) \in S /\ \A r \in S : Earliest(S) <= r
<1>1. PICK s \in S : \A r \in S : <<r, s>> \notin OpToRel(<, Nat)
  BY NatLessThanWellFounded, WFMin
<1>2. ASSUME NEW r \in S PROVE s <= r
  <2>1. r < s => <<r, s>> \in OpToRel(<, Nat)
    BY DEF OpToRel
  <2>2. ~(r < s)
    BY <1>1, <2>1, Zenon
  <2> QED
    BY <2>2
<1>3. \E t \in S : \A r \in S : t <= r
  BY <1>2
<1> QED
  BY <1>3, Zenon DEF Earliest

LEMMA HelperWritten ==
  ASSUME TypeOK, NEW i \in Helpers, NEW h \in Process, helper' = [helper EXCEPT ![i] = h]
  PROVE  /\ helper' \in Seq(Process) /\ Len(helper') = Len(helper) /\ Helpers' = Helpers
         /\ \A j \in Helpers : helper'[j] = IF j = i THEN h ELSE helper[j]
<1>1. helper \in Seq(Process) /\ Helpers = 1..Len(helper)
  BY LenProperties DEF TypeOK, Process, Helpers
<1> HIDE DEF Process
<1>2. /\ helper' \in Seq(Process) /\ Len(helper') = Len(helper)
      /\ \A j \in 1..Len(helper) : helper'[j] = IF j = i THEN h ELSE helper[j]
  BY <1>1, ExceptSeq
<1>3. Helpers' = 1..Len(helper')
  BY <1>2, LenProperties DEF Helpers
<1> QED
  BY <1>1, <1>2, <1>3

LEMMA HelperTyped ==
  ASSUME TypeOK, NEW i \in Helpers
  PROVE  helper[i] \in Process /\ helper \in Seq(Process) /\ Helpers = 1..Len(helper)
<1>1. helper \in Seq(Process) /\ Helpers = 1..Len(helper)
  BY LenProperties DEF TypeOK, Process, Helpers
<1> HIDE DEF Process
<1> QED
  BY <1>1, ElementOfSeq

-----------------------------------------------------------------------------
(* The helper's own steps.                                                 *)

\* A step of a helper's own, from h to g: it says no more than it was asked
\* for, nothing brings it back, and it cannot take its end of file away.
Moves(h, g) ==
  /\ g \in Process
  /\ g.eof = h.eof
  /\ h.at \in {"killed", "gone"} => g.at \in {"killed", "gone"}
  /\ Greeting(h) => Greeting(g)
  /\ Resting(h) => Resting(g)
  /\ Polled(h) => Polled(g)

LEMMA DeadMoves ==
  ASSUME NEW h \in Process, h.at # "gone"
  PROVE  Moves(h, Dead(h))
<1>1. Append(h.lines, "exit") \in Seq({"ok", "data", "error", "exit"})
  BY AppendProperties DEF Process
<1> DEFINE g == Dead(h)
<1>2. /\ g.at = "gone" /\ g.todo = 0 /\ g.eof = h.eof
      /\ g.lines = Append(h.lines, "exit") /\ g \in Process
  <2> DEFINE f == [h EXCEPT !.at = "gone", !.holds = FALSE]
  <2>1. f \in Process /\ f.at = "gone" /\ f.eof = h.eof /\ f.lines = h.lines
    BY DEF Process
  <2>2. g = [f EXCEPT !.todo = 0, !.lines = Append(@, "exit")]
    BY DEF Dead, Process
  <2> HIDE DEF f, g
  <2>3. g.at = f.at /\ g.todo = 0 /\ g.eof = f.eof /\ g.lines = Append(f.lines, "exit")
    BY <2>1, <2>2 DEF Process
  <2>4. Append(f.lines, "exit") \in Seq({"ok", "data", "error", "exit"})
    BY <1>1, <2>1
  <2>5. g = [at |-> f.at, holds |-> f.holds, eof |-> f.eof, todo |-> 0,
             lines |-> Append(f.lines, "exit")]
    BY <2>1, <2>2 DEF Process
  <2>6. g \in Process
    BY <2>1, <2>4, <2>5 DEF Process
  <2> QED
    BY <2>1, <2>3, <2>6
<1> HIDE DEF g
<1>3. \A L : Says(h, L) => Says(g, L)
  BY <1>2 DEF Says
<1>4. h.lines = <<>> => Says(g, <<>>)
  BY <1>2 DEF Says
<1>5. Moves(h, g)
  BY <1>2, <1>3, <1>4 DEF Moves, Greeting, Resting, Polled
<1> QED
  BY <1>5 DEF g

\* Without a word.
LEMMA SilentMoves ==
  ASSUME NEW h \in Process, NEW g \in Process, h.at \notin {"killed", "gone"},
         g.eof = h.eof, g.todo = h.todo, g.lines = h.lines, g.at # "gone",
         g.at \in {"starting", "claimed"} => h.at \in {"starting", "claimed"}
  PROVE  Moves(h, g)
<1>1. \A L : Says(h, L) => Says(g, L)
  BY DEF Says
<1> QED
  BY <1>1 DEF Moves, Greeting, Resting, Polled

LEMMA InitsMoves ==
  ASSUME NEW h \in Process, h.at = "starting", NEW g \in Inits(h)
  PROVE  Moves(h, g)
<1>1. CASE g = [h EXCEPT !.at = "claimed", !.holds = TRUE]
  <2>1. /\ g \in Process /\ g.at = "claimed" /\ g.eof = h.eof /\ g.todo = h.todo
        /\ g.lines = h.lines
    BY <1>1 DEF Process
  <2> QED
    BY <2>1, SilentMoves
<1>2. CASE g = [h EXCEPT !.at = "ending", !.lines = Append(@, "error")]
  <2>1. Append(h.lines, "error") \in Seq({"ok", "data", "error", "exit"})
    BY AppendProperties DEF Process
  <2>2. /\ g \in Process /\ g.at = "ending" /\ g.eof = h.eof /\ g.todo = h.todo
        /\ g.lines = Append(h.lines, "error")
    BY <1>2, <2>1 DEF Process
  <2>3. h.lines = <<>> => g.lines = <<"error">>
    BY <2>2
  <2> QED
    BY <2>2, <2>3 DEF Moves, Greeting, Resting, Polled, Says
<1> QED
  BY <1>1, <1>2 DEF Inits

\* The hello: whoever is claimed and still awaited has said nothing before it.
LEMMA GreetMoves ==
  ASSUME NEW h \in Process, h.at = "claimed"
  PROVE  Moves(h, [h EXCEPT !.at = "serving", !.lines = Append(@, "ok")])
<1> DEFINE g == [h EXCEPT !.at = "serving", !.lines = Append(@, "ok")]
<1>1. Append(h.lines, "ok") \in Seq({"ok", "data", "error", "exit"})
  BY AppendProperties DEF Process
<1>2. /\ g \in Process /\ g.at = "serving" /\ g.eof = h.eof /\ g.todo = h.todo
      /\ g.lines = Append(h.lines, "ok")
  BY <1>1 DEF Process
<1>3. h.lines = <<>> => g.lines = <<"ok">>
  BY <1>2
<1> HIDE DEF g
<1>4. Moves(h, g)
  BY <1>2, <1>3 DEF Moves, Greeting, Resting, Polled, Says
<1> QED
  BY <1>4 DEF g

\* An answer: there was a question, and nothing else was unread.
LEMMA ReadsMoves ==
  ASSUME NEW h \in Process, h.at = "serving", h.todo > 0, NEW g \in Reads(h)
  PROVE  Moves(h, g)
<1>1. PICK word \in {"data", "error"}, place \in {"serving", "ending"} :
        g = [h EXCEPT !.at = place, !.todo = 0, !.lines = Append(@, word)]
  <2>1. CASE g = [h EXCEPT !.todo = 0, !.lines = Append(@, "data")]
    BY <2>1 DEF Process
  <2>2. CASE g = ShutsDown([h EXCEPT !.todo = 0, !.lines = Append(@, "error")])
    BY <2>2 DEF ShutsDown, Process
  <2> QED
    BY <2>1, <2>2 DEF Reads
<1>2. Append(h.lines, word) \in Seq({"ok", "data", "error", "exit"})
  BY AppendProperties DEF Process
<1>3. /\ g \in Process /\ g.at = place /\ g.eof = h.eof /\ g.todo = 0
      /\ g.lines = Append(h.lines, word)
  <2>1. g = [at |-> place, holds |-> h.holds, eof |-> h.eof, todo |-> 0,
             lines |-> Append(h.lines, word)]
    BY <1>1 DEF Process
  <2> QED
    BY <1>2, <2>1 DEF Process
<1>4. h.lines = <<>> => g.lines \in {<<"data">>, <<"error">>}
  BY <1>3
<1> QED
  BY <1>3, <1>4 DEF Moves, Greeting, Resting, Polled, Says

HelperStep(i) == Claim(i) \/ Greet(i) \/ Answer(i) \/ SeeEof(i) \/ Exit(i) \/ Fail(i)

LEMMA HelperMoves ==
  ASSUME TypeOK, NEW i \in Helpers, HelperStep(i)
  PROVE  \E g : Becomes(i, g) /\ Moves(helper[i], g) /\ faults' \in 0..MaxFaults
<1> DEFINE h == helper[i]
<1>1. h \in Process
  BY HelperTyped
<1>2. faults' \in 0..MaxFaults
  BY BoundsAssumption DEF HelperStep, Claim, Greet, Answer, SeeEof, Exit, Fail, NoFault, Fault,
     TypeOK
<1>3. CASE Claim(i)
  BY <1>1, <1>2, <1>3, InitsMoves DEF Claim
<1>4. CASE Greet(i)
  <2>1. CASE i < first
    <3>1. Becomes(i, [h EXCEPT !.at = "ending"]) /\ h.at = "claimed"
      BY <1>4, <2>1 DEF Greet
    <3>2. Moves(h, [h EXCEPT !.at = "ending"])
      BY <1>1, <3>1, SilentMoves DEF Process
    <3> QED
      BY <1>2, <3>1, <3>2
  <2>2. CASE ~(i < first)
    <3>1. Becomes(i, [h EXCEPT !.at = "serving", !.lines = Append(@, "ok")]) /\ h.at = "claimed"
      BY <1>4, <2>2 DEF Greet
    <3> QED
      BY <1>1, <1>2, <3>1, GreetMoves
  <2> QED
    BY <2>1, <2>2
<1>5. CASE Answer(i)
  BY <1>1, <1>2, <1>5, ReadsMoves DEF Answer
<1>6. CASE SeeEof(i)
  <2>1. Moves(h, ShutsDown(h))
    BY <1>1, <1>6, SilentMoves DEF SeeEof, ShutsDown, Process
  <2> QED
    BY <1>2, <1>6, <2>1 DEF SeeEof
<1>7. CASE Exit(i)
  BY <1>1, <1>2, <1>7, DeadMoves DEF Exit
<1>8. CASE Fail(i)
  <2>1. h.at \in {"starting", "claimed", "serving", "ending"}
    BY <1>8 DEF Fail
  <2>2. Moves(h, Dead(h))
    BY <1>1, <2>1, DeadMoves
  <2>3. Moves(h, [h EXCEPT !.at = "stuck"])
    BY <1>1, <2>1, SilentMoves DEF Process
  <2> QED
    BY <1>2, <1>8, <2>2, <2>3 DEF Fail
<1> QED
  BY <1>3, <1>4, <1>5, <1>6, <1>7, <1>8 DEF HelperStep

LEMMA OrderlyHelper ==
  ASSUME Orderly, NEW i \in Helpers, HelperStep(i)
  PROVE  Orderly'
<1>0. TypeOK
  BY DEF Orderly
<1>1. PICK g : Becomes(i, g) /\ Moves(helper[i], g) /\ faults' \in 0..MaxFaults
  BY <1>0, HelperMoves
<1>2. g \in Process
  BY <1>1 DEF Moves
<1>3. /\ helper' \in Seq(Process) /\ Len(helper') = Len(helper) /\ Helpers' = Helpers
      /\ \A j \in Helpers : helper'[j] = IF j = i THEN g ELSE helper[j]
  BY <1>0, <1>1, <1>2, HelperWritten DEF Becomes
<1>4. UNCHANGED <<game, games, stamps, save, agent, first, col, after, session,
                  wasRunning, view, reported, mark, xpSent, status, opener>>
  BY <1>1 DEF Becomes, Quiet, world, outbox, thread
<1>5. TypeOK'
  BY <1>0, <1>1, <1>3, <1>4 DEF TypeOK, Process, spawned
<1>6. NoneLeftBehind'
  BY <1>1, <1>3, <1>4 DEF Orderly, NoneLeftBehind, Moves
<1>7. Talks'
  <2>1. session # None => session \in Helpers
    BY <1>0 DEF TypeOK
  <2>2. session # None => InStep(col, helper'[session])
    BY <1>1, <1>3, <2>1 DEF Orderly, Talks, InStep, Moves
  <2> QED
    BY <1>4, <2>2 DEF Orderly, Talks, None
<1>8. Marked'
  BY <1>4 DEF Orderly, Marked, SpawnsOnce, spawned
<1> QED
  BY <1>5, <1>6, <1>7, <1>8 DEF Orderly

-----------------------------------------------------------------------------
(* The steps of the collector's thread.                                    *)

\* Nothing is written to any helper but the session's.
SessionOnly ==
  \/ UNCHANGED helper
  \/ session # None /\ \E h \in Process : helper' = [helper EXCEPT ![session] = h]

LEMMA SessionWritten ==
  ASSUME TypeOK, NoneLeftBehind, UNCHANGED <<session, first>>, SessionOnly
  PROVE  /\ helper' \in Seq(Process) /\ Len(helper') = Len(helper) /\ Helpers' = Helpers
         /\ NoneLeftBehind'
<1>1. helper \in Seq(Process) /\ (session # None => session \in Helpers)
  BY DEF TypeOK, Process
<1>2. CASE UNCHANGED helper
  BY <1>1, <1>2 DEF NoneLeftBehind, Helpers
<1>3. CASE session # None /\ \E h \in Process : helper' = [helper EXCEPT ![session] = h]
  <2>1. PICK h \in Process : helper' = [helper EXCEPT ![session] = h]
    BY <1>3
  <2>2. /\ helper' \in Seq(Process) /\ Len(helper') = Len(helper) /\ Helpers' = Helpers
        /\ \A j \in Helpers : helper'[j] = IF j = session THEN h ELSE helper[j]
    BY <1>1, <1>3, <2>1, HelperWritten
  <2> QED
    BY <2>2 DEF NoneLeftBehind
<1> QED
  BY <1>2, <1>3 DEF SessionOnly

LEMMA ShutDownWrites ==
  ASSUME TypeOK, session # None, ShutDown
  PROVE  SessionOnly
<1> DEFINE h == [helper[session] EXCEPT !.eof = TRUE]
<1>1. session \in Helpers /\ helper[session] \in Process
  BY HelperTyped DEF TypeOK
<1>2. h \in Process
  BY <1>1 DEF Process
<1>3. helper' = [helper EXCEPT ![session] = h]
  BY DEF ShutDown
<1> QED
  BY <1>2, <1>3 DEF SessionOnly

LEMMA ReleaseWrites ==
  ASSUME TypeOK, NEW next, Release(next)
  PROVE  SessionOnly /\ UNCHANGED session
BY ShutDownWrites DEF Release, SessionOnly

\* Hello, Ask, Recv and Kill: what they do to the helper they talk to.
LEMMA TalkWrites ==
  ASSUME TypeOK, Talks, Hello \/ Ask \/ Recv \/ Kill
  PROVE  SessionOnly /\ UNCHANGED <<session, first>>
<1>1. session \in Helpers /\ session # None
  BY DEF TypeOK, Talks, Hello, Ask, Recv, Kill
<1>2. helper[session] \in Process
  BY <1>1, HelperTyped
<1>3. ASSUME helper[session].lines # <<>>
      PROVE  [helper[session] EXCEPT !.lines = Tail(@)] \in Process
  <2>1. Tail(helper[session].lines) \in Seq({"ok", "data", "error", "exit"})
    BY <1>2, <1>3, HeadTailProperties DEF Process
  <2> QED
    BY <1>2, <2>1 DEF Process
<1>4. CASE Hello
  <2>1. CASE Release("lost")
    BY <1>4, <2>1, ReleaseWrites DEF Hello
  <2>2. CASE ~Release("lost")
    <3>1. /\ helper[session].lines # <<>> /\ UNCHANGED <<session, first>>
          /\ helper' = [helper EXCEPT ![session].lines = Tail(@)]
      BY <1>4, <2>2 DEF Hello, Loses
    <3>2. helper' = [helper EXCEPT ![session] = [helper[session] EXCEPT !.lines = Tail(@)]]
      BY <3>1
    <3> QED
      BY <1>1, <1>3, <3>1, <3>2 DEF SessionOnly
  <2> QED
    BY <2>1, <2>2
<1>5. CASE Ask
  <2>1. CASE Release("lost")
    BY <1>5, <2>1, ReleaseWrites DEF Ask, Quiet
  <2>2. CASE ~Release("lost")
    <3>1. helper' = [helper EXCEPT ![session] = [helper[session] EXCEPT !.todo = 1]]
      BY <1>5, <2>2 DEF Ask, Loses
    <3>2. [helper[session] EXCEPT !.todo = 1] \in Process
      BY <1>2 DEF Process
    <3> QED
      BY <1>1, <1>5, <2>2, <3>1, <3>2 DEF SessionOnly, Ask, Loses, Quiet, To
  <2> QED
    BY <2>1, <2>2
<1>6. CASE Recv
  <2>1. CASE Release("lost")
    BY <1>6, <2>1, ReleaseWrites DEF Recv, Quiet
  <2>2. CASE ~Release("lost")
    <3>1. /\ helper[session].lines # <<>> /\ UNCHANGED <<session, first>>
          /\ helper' = [helper EXCEPT ![session].lines = Tail(@)]
      BY <1>6, <2>2 DEF Recv, Loses, To, Quiet
    <3>2. helper' = [helper EXCEPT ![session] = [helper[session] EXCEPT !.lines = Tail(@)]]
      BY <3>1
    <3> QED
      BY <1>1, <1>3, <3>1, <3>2 DEF SessionOnly
  <2> QED
    BY <2>1, <2>2
<1>7. CASE Kill
  <2>1. helper' = [helper EXCEPT ![session] = [helper[session] EXCEPT !.at = "killed"]]
    BY <1>7 DEF Kill
  <2>2. [helper[session] EXCEPT !.at = "killed"] \in Process
    BY <1>2 DEF Process
  <2> QED
    BY <1>1, <1>7, <2>1, <2>2 DEF SessionOnly, Kill, thread, Quiet
<1> QED
  BY <1>4, <1>5, <1>6, <1>7

LEMMA FirstSaid ==
  \A word \in {"ok", "data", "error"} :
    /\ Append(<<>>, "exit") = <<"exit">> /\ Append(<<word>>, "exit") = <<word, "exit">>
    /\ Head(<<"exit">>) = "exit" /\ Head(<<word>>) = word /\ Head(<<word, "exit">>) = word
<1> SUFFICES ASSUME NEW word \in {"ok", "data", "error"}
             PROVE  /\ Append(<<>>, "exit") = <<"exit">>
                    /\ Append(<<word>>, "exit") = <<word, "exit">>
                    /\ Head(<<"exit">>) = "exit" /\ Head(<<word>>) = word
                    /\ Head(<<word, "exit">>) = word
  OBVIOUS
<1>1. Append(<<>>, "exit") = <<"exit">>
  OBVIOUS
<1>2. Append(<<word>>, "exit") = <<word, "exit">>
  <2> DEFINE S == {"ok", "data", "error", "exit"}
             t == <<word, "exit">>
  <2>1. <<word>> \in Seq(S) /\ Len(<<word>>) = 1 /\ <<word>>[1] = word
    OBVIOUS
  <2>2. t \in Seq(S) /\ Len(t) = 2 /\ t[1] = word /\ t[2] = "exit"
    OBVIOUS
  <2> HIDE DEF S, t
  <2>3. "exit" \in S
    BY DEF S
  <2>4. /\ Append(<<word>>, "exit") \in Seq(S) /\ Len(Append(<<word>>, "exit")) = 2
        /\ Append(<<word>>, "exit")[1] = word /\ Append(<<word>>, "exit")[2] = "exit"
    BY <2>1, <2>3, AppendProperties
  <2>5. \A i \in 1..2 : Append(<<word>>, "exit")[i] = t[i]
    BY <2>2, <2>4
  <2>6. Append(<<word>>, "exit") = t
    BY <2>2, <2>4, <2>5, SeqEqual
  <2> QED
    BY <2>6 DEF t
<1>3. Head(<<"exit">>) = "exit"
  OBVIOUS
<1>4. Head(<<word>>) = word
  OBVIOUS
<1>5. Head(<<word, "exit">>) = word
  OBVIOUS
<1> QED
  BY <1>1, <1>2, <1>3, <1>4, <1>5

\* The hello is read by one that has nothing else to say; the question is put
\* to one that has nothing to say; and the data read are the answer to it.
LEMMA TalkInStep ==
  ASSUME TypeOK, Talks, Hello \/ Ask \/ Recv \/ Kill
  PROVE  Talks'
<1>1. session \in Helpers /\ session # None /\ UNCHANGED <<session, agent>>
  <2>1. UNCHANGED session
    BY TalkWrites
  <2> QED
    BY <2>1 DEF TypeOK, Talks, Hello, Ask, Recv, Kill, Quiet
<1> DEFINE h == helper[session]
           g == helper'[session]
<1>2. h \in Process /\ helper \in Seq(Process) /\ Helpers = 1..Len(helper)
  BY <1>1, HelperTyped
<1>3. col \in {"hello", "ask", "recv", "closing"} /\ agent # "down"
  BY DEF Talks, Hello, Ask, Recv, Kill
<1>4. CASE col' = "closing"
  BY <1>1, <1>3, <1>4 DEF Talks, InStep
<1>5. CASE Hello /\ col' # "closing"
  <2>1. /\ col = "hello" /\ h.lines # <<>> /\ Head(h.lines) = "ok" /\ col' = "ask"
        /\ helper' = [helper EXCEPT ![session].lines = Tail(@)]
    BY <1>5 DEF Hello, Loses, Release
  <2>2. g = [h EXCEPT !.lines = Tail(@)]
    <3>1. helper' = [helper EXCEPT ![session] = [h EXCEPT !.lines = Tail(@)]]
      BY <2>1
    <3> HIDE DEF h
    <3> QED
      BY <1>1, <1>2, <3>1
  <2>3. Greeting(h)
    BY <1>1, <2>1 DEF Talks, InStep
  <2>4. g.todo = 0 /\ g.at = h.at /\ g.lines = Tail(h.lines)
    BY <1>2, <2>2, <2>3 DEF Process, Greeting
  <2> HIDE DEF g, h
  <2>5. h.lines = IF h.at = "gone" THEN <<"ok", "exit">> ELSE <<"ok">>
    <3>1. PICK L \in {<<>>, <<"ok">>, <<"error">>} : Says(h, L)
      BY <2>1, <2>3 DEF Greeting
    <3>2. L = <<"ok">>
      BY <2>1, <3>1, FirstSaid DEF Says
    <3> QED
      BY <3>1, <3>2, FirstSaid DEF Says
  <2>6. g.lines = IF g.at = "gone" THEN <<"exit">> ELSE <<>>
    BY <2>4, <2>5
  <2>7. Resting(g)
    BY <2>1, <2>3, <2>4, <2>6 DEF Resting, Says, Greeting
  <2> QED
    BY <1>1, <1>3, <2>1, <2>7 DEF Talks, InStep, g
<1>6. CASE Ask /\ col' # "closing"
  <2>1. /\ col = "ask" /\ h.at # "gone" /\ col' = "recv"
        /\ helper' = [helper EXCEPT ![session].todo = 1]
    BY <1>6 DEF Ask, Loses, Release, To
  <2>2. g = [h EXCEPT !.todo = 1]
    BY <1>1, <1>2, <2>1
  <2>3. Resting(h)
    BY <1>1, <2>1 DEF Talks, InStep
  <2>4. g.todo = 1 /\ g.at = h.at /\ g.lines = h.lines
    BY <1>2, <2>2 DEF Process
  <2> HIDE DEF g, h
  <2>5. Polled(g)
    BY <2>1, <2>3, <2>4 DEF Resting, Says, Polled
  <2> QED
    BY <1>1, <1>3, <2>1, <2>5 DEF Talks, InStep, g
<1>7. CASE Recv /\ col' # "closing"
  <2>1. /\ col = "recv" /\ h.lines # <<>> /\ Head(h.lines) = "data" /\ col' = "report"
        /\ helper' = [helper EXCEPT ![session].lines = Tail(@)]
    BY <1>7 DEF Recv, Loses, Release, To
  <2>2. g = [h EXCEPT !.lines = Tail(@)]
    <3>1. helper' = [helper EXCEPT ![session] = [h EXCEPT !.lines = Tail(@)]]
      BY <2>1
    <3> HIDE DEF h
    <3> QED
      BY <1>1, <1>2, <3>1
  <2>3. Polled(h)
    BY <1>1, <2>1 DEF Talks, InStep
  <2>4. g.todo = h.todo /\ g.at = h.at /\ g.lines = Tail(h.lines)
    BY <1>2, <2>2 DEF Process
  <2> HIDE DEF g, h
  <2>5. h.todo = 0 /\ h.lines = IF h.at = "gone" THEN <<"data", "exit">> ELSE <<"data">>
    <3>1. PICK L \in {<<>>, <<"data">>, <<"error">>} : h.todo = 0 /\ Says(h, L)
      BY <2>1, <2>3 DEF Polled
    <3>2. L = <<"data">>
      BY <2>1, <3>1, FirstSaid DEF Says
    <3> QED
      BY <3>1, <3>2, FirstSaid DEF Says
  <2>6. g.lines = IF g.at = "gone" THEN <<"exit">> ELSE <<>>
    BY <2>4, <2>5
  <2>7. Resting(g)
    BY <2>3, <2>4, <2>5, <2>6 DEF Resting, Says, Polled
  <2> QED
    BY <1>1, <1>3, <2>1, <2>7 DEF Talks, InStep, g
<1>8. Kill => col' = "closing"
  BY DEF Kill, thread
<1> QED
  BY <1>4, <1>5, <1>6, <1>7, <1>8

LEMMA OneFaultMore == ASSUME TypeOK, Fault \/ NoFault PROVE faults' \in 0..MaxFaults
  BY BoundsAssumption DEF Fault, NoFault, TypeOK

LEMMA OrderlyTalk ==
  ASSUME Orderly, Hello \/ Ask \/ Recv \/ Kill
  PROVE  Orderly'
<1>1. TypeOK /\ Talks /\ NoneLeftBehind /\ Marked
  BY DEF Orderly
<1>2. SessionOnly /\ UNCHANGED <<session, first>>
  BY <1>1, TalkWrites
<1>3. /\ helper' \in Seq(Process) /\ Len(helper') = Len(helper) /\ Helpers' = Helpers
      /\ NoneLeftBehind'
  BY <1>1, <1>2, SessionWritten
<1>4. /\ UNCHANGED <<world, agent, reported, mark, view, xpSent>>
      /\ status' \in {status, "open"} /\ opener' \in {opener, session}
      /\ wasRunning' \in {wasRunning, TRUE} /\ after' \in {after, "lost"}
      /\ col' \in {"ask", "recv", "report", "closing"}
  BY DEF Hello, Ask, Recv, Kill, Loses, Release, To, Quiet, outbox, thread
<1>5. faults' \in 0..MaxFaults
  BY <1>1, OneFaultMore DEF Hello, Ask, Recv, Kill
<1>6. wasRunning' \in BOOLEAN
  BY <1>1, <1>4, Zenon DEF TypeOK
<1>7. TypeOK'
  BY <1>1, <1>2, <1>3, <1>4, <1>5, <1>6 DEF TypeOK, Process, world, spawned
<1>8. Talks'
  BY <1>1, TalkInStep
<1>9. Marked'
  BY <1>1, <1>4 DEF Marked, SpawnsOnce, spawned, world
<1> QED
  BY <1>3, <1>7, <1>8, <1>9 DEF Orderly

\* The wait of shutdown() is over: the helper is gone, or will be.
LEMMA OrderlyFinish ==
  ASSUME Orderly, Finish
  PROVE  Orderly'
<1>1. TypeOK /\ Talks /\ NoneLeftBehind /\ Marked
  BY DEF Orderly
<1>2. /\ session' = None /\ col' = after /\ col = "closing"
      /\ session # None => helper[session].at \in {"killed", "gone"}
      /\ UNCHANGED <<game, games, stamps, save, agent, first, after, wasRunning, view,
                     helper, reported, mark, xpSent, status, opener>>
  BY DEF Finish, Quiet, world, outbox
<1>3. faults' \in 0..MaxFaults
  <2>1. CASE session # None /\ helper[session].at = "killed"
    <3>1. faults < MaxFaults /\ faults' = faults + 1
      BY <2>1 DEF Finish
    <3> QED
      BY <1>1, <3>1, BoundsAssumption DEF TypeOK
  <2>2. CASE ~(session # None /\ helper[session].at = "killed")
    <3>1. faults' = faults
      BY <2>2, Zenon DEF Finish
    <3> QED
      BY <1>1, <3>1 DEF TypeOK
  <2> QED
    BY <2>1, <2>2
<1>4. TypeOK'
  BY <1>1, <1>2, <1>3 DEF TypeOK, Off, Helpers, None, spawned
<1>5. NoneLeftBehind'
  BY <1>1, <1>2 DEF NoneLeftBehind, Helpers
<1>6. Talks'
  BY <1>1, <1>2 DEF TypeOK, Talks
<1>7. Marked'
  BY <1>1, <1>2 DEF Marked, SpawnsOnce, spawned
<1> QED
  BY <1>4, <1>5, <1>6, <1>7 DEF Orderly

\* A session is given up, for whatever comes next.
LEMMA OrderlyRelease ==
  ASSUME Orderly, Release("idle") \/ Release("ended"), agent # "down",
         UNCHANGED <<world, agent, first, reported, mark, xpSent, opener>>,
         status' \in {status, "stopped"}, faults' \in 0..MaxFaults
  PROVE  Orderly'
<1>1. TypeOK /\ Talks /\ NoneLeftBehind /\ Marked
  BY DEF Orderly
<1>2. SessionOnly /\ UNCHANGED <<session, first>>
  BY <1>1, ReleaseWrites
<1>3. /\ helper' \in Seq(Process) /\ Len(helper') = Len(helper) /\ Helpers' = Helpers
      /\ NoneLeftBehind'
  BY <1>1, <1>2, SessionWritten
<1>4. /\ UNCHANGED <<game, games, stamps, save, wasRunning, view>>
      /\ col' = "closing" /\ after' \in {"idle", "ended"}
  BY DEF Release, world
<1>5. TypeOK'
  BY <1>1, <1>2, <1>3, <1>4 DEF TypeOK, Process, spawned
<1>6. Talks'
  BY <1>2, <1>4 DEF Talks, InStep
<1>7. Marked'
  BY <1>1, <1>4 DEF Marked, SpawnsOnce, spawned
<1> QED
  BY <1>3, <1>5, <1>6, <1>7 DEF Orderly

\* The place of the thread moves, and nothing the helpers see.
LEMMA OrderlyPlace ==
  ASSUME Orderly, UNCHANGED <<world, first, helper, session, reported, mark, agent, after, opener>>,
         agent # "down",
         view' \subseteq view, wasRunning' \in {wasRunning, FALSE},
         xpSent' \in 0..save, status' \in {status, "stopped", "closed"},
         faults' \in 0..MaxFaults,
         col' \in {"look", "ask", "report", "spawns", "lost", "finally", "dead"},
         col' = "ask" => session # None,
         col' = "lost" => session = None,
         col' \in {"look", "ask", "report", "spawns"} =>
           col \in {"look", "ask", "report", "spawns"} \/ session = None
  PROVE  Orderly'
<1>1. TypeOK /\ Talks /\ NoneLeftBehind /\ Marked
  BY DEF Orderly
<1>2. UNCHANGED <<game, games, stamps, save>> /\ Helpers' = Helpers
  BY DEF world, Helpers
<1>3. wasRunning' \in BOOLEAN
  BY <1>1, Zenon DEF TypeOK
<1>4. TypeOK'
  BY <1>1, <1>2, <1>3 DEF TypeOK, Off, spawned
<1>5. NoneLeftBehind'
  BY <1>1, <1>2 DEF NoneLeftBehind
<1>6. Talks'
  BY <1>1 DEF Talks, InStep
<1>7. Marked'
  <2>1. \A i \in DOMAIN reported : \A s \in view' : reported[i] < s
    BY <1>1 DEF Marked
  <2> QED
    BY <1>1, <1>2, <2>1 DEF Marked, SpawnsOnce, spawned
<1> QED
  BY <1>4, <1>5, <1>6, <1>7 DEF Orderly

LEMMA OrderlyStart ==
  ASSUME Orderly, Start, session = None, col = "look", agent # "down", Quiet,
         faults' \in 0..MaxFaults
  PROVE  Orderly'
<1>1. TypeOK /\ Talks /\ NoneLeftBehind /\ Marked
  BY DEF Orderly
<1> DEFINE h == [at |-> "starting", holds |-> FALSE, eof |-> FALSE, todo |-> 0, lines |-> <<>>]
<1>2. UNCHANGED <<world, game, games, stamps, save, agent, first, reported, mark, xpSent, status, opener>>
  BY DEF Quiet, world, outbox
<1>3. CASE To("lost") /\ UNCHANGED helper
  <2>1. UNCHANGED <<after, session, wasRunning, view>> /\ col' = "lost"
    BY <1>3 DEF To
  <2>2. xpSent \in 0..save
    BY <1>1 DEF TypeOK
  <2> QED
    BY <1>2, <1>3, <2>1, <2>2, OrderlyPlace
<1>4. CASE ~(To("lost") /\ UNCHANGED helper)
  <2>1. /\ Len(helper) < MaxHelpers /\ helper' = Append(helper, h)
        /\ session' = Len(helper) + 1
        /\ col' = "hello" /\ UNCHANGED <<after, wasRunning, view>>
    BY <1>4 DEF Start
  <2>2. h \in Process
    BY DEF Process
  <2>3. helper \in Seq(Process) /\ Helpers = 1..Len(helper) /\ Len(helper) \in Nat
    BY <1>1, LenProperties DEF TypeOK, Process, Helpers
  <2> HIDE DEF h
  <2>4. /\ helper' \in Seq(Process) /\ Len(helper') = Len(helper) + 1
        /\ Helpers' = 1..(Len(helper) + 1)
        /\ helper'[Len(helper) + 1] = h
        /\ \A i \in Helpers : helper'[i] = helper[i]
    <3>1. /\ helper' \in Seq(Process) /\ Len(helper') = Len(helper) + 1
          /\ \A i \in 1..Len(helper) : helper'[i] = helper[i]
          /\ helper'[Len(helper) + 1] = h
      BY <2>1, <2>2, <2>3, AppendProperties
    <3>2. Helpers' = 1..Len(helper')
      BY <3>1, LenProperties DEF Helpers
    <3> QED
      BY <2>3, <3>1, <3>2
  <2>5. TypeOK'
    <3>1. session' \in Helpers' /\ first' \in 1..(Len(helper') + 1) /\ Len(helper') <= MaxHelpers
      BY <1>1, <1>2, <2>1, <2>3, <2>4, BoundsAssumption DEF TypeOK
    <3>2. opener' \in Helpers' \cup {None}
      BY <1>1, <1>2, <2>3, <2>4 DEF TypeOK
    <3> QED
      BY <1>1, <1>2, <2>1, <2>3, <2>4, <3>1, <3>2 DEF TypeOK, Process, spawned
  <2>6. NoneLeftBehind'
    BY <1>1, <1>2, <2>1, <2>3, <2>4 DEF NoneLeftBehind, None
  <2>7. Talks'
    <3>1. Greeting(h)
      BY DEF h, Greeting, Says
    <3> QED
      BY <1>2, <2>1, <2>3, <2>4, <3>1 DEF Talks, InStep, None
  <2>8. Marked'
    BY <1>1, <1>2, <2>1 DEF Marked, SpawnsOnce, spawned
  <2> QED
    BY <2>5, <2>6, <2>7, <2>8 DEF Orderly
<1> QED
  BY <1>3, <1>4

LEMMA OrderlyLook ==
  ASSUME Orderly, Look
  PROVE  Orderly'
<1>1. /\ col = "look" /\ agent # "down"
      /\ UNCHANGED <<world, agent, first, reported, mark, xpSent, status, opener>>
  BY DEF Look, Quiet, outbox
<1>2. faults' \in 0..MaxFaults /\ xpSent \in 0..save
  BY OneFaultMore DEF Orderly, TypeOK, Look, GameRunning
<1>3. CASE Release("idle")
  BY <1>1, <1>2, <1>3, OrderlyRelease
<1>4. CASE session = None /\ Start
  BY <1>1, <1>2, <1>4, OrderlyStart DEF Look
<1>5. CASE (To("finally") \/ (To("ask") /\ session # None)) /\ UNCHANGED helper
  BY <1>1, <1>2, <1>5, OrderlyPlace DEF To
<1> QED
  BY <1>3, <1>4, <1>5, Zenon DEF Look

LEMMA XpEmitted ==
  ASSUME TypeOK, EmitXp
  PROVE  xpSent' \in 0..save /\ faults' \in 0..MaxFaults
<1>1. PICK xp \in {None, save} :
        ReadRoleXp(xp) /\ xpSent' = IF xp = None THEN xpSent ELSE xp
  BY DEF EmitXp
<1>2. faults' \in 0..MaxFaults
  BY <1>1, OneFaultMore DEF ReadRoleXp
<1>3. xpSent' \in 0..save
  BY <1>1 DEF TypeOK
<1> QED
  BY <1>2, <1>3

\* The outbox does not take the "game_open".
LEMMA OrderlyRefused ==
  ASSUME Orderly, Raise, ~UNCHANGED <<wasRunning, helper>>, faults' \in 0..MaxFaults
  PROVE  Orderly'
<1>1. TypeOK /\ Talks /\ NoneLeftBehind /\ Marked
  BY DEF Orderly
<1>2. /\ col = "hello" /\ helper[session].lines # <<>> /\ col' = "finally" /\ view' = {}
      /\ helper' = [helper EXCEPT ![session].lines = Tail(@)] /\ wasRunning' = TRUE
      /\ UNCHANGED <<game, games, stamps, save, agent, first, after, session, reported, mark,
                     xpSent, status, opener>>
  BY DEF Raise, Quiet, world, outbox
<1>3. session \in Helpers /\ session # None /\ helper[session] \in Process
  BY <1>1, <1>2, HelperTyped DEF TypeOK, Talks
<1> DEFINE h == [helper[session] EXCEPT !.lines = Tail(@)]
<1>4. h \in Process
  <2>1. Tail(helper[session].lines) \in Seq({"ok", "data", "error", "exit"})
    BY <1>2, <1>3, HeadTailProperties DEF Process
  <2> QED
    BY <1>3, <2>1 DEF Process
<1>5. helper' = [helper EXCEPT ![session] = h]
  BY <1>2
<1> HIDE DEF h
<1>6. /\ helper' \in Seq(Process) /\ Len(helper') = Len(helper) /\ Helpers' = Helpers
      /\ NoneLeftBehind'
  BY <1>1, <1>2, <1>3, <1>4, <1>5, SessionWritten DEF SessionOnly
<1>7. TypeOK'
  BY <1>1, <1>2, <1>6, Zenon DEF TypeOK, Process, spawned
<1>8. Talks'
  BY <1>1, <1>2, <1>3 DEF Talks, InStep
<1>9. Marked'
  BY <1>1, <1>2 DEF Marked, SpawnsOnce, spawned
<1> QED
  BY <1>6, <1>7, <1>8, <1>9 DEF Orderly

LEMMA OrderlyRounds ==
  ASSUME Orderly, Idle \/ Lost \/ EmitValues \/ Raise \/ Finally
  PROVE  Orderly'
<1>1. TypeOK /\ Talks /\ xpSent \in 0..save
  BY DEF Orderly, TypeOK
<1>2. agent # "down"
  BY <1>1 DEF Talks, Idle, Lost, EmitValues, Raise, Finally
<1>3. CASE Idle
  BY <1>1, <1>2, <1>3, XpEmitted, OrderlyPlace DEF Idle, Talks
<1>4. CASE Lost
  <2>1. faults' \in 0..MaxFaults
    BY <1>1, <1>4, OneFaultMore DEF Lost
  <2> QED
    BY <1>1, <1>2, <1>4, <2>1, OrderlyPlace DEF Lost, To, Quiet, outbox, Talks
<1>5. CASE EmitValues
  BY <1>1, <1>2, <1>5, XpEmitted, OrderlyPlace DEF EmitValues, WaitWhileRunning, To
<1>6. CASE Raise
  <2>1. faults' \in 0..MaxFaults
    BY <1>1, <1>6, OneFaultMore DEF Raise
  <2>2. CASE UNCHANGED <<wasRunning, helper>>
    BY <1>1, <1>2, <1>6, <2>1, <2>2, OrderlyPlace DEF Raise, Quiet, outbox
  <2>3. CASE ~UNCHANGED <<wasRunning, helper>>
    BY <1>6, <2>1, <2>3, OrderlyRefused
  <2> QED
    BY <2>2, <2>3
<1>7. CASE Finally
  <2>1. faults' \in 0..MaxFaults
    BY <1>1, <1>7, OneFaultMore DEF Finally
  <2>2. CASE Release("ended") /\ status' = "stopped"
    BY <1>2, <1>7, <2>1, <2>2, OrderlyRelease DEF Finally
  <2>3. CASE To("dead") /\ UNCHANGED <<helper, status, opener>>
    BY <1>1, <1>2, <1>7, <2>1, <2>3, OrderlyPlace DEF Finally, To
  <2> QED
    BY <1>7, <2>2, <2>3 DEF Finally
<1> QED
  BY <1>3, <1>4, <1>5, <1>6, <1>7

LEMMA TimesTyped ==
  ASSUME TypeOK
  PROVE  /\ spawned \in Nat /\ mark \in Nat /\ stamps \in Seq(1..MaxSpawns)
         /\ DOMAIN stamps = 1..spawned
         /\ \A i \in 1..spawned : stamps[i] \in 1..MaxSpawns /\ stamps[i] \in Nat
<1>1. stamps \in Seq(1..MaxSpawns) /\ spawned = Len(stamps)
  BY DEF TypeOK, spawned
<1>2. spawned \in Nat /\ DOMAIN stamps = 1..spawned
  BY <1>1, LenProperties
<1>3. ASSUME NEW i \in 1..spawned PROVE stamps[i] \in 1..MaxSpawns /\ stamps[i] \in Nat
  <2>1. stamps[i] \in 1..MaxSpawns
    BY <1>1, ElementOfSeq
  <2> QED
    BY <2>1
<1>4. mark = 0 \/ \E i \in 1..spawned : mark = stamps[i]
  BY DEF TypeOK
<1> QED
  BY <1>1, <1>2, <1>3, <1>4

\* What is reported of a poll is newer than the watermark when it is read ...
LEMMA OrderlyReport ==
  ASSUME Orderly, Report
  PROVE  Orderly'
<1>1. TypeOK /\ Talks /\ NoneLeftBehind /\ Marked
  BY DEF Orderly
<1>2. PICK seen \in SpawnEvents : view' = {s \in seen : stamps[s] > mark}
  BY DEF Report
<1>3. /\ UNCHANGED <<game, games, stamps, save, agent, first, after, session, wasRunning, helper,
                     reported, mark, xpSent, status, opener>>
      /\ col = "report" /\ col' = "spawns"
  BY DEF Report, Quiet, world, outbox
<1>4. faults' \in 0..MaxFaults
  BY <1>1, OneFaultMore DEF Report
<1>5. view' \subseteq 1..spawned /\ \A s \in view' : mark < stamps[s]
  BY <1>1, <1>2 DEF SpawnEvents, TypeOK
<1>10. \A i \in DOMAIN reported : \A s \in view' : reported[i] < s
  <2> SUFFICES ASSUME NEW i \in DOMAIN reported, NEW s \in view' PROVE reported[i] < s
    OBVIOUS
  <2>1. PICK r : r = reported[i]
    OBVIOUS
  <2>2. r \in 1..spawned /\ s \in 1..spawned /\ spawned \in Nat
    <3>1. reported \in Seq(1..spawned) /\ stamps \in Seq(1..MaxSpawns)
      BY <1>1 DEF TypeOK
    <3>2. i \in 1..Len(reported)
      BY <3>1, LenProperties
    <3>3. r \in 1..spawned
      BY <2>1, <3>1, <3>2, ElementOfSeq
    <3>4. spawned \in Nat
      BY <3>1, LenProperties DEF spawned
    <3> QED
      BY <1>5, <3>3, <3>4
  <2>3. stamps[r] <= mark /\ mark < stamps[s]
    BY <1>1, <1>5, <2>1 DEF Marked
  <2>4. stamps[r] \in Nat /\ stamps[s] \in Nat /\ mark \in Nat
    BY <1>1, <2>2, TimesTyped
  <2>5. r # s /\ ~(s < r)
    <3>1. s < r => stamps[s] <= stamps[r]
      BY <1>1, <2>2 DEF Marked
    <3> QED
      BY <2>3, <2>4, <3>1
  <2> QED
    BY <2>1, <2>2, <2>5
<1>6. TypeOK'
  BY <1>1, <1>3, <1>4, <1>5 DEF TypeOK, Helpers, spawned
<1>7. NoneLeftBehind' /\ Talks'
  BY <1>1, <1>3 DEF NoneLeftBehind, Helpers, Talks, InStep
<1>8. Marked'
  BY <1>1, <1>3, <1>10 DEF Marked, SpawnsOnce, spawned
<1> QED
  BY <1>6, <1>7, <1>8 DEF Orderly

\* ... and reported earliest first, so that the watermark never passes what is
\* still to be reported.
LEMMA OrderlySpawn ==
  ASSUME Orderly, EmitSpawn
  PROVE  Orderly'
<1> DEFINE s == Earliest(view)
<1>1. TypeOK /\ Talks /\ NoneLeftBehind /\ Marked
  BY DEF Orderly
<1>2. /\ view # {} /\ reported' = Append(reported, s) /\ mark' = stamps[s] /\ view' = view \ {s}
      /\ UNCHANGED <<game, games, stamps, save, col, after, session, wasRunning, agent, first,
                     helper, xpSent, status, opener, faults>>
  BY DEF EmitSpawn, world
<1>3. /\ view \subseteq 1..spawned /\ spawned \in Nat /\ spawned' = spawned
      /\ \A i \in 1..spawned : stamps[i] \in Nat
      /\ \A i, j \in 1..spawned : i < j => stamps[i] <= stamps[j]
  BY <1>1, <1>2, TimesTyped DEF TypeOK, Marked, spawned
<1>4. s \in view /\ s \in 1..spawned /\ \A r \in view : s <= r
  <2>1. view \subseteq Nat
    BY <1>3
  <2> QED
    BY <1>2, <1>3, <2>1, EarliestIsFirst
<1> HIDE DEF s
<1>6. /\ reported \in Seq(1..spawned) /\ reported' \in Seq(1..spawned)
      /\ Len(reported) \in Nat
      /\ DOMAIN reported = 1..Len(reported) /\ DOMAIN reported' = 1..(Len(reported) + 1)
      /\ \A i \in 1..Len(reported) : reported'[i] = reported[i]
      /\ reported'[Len(reported) + 1] = s
  <2>1. reported \in Seq(1..spawned)
    BY <1>1 DEF TypeOK
  <2> QED
    BY <1>2, <1>4, <2>1, AppendProperties, LenProperties
<1>7. TypeOK'
  <2>1. mark' \in {0} \cup {stamps[i] : i \in 1..spawned} /\ view' \subseteq 1..spawned
    BY <1>2, <1>3, <1>4
  <2> QED
    BY <1>1, <1>2, <1>3, <1>6, <2>1 DEF TypeOK, Helpers
<1>8. NoneLeftBehind' /\ Talks'
  BY <1>1, <1>2 DEF NoneLeftBehind, Helpers, Talks, InStep
<1>9. ASSUME NEW i \in 1..Len(reported)
      PROVE  reported[i] \in 1..spawned /\ \A r \in view : reported[i] < r
  <2>1. reported[i] \in 1..spawned
    BY <1>6, ElementOfSeq
  <2> QED
    BY <1>1, <1>6, <2>1 DEF Marked
<1>10. Marked'
  <2>1. ASSUME NEW i \in 1..(Len(reported) + 1)
        PROVE  /\ stamps[reported'[i]] <= stamps[s]
               /\ \A r \in view \ {s} : reported'[i] < r
    <3>1. CASE i = Len(reported) + 1
      <4>1. reported'[i] = s /\ stamps[s] \in Nat
        BY <1>3, <1>4, <1>6, <3>1
      <4>2. \A r \in view \ {s} : s < r
        BY <1>3, <1>4
      <4> QED
        BY <4>1, <4>2
    <3>2. CASE i \in 1..Len(reported)
      <4>1. PICK p : p = reported[i]
        OBVIOUS
      <4>2. p \in 1..spawned /\ p < s /\ \A r \in view : p < r
        BY <1>4, <1>9, <3>2, <4>1
      <4>3. stamps[p] <= stamps[s]
        BY <1>3, <1>4, <4>2
      <4>4. reported'[i] = p
        BY <1>6, <3>2, <4>1
      <4> QED
        BY <4>2, <4>3, <4>4
    <3> QED
      BY <1>6, <3>1, <3>2
  <2>3. ASSUME NEW i \in 1..(Len(reported) + 1), NEW j \in 1..(Len(reported) + 1), i < j
        PROVE  reported'[i] < reported'[j]
    <3>1. i \in 1..Len(reported)
      BY <1>6, <2>3
    <3>2. CASE j = Len(reported) + 1
      BY <1>4, <1>6, <1>9, <3>1, <3>2
    <3>3. CASE j \in 1..Len(reported)
      BY <1>1, <1>6, <2>3, <3>1, <3>3 DEF Marked, SpawnsOnce
    <3> QED
      BY <1>6, <3>2, <3>3
  <2>4. \A i, j \in 1..spawned' : i < j => stamps'[i] <= stamps'[j]
    BY <1>2, <1>3
  <2>5. \A i \in DOMAIN reported' : stamps'[reported'[i]] <= mark'
    BY <1>2, <1>6, <2>1
  <2>6. \A i \in DOMAIN reported' : \A r \in view' : reported'[i] < r
    BY <1>2, <1>6, <2>1
  <2> QED
    BY <1>6, <2>3, <2>4, <2>5, <2>6 DEF Marked, SpawnsOnce
<1> QED
  BY <1>7, <1>8, <1>10 DEF Orderly

-----------------------------------------------------------------------------
(* The agent's process, and the game.                                      *)

\* The end of a process is the end of file of every helper it has started.
LEMMA OrderlyProcess ==
  ASSUME Orderly, Leave \/ Crash \/ Boot \/ Stop
  PROVE  Orderly'
<1>1. TypeOK /\ Talks /\ NoneLeftBehind /\ Marked
  BY DEF Orderly
<1>2. faults' \in 0..MaxFaults
  BY <1>1, OneFaultMore DEF Leave, Crash, Boot, Stop, NoFault
<1>3. CASE Leave \/ Crash
  <2>1. /\ agent' = "down" /\ col' = "off" /\ session' = None /\ wasRunning' = FALSE
        /\ view' = {} /\ first' = Len(helper) + 1
        /\ helper' = [i \in Helpers |-> [helper[i] EXCEPT !.eof = TRUE]]
        /\ UNCHANGED <<game, games, stamps, save, after, reported, mark, xpSent, status, opener>>
    BY <1>3 DEF Leave, Crash, ProcessEnds, world, outbox
  <2>2. helper \in Seq(Process) /\ Helpers = 1..Len(helper) /\ Len(helper) \in Nat
    BY <1>1, LenProperties DEF TypeOK, Process, Helpers
  <2>3. /\ Helpers' = Helpers
        /\ \A i \in Helpers : helper'[i] \in Process /\ helper'[i].eof
    <3>1. ASSUME NEW i \in Helpers
          PROVE  [helper[i] EXCEPT !.eof = TRUE] \in Process
                 /\ [helper[i] EXCEPT !.eof = TRUE].eof
      <4>1. helper[i] \in Process
        BY <1>1, HelperTyped
      <4> QED
        BY <4>1 DEF Process
    <3> QED
      BY <2>1, <3>1 DEF Helpers
  <2> HIDE DEF Process
  <2>4. helper' \in Seq(Process) /\ Len(helper') = Len(helper)
    <3>1. helper' \in [1..Len(helper) -> Process]
      BY <2>1, <2>2, <2>3
    <3> QED
      BY <2>2, <3>1, IsASeq, LenProperties
  <2>5. TypeOK'
    <3>1. wasRunning' \in BOOLEAN
      BY <2>1, Zenon
    <3>2. first' \in 1..(Len(helper') + 1)
      BY <2>1, <2>2, <2>4
    <3>3. opener' \in Helpers' \cup {None}
      BY <1>1, <2>1, <2>3 DEF TypeOK
    <3> QED
      BY <1>1, <1>2, <2>1, <2>4, <3>1, <3>2, <3>3 DEF TypeOK, Process, None, Off, spawned
  <2>6. NoneLeftBehind'
    <3>1. \A i \in Helpers' : i < first'
      BY <2>1, <2>2, <2>3
    <3> QED
      BY <2>3, <3>1 DEF NoneLeftBehind
  <2>7. Talks'
    BY <2>1 DEF Talks
  <2>8. Marked'
    BY <1>1, <2>1 DEF Marked, SpawnsOnce, spawned
  <2> QED
    BY <2>5, <2>6, <2>7, <2>8 DEF Orderly
<1>4. CASE Boot \/ Stop
  <2>1. /\ UNCHANGED <<game, games, stamps, save, first, after, session, wasRunning, view,
                       helper, reported, mark, xpSent>>
        /\ agent' \in {"up", "stopping"}
        /\ \/ col' = col
           \/ col' = "look" /\ session = None
        /\ UNCHANGED <<status, opener>>
    BY <1>1, <1>4 DEF Boot, Stop, To, world, thread, outbox, Talks
  <2>2. TypeOK'
    BY <1>1, <1>2, <2>1 DEF TypeOK, Helpers, spawned
  <2>3. NoneLeftBehind' /\ Talks'
    BY <1>1, <2>1 DEF NoneLeftBehind, Helpers, Talks, InStep
  <2>4. Marked'
    BY <1>1, <2>1 DEF Marked, SpawnsOnce, spawned
  <2> QED
    BY <2>2, <2>3, <2>4 DEF Orderly
<1> QED
  BY <1>3, <1>4

LEMMA LargerSeq ==
  ASSUME NEW S, NEW T, S \subseteq T, NEW s \in Seq(S)
  PROVE  s \in Seq(T)
OBVIOUS

\* A spawn is not earlier than those before it.
LEMMA SpawnAdded ==
  ASSUME TypeOK, Marked, GameSpawns
  PROVE  /\ stamps' \in Seq(1..MaxSpawns) /\ spawned' = spawned + 1 /\ spawned' <= MaxSpawns
         /\ \A i \in 1..spawned : stamps'[i] = stamps[i]
         /\ \A i, j \in 1..spawned' : i < j => stamps'[i] <= stamps'[j]
<1> DEFINE newest == IF stamps = <<>> THEN 0 ELSE stamps[spawned]
<1>1. PICK t \in {newest, newest + 1} : t \in 1..MaxSpawns /\ stamps' = Append(stamps, t)
  BY DEF GameSpawns
<1>2. /\ spawned \in Nat /\ stamps \in Seq(1..MaxSpawns) /\ spawned < MaxSpawns
      /\ \A i \in 1..spawned : stamps[i] \in Nat
      /\ spawned = Len(stamps) /\ spawned' = Len(stamps')
  BY TimesTyped DEF GameSpawns, spawned
<1>3. /\ stamps' \in Seq(1..MaxSpawns) /\ Len(stamps') = spawned + 1
      /\ \A i \in 1..spawned : stamps'[i] = stamps[i]
      /\ stamps'[spawned + 1] = t
  BY <1>1, <1>2, AppendProperties
<1>4. ASSUME NEW i \in 1..spawned PROVE stamps[i] <= t
  <2>1. stamps # <<>>
    BY <1>2
  <2>2. newest = stamps[spawned] /\ spawned \in 1..spawned
    BY <1>2, <2>1
  <2>3. stamps[spawned] \in Nat /\ stamps[i] \in Nat /\ t \in Nat
    BY <1>1, <1>2, <2>2
  <2>4. i = spawned \/ i < spawned
    BY <1>2
  <2>5. stamps[i] <= stamps[spawned]
    BY <1>2, <2>2, <2>3, <2>4 DEF Marked
  <2>6. t = stamps[spawned] \/ t = stamps[spawned] + 1
    BY <1>1, <2>2
  <2> QED
    BY <2>3, <2>5, <2>6
<1>5. ASSUME NEW i \in 1..(spawned + 1), NEW j \in 1..(spawned + 1), i < j
      PROVE  stamps'[i] <= stamps'[j]
  <2>1. i \in 1..spawned
    BY <1>2, <1>5
  <2>2. CASE j = spawned + 1
    BY <1>3, <1>4, <2>1, <2>2
  <2>3. CASE j \in 1..spawned
    BY <1>3, <1>5, <2>1, <2>3 DEF Marked
  <2> QED
    BY <1>2, <2>2, <2>3
<1>6. spawned' = spawned + 1 /\ spawned' <= MaxSpawns
  BY <1>2, <1>3, BoundsAssumption
<1> QED
  BY <1>3, <1>5, <1>6

LEMMA OrderlyGame ==
  ASSUME Orderly, GameStarts \/ GameEnds \/ GameSpawns \/ GameSaves
  PROVE  Orderly'
<1>1. TypeOK /\ Talks /\ NoneLeftBehind /\ Marked
  BY DEF Orderly
<1>2. /\ UNCHANGED <<agent, first, col, after, session, wasRunning, view, helper,
                     reported, mark, xpSent, status, opener, faults>>
      /\ Helpers' = Helpers
  BY DEF GameStarts, GameEnds, GameSpawns, GameSaves, thread, outbox, Helpers
<1>3. /\ games' \in 0..MaxGames /\ save' \in 0..MaxXp /\ save <= save'
      /\ xpSent \in 0..save'
  <2>1. games \in 0..MaxGames /\ save \in 0..MaxXp /\ xpSent \in 0..save
    BY <1>1 DEF TypeOK
  <2>2. /\ games' = games \/ (games < MaxGames /\ games' = games + 1)
        /\ save' = save \/ (save < MaxXp /\ save' = save + 1)
    <3>1. CASE GameStarts \/ GameEnds
      BY <3>1 DEF GameStarts, GameEnds
    <3>2. CASE GameSpawns
      <4>1. UNCHANGED <<games, save>>
        BY <3>2, Zenon DEF GameSpawns
      <4> QED
        BY <4>1
    <3>3. CASE GameSaves
      BY <3>3 DEF GameSaves
    <3> QED
      BY <3>1, <3>2, <3>3
  <2> QED
    BY <2>1, <2>2, BoundsAssumption
<1>4. game' \in BOOLEAN
  <2>1. game' \in {game, TRUE, FALSE}
    BY DEF GameStarts, GameEnds, GameSpawns, GameSaves
  <2> QED
    BY <1>1, <2>1, Zenon DEF TypeOK
<1>10. /\ stamps' \in Seq(1..MaxSpawns) /\ spawned' <= MaxSpawns
       /\ spawned \in Nat /\ spawned' \in Nat /\ spawned <= spawned'
       /\ \A i \in 1..spawned : stamps'[i] = stamps[i]
       /\ \A i, j \in 1..spawned' : i < j => stamps'[i] <= stamps'[j]
  <2>1. CASE GameSpawns
    BY <1>1, <2>1, SpawnAdded, TimesTyped
  <2>2. CASE ~GameSpawns
    <3>1. UNCHANGED stamps
      BY <2>2 DEF GameStarts, GameEnds, GameSaves
    <3> QED
      BY <1>1, <3>1, TimesTyped DEF TypeOK, Marked, spawned
  <2> QED
    BY <2>1, <2>2
<1>5. /\ view \subseteq 1..spawned' /\ mark \in {0} \cup {stamps'[i] : i \in 1..spawned'}
      /\ xpSent \in 0..save' /\ 1..spawned \subseteq 1..spawned'
  <2>1. 1..spawned \subseteq 1..spawned'
    BY <1>10
  <2>2. mark = 0 \/ \E i \in 1..spawned : mark = stamps[i]
    BY <1>1 DEF TypeOK
  <2>3. mark = 0 \/ \E i \in 1..spawned' : mark = stamps'[i]
    BY <1>10, <2>1, <2>2
  <2>4. view \subseteq 1..spawned
    BY <1>1 DEF TypeOK
  <2> QED
    BY <1>3, <2>1, <2>3, <2>4
<1>6. reported \in Seq(1..spawned')
  <2>1. reported \in Seq(1..spawned)
    BY <1>1 DEF TypeOK
  <2> QED
    BY <1>5, <2>1, LargerSeq
<1>7. TypeOK'
  BY <1>1, <1>2, <1>3, <1>4, <1>5, <1>6, <1>10 DEF TypeOK
<1>8. NoneLeftBehind' /\ Talks'
  BY <1>1, <1>2 DEF NoneLeftBehind, Talks, InStep
<1>9. Marked'
  <2>1. \A i \in DOMAIN reported : reported[i] \in 1..spawned
    <3>1. reported \in Seq(1..spawned)
      BY <1>1 DEF TypeOK
    <3> QED
      BY <3>1, LenProperties, ElementOfSeq
  <2>2. \A i \in DOMAIN reported : stamps'[reported[i]] <= mark
    BY <1>1, <1>10, <2>1 DEF Marked
  <2> QED
    BY <1>1, <1>2, <1>10, <2>2 DEF Marked, SpawnsOnce
<1> QED
  BY <1>7, <1>8, <1>9 DEF Orderly

-----------------------------------------------------------------------------
LEMMA OrderlyNext == Orderly /\ [Next]_vars => Orderly'
<1> SUFFICES ASSUME Orderly, [Next]_vars
             PROVE  Orderly'
  OBVIOUS
<1>1. CASE Hello \/ Ask \/ Recv \/ Kill
  BY <1>1, OrderlyTalk
<1>2. CASE Look
  BY <1>2, OrderlyLook
<1>3. CASE Idle \/ Lost \/ EmitValues \/ Raise \/ Finally
  BY <1>3, OrderlyRounds
<1>4. CASE Report
  BY <1>4, OrderlyReport
<1>5. CASE EmitSpawn
  BY <1>5, OrderlySpawn
<1>6. CASE Finish
  BY <1>6, OrderlyFinish
<1>7. CASE \E i \in Helpers : HelperStep(i)
  BY <1>7, OrderlyHelper
<1>8. CASE Leave \/ Crash \/ Boot \/ Stop
  BY <1>8, OrderlyProcess
<1>9. CASE GameStarts \/ GameEnds \/ GameSpawns \/ GameSaves
  BY <1>9, OrderlyGame
<1>10. CASE UNCHANGED vars
  BY <1>10 DEF vars, world, thread, outbox, Orderly, TypeOK, NoneLeftBehind, Helpers, Talks,
     InStep, Marked, SpawnsOnce, spawned
<1> QED
  BY <1>1, <1>2, <1>3, <1>4, <1>5, <1>6, <1>7, <1>8, <1>9, <1>10
     DEF Next, RunStep, HelperStep

LEMMA OrderlyAlways == Spec => []Orderly
  BY OrderlyInit, OrderlyNext, PTL DEF Spec

\* Every variable keeps its type: the pipes hold nothing but the four words.
THEOREM TypeCorrect == Spec => []TypeOK
<1>1. Orderly => TypeOK
  BY DEF Orderly
<1> QED
  BY <1>1, OrderlyAlways, PTL

\* steamsession.py: "a helper that outlives this call is exactly the bug the
\* whole module exists to fix": whatever fails, a helper that is alive is the
\* session's, is being killed, or has the end of file of its ended agent.
THEOREM NobodyLeftBehind == Spec => []NoneLeftBehind
<1>1. Orderly => NoneLeftBehind
  BY DEF Orderly
<1> QED
  BY <1>1, OrderlyAlways, PTL

\* A late answer is never taken for the answer to a later poll: whoever is
\* about to be asked has nothing to answer and nothing unread but its end.
THEOREM AnswersMatchQuestions == Spec => []AskedAlone
<1>1. Orderly => AskedAlone
  <2> SUFFICES ASSUME Orderly, col = "ask"
               PROVE  helper[session].todo = 0 /\ helper[session].lines \in {<<>>, <<"exit">>}
    BY DEF AskedAlone
  <2>1. Resting(helper[session])
    BY DEF Orderly, Talks, InStep
  <2>2. Append(<<>>, "exit") = <<"exit">>
    BY FirstSaid
  <2> QED
    BY <2>1, <2>2 DEF Resting, Says
<1> QED
  BY <1>1, OrderlyAlways, PTL

\* Every spawn is reported at most once and in the order of the game's clock,
\* over any number of crashes and starts of the agent.
THEOREM SpawnsReportedOnce == Spec => []SpawnsOnce
<1>1. Orderly => SpawnsOnce
  BY DEF Orderly, Marked
<1> QED
  BY <1>1, OrderlyAlways, PTL
==============================================================================
