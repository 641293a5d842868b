-------------------------- MODULE DeliveryRestore --------------------------
(***************************************************************************)
(* Delivery against a server whose database is put back to a backup (the   *)
(* reverse case of uplink.py's docstring, and the reason for the gap       *)
(* closing of Ingest._advance_cursor).  A backup is whatever the database  *)
(* held at some moment, the empty database of a fresh install included.    *)
(***************************************************************************)
EXTENDS Delivery

VARIABLES
  backup,   \* the server's database when the last backup was taken
  ever      \* every fact the server has stored in any of its lives

restoreVars == <<vars, backup, ever>>

Database == [stored |-> stored, cursor |-> cursor, fed |-> fed]

RestoreInit ==
  /\ Init
  /\ backup = Database
  /\ ever = {}

Backup ==
  /\ backup' = Database
  /\ UNCHANGED <<vars, ever>>

Restore ==
  /\ faults < MaxFaults
  /\ faults' = faults + 1
  /\ stored' = backup.stored
  /\ cursor' = backup.cursor
  /\ fed' = backup.fed
  /\ UNCHANGED <<disk, running, calls, late, backup, ever>>

\* A step of Delivery, in this life of the database.
Step(A) == A /\ ever' = ever \cup stored' /\ UNCHANGED backup

RestoreNext ==
  \/ Step(Next)
  \/ Backup
  \/ Restore

RestoreSpec == RestoreInit /\ [][RestoreNext]_restoreVars

RestoreFairness ==
  /\ \A c \in Callers : /\ WF_restoreVars(Step(CallerStep(c)))
                         /\ WF_restoreVars(Step(Serve(c)))
  /\ WF_restoreVars(Step(Boot))
  /\ WF_restoreVars(Step(DrainOnExit))
  /\ WF_restoreVars(Step(Exit))

RestoreFairSpec == RestoreSpec /\ RestoreFairness

-----------------------------------------------------------------------------
(* Properties. *)

\* The agent forgets a fact only after some life of the server stored it.
ForgottenWasStored == 1..(nextSeq - 1) \subseteq outbox \cup ever

\* Writing a gap off acknowledges nothing the agent still holds and the
\* server has not got: the gap really is below the head of the queue, even
\* for a batch that was sent before the restore and arrives after it.
CursorHonest == \A s \in 1..cursor : s \in stored \/ s \notin outbox

\* The cursor never waits below a fact it has: after a restore the first batch
\* lifts it over the numbers nobody will send again.
CursorNotWedged == \A s \in stored : s <= cursor
=============================================================================
