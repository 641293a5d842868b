---------------------------- MODULE FactStream -----------------------------
(***************************************************************************)
(* What the agent, the network and the server promise together, and        *)
(* nothing about how: one numbered stream of facts that is produced in     *)
(* order, reaches the server in order and without holes, and is forgotten  *)
(* by the agent only once it is there.  Delivery implements this module    *)
(* (see Delivery!Stream).                                                  *)
(***************************************************************************)
EXTENDS Naturals

VARIABLES produced,    \* facts 1..produced were written down by the agent
          delivered,   \* facts 1..delivered were applied by the server
          forgotten    \* facts 1..forgotten were deleted by the agent

vars == <<produced, delivered, forgotten>>

Init ==
  /\ produced = 0
  /\ delivered = 0
  /\ forgotten = 0

\* One observation is written down.
Produce ==
  /\ produced' = produced + 1
  /\ UNCHANGED <<delivered, forgotten>>

\* The next facts of the stream, however many, become part of the server.
Deliver ==
  /\ delivered' \in (delivered + 1)..produced
  /\ UNCHANGED <<produced, forgotten>>

\* The agent lets go of facts the server has.
Forget ==
  /\ forgotten' \in (forgotten + 1)..delivered
  /\ UNCHANGED <<produced, delivered>>

Next == Produce \/ Deliver \/ Forget

Spec == Init /\ [][Next]_vars
=============================================================================
