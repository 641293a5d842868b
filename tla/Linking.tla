------------------------------ MODULE Linking ------------------------------
(***************************************************************************)
(* How a gaming PC comes to belong to an account, and what it may do then. *)
(*                                                                         *)
(* The agent has no idea whose PC it is on.  It asks the server for a code *)
(* (linking.py), shows it, and polls until somebody who is signed in has   *)
(* approved it; redeem_link (auth.py) then trades the code for a           *)
(* credential, which the agent keeps in a file (credentials.py) and        *)
(* uploads with.  The file is never checked against the server.            *)
(*                                                                         *)
(* A code and a credential are the positions of their rows.  Only the      *)
(* process that asked for a code knows its device secret, so nobody else   *)
(* can poll for it.                                                        *)
(***************************************************************************)
EXTENDS Accounts

CONSTANTS PCs

VARIABLES
  \* the PCs
  agentOf,    \* the agent id in the PC's outbox
  file,       \* the credential file: NoFile, Unreadable or a credential
  pc,         \* the agent's process: what it does, with which code or credential
  unwelcome,  \* the process was told that its credential is no good
  upload,     \* a batch whose credential post_facts has looked up
  \* the exchange of one poll, per code
  call,       \* "none", "sent", or the answer "linked", "pending", "failed"
  \* the database
  codes,      \* rows of link_codes
  creds,      \* rows of agent_credentials
  held        \* per agent: user_id of what was stored for it from its uploads

disk == <<agentOf, file>>
process == <<pc, unwelcome, upload>>
links == <<codes, creds, held>>
linkVars == <<disk, process, call, links>>
vars == <<accountVars, linkVars>>

NoFile == 0
Unreadable == None
Codes == 1..Len(codes)
Creds == 1..Len(creds)
Down == [does |-> "down", code |-> 0, cred |-> 0]

Process == [does : {"down", "polling", "running"},
            code : 0..Len(codes), cred : 0..Len(creds)]
CodeRow == [agent : Agents, user : 0..Len(users), shown : BOOLEAN,
            consumed : BOOLEAN, expired : BOOLEAN]
CredRow == [agent : Agents, user : Rows, code : Codes, revoked : BOOLEAN]

LinkTypeOK ==
  /\ AccountTypeOK
  /\ agentOf \in [PCs -> Agents]
  /\ file \in [PCs -> {NoFile, Unreadable} \cup Creds]
  /\ pc \in [PCs -> Process]
  /\ unwelcome \in [PCs -> BOOLEAN]
  /\ upload \in [PCs -> 0..Len(creds)]
  /\ call \in Seq({"none", "sent", "linked", "pending", "failed"})
  /\ Len(call) = Len(codes)
  /\ codes \in Seq(CodeRow)
  /\ creds \in Seq(CredRow)
  /\ held \in [Agents -> SUBSET Rows]

Init ==
  /\ AccountInit
  /\ agentOf = [p \in PCs |-> CHOOSE a \in Agents : TRUE]
  /\ file = [p \in PCs |-> NoFile]
  /\ pc = [p \in PCs |-> Down]
  /\ unwelcome = [p \in PCs |-> FALSE]
  /\ upload = [p \in PCs |-> 0]
  /\ call = <<>>
  /\ codes = <<>> /\ creds = <<>>
  /\ held = [a \in Agents |-> {}]

Fault == faults < MaxFaults /\ faults' = faults + 1
AccountsUnchanged == UNCHANGED <<google, people, up, browser>>
NoFault == AccountsUnchanged /\ UNCHANGED faults

Ends(p) == pc' = [pc EXCEPT ![p] = Down]
Runs(p, k) == pc' = [pc EXCEPT ![p] = [does |-> "running", code |-> 0, cred |-> k]]

-----------------------------------------------------------------------------
(* The agent: main() up to the threads. *)

\* start_link: a new row of link_codes.
NewCode(agent, shown) ==
  codes' = Append(codes, [agent |-> agent, user |-> NoOne, shown |-> shown,
                          consumed |-> FALSE, expired |-> FALSE])

\* POST /api/agent/link/start; what it answers reaches the PC, and is shown, or not.
LinkStart(p, shown) ==
  /\ up
  /\ NewCode(agentOf[p], shown)
  /\ call' = Append(call, "none")

\* link() begins.  A server that cannot be reached, or an answer that is lost,
\* ends the process (OSError, "could not reach").
StartLink(p) ==
  \/ /\ LinkStart(p, TRUE)
     /\ pc' = [pc EXCEPT ![p] = [does |-> "polling", code |-> Len(codes) + 1,
                                 cred |-> 0]]
     /\ NoFault
  \/ /\ LinkStart(p, FALSE) /\ Ends(p)
     /\ Fault /\ AccountsUnchanged
  \/ /\ ~up /\ Ends(p) /\ UNCHANGED <<codes, call>>
     /\ NoFault

\* ensure_credential: the file as it is, or the handshake.
EnsureCredential(p) ==
  \/ /\ file[p] # NoFile
     /\ Runs(p, file[p])
     /\ UNCHANGED <<call, codes>> /\ NoFault
  \/ /\ file[p] = NoFile
     /\ StartLink(p)

\* CredentialStore.load returns rather than raises.
Loads(p) == file[p] # Unreadable

\* The agent is started.
Boot(p) ==
  /\ pc[p].does = "down" /\ Loads(p)
  /\ EnsureCredential(p)
  /\ UNCHANGED <<disk, unwelcome, upload, creds, held>>

\* Started with --relink, because uploads are refused or the file cannot be read.
\* Mutation: the file is kept until there is another.
RelinkKeeps(p) ==
  /\ unwelcome[p] \/ ~Loads(p)
  /\ pc[p].does # "polling"
  /\ Ends(p)
  /\ unwelcome' = [unwelcome EXCEPT ![p] = FALSE]
  /\ upload' = [upload EXCEPT ![p] = 0]
  /\ UNCHANGED <<disk, call, links>> /\ NoFault

Relink(p) ==
  /\ unwelcome[p] \/ ~Loads(p)
  /\ pc[p].does # "polling"
  /\ file' = [file EXCEPT ![p] = NoFile]
  /\ StartLink(p)
  /\ unwelcome' = [unwelcome EXCEPT ![p] = FALSE]
  /\ upload' = [upload EXCEPT ![p] = 0]
  /\ UNCHANGED <<agentOf, creds, held>>

\* CredentialStore.save moves the new file into the place of the old one.
Saves(p, k) == file' = [file EXCEPT ![p] = k]

\* One turn of link()'s loop: POST /api/agent/link/poll.
Poll(p) ==
  /\ pc[p].does = "polling" /\ call[pc[p].code] = "none"
  /\ call' = [call EXCEPT ![pc[p].code] = "sent"]
  /\ UNCHANGED <<disk, process, links>> /\ NoFault

\* The loop's branches: save and go on, sleep, LinkingError.
PollAnswered(p) ==
  /\ pc[p].does = "polling"
  /\ \/ /\ call[pc[p].code] = "linked"
        /\ \E k \in Creds :
             /\ creds[k].code = pc[p].code
             /\ Saves(p, k)
             /\ Runs(p, k)
     \/ /\ call[pc[p].code] = "pending"
        /\ UNCHANGED <<file, pc>>
     \/ /\ call[pc[p].code] = "failed"
        /\ Ends(p)
        /\ UNCHANGED file
  /\ call' = [call EXCEPT ![pc[p].code] = "none"]
  /\ UNCHANGED <<agentOf, unwelcome, upload, links>> /\ NoFault

\* The poll fails, which link() does not catch: an answer is lost, or the
\* server is not there.  A request on its way may still arrive.
PollLost(p) ==
  /\ pc[p].does = "polling" /\ call[pc[p].code] # "none"
  /\ IF up THEN Fault /\ AccountsUnchanged ELSE NoFault
  /\ call' = [call EXCEPT ![pc[p].code] = IF @ = "sent" THEN @ ELSE "none"]
  /\ Ends(p)
  /\ UNCHANGED <<disk, unwelcome, upload, links>>

\* The deadline, which is later than the end of the code.
GiveUp(p) ==
  /\ pc[p].does = "polling"
  /\ call[pc[p].code] = "none" /\ codes[pc[p].code].expired
  /\ Ends(p)
  /\ UNCHANGED <<disk, unwelcome, upload, call, links>> /\ NoFault

-----------------------------------------------------------------------------
(* The server's side of linking. *)

Spent(c) == codes[c].consumed \/ codes[c].expired

\* approve_link.
ApproveLink(c, u) ==
  /\ ~Spent(c) /\ codes[c].user = NoOne
  /\ codes' = [codes EXCEPT ![c].user = u]

\* POST /link/approve, by whoever is signed in and has the code before him.  That
\* it is not the agent's owner is a mistake, and counted as a fault.
Approve(b, c) ==
  /\ up /\ Viewer(b) # NoOne
  /\ codes[c].shown /\ ApproveLink(c, Viewer(b))
  /\ IF owner[codes[c].agent] \in {NoRow, NoOne, Viewer(b)}
       THEN NoFault ELSE Fault /\ AccountsUnchanged
  /\ UNCHANGED <<disk, process, call, creds, held>>

Says(c, answer) == call' = [call EXCEPT ![c] = answer]

\* The agent's row is there, unowned, or the approver's; then it is his.
Issue(c) ==
  /\ owner' = [owner EXCEPT ![codes[c].agent] = codes[c].user]
  /\ codes' = [codes EXCEPT ![c].consumed = TRUE]
  /\ creds' = Append(creds, [agent |-> codes[c].agent, user |-> codes[c].user,
                             code |-> c, revoked |-> FALSE])
  /\ Says(c, "linked")

\* Mutation: the agent is pointed at whoever approved the code.
RedeemRepoints(c) ==
  /\ up /\ call[c] = "sent"
  /\ \/ Spent(c) /\ Says(c, "failed") /\ UNCHANGED <<owner, codes, creds>>
     \/ ~Spent(c) /\ codes[c].user = NoOne /\ Says(c, "pending")
        /\ UNCHANGED <<owner, codes, creds>>
     \/ ~Spent(c) /\ codes[c].user # NoOne /\ Issue(c)
  /\ UNCHANGED <<google, users, archive, up, browser, faults, disk, process, held>>

\* redeem_link, one transaction: used or expired, not yet approved, the agent
\* somebody else's, or a credential.
Redeem(c) ==
  /\ up /\ call[c] = "sent"
  /\ \/ /\ Spent(c)
        /\ Says(c, "failed") /\ UNCHANGED <<owner, codes, creds>>
     \/ /\ ~Spent(c) /\ codes[c].user = NoOne
        /\ Says(c, "pending") /\ UNCHANGED <<owner, codes, creds>>
     \/ /\ ~Spent(c) /\ codes[c].user # NoOne
        /\ owner[codes[c].agent] \notin {NoRow, NoOne, codes[c].user}
        /\ Says(c, "failed") /\ UNCHANGED <<owner, codes, creds>>
     \/ /\ ~Spent(c) /\ codes[c].user # NoOne
        /\ owner[codes[c].agent] \in {NoRow, NoOne, codes[c].user}
        /\ Issue(c)
  /\ UNCHANGED <<google, users, archive, up, browser, faults, disk, process, held>>

-----------------------------------------------------------------------------
(* Uploading. *)

\* identify_agent: the account and the agent behind a credential, unless revoked.
Identifies(k) == ~creds[k].revoked

\* POST /api/agent/facts as far as require_agent.
CheckUpload(p) ==
  /\ up /\ pc[p].does = "running" /\ upload[p] = 0
  /\ IF ~Identifies(pc[p].cred)
       THEN /\ ~unwelcome[p]
            /\ unwelcome' = [unwelcome EXCEPT ![p] = TRUE]
            /\ UNCHANGED upload
       ELSE /\ upload' = [upload EXCEPT ![p] = pc[p].cred]
            /\ UNCHANGED unwelcome
  /\ UNCHANGED <<disk, pc, call, links>> /\ NoFault

\* ingest, on a thread: the batch must be the credential's agent's, and what it
\* stores is the credential's account's.
StoreUpload(p) ==
  /\ up /\ upload[p] # 0
  /\ IF creds[upload[p]].agent # agentOf[p]
       THEN /\ unwelcome' = [unwelcome EXCEPT ![p] = TRUE]
            /\ UNCHANGED held
       ELSE /\ unwelcome' = [unwelcome EXCEPT ![p] = FALSE]
            /\ held' = [held EXCEPT ![agentOf[p]] = @ \cup {creds[upload[p]].user}]
  /\ upload' = [upload EXCEPT ![p] = 0]
  /\ UNCHANGED <<disk, pc, call, codes, creds>> /\ NoFault

-----------------------------------------------------------------------------
(* Failures. *)

\* The agent's process ends, between an answer and the file perhaps.
Crash(p) ==
  /\ pc[p].does # "down"
  /\ Ends(p)
  /\ upload' = [upload EXCEPT ![p] = 0]
  /\ call' = [c \in Codes |-> IF c = pc[p].code /\ call[c] # "sent" THEN "none"
                              ELSE call[c]]
  /\ Fault /\ AccountsUnchanged
  /\ UNCHANGED <<disk, unwelcome, links>>

\* The outbox is lost or replaced, and with it the agent id; the file stays.
NewOutbox(p) ==
  /\ pc[p].does = "down"
  /\ \E a \in Agents : a # agentOf[p] /\ agentOf' = [agentOf EXCEPT ![p] = a]
  /\ Fault /\ AccountsUnchanged
  /\ UNCHANGED <<file, process, call, links>>

\* CredentialError: Windows no longer opens the file.
Spoil(p) ==
  /\ file[p] \notin {NoFile, Unreadable}
  /\ file' = [file EXCEPT ![p] = Unreadable]
  /\ Fault /\ AccountsUnchanged
  /\ UNCHANGED <<agentOf, process, call, links>>

Expire(c) ==
  /\ ~Spent(c)
  /\ codes' = [codes EXCEPT ![c].expired = TRUE]
  /\ Fault /\ AccountsUnchanged
  /\ UNCHANGED <<disk, process, call, creds, held>>

\* revoke_credential.
Revoke(k) ==
  /\ ~creds[k].revoked
  /\ creds' = [creds EXCEPT ![k].revoked = TRUE]
  /\ Fault /\ AccountsUnchanged
  /\ UNCHANGED <<disk, process, call, codes, held>>

\* Something between the two delivers a poll twice.
Repeat(c) ==
  /\ call[c] \in {"linked", "pending", "failed"}
  /\ Says(c, "sent")
  /\ Fault /\ AccountsUnchanged
  /\ UNCHANGED <<disk, process, links>>

-----------------------------------------------------------------------------
Next ==
  \/ AccountNext /\ UNCHANGED linkVars
  \/ \E p \in PCs : \/ Boot(p) \/ Relink(p)
                    \/ Poll(p) \/ PollAnswered(p) \/ PollLost(p) \/ GiveUp(p)
                    \/ CheckUpload(p) \/ StoreUpload(p)
                    \/ Crash(p) \/ NewOutbox(p) \/ Spoil(p)
  \/ \E c \in Codes : Redeem(c) \/ Expire(c) \/ Repeat(c)
  \/ \E b \in Browsers, c \in Codes : Approve(b, c)
  \/ \E k \in Creds : Revoke(k)

Spec == Init /\ [][Next]_vars

\* The server comes back, and threads and requests run.  Nobody has to start an
\* agent, to sign in or to approve anything.
FairSpec ==
  /\ Spec
  /\ WF_vars(Start /\ UNCHANGED linkVars)
  /\ \A p \in PCs :
       /\ WF_vars(Poll(p)) /\ WF_vars(PollAnswered(p)) /\ WF_vars(PollLost(p))
       /\ WF_vars(GiveUp(p))
       /\ WF_vars(pc[p].does = "polling" /\ Redeem(pc[p].code))
       /\ WF_vars(CheckUpload(p)) /\ WF_vars(StoreUpload(p))

-----------------------------------------------------------------------------
\* A credential uploads into the account its agent belongs to: not even one
\* whose code was approved before the agent got an owner, by adoption or
\* through another PC, hands anybody a feed of somebody else's play.
CredentialsFollowOwner ==
  \A k \in Creds : creds[k].user = owner[creds[k].agent]

\* What an agent uploaded is in one account, its owner's.
UploadsFollowOwner == \A a \in Agents : held[a] \subseteq {owner[a]}

\* "Two agents racing on one code cannot both come away with a credential", nor
\* one that is answered twice.
CodesAreSingleUse ==
  \A k, l \in Creds : creds[k].code = creds[l].code => k = l

\* A PC with a credential that the server takes for this outbox.
Reports(p) ==
  /\ pc[p].does = "running"
  /\ Identifies(pc[p].cred) /\ creds[pc[p].cred].agent = agentOf[p]

\* A PC that waits for somebody to approve the code it shows.
Waits(p) ==
  /\ pc[p].does = "polling"
  /\ ~Spent(pc[p].code) /\ codes[pc[p].code].user = NoOne

\* What the person at the PC may do: start an agent that has ended, and start
\* one that says it is refused, or whose file cannot be read, with --relink.
\* Nothing in the code does either by itself.
PersonActs(p) == WF_vars(Boot(p)) /\ WF_vars(Relink(p))

\* The way out is always there: no lost answer, used up code, revoked credential
\* or replaced outbox leaves a PC behind whose person acts on what it says.  In
\* the end it reports, or it shows a code and it is somebody's turn to approve.
NobodyIsStranded ==
  \A p \in PCs : PersonActs(p) => <>[](Reports(p) \/ Waits(p))
=============================================================================
