------------------------------ MODULE Accounts ------------------------------
(***************************************************************************)
(* Who a browser is: signing in with Google, the account behind it         *)
(* (auth.py and the routes of api/app.py), and what the server's owner     *)
(* adopts when it starts (ownership.py).                                   *)
(*                                                                         *)
(* An account is the position of its row in users.  A callback from Google *)
(* is a request of several database transactions with awaits between them, *)
(* so two tabs, or two people, can be in the middle of theirs at once.     *)
(* Tokens, hashes and cookies' attributes are left out: a cookie is what   *)
(* it stands for.                                                          *)
(***************************************************************************)
EXTENDS Naturals, Sequences

CONSTANTS
  Subjects,      \* Google's subject claims: the people
  Addresses,     \* verified addresses, one per person at a time
  Admitted,      \* the addresses Settings.allows admits to a new account
  OwnerSettings, \* what PROFITDOG_OWNER_EMAIL may be, from start to start
  Browsers,
  TabsEach,      \* bound: tabs of one browser that sign in at once
  Agents,        \* agent ids, one per outbox
  MaxLogins,     \* bound: sign-ins begun
  MaxMoves,      \* bound: addresses that change hands
  MaxFaults,     \* bound: failures
  None

ASSUME PeopleAssumption == None \notin Subjects \cup Addresses \cup Nat
\* Enough addresses for everybody to have one of his own.
ASSUME AddressAssumption ==
  \E a \in [Subjects -> Addresses] : \A s, r \in Subjects : a[s] = a[r] => s = r
ASSUME AgentsAssumption == Agents # {}
ASSUME SettingsAssumption ==
  Admitted \subseteq Addresses /\ OwnerSettings \subseteq Addresses \cup {None}
ASSUME BoundsAssumption == {TabsEach, MaxLogins, MaxMoves, MaxFaults} \subseteq Nat

VARIABLES
  \* Google
  address,  \* the verified address of each subject, or None
  moves,    \* how many changed hands
  crossed,  \* history: one of them did while a sign-in with it was under way
  \* the database
  users,    \* rows of users: subject (or None) and address
  owner,    \* agents.user_id, NoRow while the agent has no row
  archive,  \* user_id of matches and events written without a credential
  \* the server process
  up,
  \* the browsers
  session,  \* per browser: the account its session cookie stands for, or NoOne
  who,      \* history: the subject that signed in there
  cookie,   \* per browser: the tab whose login the flow cookie remembers, or None
  tab,      \* per tab: where its sign-in is
  \* the model
  logins,   \* sign-ins begun
  faults    \* failures so far

google == <<address, moves, crossed>>
people == <<users, owner, archive>>
browser == <<session, who, cookie, tab, logins>>
accountVars == <<google, people, up, browser, faults>>

Tabs == Browsers \X (1..TabsEach)
NoOne == 0
NoRow == None
Rows == 1..Len(users)
Idle == [step |-> "idle", sub |-> None, email |-> None, row |-> NoOne]
BrowserOf(t) == t[1]
Served == {"subject", "address", "known", "claim", "create", "session"}

UserRow == [sub : Subjects \cup {None}, email : Addresses]

\* Where a tab is; in the middle of a request, what Google said of it and which
\* of n rows was found for it.
SignIn(n) ==
  [step : {"idle", "google", "error"}, sub : {None}, email : {None}, row : {NoOne}]
  \cup [step : Served, sub : Subjects, email : Addresses, row : 0..n]

AccountTypeOK ==
  /\ address \in [Subjects -> Addresses \cup {None}]
  /\ moves \in 0..MaxMoves /\ crossed \in BOOLEAN
  /\ users \in Seq(UserRow)
  /\ owner \in [Agents -> {NoRow} \cup (0..Len(users))]
  /\ archive \subseteq 0..Len(users)
  /\ up \in BOOLEAN
  /\ session \in [Browsers -> 0..Len(users)]
  /\ who \in [Browsers -> Subjects \cup {None}]
  /\ cookie \in [Browsers -> Tabs \cup {None}]
  /\ tab \in [Tabs -> SignIn(Len(users))]
  /\ logins \in 0..MaxLogins /\ faults \in 0..MaxFaults

\* A database from before there were accounts, or an empty one; the server has
\* not been started on it yet.
AccountInit ==
  /\ address = CHOOSE a \in [Subjects -> Addresses] :
                 \A s, r \in Subjects : a[s] = a[r] => s = r
  /\ moves = 0 /\ crossed = FALSE
  /\ users = <<>>
  /\ owner \in [Agents -> {NoRow, NoOne}]
  /\ archive \in {{}, {NoOne}}
  /\ (\E a \in Agents : owner[a] = NoOne) => archive = {NoOne}
  /\ up = FALSE
  /\ session = [b \in Browsers |-> NoOne]
  /\ who = [b \in Browsers |-> None]
  /\ cookie = [b \in Browsers |-> None]
  /\ tab = [t \in Tabs |-> Idle]
  /\ logins = 0 /\ faults = 0

-----------------------------------------------------------------------------
(* Starting, stopping, adopting. *)

\* The rows of an address (at most one: it is UNIQUE), or of a subject.
OfAddress(e) == {u \in Rows : users[u].email = e}
OfSubject(s) == {u \in Rows : users[u].sub = s}
Unclaimed(e) == {u \in OfAddress(e) : users[u].sub = None}

Only(S) == CHOOSE x \in S : TRUE

Ownerless == NoOne \in archive
             \/ \E a \in Agents : owner[a] = NoOne

\* Mutation: everything is adopted, what has an owner too.
AdoptAll(u) ==
  /\ owner' = [a \in Agents |-> IF owner[a] = NoRow THEN NoRow ELSE u]
  /\ archive' = {u : x \in archive}

Adopt(u) ==
  /\ owner' = [a \in Agents |-> IF owner[a] = NoOne THEN u ELSE owner[a]]
  /\ archive' = {IF x = NoOne THEN u ELSE x : x \in archive}

\* ensure_owner, at every start: the address in the settings adopts whatever
\* has no owner, with a row of its own if it has none yet.
EnsureOwner(e) ==
  \/ /\ e = None \/ (~Ownerless /\ OfAddress(e) = {})
     /\ UNCHANGED people
  \/ /\ e # None /\ OfAddress(e) # {}
     /\ Adopt(Only(OfAddress(e)))
     /\ UNCHANGED users
  \/ /\ e # None /\ OfAddress(e) = {} /\ Ownerless
     /\ users' = Append(users, [sub |-> None, email |-> e])
     /\ Adopt(Len(users) + 1)

Start ==
  /\ ~up
  /\ \E e \in OwnerSettings : EnsureOwner(e)
  /\ up' = TRUE
  /\ UNCHANGED <<google, browser, faults>>

\* Requests the server is in the middle of end with it.
Stop ==
  /\ up /\ faults < MaxFaults
  /\ up' = FALSE
  /\ tab' = [t \in Tabs |-> IF tab[t].step \in Served
                              THEN [Idle EXCEPT !.step = "error"] ELSE tab[t]]
  /\ faults' = faults + 1
  /\ UNCHANGED <<google, people, session, who, cookie, logins>>

\* The importer writes matches no agent uploaded.  Nothing but the next start
\* looks at what has no owner, so it is enough that it may run before one.
Import ==
  /\ ~up /\ NoOne \notin archive
  /\ archive' = archive \cup {NoOne}
  /\ UNCHANGED <<google, users, owner, up, browser, faults>>

-----------------------------------------------------------------------------
(* Signing in. *)

\* auth_login: off to Google, with a flow cookie that replaces an earlier one.
Login(t) ==
  /\ up /\ tab[t].step \in {"idle", "error"} /\ logins < MaxLogins
  /\ logins' = logins + 1
  /\ tab' = [tab EXCEPT ![t] = [Idle EXCEPT !.step = "google"]]
  /\ cookie' = [cookie EXCEPT ![BrowserOf(t)] = t]
  /\ UNCHANGED <<google, people, up, session, who, faults>>

\* The response of a refusal takes the flow cookie with it.
Refuse(t) ==
  /\ tab' = [tab EXCEPT ![t] = Idle]
  /\ cookie' = [cookie EXCEPT ![BrowserOf(t)] = None]

\* exchange_code: the subjects Google may answer with.
Vouched == {s \in Subjects : address[s] # None}

\* read_id_token: no claims without a subject and an address that is verified.
Claims(s) == [sub |-> s, email |-> address[s]]

\* auth_callback as far as the claims: the state must be that of the browser's
\* flow cookie; Google may decline, and what it says may be no good.
Callback(t) ==
  /\ up /\ tab[t].step = "google"
  /\ \/ Refuse(t)
     \/ /\ cookie[BrowserOf(t)] = t
        /\ \E s \in Vouched :
             tab' = [tab EXCEPT ![t] = [step |-> "subject", sub |-> Claims(s).sub,
                                        email |-> Claims(s).email, row |-> NoOne]]
        /\ UNCHANGED cookie
  /\ UNCHANGED <<google, people, up, session, who, logins, faults>>

\* The step a tab's sign-in takes next, and the row it found.
Proceed(t, step, row) ==
  /\ tab' = [tab EXCEPT ![t].step = step, ![t].row = row]
  /\ UNCHANGED <<google, people, up, session, who, cookie, logins, faults>>

\* upsert_google_user, 1: is the subject known?
FindSubject(t) ==
  /\ tab[t].step = "subject"
  /\ IF OfSubject(tab[t].sub) # {}
       THEN Proceed(t, "known", Only(OfSubject(tab[t].sub)))
       ELSE Proceed(t, "address", NoOne)

\* Settings.allows.
Allows(e) == e \in Admitted

\* 2: does the address match a row nobody has claimed?  3: is it admitted?
FindAddressAnyRow(t) ==
  /\ tab[t].step = "address"
  /\ \/ /\ OfAddress(tab[t].email) # {}
        /\ Proceed(t, "claim", Only(OfAddress(tab[t].email)))
     \/ /\ OfAddress(tab[t].email) = {} /\ Allows(tab[t].email)
        /\ Proceed(t, "create", NoOne)
     \/ /\ OfAddress(tab[t].email) = {} /\ ~Allows(tab[t].email)
        /\ Refuse(t)
        /\ UNCHANGED <<google, people, up, session, who, logins, faults>>

FindAddress(t) ==
  /\ tab[t].step = "address"
  /\ \/ /\ Unclaimed(tab[t].email) # {}
        /\ Proceed(t, "claim", Only(Unclaimed(tab[t].email)))
     \/ /\ Unclaimed(tab[t].email) = {} /\ Allows(tab[t].email)
        /\ Proceed(t, "create", NoOne)
     \/ /\ Unclaimed(tab[t].email) = {} /\ ~Allows(tab[t].email)
        /\ Refuse(t)
        /\ UNCHANGED <<google, people, up, session, who, logins, faults>>

\* google_sub and email are each UNIQUE.
Unique(rows) ==
  \A u, v \in DOMAIN rows :
    u # v => /\ rows[u].email # rows[v].email
             /\ rows[u].sub = rows[v].sub => rows[u].sub = None

Row(t) == [sub |-> tab[t].sub, email |-> tab[t].email]

\* What the last statement of upsert_google_user makes of the table.
Upserted(t) ==
  CASE tab[t].step = "known"  -> [users EXCEPT ![tab[t].row].email = tab[t].email]
    [] tab[t].step = "claim"  -> [users EXCEPT ![tab[t].row].sub = tab[t].sub]
    [] tab[t].step = "create" -> Append(users, Row(t))

\* The write the reads decided on.  A violated constraint is no
\* PermissionError: the request fails with 500, its cookie stays.
Upsert(t) ==
  /\ tab[t].step \in {"known", "claim", "create"}
  /\ IF Unique(Upserted(t))
       THEN /\ users' = Upserted(t)
            /\ tab' = [tab EXCEPT ![t].step = "session",
                   ![t].row = IF tab[t].row = NoOne THEN Len(users') ELSE tab[t].row]
       ELSE /\ tab' = [tab EXCEPT ![t] = [Idle EXCEPT !.step = "error"]]
            /\ UNCHANGED users
  /\ UNCHANGED <<google, owner, archive, up, session, who, cookie, logins, faults>>

\* create_session.
SignsIn(b, u) == session' = [session EXCEPT ![b] = u]

\* The end of auth_callback: one cookie is set and the other deleted.
CreateSession(t) ==
  /\ tab[t].step = "session"
  /\ SignsIn(BrowserOf(t), tab[t].row)
  /\ who' = [who EXCEPT ![BrowserOf(t)] = tab[t].sub]
  /\ cookie' = [cookie EXCEPT ![BrowserOf(t)] = None]
  /\ tab' = [tab EXCEPT ![t] = Idle]
  /\ UNCHANGED <<google, people, up, logins, faults>>

\* end_session, called for a session that expired too: user_for_session
\* sweeps it at the next request, and until then takes it for none.
EndSession(b) ==
  /\ session[b] # NoOne
  /\ session' = [session EXCEPT ![b] = NoOne]
  /\ who' = [who EXCEPT ![b] = None]

\* auth_logout, or a session that expired.
Logout(b) ==
  /\ EndSession(b)
  /\ UNCHANGED <<google, people, up, cookie, tab, logins, faults>>

\* user_for_session: the signed-in person, or NoOne.
Viewer(b) == session[b]

\* Outside: a workspace gives an address to somebody else, or gives somebody
\* another one, at any moment.
Move ==
  /\ moves < MaxMoves
  /\ \E s \in Subjects, e \in Addresses :
       /\ address[s] # e
       /\ crossed' = (crossed \/ \E t \in Tabs : tab[t].email \in {e, address[s]} \ {None})
       /\ address' = [r \in Subjects |-> IF r = s THEN e
                                         ELSE IF address[r] = e THEN None
                                         ELSE address[r]]
  /\ moves' = moves + 1
  /\ UNCHANGED <<people, up, browser, faults>>

-----------------------------------------------------------------------------
AccountNext ==
  \/ Start
  \/ Stop
  \/ Import
  \/ Move
  \/ \E t \in Tabs : \/ Login(t) \/ Callback(t) \/ FindSubject(t)
                     \/ FindAddress(t) \/ Upsert(t) \/ CreateSession(t)
  \/ \E b \in Browsers : Logout(b)

AccountSpec == AccountInit /\ [][AccountNext]_accountVars

-----------------------------------------------------------------------------
\* Whoever is signed in is in the account of the subject Google vouched for
\* there, though addresses change hands, the owner's row is claimed by address
\* and several sign-ins read and write the table in between each other -- unless
\* an address has changed hands in the middle of a sign-in with it.
SignedInAsOneself ==
  ~crossed => \A b \in Browsers : session[b] # NoOne => users[session[b]].sub = who[b]

\* Adoption gives an owner to what has none and takes nothing from anybody,
\* start after start and whatever the setting was before.
OwnersStay ==
  [][ /\ \A a \in Agents : owner[a] \notin {NoRow, NoOne} => owner'[a] = owner[a]
      /\ archive \ {NoOne} \subseteq archive'
    ]_<<owner, archive>>
=============================================================================
