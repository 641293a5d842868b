--------------------------- MODULE LinkingProofs ----------------------------
(***************************************************************************)
(* An agent reports into one account, its owner's, for any number of       *)
(* people, browsers, PCs, agents and failures.                             *)
(*                                                                         *)
(* A credential is checked when an upload arrives and the account it       *)
(* stands for is used later, when its batch is stored; a code is approved  *)
(* long before it is redeemed.  What makes both sound is that an owner is  *)
(* never replaced, and that only an agent's owner is issued a credential   *)
(* for it.                                                                 *)
(***************************************************************************)
EXTENDS Linking, SequenceTheorems, TLAPS

\* A running agent has a credential, whatever became of its file.
RunningWithCredential ==
  \A p \in PCs : pc[p].does = "running" => pc[p].cred \in Creds

\* A credential was issued for a code that is used up by it.
IssuedForSpent == \A k \in Creds : codes[creds[k].code].consumed

IInv ==
  /\ LinkTypeOK
  /\ RunningWithCredential
  /\ IssuedForSpent
  /\ CodesAreSingleUse
  /\ CredentialsFollowOwner
  /\ UploadsFollowOwner

-----------------------------------------------------------------------------
LEMMA TypeInit == Init => LinkTypeOK
<1> SUFFICES ASSUME Init PROVE LinkTypeOK
  OBVIOUS
<1> USE DEF Init, AccountInit
<1>1. address \in [Subjects -> Addresses \cup {None}]
  <2>1. (CHOOSE a \in [Subjects -> Addresses] :
           \A s, r \in Subjects : a[s] = a[r] => s = r) \in [Subjects -> Addresses]
    BY AddressAssumption, Zenon
  <2> QED
    BY <2>1
<1>2. users = <<>> /\ Len(users) = 0 /\ users \in Seq(UserRow)
  OBVIOUS
<1>3. owner \in [Agents -> {NoRow} \cup (0..Len(users))]
  BY <1>2 DEF NoOne, NoRow
<1>4. archive \subseteq 0..Len(users)
  <2>1. archive \in {{}, {NoOne}}
    BY Zenon
  <2> QED
    BY <2>1, <1>2 DEF NoOne
<1>5. AccountTypeOK
  <2>1. moves \in 0..MaxMoves /\ logins \in 0..MaxLogins /\ faults \in 0..MaxFaults
    BY BoundsAssumption
  <2>2. session \in [Browsers -> 0..Len(users)]
    BY <1>2 DEF NoOne
  <2>5. up \in BOOLEAN /\ crossed \in BOOLEAN
    BY Zenon
  <2>3. who \in [Browsers -> Subjects \cup {None}]
        /\ cookie \in [Browsers -> Tabs \cup {None}]
    OBVIOUS
  <2>4. tab \in [Tabs -> SignIn(Len(users))]
    BY <1>2 DEF SignIn, Idle, NoOne
  <2> QED
    BY <1>1, <1>2, <1>3, <1>4, <2>1, <2>2, <2>3, <2>4, <2>5
       DEF AccountTypeOK
<1>6. (CHOOSE a \in Agents : TRUE) \in Agents
  BY AgentsAssumption
<1> QED
  BY <1>2, <1>5, <1>6 DEF LinkTypeOK, NoFile, Unreadable, Down, Creds, Codes, Rows, CodeRow, CredRow, Process

-----------------------------------------------------------------------------
(* Rows and the functions over them. *)

LEMMA SignInGrows ==
  ASSUME NEW n \in Nat, NEW m \in Nat, n <= m
  PROVE  SignIn(n) \subseteq SignIn(m)
  BY DEF SignIn

\* A table in which one column of one row is overwritten is as long as before.
LEMMA RowsKept ==
  ASSUME NEW S, NEW T, NEW s \in Seq(S), NEW t,
         t = [i \in DOMAIN s |-> t[i]], \A i \in DOMAIN s : t[i] \in T
  PROVE  t \in Seq(T) /\ Len(t) = Len(s)
<1>1. DOMAIN s = 1..Len(s) /\ Len(s) \in Nat
  BY LenProperties
<1>2. t \in [1..Len(s) -> T]
  BY <1>1
<1> QED
  BY <1>1, <1>2, IsASeq

LEMMA AdoptTypes ==
  ASSUME AccountTypeOK, NEW n \in Nat, NEW u \in 0..n, Len(users) <= n, Adopt(u)
  PROVE  owner' \in [Agents -> {NoRow} \cup (0..n)] /\ archive' \subseteq 0..n
<1>1. Len(users) \in Nat /\ 0..Len(users) \subseteq 0..n
  BY LenProperties DEF AccountTypeOK
<1>2. owner \in [Agents -> {NoRow} \cup (0..Len(users))] /\ archive \subseteq 0..Len(users)
  BY DEF AccountTypeOK
<1>3. owner' \in [Agents -> {NoRow} \cup (0..n)]
  BY <1>1, <1>2 DEF Adopt
<1>4. archive' \subseteq 0..n
  BY <1>1, <1>2 DEF Adopt
<1> QED
  BY <1>3, <1>4

-----------------------------------------------------------------------------
(* Accounts: types, and a table that only grows. *)

LEMMA UsersTyped ==
  ASSUME AccountTypeOK
  PROVE  /\ Len(users) \in Nat
         /\ DOMAIN users = Rows /\ Rows = 1..Len(users)
         /\ \A u \in Rows : users[u] \in UserRow
  BY LenProperties, ElementOfSeq DEF AccountTypeOK, Rows

LEMMA StartTypes ==
  ASSUME AccountTypeOK, Start PROVE AccountTypeOK' /\ Len(users) <= Len(users')
<1> USE UsersTyped
<1>1. UNCHANGED <<google, browser, faults>> /\ up' = TRUE
  BY DEF Start
<1>2. PICK e \in OwnerSettings : EnsureOwner(e)
  BY DEF Start
<1>3. /\ users' \in Seq(UserRow) /\ Len(users) <= Len(users')
      /\ owner' \in [Agents -> {NoRow} \cup (0..Len(users'))]
      /\ archive' \subseteq 0..Len(users')
  <2>1. CASE UNCHANGED people
    BY <2>1 DEF people, AccountTypeOK
  <2>2. CASE OfAddress(e) # {} /\ Adopt(Only(OfAddress(e))) /\ UNCHANGED users
    <3>1. Only(OfAddress(e)) \in Rows
      BY <2>2 DEF Only, OfAddress
    <3>2. Only(OfAddress(e)) \in 0..Len(users)
      BY <3>1
    <3>3. /\ owner' \in [Agents -> {NoRow} \cup (0..Len(users))]
          /\ archive' \subseteq 0..Len(users)
      BY <2>2, <3>2, AdoptTypes
    <3> QED
      BY <2>2, <3>3 DEF AccountTypeOK
  <2>3. CASE /\ e # None
             /\ users' = Append(users, [sub |-> None, email |-> e])
             /\ Adopt(Len(users) + 1)
    <3>1. [sub |-> None, email |-> e] \in UserRow
      BY <2>3, SettingsAssumption DEF UserRow
    <3>2. users' \in Seq(UserRow) /\ Len(users') = Len(users) + 1
      BY <2>3, <3>1, AppendProperties DEF AccountTypeOK
    <3>3. /\ owner' \in [Agents -> {NoRow} \cup (0..(Len(users) + 1))]
          /\ archive' \subseteq 0..(Len(users) + 1)
      BY <2>3, AdoptTypes
    <3> QED
      BY <3>2, <3>3
  <2> QED
    BY <1>2, <2>1, <2>2, <2>3 DEF EnsureOwner
<1>4. Len(users') \in Nat
  BY <1>3, LenProperties
<1>5. session' \in [Browsers -> 0..Len(users')]
  BY <1>1, <1>3, <1>4 DEF browser, AccountTypeOK
<1>6. tab' \in [Tabs -> SignIn(Len(users'))]
  BY <1>1, <1>3, <1>4, SignInGrows DEF browser, AccountTypeOK
<1>7. up' \in BOOLEAN
  BY <1>1, Zenon
<1> QED
  BY <1>1, <1>3, <1>5, <1>6, <1>7 DEF AccountTypeOK, google, browser

\* What a step that leaves the table and the owners alone may do.
LEMMA TabTypes ==
  ASSUME AccountTypeOK, UNCHANGED <<google, people>>,
         up' \in BOOLEAN, session' \in [Browsers -> 0..Len(users)],
         who' \in [Browsers -> Subjects \cup {None}],
         cookie' \in [Browsers -> Tabs \cup {None}],
         tab' \in [Tabs -> SignIn(Len(users))],
         logins' \in 0..MaxLogins, faults' \in 0..MaxFaults
  PROVE  AccountTypeOK' /\ Len(users) <= Len(users')
<1>1. Len(users) \in Nat /\ users' = users
  BY UsersTyped DEF people
<1> QED
  BY <1>1 DEF AccountTypeOK, google, people

LEMMA StopTypes ==
  ASSUME AccountTypeOK, Stop PROVE AccountTypeOK' /\ Len(users) <= Len(users')
<1>1. tab' \in [Tabs -> SignIn(Len(users))]
  BY UsersTyped DEF Stop, AccountTypeOK, SignIn, Idle, NoOne
<1>2. faults' \in 0..MaxFaults
  BY BoundsAssumption DEF Stop, AccountTypeOK
<1>3. up' \in BOOLEAN
  BY Zenon DEF Stop
<1> QED
  BY <1>1, <1>2, <1>3, TabTypes DEF Stop, AccountTypeOK

LEMMA ImportTypes ==
  ASSUME AccountTypeOK, Import PROVE AccountTypeOK' /\ Len(users) <= Len(users')
<1>1. archive' \subseteq 0..Len(users)
  BY UsersTyped DEF Import, AccountTypeOK, NoOne
<1> QED
  BY <1>1, UsersTyped DEF Import, AccountTypeOK, google, browser

LEMMA MoveTypes ==
  ASSUME AccountTypeOK, Move PROVE AccountTypeOK' /\ Len(users) <= Len(users')
<1>1. address' \in [Subjects -> Addresses \cup {None}]
  BY DEF Move, AccountTypeOK
<1>2. moves' \in 0..MaxMoves
  BY BoundsAssumption DEF Move, AccountTypeOK
<1>3. crossed' \in BOOLEAN
  <2>1. crossed \in BOOLEAN
    BY DEF AccountTypeOK
  <2> QED
    BY <2>1, Zenon DEF Move
<1> QED
  BY <1>1, <1>2, <1>3, UsersTyped DEF Move, AccountTypeOK, people, browser

LEMMA BrowserTypes ==
  ASSUME AccountTypeOK, NEW t \in Tabs,
         Login(t) \/ Callback(t) \/ FindSubject(t) \/ FindAddress(t) \/ CreateSession(t)
  PROVE  AccountTypeOK' /\ Len(users) <= Len(users')
<1> USE UsersTyped
<1>1. BrowserOf(t) \in Browsers
  BY DEF BrowserOf, Tabs
<1>2. tab[t] \in SignIn(Len(users))
  BY DEF AccountTypeOK
<1>3. \A T : tab' = [tab EXCEPT ![t] = T] /\ T \in SignIn(Len(users))
              => tab' \in [Tabs -> SignIn(Len(users))]
  BY DEF AccountTypeOK
<1>4. Idle \in SignIn(Len(users))
  BY DEF Idle, SignIn, NoOne
<1>5. CASE Login(t)
  <2>1. [Idle EXCEPT !.step = "google"] \in SignIn(Len(users))
    BY DEF Idle, SignIn, NoOne
  <2>2. logins' \in 0..MaxLogins
    BY <1>5, BoundsAssumption DEF Login, AccountTypeOK
  <2>3. cookie' \in [Browsers -> Tabs \cup {None}]
    BY <1>1, <1>5 DEF Login, AccountTypeOK
  <2> QED
    BY <1>3, <1>5, <2>1, <2>2, <2>3, TabTypes DEF Login, AccountTypeOK
<1>6. ASSUME Refuse(t), UNCHANGED <<google, people, up, session, who, logins, faults>>
      PROVE  AccountTypeOK' /\ Len(users) <= Len(users')
  BY <1>1, <1>3, <1>4, <1>6, TabTypes DEF Refuse, AccountTypeOK
<1>7. ASSUME NEW step \in {"known", "address", "claim", "create"},
             NEW row \in 0..Len(users), Proceed(t, step, row),
             tab[t].step \in Served
      PROVE  AccountTypeOK' /\ Len(users) <= Len(users')
  <2>1. tab' \in [Tabs -> SignIn(Len(users))]
    BY <1>2, <1>7 DEF Proceed, AccountTypeOK, SignIn, Served
  <2> QED
    BY <1>7, <2>1, TabTypes DEF Proceed, AccountTypeOK
<1>8. CASE Callback(t)
  <2>1. CASE Refuse(t)
    BY <1>6, <1>8, <2>1 DEF Callback
  <2>2. CASE /\ UNCHANGED cookie
             /\ \E s \in Vouched :
                  tab' = [tab EXCEPT ![t] = [step |-> "subject", sub |-> Claims(s).sub,
                                             email |-> Claims(s).email, row |-> NoOne]]
    <3>1. tab' \in [Tabs -> SignIn(Len(users))]
      BY <2>2, <1>3 DEF Vouched, Claims, SignIn, Served, NoOne, AccountTypeOK
    <3> QED
      BY <1>8, <2>2, <3>1, TabTypes DEF Callback, AccountTypeOK
  <2> QED
    BY <1>8, <2>1, <2>2 DEF Callback
<1>9. CASE FindSubject(t)
  <2>1. OfSubject(tab[t].sub) # {} => Only(OfSubject(tab[t].sub)) \in 0..Len(users)
    BY DEF Only, OfSubject
  <2>2. NoOne \in 0..Len(users)
    BY DEF NoOne
  <2> QED
    BY <1>7, <1>9, <2>1, <2>2 DEF FindSubject, Served
<1>10. CASE FindAddress(t)
  <2>1. Unclaimed(tab[t].email) # {} => Only(Unclaimed(tab[t].email)) \in 0..Len(users)
    BY DEF Only, Unclaimed, OfAddress
  <2>2. NoOne \in 0..Len(users)
    BY DEF NoOne
  <2> QED
    BY <1>6, <1>7, <1>10, <2>1, <2>2 DEF FindAddress, Served
<1>11. CASE CreateSession(t)
  <2>1. tab[t].row \in 0..Len(users) /\ tab[t].sub \in Subjects \cup {None}
    BY <1>2, UsersTyped DEF SignIn, NoOne
  <2>2. session' \in [Browsers -> 0..Len(users)]
    BY <1>1, <1>11, <2>1 DEF CreateSession, SignsIn, AccountTypeOK
  <2>3. /\ who' \in [Browsers -> Subjects \cup {None}]
        /\ cookie' \in [Browsers -> Tabs \cup {None}]
    BY <1>1, <1>11, <2>1 DEF CreateSession, AccountTypeOK
  <2> QED
    BY <1>3, <1>4, <1>11, <2>2, <2>3, TabTypes DEF CreateSession, AccountTypeOK
<1> QED
  BY <1>5, <1>8, <1>9, <1>10, <1>11

LEMMA LogoutTypes ==
  ASSUME AccountTypeOK, NEW b \in Browsers, Logout(b)
  PROVE  AccountTypeOK' /\ Len(users) <= Len(users')
<1>1. session' \in [Browsers -> 0..Len(users)]
  BY UsersTyped DEF Logout, EndSession, AccountTypeOK, NoOne
<1>2. who' \in [Browsers -> Subjects \cup {None}]
  BY DEF Logout, EndSession, AccountTypeOK
<1> QED
  BY <1>1, <1>2, TabTypes DEF Logout, AccountTypeOK

\* The table after a sign-in's write: one column overwritten, or one row more.
LEMMA UpsertedTyped ==
  ASSUME AccountTypeOK, NEW t \in Tabs, tab[t].step \in {"known", "claim", "create"}
  PROVE  /\ Upserted(t) \in Seq(UserRow)
         /\ Len(users) <= Len(Upserted(t))
         /\ tab[t].step = "create" => Len(Upserted(t)) = Len(users) + 1
<1> USE UsersTyped
<1> tab[t].sub \in Subjects /\ tab[t].email \in Addresses
  BY DEF AccountTypeOK, SignIn
<1>1. CASE tab[t].step = "known"
  <2> DEFINE rows == [users EXCEPT ![tab[t].row].email = tab[t].email]
  <2>1. rows = [i \in DOMAIN users |-> rows[i]]
    OBVIOUS
  <2>2. \A i \in DOMAIN users : rows[i] \in UserRow
    BY DEF UserRow
  <2>3. users \in Seq(UserRow)
    BY DEF AccountTypeOK
  <2>4. rows \in Seq(UserRow) /\ Len(rows) = Len(users)
    <3> HIDE DEF rows
    <3> QED
      BY <2>1, <2>2, <2>3, RowsKept
  <2>5. Upserted(t) = rows
    BY <1>1 DEF Upserted
  <2> QED
    BY <1>1, <2>4, <2>5
<1>2. CASE tab[t].step = "claim"
  <2> DEFINE rows == [users EXCEPT ![tab[t].row].sub = tab[t].sub]
  <2>1. rows = [i \in DOMAIN users |-> rows[i]]
    OBVIOUS
  <2>2. \A i \in DOMAIN users : rows[i] \in UserRow
    BY DEF UserRow
  <2>3. users \in Seq(UserRow)
    BY DEF AccountTypeOK
  <2>4. rows \in Seq(UserRow) /\ Len(rows) = Len(users)
    <3> HIDE DEF rows
    <3> QED
      BY <2>1, <2>2, <2>3, RowsKept
  <2>5. Upserted(t) = rows
    BY <1>2 DEF Upserted
  <2> QED
    BY <1>2, <2>4, <2>5
<1>3. CASE tab[t].step = "create"
  <2>1. Row(t) \in UserRow
    BY DEF Row, UserRow
  <2>2. Upserted(t) = Append(users, Row(t))
    BY <1>3 DEF Upserted
  <2> QED
    BY <2>1, <2>2, AppendProperties DEF AccountTypeOK
<1> QED
  BY <1>1, <1>2, <1>3

LEMMA UpsertTypes ==
  ASSUME AccountTypeOK, NEW t \in Tabs, Upsert(t)
  PROVE  AccountTypeOK' /\ Len(users) <= Len(users')
<1> USE UsersTyped
<1>1. UNCHANGED <<google, owner, archive, up, session, who, cookie, logins, faults>>
  BY DEF Upsert
<1>2. CASE /\ UNCHANGED users
           /\ tab' = [tab EXCEPT ![t] = [Idle EXCEPT !.step = "error"]]
  <2>1. tab' \in [Tabs -> SignIn(Len(users))]
    BY <1>2 DEF AccountTypeOK, SignIn, Idle, NoOne
  <2> QED
    BY <1>1, <1>2, <2>1, TabTypes DEF AccountTypeOK, people
<1>3. CASE /\ users' = Upserted(t)
           /\ tab' = [tab EXCEPT ![t].step = "session",
                   ![t].row = IF tab[t].row = NoOne THEN Len(users') ELSE tab[t].row]
  <2>1. users' \in Seq(UserRow) /\ Len(users) <= Len(users') /\ Len(users') \in Nat
    BY <1>3, UpsertedTyped, LenProperties DEF Upsert
  <2>2. tab \in [Tabs -> SignIn(Len(users'))]
    BY <2>1, SignInGrows DEF AccountTypeOK
  <2>3. tab[t].step \in Served
    BY DEF Upsert, Served
  <2> DEFINE row == IF tab[t].row = NoOne THEN Len(users') ELSE tab[t].row
  <2>4. row \in 0..Len(users')
    BY <2>1, <2>2, <2>3 DEF SignIn, Served, NoOne
  <2>6. tab' = [tab EXCEPT ![t].step = "session", ![t].row = row]
    BY <1>3
  <2>7. tab' \in [Tabs -> SignIn(Len(users'))]
    <3> HIDE DEF row
    <3> QED
      BY <2>2, <2>3, <2>4, <2>6 DEF SignIn, Served
  <2>5. /\ session' \in [Browsers -> 0..Len(users')]
        /\ owner' \in [Agents -> {NoRow} \cup (0..Len(users'))]
        /\ archive' \subseteq 0..Len(users')
    BY <1>1, <2>1 DEF AccountTypeOK
  <2> QED
    BY <1>1, <2>1, <2>5, <2>7 DEF AccountTypeOK, google
<1> QED
  BY <1>2, <1>3 DEF Upsert

LEMMA AccountTypes ==
  ASSUME AccountTypeOK, AccountNext
  PROVE  AccountTypeOK' /\ Len(users) <= Len(users')
<1>1. CASE Start
  BY <1>1, StartTypes
<1>2. CASE Stop
  BY <1>2, StopTypes
<1>3. CASE Import
  BY <1>3, ImportTypes
<1>4. CASE Move
  BY <1>4, MoveTypes
<1>5. CASE \E t \in Tabs : \/ Login(t) \/ Callback(t) \/ FindSubject(t)
                          \/ FindAddress(t) \/ Upsert(t) \/ CreateSession(t)
  BY <1>5, BrowserTypes, UpsertTypes
<1>6. CASE \E b \in Browsers : Logout(b)
  BY <1>6, LogoutTypes
<1> QED
  BY <1>1, <1>2, <1>3, <1>4, <1>5, <1>6 DEF AccountNext

\* An owner is never replaced by a step of the accounts.
OwnersKept ==
  /\ \A a \in Agents : owner[a] \notin {NoRow, NoOne} => owner'[a] = owner[a]
  /\ archive \ {NoOne} \subseteq archive'

LEMMA AccountsKeepOwners == ASSUME AccountTypeOK, AccountNext PROVE OwnersKept
<1>1. ASSUME NEW u, Adopt(u) PROVE OwnersKept
  BY <1>1 DEF Adopt, OwnersKept, AccountTypeOK
<1>2. CASE Start
  <2>1. PICK e \in OwnerSettings : EnsureOwner(e)
    BY <1>2 DEF Start
  <2>2. UNCHANGED people \/ \E u : Adopt(u)
    BY <2>1 DEF EnsureOwner
  <2> QED
    BY <2>2, <1>1 DEF people, OwnersKept
<1>3. CASE Import
  BY <1>3 DEF Import, OwnersKept
<1>4. CASE UNCHANGED <<owner, archive>>
  BY <1>4 DEF OwnersKept
<1>5. Stop \/ Move => UNCHANGED <<owner, archive>>
  BY DEF Stop, Move, people
<1>6. ASSUME NEW t \in Tabs, Login(t) \/ Callback(t) \/ FindSubject(t)
                           \/ FindAddress(t) \/ Upsert(t) \/ CreateSession(t)
      PROVE  UNCHANGED <<owner, archive>>
  BY <1>6 DEF Login, Callback, FindSubject, FindAddress, Upsert, CreateSession,
              Proceed, people
<1>7. \A b \in Browsers : Logout(b) => UNCHANGED <<owner, archive>>
  BY DEF Logout, people
<1> QED
  BY <1>2, <1>3, <1>4, <1>5, <1>6, <1>7 DEF AccountNext

-----------------------------------------------------------------------------
(* Linking: what the tables' growing leaves as it was. *)

LEMMA LinksTyped ==
  ASSUME LinkTypeOK
  PROVE  /\ Len(users) \in Nat /\ Len(codes) \in Nat /\ Len(creds) \in Nat
         /\ Rows = 1..Len(users) /\ DOMAIN users = Rows
         /\ Codes = 1..Len(codes) /\ DOMAIN codes = Codes /\ DOMAIN call = Codes
         /\ Creds = 1..Len(creds) /\ DOMAIN creds = Creds
         /\ \A c \in Codes : codes[c] \in CodeRow
         /\ \A k \in Creds : creds[k] \in CredRow
<1>1. users \in Seq(UserRow)
  BY DEF LinkTypeOK, AccountTypeOK
<1>2. codes \in Seq(CodeRow) /\ creds \in Seq(CredRow) /\ Len(call) = Len(codes)
  BY DEF LinkTypeOK
<1>3. call \in Seq({"none", "sent", "linked", "pending", "failed"})
  BY DEF LinkTypeOK
<1> QED
  BY <1>1, <1>2, <1>3, LenProperties, ElementOfSeq DEF Rows, Codes, Creds

LEMMA LinksGrow ==
  ASSUME LinkTypeOK, Len(users') \in Nat, Len(codes') \in Nat, Len(creds') \in Nat,
         Len(users) <= Len(users'), Len(codes) <= Len(codes'), Len(creds) <= Len(creds')
  PROVE  /\ file \in [PCs -> {NoFile, Unreadable} \cup Creds']
         /\ pc \in [PCs -> Process']
         /\ upload \in [PCs -> 0..Len(creds')]
         /\ codes \in Seq(CodeRow')
         /\ creds \in Seq(CredRow')
         /\ held \in [Agents -> SUBSET Rows']
<1> USE LinksTyped
<1>1. Rows \subseteq Rows' /\ Codes \subseteq Codes' /\ Creds \subseteq Creds'
  BY DEF Rows, Codes, Creds
<1>2. Process \subseteq Process' /\ CodeRow \subseteq CodeRow' /\ CredRow \subseteq CredRow'
  BY <1>1 DEF Process, CodeRow, CredRow
<1>3. 0..Len(creds) \subseteq 0..Len(creds')
  OBVIOUS
<1>4. codes \in Seq(CodeRow') /\ creds \in Seq(CredRow')
  <2>1. codes \in Seq(CodeRow) /\ creds \in Seq(CredRow)
    BY DEF LinkTypeOK
  <2> QED
    BY <2>1, <1>2, SeqMonotonic
<1> QED
  BY <1>1, <1>2, <1>3, <1>4 DEF LinkTypeOK

\* A step that adds nothing to the credentials and the uploads, takes back no
\* consumption and replaces no owner keeps the rest of the invariant.
LEMMA NothingIssued ==
  ASSUME IInv, LinkTypeOK', RunningWithCredential', OwnersKept,
         Len(creds') = Len(creds), UNCHANGED held, Len(codes) <= Len(codes'),
         \A k \in Creds : /\ creds'[k].agent = creds[k].agent
                          /\ creds'[k].user = creds[k].user
                          /\ creds'[k].code = creds[k].code,
         \A c \in Codes : codes[c].consumed => codes'[c].consumed
  PROVE  IInv'
<1> USE LinksTyped DEF IInv
<1>1. Creds' = Creds /\ \A k \in Creds : creds[k].code \in Codes /\ creds[k].user \in Rows
                                       /\ creds[k].agent \in Agents
  BY DEF Creds, CredRow
<1>2. IssuedForSpent'
  BY <1>1 DEF IssuedForSpent
<1>3. CodesAreSingleUse'
  BY <1>1 DEF CodesAreSingleUse
<1>4. \A u \in Rows : u \notin {NoRow, NoOne}
  BY PeopleAssumption DEF NoRow, NoOne
<1>5. CredentialsFollowOwner'
  BY <1>1, <1>4 DEF CredentialsFollowOwner, OwnersKept
<1>6. UploadsFollowOwner'
  <2>1. SUFFICES ASSUME NEW a \in Agents, NEW u \in held[a] PROVE u = owner'[a]
    BY DEF UploadsFollowOwner
  <2>2. u \in Rows /\ u = owner[a]
    BY DEF LinkTypeOK, UploadsFollowOwner
  <2> QED
    BY <1>4, <2>2 DEF OwnersKept
<1> QED
  BY <1>2, <1>3, <1>5, <1>6

-----------------------------------------------------------------------------
(* Linking: one lemma per kind of step. *)

LEMMA FaultsTyped ==
  ASSUME AccountTypeOK, Fault \/ UNCHANGED faults PROVE faults' \in 0..MaxFaults
  BY BoundsAssumption DEF Fault, AccountTypeOK

\* Steps of the agents and of the network: nobody signs in or is adopted.
LEMMA AccountsStay ==
  ASSUME AccountTypeOK, AccountsUnchanged, Fault \/ UNCHANGED faults
  PROVE  AccountTypeOK' /\ OwnersKept /\ UNCHANGED <<users, owner>>
<1>1. faults' \in 0..MaxFaults
  BY FaultsTyped
<1> QED
  BY <1>1 DEF AccountsUnchanged, AccountTypeOK, OwnersKept, google, people, browser

LEMMA AccountStep == ASSUME IInv, AccountNext, UNCHANGED linkVars PROVE IInv'
<1> USE LinksTyped DEF IInv
<1>1. AccountTypeOK' /\ Len(users) <= Len(users') /\ OwnersKept
  BY AccountTypes, AccountsKeepOwners DEF LinkTypeOK
<1>2. Len(users') \in Nat
  BY <1>1, LenProperties DEF AccountTypeOK
<1>3. UNCHANGED <<disk, process, call, links>>
  BY DEF linkVars
<1>4. UNCHANGED <<agentOf, file, pc, unwelcome, upload, call, codes, creds, held>>
  BY <1>3 DEF disk, process, links
<1>5. LinkTypeOK'
  BY <1>1, <1>2, <1>4, LinksGrow DEF LinkTypeOK
<1>6. RunningWithCredential'
  BY <1>4 DEF RunningWithCredential, Creds
<1> QED
  BY <1>1, <1>4, <1>5, <1>6, NothingIssued

\* The tables stay: the files, the processes and the exchange move.
LEMMA DiskStep ==
  ASSUME IInv, AccountsUnchanged, Fault \/ UNCHANGED faults, UNCHANGED <<codes, creds, held>>,
         agentOf' \in [PCs -> Agents], file' \in [PCs -> {NoFile, Unreadable} \cup Creds],
         pc' \in [PCs -> Process], unwelcome' \in [PCs -> BOOLEAN],
         upload' \in [PCs -> 0..Len(creds)],
         call' \in Seq({"none", "sent", "linked", "pending", "failed"}),
         Len(call') = Len(codes),
         \A p \in PCs : pc'[p].does = "running" => pc'[p].cred \in Creds
  PROVE  IInv'
<1> USE LinksTyped DEF IInv
<1>1. AccountTypeOK' /\ OwnersKept /\ UNCHANGED <<users, owner>>
  BY AccountsStay DEF LinkTypeOK
<1>2. LinkTypeOK'
  BY <1>1 DEF LinkTypeOK, Process, CodeRow, CredRow, Creds, Codes, Rows
<1>3. RunningWithCredential'
  BY DEF RunningWithCredential, Creds
<1> QED
  BY <1>1, <1>2, <1>3, NothingIssued

\* RowsKept, of one row that is overwritten.
LEMMA RowWritten ==
  ASSUME NEW S, NEW s \in Seq(S), NEW i, NEW v \in S
  PROVE  [s EXCEPT ![i] = v] \in Seq(S) /\ Len([s EXCEPT ![i] = v]) = Len(s)
<1> DEFINE t == [s EXCEPT ![i] = v]
<1>1. \A j \in DOMAIN s : s[j] \in S
  BY ElementOfSeq, LenProperties
<1>2. t = [j \in DOMAIN s |-> t[j]] /\ \A j \in DOMAIN s : t[j] \in S
  BY <1>1
<1> HIDE DEF t
<1>3. t \in Seq(S) /\ Len(t) = Len(s)
  BY <1>2, RowsKept
<1> QED
  BY <1>3 DEF t

LEMMA CallTyped ==
  ASSUME LinkTypeOK, NEW c, NEW answer \in {"none", "sent", "linked", "pending", "failed"},
         call' = [call EXCEPT ![c] = answer]
  PROVE  /\ call' \in Seq({"none", "sent", "linked", "pending", "failed"})
         /\ Len(call') = Len(codes)
<1> DEFINE Answers == {"none", "sent", "linked", "pending", "failed"}
<1>1. call \in Seq(Answers) /\ answer \in Answers
  BY DEF LinkTypeOK
<1>2. [call EXCEPT ![c] = answer] \in Seq(Answers)
      /\ Len([call EXCEPT ![c] = answer]) = Len(call)
  <2> HIDE DEF Answers
  <2> QED
    BY <1>1, RowWritten
<1> QED
  BY <1>2 DEF LinkTypeOK

LEMMA ProcessTyped ==
  ASSUME LinkTypeOK, NEW p \in PCs
  PROVE  /\ Ends(p) => pc' \in [PCs -> Process]
         /\ \A k \in Creds : Runs(p, k) => pc' \in [PCs -> Process]
         /\ pc[p] \in Process
<1>1. Down \in Process
  BY LinksTyped DEF Down, Process
<1>2. \A k \in Creds : [does |-> "running", code |-> 0, cred |-> k] \in Process
  BY LinksTyped DEF Process
<1> QED
  BY <1>1, <1>2 DEF Ends, Runs, LinkTypeOK

LEMMA RunningStays ==
  ASSUME RunningWithCredential, LinkTypeOK, NEW p \in PCs,
         Ends(p) \/ (\E k \in Creds : Runs(p, k)) \/ UNCHANGED pc
  PROVE  \A q \in PCs : pc'[q].does = "running" => pc'[q].cred \in Creds
<1>1. pc \in [PCs -> Process]
  BY DEF LinkTypeOK
<1> QED
  BY <1>1 DEF Ends, Runs, Down, RunningWithCredential

\* start_link adds a row, and the process polls for it or has ended.
LEMMA LinkStartStep ==
  ASSUME IInv, NEW p \in PCs, NEW shown \in BOOLEAN, LinkStart(p, shown),
         Ends(p) \/ pc' = [pc EXCEPT ![p] = [does |-> "polling", code |-> Len(codes) + 1,
                                             cred |-> 0]],
         AccountsUnchanged, Fault \/ UNCHANGED faults, UNCHANGED <<agentOf, creds, held>>,
         file' \in [PCs -> {NoFile, Unreadable} \cup Creds],
         unwelcome' \in [PCs -> BOOLEAN], upload' \in [PCs -> 0..Len(creds)]
  PROVE  IInv'
<1> USE LinksTyped DEF IInv
<1> DEFINE code == [agent |-> agentOf[p], user |-> NoOne, shown |-> shown,
                    consumed |-> FALSE, expired |-> FALSE]
<1>1. AccountTypeOK' /\ OwnersKept /\ UNCHANGED <<users, owner>>
  BY AccountsStay DEF LinkTypeOK
<1>2. code \in CodeRow
  BY DEF CodeRow, NoOne, LinkTypeOK
<1>3. codes' = Append(codes, code) /\ codes \in Seq(CodeRow)
  BY DEF LinkStart, NewCode, LinkTypeOK
<1>4. /\ codes' \in Seq(CodeRow) /\ Len(codes') = Len(codes) + 1
      /\ \A c \in Codes : codes'[c] = codes[c]
  <2> HIDE DEF code
  <2> QED
    BY <1>2, <1>3, AppendProperties
<1>5. call' \in Seq({"none", "sent", "linked", "pending", "failed"})
      /\ Len(call') = Len(codes')
  <2> DEFINE Answers == {"none", "sent", "linked", "pending", "failed"}
  <2>1. call \in Seq(Answers) /\ "none" \in Answers /\ Len(call) = Len(codes)
    BY DEF LinkTypeOK
  <2>2. call' = Append(call, "none")
    BY DEF LinkStart
  <2> HIDE DEF Answers
  <2>3. call' \in Seq(Answers) /\ Len(call') = Len(call) + 1
    BY <2>1, <2>2, AppendProperties
  <2> QED
    BY <1>4, <2>1, <2>3 DEF Answers
<1>6. /\ file \in [PCs -> {NoFile, Unreadable} \cup Creds']
      /\ pc \in [PCs -> Process'] /\ codes' \in Seq(CodeRow') /\ creds \in Seq(CredRow')
      /\ held \in [Agents -> SUBSET Rows']
  BY <1>1, <1>4, LinksGrow DEF CodeRow
<1>7. pc' \in [PCs -> Process']
  <2>1. Down \in Process'
    BY <1>4 DEF Down, Process
  <2>2. [does |-> "polling", code |-> Len(codes) + 1, cred |-> 0] \in Process'
    BY <1>4 DEF Process
  <2> QED
    BY <1>6, <2>1, <2>2 DEF Ends
<1>8. LinkTypeOK'
  BY <1>1, <1>4, <1>5, <1>6, <1>7 DEF LinkTypeOK, Creds
<1>9. RunningWithCredential'
  <2>1. pc \in [PCs -> Process]
    BY DEF LinkTypeOK
  <2>2. \A q \in PCs : pc'[q].does = "running" => pc'[q] = pc[q]
    BY <2>1 DEF Ends, Down
  <2> QED
    BY <2>2 DEF RunningWithCredential, Creds
<1> QED
  BY <1>1, <1>4, <1>8, <1>9, NothingIssued

\* link() begins, with whatever became of the rest of the PC.
LEMMA StartLinkStep ==
  ASSUME IInv, NEW p \in PCs, StartLink(p), UNCHANGED <<agentOf, creds, held>>,
         file' \in [PCs -> {NoFile, Unreadable} \cup Creds],
         unwelcome' \in [PCs -> BOOLEAN], upload' \in [PCs -> 0..Len(creds)]
  PROVE  IInv'
<1>1. CASE LinkStart(p, TRUE)
           /\ pc' = [pc EXCEPT ![p] = [does |-> "polling", code |-> Len(codes) + 1,
                                       cred |-> 0]]
           /\ NoFault
  BY <1>1, LinkStartStep DEF NoFault
<1>2. CASE LinkStart(p, FALSE) /\ Ends(p) /\ Fault /\ AccountsUnchanged
  BY <1>2, LinkStartStep
<1>3. CASE Ends(p) /\ UNCHANGED <<codes, call>> /\ NoFault
  BY <1>3, DiskStep, ProcessTyped, RunningStays DEF NoFault, IInv, LinkTypeOK
<1> QED
  BY <1>1, <1>2, <1>3 DEF StartLink

LEMMA BootStep == ASSUME IInv, NEW p \in PCs, Boot(p) PROVE IInv'
<1>1. UNCHANGED <<agentOf, file, unwelcome, upload, creds, held>>
  BY DEF Boot, disk
<1>2. CASE StartLink(p)
  BY <1>1, <1>2, StartLinkStep DEF IInv, LinkTypeOK
<1>3. CASE Runs(p, file[p]) /\ file[p] # NoFile /\ UNCHANGED <<call, codes>> /\ NoFault
  <2>1. file[p] \in Creds
    BY <1>3 DEF Boot, Loads, IInv, LinkTypeOK
  <2> QED
    BY <1>1, <1>3, <2>1, DiskStep, ProcessTyped, RunningStays
       DEF NoFault, IInv, LinkTypeOK
<1> QED
  BY <1>2, <1>3 DEF Boot, EnsureCredential

LEMMA RelinkStep == ASSUME IInv, NEW p \in PCs, Relink(p) PROVE IInv'
<1>1. /\ file' \in [PCs -> {NoFile, Unreadable} \cup Creds]
      /\ unwelcome' \in [PCs -> BOOLEAN] /\ upload' \in [PCs -> 0..Len(creds)]
  BY LinksTyped DEF Relink, IInv, LinkTypeOK
<1> QED
  BY <1>1, StartLinkStep DEF Relink

LEMMA PollSteps ==
  ASSUME IInv, NEW p \in PCs, Poll(p) \/ PollAnswered(p) \/ PollLost(p) \/ GiveUp(p)
  PROVE  IInv'
<1> USE LinksTyped DEF IInv
<1>1. Ends(p) => pc' \in [PCs -> Process]
  BY ProcessTyped
<1>2. \A k \in Creds : Runs(p, k) => pc' \in [PCs -> Process]
  BY ProcessTyped
<1>3. \A k \in Creds : Saves(p, k) => file' \in [PCs -> {NoFile, Unreadable} \cup Creds]
  BY DEF Saves, LinkTypeOK
<1>4. CASE Poll(p)
  BY <1>4, CallTyped, DiskStep, RunningStays
     DEF Poll, NoFault, LinkTypeOK, disk, process, links
<1>5. CASE PollAnswered(p)
  <2>1. /\ Len(call') = Len(codes)
        /\ call' \in Seq({"none", "sent", "linked", "pending", "failed"})
    BY <1>5, CallTyped DEF PollAnswered
  <2>2. UNCHANGED <<agentOf, unwelcome, upload, codes, creds, held>> /\ NoFault
    BY <1>5 DEF PollAnswered, links
  <2>3. \/ \E k \in Creds : Saves(p, k) /\ Runs(p, k)
        \/ UNCHANGED <<file, pc>>
        \/ Ends(p) /\ UNCHANGED file
    BY <1>5 DEF PollAnswered
  <2>4. pc' \in [PCs -> Process] /\ file' \in [PCs -> {NoFile, Unreadable} \cup Creds]
    BY <1>1, <1>2, <1>3, <2>3 DEF LinkTypeOK
  <2>5. \A q \in PCs : pc'[q].does = "running" => pc'[q].cred \in Creds
    BY <2>3, RunningStays
  <2> QED
    BY <2>1, <2>2, <2>4, <2>5, DiskStep DEF NoFault, LinkTypeOK
<1>6. CASE PollLost(p)
  <2>1. /\ Len(call') = Len(codes)
        /\ call' \in Seq({"none", "sent", "linked", "pending", "failed"})
    <3>1. call' = [call EXCEPT ![pc[p].code] = "sent"]
          \/ call' = [call EXCEPT ![pc[p].code] = "none"]
      BY <1>6 DEF PollLost
    <3> QED
      BY <3>1, CallTyped
  <2>2. AccountsUnchanged /\ (Fault \/ UNCHANGED faults)
    BY <1>6 DEF PollLost, NoFault
  <2>3. Ends(p) /\ UNCHANGED <<agentOf, file, unwelcome, upload, codes, creds, held>>
    BY <1>6 DEF PollLost, disk, links
  <2> QED
    BY <1>1, <2>1, <2>2, <2>3, DiskStep, RunningStays DEF LinkTypeOK
<1>7. CASE GiveUp(p)
  BY <1>1, <1>7, DiskStep, RunningStays DEF GiveUp, NoFault, LinkTypeOK, disk, links
<1> QED
  BY <1>4, <1>5, <1>6, <1>7

LEMMA CheckUploadStep == ASSUME IInv, NEW p \in PCs, CheckUpload(p) PROVE IInv'
<1> USE LinksTyped DEF IInv
<1>1. pc[p].cred \in Creds
  BY DEF CheckUpload, RunningWithCredential
<1>2. upload' \in [PCs -> 0..Len(creds)]
  <2>1. CASE Identifies(pc[p].cred)
    <3>1. upload' = [upload EXCEPT ![p] = pc[p].cred]
      BY <2>1 DEF CheckUpload
    <3> QED
      BY <1>1, <3>1 DEF LinkTypeOK
  <2>2. CASE ~Identifies(pc[p].cred)
    <3>1. UNCHANGED upload
      BY <2>2 DEF CheckUpload
    <3> QED
      BY <3>1 DEF LinkTypeOK
  <2> QED
    BY <2>1, <2>2
<1>4. unwelcome' \in [PCs -> BOOLEAN]
  <2>1. UNCHANGED unwelcome \/ unwelcome' = [unwelcome EXCEPT ![p] = TRUE]
    BY DEF CheckUpload
  <2> QED
    BY <2>1 DEF LinkTypeOK
<1>3. UNCHANGED <<agentOf, file, pc, call, codes, creds, held>> /\ NoFault
  BY DEF CheckUpload, disk, links
<1> QED
  BY <1>2, <1>3, <1>4, DiskStep, RunningStays DEF NoFault, LinkTypeOK

LEMMA CrashStep == ASSUME IInv, NEW p \in PCs, Crash(p) PROVE IInv'
<1> USE LinksTyped DEF IInv
<1> DEFINE Answers == {"none", "sent", "linked", "pending", "failed"}
<1>1. call' \in [1..Len(codes) -> Answers]
  <2>1. call \in Seq(Answers) /\ Len(call) = Len(codes)
    BY DEF LinkTypeOK
  <2>2. \A c \in Codes : call[c] \in Answers
    <3> HIDE DEF Answers
    <3> QED
      BY <2>1, ElementOfSeq, LenProperties
  <2> QED
    BY <2>2 DEF Crash
<1>2. call' \in Seq(Answers) /\ Len(call') = Len(codes)
  <2> HIDE DEF Answers
  <2>1. call' \in Seq(Answers)
    BY <1>1, IsASeq
  <2>2. DOMAIN call' = 1..Len(codes)
    BY <1>1
  <2> QED
    BY <2>1, <2>2, LenProperties
<1>3. Ends(p) /\ UNCHANGED <<agentOf, file, unwelcome, codes, creds, held>>
      /\ Fault /\ AccountsUnchanged
  BY DEF Crash, disk, links
<1>4. upload' \in [PCs -> 0..Len(creds)]
  BY DEF Crash, LinkTypeOK
<1>5. pc' \in [PCs -> Process]
  BY <1>3, ProcessTyped
<1>6. \A q \in PCs : pc'[q].does = "running" => pc'[q].cred \in Creds
  BY <1>3, RunningStays
<1> QED
  BY <1>2, <1>3, <1>4, <1>5, <1>6, DiskStep DEF LinkTypeOK

LEMMA DiskFails ==
  ASSUME IInv, (\E p \in PCs : NewOutbox(p) \/ Spoil(p)) \/ (\E c \in Codes : Repeat(c))
  PROVE  IInv'
<1> USE LinksTyped DEF IInv
<1>1. ASSUME NEW p \in PCs, NewOutbox(p) PROVE IInv'
  <2>1. agentOf' \in [PCs -> Agents]
    BY <1>1 DEF NewOutbox, LinkTypeOK
  <2> QED
    BY <1>1, <2>1, DiskStep DEF NewOutbox, RunningWithCredential, LinkTypeOK, process, links
<1>2. ASSUME NEW p \in PCs, Spoil(p) PROVE IInv'
  <2>1. file' \in [PCs -> {NoFile, Unreadable} \cup Creds]
    BY <1>2 DEF Spoil, LinkTypeOK
  <2> QED
    BY <1>2, <2>1, DiskStep DEF Spoil, RunningWithCredential, LinkTypeOK, process, links
<1>3. ASSUME NEW c \in Codes, Repeat(c) PROVE IInv'
  BY <1>3, CallTyped, DiskStep
     DEF Repeat, Says, RunningWithCredential, LinkTypeOK, disk, process, links
<1> QED
  BY <1>1, <1>2, <1>3

-----------------------------------------------------------------------------
(* Linking: the server's side. *)

\* One row of codes is overwritten by one that is no less used up.
LEMMA CodeStep ==
  ASSUME IInv, NEW c \in Codes, NEW row \in CodeRow, codes' = [codes EXCEPT ![c] = row],
         codes[c].consumed => row.consumed,
         AccountsUnchanged, Fault \/ UNCHANGED faults,
         UNCHANGED <<agentOf, file, pc, unwelcome, upload, call, creds, held>>
  PROVE  IInv'
<1> USE LinksTyped DEF IInv
<1>1. AccountTypeOK' /\ OwnersKept /\ UNCHANGED <<users, owner>>
  BY AccountsStay DEF LinkTypeOK
<1>2. codes' \in Seq(CodeRow) /\ Len(codes') = Len(codes)
  BY RowWritten DEF LinkTypeOK
<1>3. \A d \in Codes : codes[d].consumed => codes'[d].consumed
  OBVIOUS
<1>4. LinkTypeOK'
  BY <1>1, <1>2 DEF LinkTypeOK, Process, CodeRow, CredRow, Creds, Codes, Rows
<1>5. RunningWithCredential'
  BY DEF RunningWithCredential, Creds
<1> QED
  BY <1>1, <1>2, <1>3, <1>4, <1>5, NothingIssued

LEMMA ApproveStep ==
  ASSUME IInv, NEW b \in Browsers, NEW c \in Codes, Approve(b, c) PROVE IInv'
<1> USE LinksTyped DEF IInv
<1> DEFINE row == [codes[c] EXCEPT !.user = Viewer(b)]
<1>1. codes[c] \in CodeRow /\ Viewer(b) \in 0..Len(users)
  BY DEF Viewer, LinkTypeOK, AccountTypeOK
<1>2. row \in CodeRow /\ row.consumed = codes[c].consumed
  BY <1>1 DEF CodeRow
<1>3. codes' = [codes EXCEPT ![c] = row]
  BY DEF Approve, ApproveLink
<1>4. AccountsUnchanged /\ (Fault \/ UNCHANGED faults)
  BY DEF Approve, NoFault
<1>5. UNCHANGED <<agentOf, file, pc, unwelcome, upload, call, creds, held>>
  BY DEF Approve, disk, process
<1> QED
  BY <1>2, <1>3, <1>4, <1>5, CodeStep

LEMMA ExpireStep == ASSUME IInv, NEW c \in Codes, Expire(c) PROVE IInv'
<1> USE LinksTyped DEF IInv
<1> DEFINE row == [codes[c] EXCEPT !.expired = TRUE]
<1>1. row \in CodeRow /\ row.consumed = codes[c].consumed
  BY DEF CodeRow
<1>2. codes' = [codes EXCEPT ![c] = row]
  BY DEF Expire
<1>3. UNCHANGED <<agentOf, file, pc, unwelcome, upload, call, creds, held>>
      /\ Fault /\ AccountsUnchanged
  BY DEF Expire, disk, process
<1> QED
  BY <1>1, <1>2, <1>3, CodeStep

LEMMA RevokeStep == ASSUME IInv, NEW k \in Creds, Revoke(k) PROVE IInv'
<1> USE LinksTyped DEF IInv
<1> DEFINE row == [creds[k] EXCEPT !.revoked = TRUE]
<1>1. row \in CredRow /\ row.agent = creds[k].agent
      /\ row.user = creds[k].user /\ row.code = creds[k].code
  BY DEF CredRow
<1>2. creds' = [creds EXCEPT ![k] = row]
  BY DEF Revoke
<1>3. UNCHANGED <<agentOf, file, pc, unwelcome, upload, call, codes, held>>
      /\ Fault /\ AccountsUnchanged
  BY DEF Revoke, disk, process
<1>4. creds' \in Seq(CredRow) /\ Len(creds') = Len(creds)
  BY <1>1, <1>2, RowWritten DEF LinkTypeOK
<1>5. AccountTypeOK' /\ OwnersKept /\ UNCHANGED <<users, owner>>
  BY <1>3, AccountsStay DEF LinkTypeOK
<1>6. LinkTypeOK'
  BY <1>3, <1>4, <1>5 DEF LinkTypeOK, Process, CodeRow, CredRow, Creds, Codes, Rows
<1>7. RunningWithCredential'
  BY <1>3, <1>4 DEF RunningWithCredential, Creds
<1> QED
  BY <1>1, <1>2, <1>3, <1>4, <1>5, <1>6, <1>7, NothingIssued

\* What is stored is the account's that owns the agent: its credential's agent
\* is the one in the outbox, or nothing is stored.
LEMMA StoreUploadStep == ASSUME IInv, NEW p \in PCs, StoreUpload(p) PROVE IInv'
<1> USE LinksTyped DEF IInv
<1>1. upload[p] \in Creds
  BY DEF StoreUpload, LinkTypeOK
<1>2. creds[upload[p]] \in CredRow
  BY <1>1
<1>3. AccountTypeOK' /\ OwnersKept /\ UNCHANGED <<users, owner>>
  BY AccountsStay DEF StoreUpload, NoFault, LinkTypeOK
<1>4. UNCHANGED <<agentOf, file, pc, call, codes, creds>>
  BY DEF StoreUpload, disk
<1>5. upload' \in [PCs -> 0..Len(creds)]
  BY DEF StoreUpload, LinkTypeOK
<1>6. unwelcome' \in [PCs -> BOOLEAN]
  <2>1. \/ unwelcome' = [unwelcome EXCEPT ![p] = TRUE]
        \/ unwelcome' = [unwelcome EXCEPT ![p] = FALSE]
    BY DEF StoreUpload
  <2> QED
    BY <2>1 DEF LinkTypeOK
<1>7. \/ UNCHANGED held
      \/ /\ creds[upload[p]].agent = agentOf[p]
         /\ held' = [held EXCEPT ![agentOf[p]] = @ \cup {creds[upload[p]].user}]
  BY DEF StoreUpload
<1>8. held \in [Agents -> SUBSET Rows] /\ agentOf[p] \in Agents
  BY DEF LinkTypeOK
<1> DEFINE grown == held[agentOf[p]] \cup {creds[upload[p]].user}
<1>9. creds[upload[p]].agent = agentOf[p] =>
        /\ grown \in SUBSET Rows
        /\ grown \subseteq {owner[agentOf[p]]}
  <2>1. creds[upload[p]].user \in Rows
    BY <1>2 DEF CredRow
  <2>2. creds[upload[p]].user = owner[creds[upload[p]].agent]
    BY <1>1 DEF CredentialsFollowOwner
  <2>3. held[agentOf[p]] \in SUBSET Rows /\ held[agentOf[p]] \subseteq {owner[agentOf[p]]}
    BY <1>8 DEF UploadsFollowOwner
  <2> QED
    BY <2>1, <2>2, <2>3
<1>12. \/ UNCHANGED held
       \/ /\ creds[upload[p]].agent = agentOf[p]
          /\ held' = [held EXCEPT ![agentOf[p]] = grown]
  BY <1>7
<1>13. held' \in [Agents -> SUBSET Rows] /\ UploadsFollowOwner'
  <2> HIDE DEF grown
  <2>1. CASE UNCHANGED held
    BY <1>3, <1>8, <2>1 DEF UploadsFollowOwner
  <2>2. CASE /\ creds[upload[p]].agent = agentOf[p]
             /\ held' = [held EXCEPT ![agentOf[p]] = grown]
    <3>1. \A a \in Agents : held'[a] = IF a = agentOf[p] THEN grown ELSE held[a]
      BY <1>8, <2>2
    <3>2. held' \in [Agents -> SUBSET Rows]
      BY <1>8, <1>9, <2>2
    <3> QED
      BY <1>3, <1>9, <2>2, <3>1, <3>2 DEF UploadsFollowOwner
  <2> QED
    BY <1>12, <2>1, <2>2
<1>10. LinkTypeOK'
  BY <1>3, <1>4, <1>5, <1>6, <1>13
     DEF LinkTypeOK, Process, CodeRow, CredRow, Creds, Codes, Rows
<1>11. /\ RunningWithCredential' /\ IssuedForSpent' /\ CodesAreSingleUse'
       /\ CredentialsFollowOwner'
  BY <1>3, <1>4 DEF RunningWithCredential, IssuedForSpent, CodesAreSingleUse,
                    CredentialsFollowOwner, Creds
<1> QED
  BY <1>10, <1>11, <1>13

\* A credential is issued for a code that nobody has one for, to the agent's
\* owner or to its first: whoever had a credential for it before is the same.
LEMMA IssueStep ==
  ASSUME IInv, NEW c \in Codes, ~Spent(c), codes[c].user # NoOne,
         owner[codes[c].agent] \in {NoRow, NoOne, codes[c].user}, Issue(c),
         UNCHANGED <<google, users, archive, up, browser, faults, disk, process, held>>
  PROVE  IInv' /\ OwnersKept
<1> USE LinksTyped DEF IInv
<1> DEFINE a == codes[c].agent
           u == codes[c].user
           new == [agent |-> a, user |-> u, code |-> c, revoked |-> FALSE]
           row == [codes[c] EXCEPT !.consumed = TRUE]
<1>1. codes[c] \in CodeRow /\ a \in Agents /\ u \in Rows
  BY DEF CodeRow, NoOne
<1>2. ~codes[c].consumed
  BY DEF Spent
<1>3. \A x \in Rows : x \notin {NoRow, NoOne}
  BY PeopleAssumption DEF NoRow, NoOne
<1>4. owner' = [owner EXCEPT ![a] = u] /\ owner \in [Agents -> {NoRow} \cup (0..Len(users))]
  BY DEF Issue, LinkTypeOK, AccountTypeOK
<1>5. OwnersKept
  BY <1>4 DEF OwnersKept
<1>6. AccountTypeOK'
  <2>1. owner' \in [Agents -> {NoRow} \cup (0..Len(users))]
    BY <1>1, <1>4
  <2>2. AccountTypeOK
    BY DEF LinkTypeOK
  <2> HIDE DEF IInv
  <2> QED
    BY <2>1, <2>2 DEF AccountTypeOK, google, browser
<1>7. codes' \in Seq(CodeRow) /\ Len(codes') = Len(codes)
      /\ \A d \in Codes : codes'[d] = IF d = c THEN row ELSE codes[d]
  <2>1. row \in CodeRow
    BY <1>1 DEF CodeRow
  <2>2. codes' = [codes EXCEPT ![c] = row] /\ codes \in Seq(CodeRow)
    BY DEF Issue, LinkTypeOK
  <2> HIDE DEF row
  <2> QED
    BY <2>1, <2>2, RowWritten
<1>8. /\ creds' \in Seq(CredRow) /\ Len(creds') = Len(creds) + 1
      /\ \A k \in Creds : creds'[k] = creds[k]
      /\ creds'[Len(creds) + 1] = new
  <2>1. new \in CredRow
    BY <1>1 DEF CredRow
  <2>2. creds' = Append(creds, new) /\ creds \in Seq(CredRow)
    BY DEF Issue, LinkTypeOK
  <2> HIDE DEF new
  <2> QED
    BY <2>1, <2>2, AppendProperties
<1>9. Creds' = Creds \cup {Len(creds) + 1} /\ Codes' = Codes /\ Rows' = Rows
  BY <1>7, <1>8 DEF Creds, Codes, Rows
<1>10. UNCHANGED <<agentOf, file, pc, unwelcome, upload, held>>
  BY DEF disk, process
<1>11. call' \in Seq({"none", "sent", "linked", "pending", "failed"})
       /\ Len(call') = Len(codes')
  BY <1>7, CallTyped DEF Issue, Says
<1>12. /\ file \in [PCs -> {NoFile, Unreadable} \cup Creds'] /\ pc \in [PCs -> Process']
       /\ upload \in [PCs -> 0..Len(creds')] /\ held \in [Agents -> SUBSET Rows']
  BY <1>7, <1>8, LinksGrow
<1>13. CodeRow' = CodeRow /\ CredRow' = CredRow
  BY <1>9 DEF CodeRow, CredRow
<1>14. LinkTypeOK'
  <2>1. agentOf' \in [PCs -> Agents] /\ unwelcome' \in [PCs -> BOOLEAN]
    BY <1>10 DEF LinkTypeOK
  <2> HIDE DEF IInv
  <2> QED
    BY <1>6, <1>7, <1>8, <1>10, <1>11, <1>12, <1>13, <2>1 DEF LinkTypeOK
<1>15. RunningWithCredential'
  BY <1>9, <1>10 DEF RunningWithCredential
<1>16. \A k \in Creds : /\ creds[k].code \in Codes /\ creds[k].code # c
                        /\ creds[k].user \in Rows /\ creds[k].agent \in Agents
  BY <1>2 DEF CredRow, IssuedForSpent
<1>17. IssuedForSpent'
  <2>1. SUFFICES ASSUME NEW k \in Creds' PROVE codes'[creds'[k].code].consumed
    BY DEF IssuedForSpent
  <2>2. CASE k = Len(creds) + 1
    <3>1. creds'[k].code = c /\ codes'[c].consumed
      BY <1>1, <1>7, <1>8, <2>2 DEF CodeRow
    <3> QED
      BY <3>1
  <2>3. CASE k \in Creds
    <3>1. codes[creds[k].code].consumed
      BY <2>3 DEF IssuedForSpent
    <3> QED
      BY <1>7, <1>8, <1>16, <2>3, <3>1
  <2> QED
    BY <1>9, <2>2, <2>3
<1>18. CodesAreSingleUse'
  BY <1>8, <1>9, <1>16 DEF CodesAreSingleUse
<1>19. CredentialsFollowOwner'
  <2>1. SUFFICES ASSUME NEW k \in Creds' PROVE creds'[k].user = owner'[creds'[k].agent]
    BY DEF CredentialsFollowOwner
  <2>2. CASE k = Len(creds) + 1
    BY <1>1, <1>4, <1>8, <2>2
  <2>3. CASE k \in Creds
    <3>1. creds[k].user = owner[creds[k].agent]
      BY <2>3 DEF CredentialsFollowOwner
    <3> QED
      BY <1>3, <1>4, <1>8, <1>16, <2>3, <3>1
  <2> QED
    BY <1>9, <2>2, <2>3
<1>20. UploadsFollowOwner'
  <2>1. SUFFICES ASSUME NEW b \in Agents, NEW x \in held[b] PROVE x = owner'[b]
    BY <1>10 DEF UploadsFollowOwner
  <2>2. x \in Rows /\ x = owner[b]
    BY DEF LinkTypeOK, UploadsFollowOwner
  <2> QED
    BY <1>1, <1>3, <1>4, <2>2
<1> QED
  BY <1>5, <1>14, <1>15, <1>17, <1>18, <1>19, <1>20

LEMMA RedeemStep == ASSUME IInv, NEW c \in Codes, Redeem(c) PROVE IInv' /\ OwnersKept
<1>1. UNCHANGED <<google, users, archive, up, browser, faults, disk, process, held>>
  BY DEF Redeem
<1>2. CASE (Says(c, "failed") \/ Says(c, "pending")) /\ UNCHANGED <<owner, codes, creds>>
  <2>1. /\ Len(call') = Len(codes)
        /\ call' \in Seq({"none", "sent", "linked", "pending", "failed"})
    BY <1>2, CallTyped DEF Says, IInv
  <2>2. AccountsUnchanged
    BY <1>1, <1>2 DEF AccountsUnchanged, people
  <2>3. UNCHANGED <<agentOf, file, pc, unwelcome, upload>>
    BY <1>1 DEF disk, process
  <2>4. OwnersKept
    BY <1>1, <1>2 DEF OwnersKept
  <2> QED
    BY <1>1, <1>2, <2>1, <2>2, <2>3, <2>4, DiskStep
       DEF IInv, LinkTypeOK, RunningWithCredential
<1>3. CASE /\ ~Spent(c) /\ codes[c].user # NoOne /\ Issue(c)
           /\ owner[codes[c].agent] \in {NoRow, NoOne, codes[c].user}
  BY <1>1, <1>3, IssueStep
<1> QED
  BY <1>2, <1>3 DEF Redeem

-----------------------------------------------------------------------------
LEMMA InvInit == Init => IInv
  BY TypeInit DEF Init, IInv, RunningWithCredential, Down, IssuedForSpent, Creds,
     CodesAreSingleUse, CredentialsFollowOwner, UploadsFollowOwner

LEMMA InvNext == IInv /\ [Next]_vars => IInv'
<1> SUFFICES ASSUME IInv, [Next]_vars PROVE IInv'
  OBVIOUS
<1>1. CASE AccountNext /\ UNCHANGED linkVars
  BY <1>1, AccountStep
<1>2. ASSUME NEW p \in PCs,
             \/ Boot(p) \/ Relink(p) \/ Poll(p) \/ PollAnswered(p) \/ PollLost(p)
             \/ GiveUp(p) \/ CheckUpload(p) \/ StoreUpload(p) \/ Crash(p)
             \/ NewOutbox(p) \/ Spoil(p)
      PROVE  IInv'
  BY <1>2, BootStep, RelinkStep, PollSteps, CheckUploadStep, StoreUploadStep,
     CrashStep, DiskFails
<1>3. ASSUME NEW c \in Codes, Redeem(c) \/ Expire(c) \/ Repeat(c) PROVE IInv'
  BY <1>3, RedeemStep, ExpireStep, DiskFails
<1>4. ASSUME NEW b \in Browsers, NEW c \in Codes, Approve(b, c) PROVE IInv'
  BY <1>4, ApproveStep
<1>5. ASSUME NEW k \in Creds, Revoke(k) PROVE IInv'
  BY <1>5, RevokeStep
<1>6. CASE UNCHANGED vars
  BY <1>6 DEF vars, accountVars, linkVars, google, people, browser, disk, process, links,
     IInv, LinkTypeOK, AccountTypeOK, RunningWithCredential, IssuedForSpent,
     CodesAreSingleUse, CredentialsFollowOwner, UploadsFollowOwner,
     Process, CodeRow, CredRow, Rows, Codes, Creds
<1> QED
  BY <1>1, <1>2, <1>3, <1>4, <1>5, <1>6 DEF Next

LEMMA Invariance == Spec => []IInv
  BY InvInit, InvNext, PTL DEF Spec

-----------------------------------------------------------------------------
\* Every variable keeps its type: what a PC, a code or a credential refers to
\* is a row that is there.
THEOREM TypeCorrect == Spec => []LinkTypeOK
<1>1. IInv => LinkTypeOK
  BY DEF IInv
<1> QED
  BY <1>1, Invariance, PTL

\* A credential stands for the account that owns its agent, whatever was
\* adopted, approved twice or linked from elsewhere in between.
THEOREM CredentialsAreTheOwners == Spec => []CredentialsFollowOwner
<1>1. IInv => CredentialsFollowOwner
  BY DEF IInv
<1> QED
  BY <1>1, Invariance, PTL

\* What an agent uploads is stored in one account, its owner's, though the
\* credential is looked up before the batch is stored.
THEOREM UploadsAreTheOwners == Spec => []UploadsFollowOwner
<1>1. IInv => UploadsFollowOwner
  BY DEF IInv
<1> QED
  BY <1>1, Invariance, PTL

\* A code is good for one credential, however often it is polled for.
THEOREM CodesAreUsedOnce == Spec => []CodesAreSingleUse
<1>1. IInv => CodesAreSingleUse
  BY DEF IInv
<1> QED
  BY <1>1, Invariance, PTL

\* Neither a start nor a link takes anything from the account that has it.
THEOREM OwnersAreKept == Spec => OwnersStay
<1>1. IInv /\ [Next]_vars =>
        [ /\ \A a \in Agents : owner[a] \notin {NoRow, NoOne} => owner'[a] = owner[a]
          /\ archive \ {NoOne} \subseteq archive' ]_<<owner, archive>>
  <2> SUFFICES ASSUME IInv, [Next]_vars PROVE OwnersKept \/ UNCHANGED <<owner, archive>>
    BY DEF OwnersKept
  <2>1. CASE AccountNext /\ UNCHANGED linkVars
    BY <2>1, AccountsKeepOwners DEF IInv, LinkTypeOK
  <2>2. ASSUME AccountsUnchanged PROVE UNCHANGED <<owner, archive>>
    BY <2>2 DEF AccountsUnchanged, people
  <2>3. ASSUME NEW p \in PCs,
               \/ Boot(p) \/ Relink(p) \/ Poll(p) \/ PollAnswered(p) \/ PollLost(p)
               \/ GiveUp(p) \/ CheckUpload(p) \/ StoreUpload(p) \/ Crash(p)
               \/ NewOutbox(p) \/ Spoil(p)
        PROVE  AccountsUnchanged
    BY <2>3 DEF Boot, Relink, Poll, PollAnswered, PollLost, GiveUp, CheckUpload,
                StoreUpload, Crash, NewOutbox, Spoil, EnsureCredential, StartLink, NoFault
  <2>4. ASSUME NEW c \in Codes, Expire(c) \/ Repeat(c) PROVE AccountsUnchanged
    BY <2>4 DEF Expire, Repeat
  <2>5. ASSUME NEW b \in Browsers, NEW c \in Codes, Approve(b, c) PROVE AccountsUnchanged
    BY <2>5 DEF Approve, NoFault
  <2>6. ASSUME NEW k \in Creds, Revoke(k) PROVE AccountsUnchanged
    BY <2>6 DEF Revoke
  <2>7. CASE UNCHANGED vars
    BY <2>7 DEF vars, accountVars, people
  <2> QED
    BY <2>1, <2>2, <2>3, <2>4, <2>5, <2>6, <2>7, RedeemStep DEF Next
<1> QED
  BY <1>1, Invariance, PTL DEF Spec, OwnersStay

-----------------------------------------------------------------------------
(***************************************************************************)
(* Whoever is signed in is in the account of the person Google vouched     *)
(* for, for any number of people, addresses, browsers, tabs and failures.  *)
(*                                                                         *)
(* A sign-in decides on a row in one transaction and writes it in another, *)
(* and other sign-ins write in between: the row a claim was decided on may *)
(* have been claimed by then.  What saves it is that Google had vouched    *)
(* for its address to the same person, and that a row keeps its person: as *)
(* long as no address changes hands while a sign-in with it is under way.  *)
(***************************************************************************)

\* An address is one person's at a time.
OneHolderEach ==
  \A s, r \in Subjects : address[s] = address[r] /\ address[s] # None => s = r

\* What a sign-in has read is still so, as far as it matters for its write.
Agrees(q) ==
  q.step \in Served =>
    /\ address[q.sub] = q.email
    /\ q.step \in {"known", "session"} => q.row \in Rows /\ users[q.row].sub = q.sub
    /\ q.step = "claim" => /\ q.row \in Rows /\ users[q.row].email = q.email
                           /\ users[q.row].sub \in {None, q.sub}
    /\ q.step = "create" => q.row = NoOne

Inside(account, subject) ==
  account # NoOne =>
    /\ account \in Rows /\ subject \in Subjects
    /\ users[account].sub = subject

Vetted ==
  /\ OneHolderEach
  /\ \A t \in Tabs : Agrees(tab[t])
  /\ \A b \in Browsers : Inside(session[b], who[b])

\* A row keeps its person.
PeopleStay ==
  \A u \in Rows : u \in Rows' /\ (users[u].sub # None => users'[u].sub = users[u].sub)

-----------------------------------------------------------------------------
LEMMA VettedInit == Init => Vetted
<1> SUFFICES ASSUME Init PROVE Vetted
  OBVIOUS
<1>1. OneHolderEach
  <2> DEFINE Separate(a) == \A s, r \in Subjects : a[s] = a[r] => s = r
  <2>1. address = CHOOSE a \in [Subjects -> Addresses] : Separate(a)
    BY DEF Init, AccountInit
  <2>2. \E a \in [Subjects -> Addresses] : Separate(a)
    BY AddressAssumption
  <2>3. Separate(address)
    BY <2>1, <2>2, Zenon
  <2> QED
    BY <2>3 DEF OneHolderEach
<1>2. ASSUME NEW t \in Tabs PROVE Agrees(tab[t])
  <2>1. tab[t].step = "idle"
    BY DEF Init, AccountInit, Idle
  <2> QED
    BY <2>1 DEF Agrees, Served
<1>3. ASSUME NEW b \in Browsers PROVE Inside(session[b], who[b])
  BY DEF Init, AccountInit, Inside
<1> QED
  BY <1>1, <1>2, <1>3 DEF Vetted

LEMMA TabTyped ==
  ASSUME AccountTypeOK, NEW t \in Tabs
  PROVE  /\ tab[t].step \in {"idle", "google", "error"} \cup Served
         /\ tab[t].step \in Served => tab[t].sub \in Subjects /\ tab[t].email \in Addresses
         /\ BrowserOf(t) \in Browsers
<1>1. tab[t] \in SignIn(Len(users))
  BY DEF AccountTypeOK
<1>2. BrowserOf(t) \in Browsers
  BY DEF BrowserOf, Tabs
<1> QED
  BY <1>1, <1>2 DEF SignIn, Served

\* The table and the addresses stay: it is enough that what is new agrees.
LEMMA VettedStays ==
  ASSUME AccountTypeOK, Vetted, UNCHANGED <<users, address>>,
         \A t \in Tabs : tab'[t] = tab[t] \/ Agrees(tab'[t]),
         \A b \in Browsers : \/ session'[b] = session[b] /\ who'[b] = who[b]
                             \/ Inside(session'[b], who'[b])
  PROVE  Vetted' /\ PeopleStay
<1>1. Rows' = Rows
  BY DEF Rows
<1>2. ASSUME NEW t \in Tabs PROVE Agrees(tab[t])'
  <2>1. Agrees(tab'[t])
    BY DEF Vetted
  <2> QED
    BY <1>1, <2>1 DEF Agrees
<1>3. ASSUME NEW b \in Browsers PROVE Inside(session[b], who[b])'
  <2>1. Inside(session'[b], who'[b])
    BY DEF Vetted
  <2> QED
    BY <1>1, <2>1 DEF Inside
<1>4. OneHolderEach'
  BY DEF Vetted, OneHolderEach
<1> QED
  BY <1>1, <1>2, <1>3, <1>4 DEF Vetted, PeopleStay

\* A tab whose sign-in is not being served agrees with everything.
LEMMA IdleAgrees == ASSUME NEW q, q.step \notin Served PROVE Agrees(q)
  BY DEF Agrees

-----------------------------------------------------------------------------
(* The steps of a sign-in up to its write.                                 *)

LEMMA VettedReads ==
  ASSUME AccountTypeOK, Vetted, NEW t \in Tabs,
         Login(t) \/ Callback(t) \/ FindSubject(t) \/ FindAddress(t)
  PROVE  Vetted' /\ PeopleStay
<1> DEFINE q == tab[t]
<1>1. /\ DOMAIN tab = Tabs /\ q \in SignIn(Len(users))
      /\ Agrees(q) /\ DOMAIN users = Rows /\ 0 \notin Rows
  <2>1. 0 \notin Rows /\ DOMAIN users = Rows
    BY UsersTyped
  <2> QED
    BY <2>1 DEF AccountTypeOK, Vetted
<1>2. UNCHANGED <<users, address, session, who>>
  BY DEF Login, Callback, FindSubject, FindAddress, Proceed, google, people
<1>3. ASSUME NEW p, tab' = [tab EXCEPT ![t] = p], Agrees(p)
      PROVE  Vetted' /\ PeopleStay
  <2>1. \A s \in Tabs : tab'[s] = tab[s] \/ Agrees(tab'[s])
    BY <1>1, <1>3
  <2> QED
    BY <1>2, <2>1, VettedStays
<1>4. ASSUME NEW step \in {"known", "address", "claim", "create"}, NEW row,
             Proceed(t, step, row), q.step \in Served,
             step = "known" => row \in Rows /\ users[row].sub = q.sub,
             step = "claim" => /\ row \in Rows /\ users[row].email = q.email
                               /\ users[row].sub = None,
             step = "create" => row = NoOne
      PROVE  Vetted' /\ PeopleStay
  <2> DEFINE p == [q EXCEPT !.step = step, !.row = row]
  <2>1. p.step = step /\ p.row = row /\ p.sub = q.sub /\ p.email = q.email
    BY <1>1, <1>4 DEF SignIn, Served
  <2>2. tab' = [tab EXCEPT ![t] = p]
    BY <1>4 DEF Proceed
  <2> HIDE DEF p
  <2>3. Agrees(p)
    BY <1>1, <1>4, <2>1 DEF Agrees, Served
  <2> QED
    BY <1>3, <2>2, <2>3
<1>5. Agrees(Idle)
  BY IdleAgrees DEF Idle, Served
<1>6. CASE Login(t)
  <2>1. [Idle EXCEPT !.step = "google"].step = "google"
    BY DEF Idle
  <2>2. Agrees([Idle EXCEPT !.step = "google"])
    BY <2>1, IdleAgrees DEF Served
  <2> QED
    BY <1>3, <1>6, <2>2 DEF Login
<1>7. CASE Refuse(t)
  BY <1>3, <1>5, <1>7 DEF Refuse
<1>8. CASE Callback(t) /\ ~Refuse(t)
  <2>1. PICK s \in Vouched :
          tab' = [tab EXCEPT ![t] = [step |-> "subject", sub |-> Claims(s).sub,
                                     email |-> Claims(s).email, row |-> NoOne]]
    BY <1>8 DEF Callback
  <2>2. Agrees([step |-> "subject", sub |-> Claims(s).sub,
                email |-> Claims(s).email, row |-> NoOne])
    BY DEF Agrees, Claims, Served
  <2> QED
    BY <1>3, <2>1, <2>2
<1>9. CASE FindSubject(t)
  <2>1. OfSubject(q.sub) # {} =>
          Only(OfSubject(q.sub)) \in Rows /\ users[Only(OfSubject(q.sub))].sub = q.sub
    BY DEF Only, OfSubject
  <2>2. q.step \in Served
    BY <1>9 DEF FindSubject, Served
  <2>3. CASE OfSubject(q.sub) # {}
    BY <1>4, <1>9, <2>1, <2>2, <2>3 DEF FindSubject
  <2>4. CASE OfSubject(q.sub) = {}
    BY <1>4, <1>9, <2>2, <2>4 DEF FindSubject
  <2> QED
    BY <2>3, <2>4
<1>10. CASE FindAddress(t) /\ ~Refuse(t)
  <2>1. Unclaimed(q.email) # {} =>
          /\ Only(Unclaimed(q.email)) \in Rows
          /\ users[Only(Unclaimed(q.email))].email = q.email
          /\ users[Only(Unclaimed(q.email))].sub = None
    BY DEF Only, Unclaimed, OfAddress
  <2>2. q.step \in Served
    BY <1>10 DEF FindAddress, Served
  <2>3. CASE Unclaimed(q.email) # {}
    BY <1>4, <1>10, <2>1, <2>2, <2>3 DEF FindAddress
  <2>4. CASE Unclaimed(q.email) = {}
    BY <1>4, <1>10, <2>2, <2>4 DEF FindAddress
  <2> QED
    BY <2>3, <2>4
<1> QED
  BY <1>6, <1>7, <1>8, <1>9, <1>10

\* The end of a sign-in, of a session, and of the server.
LEMMA VettedEnds ==
  ASSUME AccountTypeOK, Vetted,
         \/ \E t \in Tabs : CreateSession(t)
         \/ \E b \in Browsers : Logout(b)
         \/ Stop
  PROVE  Vetted' /\ PeopleStay
<1>1. CASE \E t \in Tabs : CreateSession(t)
  <2>1. PICK t \in Tabs : CreateSession(t)
    BY <1>1
  <2>2. /\ UNCHANGED <<users, address>> /\ tab[t].step = "session"
        /\ session' = [session EXCEPT ![BrowserOf(t)] = tab[t].row]
        /\ who' = [who EXCEPT ![BrowserOf(t)] = tab[t].sub]
        /\ tab' = [tab EXCEPT ![t] = Idle]
    BY <2>1 DEF CreateSession, SignsIn, google, people
  <2>3. Inside(tab[t].row, tab[t].sub)
    BY <2>2, TabTyped DEF Vetted, Agrees, Inside, Served
  <2>4. \A b \in Browsers : \/ session'[b] = session[b] /\ who'[b] = who[b]
                            \/ Inside(session'[b], who'[b])
    <3>1. DOMAIN session = Browsers /\ DOMAIN who = Browsers
      BY DEF AccountTypeOK
    <3> QED
      BY <2>2, <2>3, <3>1
  <2>5. \A s \in Tabs : tab'[s] = tab[s] \/ Agrees(tab'[s])
    <3>1. Agrees(Idle)
      BY IdleAgrees DEF Idle, Served
    <3> QED
      BY <2>2, <3>1 DEF AccountTypeOK
  <2> QED
    BY <2>2, <2>4, <2>5, VettedStays
<1>2. CASE \E b \in Browsers : Logout(b)
  <2>1. PICK c \in Browsers : Logout(c)
    BY <1>2
  <2>2. /\ UNCHANGED <<users, address, tab>>
        /\ session' = [session EXCEPT ![c] = NoOne] /\ who' = [who EXCEPT ![c] = None]
    BY <2>1 DEF Logout, EndSession, google, people
  <2>3. \A b \in Browsers : \/ session'[b] = session[b] /\ who'[b] = who[b]
                            \/ Inside(session'[b], who'[b])
    <3>1. Inside(NoOne, None)
      BY DEF Inside
    <3> QED
      BY <2>2, <3>1 DEF AccountTypeOK
  <2> QED
    BY <2>2, <2>3, VettedStays
<1>3. CASE Stop
  <2>1. /\ UNCHANGED <<users, address, session, who>>
        /\ tab' = [t \in Tabs |-> IF tab[t].step \in Served
                                    THEN [Idle EXCEPT !.step = "error"] ELSE tab[t]]
    BY <1>3 DEF Stop, google, people
  <2>2. [Idle EXCEPT !.step = "error"].step = "error"
    BY DEF Idle
  <2>3. Agrees([Idle EXCEPT !.step = "error"])
    BY <2>2, IdleAgrees DEF Served
  <2>4. \A t \in Tabs : tab'[t] = tab[t] \/ Agrees(tab'[t])
    BY <2>1, <2>3
  <2> QED
    BY <2>1, <2>4, VettedStays
<1> QED
  BY <1>1, <1>2, <1>3

\* An address changes hands, and no sign-in is about it or its taker.
LEMMA VettedMove ==
  ASSUME AccountTypeOK, Vetted, Move, ~crossed'
  PROVE  Vetted' /\ PeopleStay
<1>1. PICK s \in Subjects, e \in Addresses :
        /\ address[s] # e
        /\ crossed' = (crossed \/ \E t \in Tabs : tab[t].email \in {e, address[s]} \ {None})
        /\ address' = [r \in Subjects |-> IF r = s THEN e
                                          ELSE IF address[r] = e THEN None
                                          ELSE address[r]]
  BY DEF Move
<1>2. UNCHANGED <<users, tab, session, who>> /\ Rows' = Rows
  BY DEF Move, people, browser, Rows
<1>3. OneHolderEach'
  BY <1>1 DEF Vetted, OneHolderEach
<1>4. ASSUME NEW t \in Tabs PROVE Agrees(tab[t])'
  <2>1. ASSUME tab[t].step \in Served PROVE address'[tab[t].sub] = tab[t].email
    <3>1. tab[t].sub \in Subjects /\ tab[t].email \in Addresses /\ tab[t].email # None
      BY <2>1, TabTyped, PeopleAssumption
    <3>2. address[tab[t].sub] = tab[t].email
      BY <2>1 DEF Vetted, Agrees
    <3>3. tab[t].email # e /\ tab[t].email # address[s]
      BY <1>1, <3>1
    <3> QED
      BY <1>1, <3>1, <3>2, <3>3
  <2> QED
    BY <1>2, <2>1 DEF Vetted, Agrees
<1>5. ASSUME NEW b \in Browsers PROVE Inside(session[b], who[b])'
  BY <1>2 DEF Vetted, Inside
<1> QED
  BY <1>2, <1>3, <1>4, <1>5 DEF Vetted, PeopleStay

-----------------------------------------------------------------------------
(* The table changes.                                                      *)

\* Rows keep their person, claims their address, and the rest stays as it is.
LEMMA VettedWrites ==
  ASSUME AccountTypeOK, Vetted, PeopleStay, UNCHANGED <<address, session, who>>,
         \A t \in Tabs :
           \/ Agrees(tab[t])'
           \/ /\ tab'[t] = tab[t]
              /\ tab[t].step = "claim" =>
                   /\ users'[tab[t].row].email = users[tab[t].row].email
                   /\ users'[tab[t].row].sub \in {None, tab[t].sub}
  PROVE  Vetted'
<1>1. OneHolderEach'
  BY DEF Vetted, OneHolderEach
<1>2. ASSUME NEW t \in Tabs PROVE Agrees(tab[t])'
  <2>1. CASE tab'[t] = tab[t] /\ tab[t].step \in Served
    <3>1. tab[t].sub # None
      BY <2>1, TabTyped, PeopleAssumption
    <3> QED
      BY <2>1, <3>1 DEF Vetted, Agrees, PeopleStay
  <2>2. CASE tab'[t] = tab[t] /\ tab[t].step \notin Served
    BY <2>2 DEF Agrees
  <2> QED
    BY <2>1, <2>2
<1>3. ASSUME NEW b \in Browsers PROVE Inside(session[b], who[b])'
  BY PeopleAssumption DEF Vetted, Inside, PeopleStay
<1> QED
  BY <1>1, <1>2, <1>3 DEF Vetted

LEMMA VettedStart ==
  ASSUME AccountTypeOK, Vetted, Start
  PROVE  Vetted' /\ PeopleStay
<1>1. UNCHANGED <<address, session, who, tab>>
  BY DEF Start, google, browser
<1>2. PICK e \in OwnerSettings : EnsureOwner(e)
  BY DEF Start
<1>3. CASE UNCHANGED users
  BY <1>1, <1>3, VettedStays
<1>4. CASE e # None /\ users' = Append(users, [sub |-> None, email |-> e])
  <2>1. [sub |-> None, email |-> e] \in UserRow
    BY <1>4, SettingsAssumption DEF UserRow
  <2>2. \A u \in Rows : u \in Rows' /\ users'[u] = users[u]
    <3>1. users \in Seq(UserRow) /\ Rows = 1..Len(users) /\ Rows' = 1..Len(users')
      BY DEF AccountTypeOK, Rows
    <3> QED
      BY <1>4, <2>1, <3>1, AppendProperties, LenProperties
  <2>3. PeopleStay
    BY <2>2 DEF PeopleStay
  <2>4. ASSUME NEW t \in Tabs, tab[t].step = "claim"
        PROVE  /\ users'[tab[t].row].email = users[tab[t].row].email
               /\ users'[tab[t].row].sub \in {None, tab[t].sub}
    BY <2>2, <2>4 DEF Vetted, Agrees, Served
  <2> QED
    BY <1>1, <2>3, <2>4, VettedWrites
<1> QED
  BY <1>2, <1>3, <1>4 DEF EnsureOwner, people

\* Row i of the table gets another value, and no other row does.
LEMMA RowRewritten ==
  ASSUME AccountTypeOK, NEW i \in Rows, NEW row \in UserRow,
         users' = [users EXCEPT ![i] = row]
  PROVE  /\ Rows' = Rows
         /\ \A u \in Rows : users'[u] = IF u = i THEN row ELSE users[u]
<1>1. users \in Seq(UserRow) /\ Rows = 1..Len(users) /\ Rows' = 1..Len(users')
  BY DEF AccountTypeOK, Rows
<1> QED
  BY <1>1, ExceptSeq

\* The write of a sign-in, whose row is still what it was read to be.
LEMMA VettedUpsert ==
  ASSUME AccountTypeOK, Vetted, NEW t \in Tabs, Upsert(t)
  PROVE  Vetted' /\ PeopleStay
<1> DEFINE q == tab[t]
<1>1. /\ q.step \in {"known", "claim", "create"} /\ q.step \in Served
      /\ UNCHANGED <<address, session, who>>
  BY DEF Upsert, google, Served
<1>2. /\ q \in SignIn(Len(users)) /\ q.sub \in Subjects /\ q.email \in Addresses
      /\ Agrees(q) /\ DOMAIN tab = Tabs /\ 0 \notin Rows /\ q.sub # None
      /\ users \in Seq(UserRow) /\ Rows = 1..Len(users) /\ Len(users) \in Nat
      /\ Rows' = 1..Len(users')
  <2>1. q.sub \in Subjects /\ q.email \in Addresses
    BY <1>1, TabTyped
  <2> QED
    BY <2>1, UsersTyped, PeopleAssumption DEF AccountTypeOK, Vetted, Rows
<1>3. \A u \in Rows : users[u] \in UserRow
  BY UsersTyped
<1>4. CASE /\ tab' = [tab EXCEPT ![t] = [Idle EXCEPT !.step = "error"]]
           /\ UNCHANGED users
  <2>1. [Idle EXCEPT !.step = "error"].step = "error"
    BY DEF Idle
  <2>2. Agrees([Idle EXCEPT !.step = "error"])
    BY <2>1, IdleAgrees DEF Served
  <2>3. \A s \in Tabs : tab'[s] = tab[s] \/ Agrees(tab'[s])
    BY <1>2, <1>4, <2>2
  <2> QED
    BY <1>1, <1>4, <2>3, VettedStays
<1>5. CASE /\ users' = Upserted(t)
           /\ tab' = [tab EXCEPT ![t].step = "session",
                   ![t].row = IF q.row = NoOne THEN Len(users') ELSE q.row]
  <2> DEFINE row == IF q.row = NoOne THEN Len(users') ELSE q.row
             p == [q EXCEPT !.step = "session", !.row = row]
  <2>1. tab' = [tab EXCEPT ![t] = p]
    BY <1>5
  <2>2. p.step = "session" /\ p.row = row /\ p.sub = q.sub /\ p.email = q.email
    <3> HIDE DEF row
    <3> QED
      BY <1>1, <1>2 DEF SignIn, Served
  <2>3. tab'[t] = p /\ \A s \in Tabs : s # t => tab'[s] = tab[s]
    <3> HIDE DEF p
    <3> QED
      BY <1>2, <2>1
  <2> HIDE DEF p
  <2>4. ASSUME row \in Rows', users'[row].sub = q.sub PROVE Agrees(tab[t])'
    BY <1>1, <1>2, <2>2, <2>3, <2>4 DEF Agrees, Served
  <2>5. ASSUME NEW s \in Tabs, tab[s].step = "claim"
        PROVE  /\ tab[s].sub \in Subjects /\ tab[s].email \in Addresses /\ tab[s].row \in Rows
               /\ users[tab[s].row].email = tab[s].email
               /\ users[tab[s].row].sub \in {None, tab[s].sub}
               /\ address[tab[s].sub] = tab[s].email /\ tab[s].email # None
               /\ tab[s].sub # None
    BY <2>5, TabTyped, PeopleAssumption DEF Vetted, Agrees, Served
  <2>6. CASE q.step = "known"
    <3> DEFINE new == [users[q.row] EXCEPT !.email = q.email]
    <3>1. q.row \in Rows /\ users[q.row].sub = q.sub /\ row = q.row
      BY <1>2, <1>1, <2>6 DEF Agrees, NoOne
    <3>2. new \in UserRow /\ new.sub = q.sub /\ new.email = q.email
      BY <1>2, <1>3, <3>1 DEF UserRow
    <3>3. users' = [users EXCEPT ![q.row] = new]
      BY <1>5, <2>6 DEF Upserted
    <3> HIDE DEF new
    <3>4. Rows' = Rows /\ \A u \in Rows : users'[u] = IF u = q.row THEN new ELSE users[u]
      BY <3>1, <3>2, <3>3, RowRewritten
    <3>5. PeopleStay
      BY <3>1, <3>2, <3>4 DEF PeopleStay
    <3>6. Agrees(tab[t])'
      BY <2>4, <3>1, <3>2, <3>4
    <3>7. ASSUME NEW s \in Tabs, tab[s].step = "claim"
          PROVE  /\ users'[tab[s].row].email = users[tab[s].row].email
                 /\ users'[tab[s].row].sub \in {None, tab[s].sub}
      <4>1. CASE tab[s].row = q.row
        <5>1. tab[s].sub = q.sub
          BY <1>2, <2>5, <3>1, <3>7, <4>1
        <5>2. q.email = tab[s].email
          BY <1>1, <1>2, <2>5, <3>7, <5>1 DEF Agrees
        <5> QED
          BY <2>5, <3>1, <3>2, <3>4, <3>7, <4>1, <5>1, <5>2
      <4>2. CASE tab[s].row # q.row
        BY <2>5, <3>4, <3>7, <4>2
      <4> QED
        BY <4>1, <4>2
    <3> QED
      BY <1>1, <2>3, <3>5, <3>6, <3>7, VettedWrites
  <2>7. CASE q.step = "claim"
    <3> DEFINE new == [users[q.row] EXCEPT !.sub = q.sub]
    <3>1. q.row \in Rows /\ row = q.row /\ users[q.row].sub \in {None, q.sub}
      BY <1>2, <1>1, <2>7 DEF Agrees, NoOne
    <3>2. new \in UserRow /\ new.sub = q.sub /\ new.email = users[q.row].email
      BY <1>2, <1>3, <3>1 DEF UserRow
    <3>3. users' = [users EXCEPT ![q.row] = new]
      BY <1>5, <2>7 DEF Upserted
    <3> HIDE DEF new
    <3>4. Rows' = Rows /\ \A u \in Rows : users'[u] = IF u = q.row THEN new ELSE users[u]
      BY <3>1, <3>2, <3>3, RowRewritten
    <3>5. PeopleStay
      BY <3>1, <3>2, <3>4 DEF PeopleStay
    <3>6. Agrees(tab[t])'
      BY <2>4, <3>1, <3>2, <3>4
    <3>7. ASSUME NEW s \in Tabs, tab[s].step = "claim"
          PROVE  /\ users'[tab[s].row].email = users[tab[s].row].email
                 /\ users'[tab[s].row].sub \in {None, tab[s].sub}
      <4>1. CASE tab[s].row = q.row
        <5>1. address[tab[s].sub] = address[q.sub] /\ address[q.sub] # None
          BY <2>5, <2>7, <3>7, <4>1
        <5>2. tab[s].sub = q.sub
          BY <1>2, <2>5, <3>7, <5>1 DEF Vetted, OneHolderEach
        <5> QED
          BY <2>5, <3>1, <3>2, <3>4, <3>7, <4>1, <5>2
      <4>2. CASE tab[s].row # q.row
        BY <2>5, <3>4, <3>7, <4>2
      <4> QED
        BY <4>1, <4>2
    <3> QED
      BY <1>1, <2>3, <3>5, <3>6, <3>7, VettedWrites
  <2>8. CASE q.step = "create"
    <3>1. Row(t) \in UserRow /\ Row(t).sub = q.sub
      BY <1>2 DEF Row, UserRow
    <3>2. users' = Append(users, Row(t)) /\ q.row = NoOne
      BY <1>1, <1>2, <1>5, <2>8 DEF Upserted, Agrees
    <3>3. /\ \A u \in Rows : u \in Rows' /\ users'[u] = users[u]
          /\ Len(users') \in Rows' /\ users'[Len(users')] = Row(t)
      BY <1>2, <3>1, <3>2, AppendProperties
    <3>4. PeopleStay
      BY <3>3 DEF PeopleStay
    <3>5. Agrees(tab[t])'
      BY <2>4, <3>1, <3>2, <3>3
    <3>6. ASSUME NEW s \in Tabs, tab[s].step = "claim"
          PROVE  /\ users'[tab[s].row].email = users[tab[s].row].email
                 /\ users'[tab[s].row].sub \in {None, tab[s].sub}
      BY <2>5, <3>3, <3>6
    <3> QED
      BY <1>1, <2>3, <3>4, <3>5, <3>6, VettedWrites
  <2> QED
    BY <1>1, <2>6, <2>7, <2>8
<1> QED
  BY <1>4, <1>5 DEF Upsert

-----------------------------------------------------------------------------
\* Linking sees the accounts and does not touch them.
LEMMA LinksLeaveAccounts ==
  ASSUME \/ \E p \in PCs : \/ Boot(p) \/ Relink(p) \/ Poll(p) \/ PollAnswered(p) \/ PollLost(p)
                           \/ GiveUp(p) \/ CheckUpload(p) \/ StoreUpload(p) \/ Crash(p)
                           \/ NewOutbox(p) \/ Spoil(p)
         \/ \E c \in Codes : Redeem(c) \/ Expire(c) \/ Repeat(c)
         \/ \E b \in Browsers, c \in Codes : Approve(b, c)
         \/ \E k \in Creds : Revoke(k)
  PROVE  UNCHANGED <<address, crossed, users, session, who, tab>>
<1>1. AccountsUnchanged => UNCHANGED <<address, crossed, users, session, who, tab>>
  BY DEF AccountsUnchanged, google, people, browser
<1>2. ASSUME NEW p \in PCs,
             \/ Boot(p) \/ Relink(p) \/ Poll(p) \/ PollAnswered(p) \/ PollLost(p)
             \/ GiveUp(p) \/ CheckUpload(p) \/ StoreUpload(p) \/ Crash(p)
             \/ NewOutbox(p) \/ Spoil(p)
      PROVE  AccountsUnchanged
  BY <1>2 DEF Boot, Relink, Poll, PollAnswered, PollLost, GiveUp, CheckUpload,
              StoreUpload, Crash, NewOutbox, Spoil, EnsureCredential, StartLink, NoFault
<1>3. ASSUME NEW c \in Codes, Expire(c) \/ Repeat(c) PROVE AccountsUnchanged
  BY <1>3 DEF Expire, Repeat
<1>4. ASSUME NEW c \in Codes, Redeem(c) PROVE UNCHANGED <<address, crossed, users, session, who, tab>>
  BY <1>4 DEF Redeem, google, browser
<1>5. ASSUME NEW b \in Browsers, NEW c \in Codes, Approve(b, c) PROVE AccountsUnchanged
  BY <1>5 DEF Approve, NoFault
<1>6. ASSUME NEW k \in Creds, Revoke(k) PROVE AccountsUnchanged
  BY <1>6 DEF Revoke
<1> QED
  BY <1>1, <1>2, <1>3, <1>4, <1>5, <1>6

\* What holds until an address changes hands in the middle of a sign-in.
Settled == crossed \/ Vetted

LEMMA SettledNext ==
  LinkTypeOK /\ Settled /\ [Next]_vars => Settled' /\ (~crossed => PeopleStay)
<1> SUFFICES ASSUME LinkTypeOK, Settled, [Next]_vars
             PROVE  Settled' /\ (~crossed => PeopleStay)
  OBVIOUS
<1>1. AccountTypeOK
  BY DEF LinkTypeOK
<1>2. ASSUME AccountNext
      PROVE  /\ Move \/ crossed' = crossed
             /\ crossed => crossed'
             /\ Vetted /\ ~crossed' => Vetted'
             /\ Vetted => PeopleStay
  <2>1. CASE Start
    BY <1>1, <2>1, VettedStart DEF Start, google
  <2>6. CASE Move
    <3>1. UNCHANGED users
      BY <2>6 DEF Move, people
    <3>2. PeopleStay
      BY <3>1 DEF PeopleStay, Rows
    <3>3. crossed => crossed'
      BY <2>6, Zenon DEF Move
    <3> QED
      BY <1>1, <2>6, <3>2, <3>3, VettedMove
  <2>2. CASE Import
    <3>1. UNCHANGED <<users, address, crossed, tab, session, who>>
      BY <2>2 DEF Import, google, browser
    <3> QED
      BY <1>1, <3>1, VettedStays
  <2>3. CASE \E t \in Tabs : Login(t) \/ Callback(t) \/ FindSubject(t) \/ FindAddress(t)
    <3>1. UNCHANGED crossed
      BY <2>3 DEF Login, Callback, FindSubject, FindAddress, Proceed, google
    <3> QED
      BY <1>1, <2>3, <3>1, VettedReads
  <2>4. CASE \E t \in Tabs : Upsert(t)
    <3>1. UNCHANGED crossed
      BY <2>4 DEF Upsert, google
    <3> QED
      BY <1>1, <2>4, <3>1, VettedUpsert
  <2>5. CASE (\E t \in Tabs : CreateSession(t)) \/ (\E b \in Browsers : Logout(b)) \/ Stop
    <3>1. UNCHANGED crossed
      BY <2>5 DEF CreateSession, Logout, Stop, google
    <3> QED
      BY <1>1, <2>5, <3>1, VettedEnds
  <2> QED
    BY <1>2, <2>1, <2>2, <2>3, <2>4, <2>5, <2>6 DEF AccountNext
<1>3. CASE UNCHANGED <<address, crossed, users, session, who, tab>>
  <2>1. Vetted => Vetted' /\ PeopleStay
    BY <1>1, <1>3, VettedStays
  <2> QED
    BY <1>3, <2>1 DEF Settled
<1>4. CASE UNCHANGED vars
  BY <1>3, <1>4 DEF vars, accountVars, google, people, browser
<1>5. CASE AccountNext
  BY <1>2, <1>5 DEF Settled
<1> QED
  BY <1>3, <1>4, <1>5, LinksLeaveAccounts DEF Next

LEMMA SettledAlways == Spec => []Settled
<1>1. Init => Settled
  BY VettedInit DEF Settled
<1>2. IInv => LinkTypeOK
  BY DEF IInv
<1> QED
  BY <1>1, <1>2, SettledNext, Invariance, PTL DEF Spec

\* Whoever is signed in is in the account of the subject Google vouched for:
\* addresses change hands, rows are claimed by address, and sign-ins write
\* between one another's reads and writes.  It ends with the first address that
\* changes hands while a sign-in with it is under way: the row that was found
\* for it may have been claimed by its new holder when it is written.
THEOREM EverybodyIsOneself == Spec => []SignedInAsOneself
<1>1. Settled => SignedInAsOneself
  BY DEF Settled, Vetted, Inside, SignedInAsOneself
<1> QED
  BY <1>1, SettledAlways, PTL

\* An account is one person's for good, up to that moment: no sign-in, claim or
\* start of the server gives a row that has a subject to another, or takes it
\* away.
THEOREM AccountsKeepPeople == Spec => [][~crossed => PeopleStay]_vars
<1>1. IInv => LinkTypeOK
  BY DEF IInv
<1> QED
  BY <1>1, SettledNext, SettledAlways, Invariance, PTL DEF Spec
=============================================================================
