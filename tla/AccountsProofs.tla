--------------------------- MODULE AccountsProofs ---------------------------
(***************************************************************************)
(* Theorems of Accounts, for any number of addresses, requests, links and   *)
(* sessions; of AuthMailQueue, for any backlog and any stops; and of        *)
(* WebClient, for any pages, accounts and prompts.                          *)
(***************************************************************************)
EXTENDS Accounts, AuthMailQueue, WebClient, SequenceTheorems, FiniteSetTheorems, TLAPS

----------------------------------------------------------------------------
\* The tables keep their types.

\* A link made from typed parts is one.
LEMMA LinkType ==
    ASSUME NEW e \in Email, NEW p \in Purpose, NEW i \in Nat, NEW t \in Nat
    PROVE  [id |-> i, email |-> e, purpose |-> p, until |-> t] \in Link
BY DEF Link

\* A session made from typed parts is one.
LEMMA SessionType ==
    ASSUME NEW e \in Email, NEW i \in Nat, NEW t \in Nat, NEW v \in Nat
    PROVE  [id |-> i, email |-> e, until |-> t, version |-> v] \in Session
BY DEF Session

\* An account made from typed parts is one.
LEMMA AccountType ==
    ASSUME NEW pw \in Password, NEW h \in Handle, NEW v \in Nat
    PROVE  [password |-> pw, handle |-> h, version |-> v] \in Account
BY DEF Account

\* What a request remembers has the types of what it read.
LEMMA ReadingType ==
    /\ \A i \in Nat, p \in Purpose, pw \in Password, h \in Handle :
          [op |-> "confirm", link |-> i, purpose |-> p, password |-> pw, handle |-> h] \in Reading
    /\ \A e \in Email, a \in Account, k \in Nat :
          [op |-> "login", email |-> e, seen |-> a, cookie |-> k] \in Reading
    /\ \A e \in Email, pw \in Password, h \in Handle :
          [op |-> "provision", email |-> e, password |-> pw, handle |-> h] \in Reading
BY DEF Reading, Confirmation, Login, Provisioning

\* A request that goes on does so with what an operation of its kind read.
LEMMA ReadingOf ==
    ASSUME NEW q \in Reading
    PROVE  /\ q.op = "confirm" => q.password \in Password /\ q.handle \in Handle
           /\ q.op = "login" => q.email \in Email /\ q.seen \in Account
           /\ q.op = "provision" => /\ q.email \in Email
                                    /\ q.password \in Password /\ q.handle \in Handle
BY DEF Reading, Confirmation, Login, Provisioning

\* The lifetimes of sessions and links are times.
LEMMA TimesAreNat ==
    /\ SessionTime \in Nat
    /\ \A p \in Purpose : TimeToLive(p) \in Nat
BY TimesAssumption DEF TimeToLive

\* An account with another password and the next version is an account.
LEMMA ResetType ==
    ASSUME NEW a \in Account, NEW pw \in Password
    PROVE  [a EXCEPT !.password = pw, !.version = a.version + 1] \in Account
<1>1. \A v \in Nat : [a EXCEPT !.password = pw, !.version = v] \in Account
  BY DEF Account
<1>2. a.version + 1 \in Nat
  BY DEF Account
<1> QED
  BY <1>1, <1>2

\* Who may finish a request, and what it then does to the accounts.
LEMMA ConfirmEffect ==
    ASSUME AccountsTypeOK, LinksInv, NEW r \in Request, Confirm(r)
    PROVE  \E l \in links :
              /\ l \in Link /\ l.until > now
              /\ \/ /\ l.purpose = "verify-email"
                    /\ account[l.email] = NoAccount
                    /\ account' = [account EXCEPT ![l.email] =
                          [password |-> requests[r].password, handle |-> requests[r].handle,
                           version |-> 1]]
                    /\ sessions' = sessions
                 \/ /\ account[l.email] \in Account
                    /\ account' = [account EXCEPT ![l.email] =
                          [account[l.email] EXCEPT !.password = requests[r].password,
                                                   !.version = account[l.email].version + 1]]
                    /\ sessions' = {s \in sessions : s.email # l.email}
              /\ links' = {m \in links : m.email # l.email}
              /\ used' = used \cup {l.id}
              /\ requests' = [requests EXCEPT ![r] = Idle]
              /\ UNCHANGED <<now, issued, counter>>
<1>1. PICK l \in links :
         /\ l.until > now
         /\ \/ /\ l.purpose = "verify-email"
               /\ Insert(l.email, requests[r].password, requests[r].handle)
               /\ UNCHANGED sessions
            \/ /\ l.purpose = "reset-password"
               /\ account' = [account EXCEPT ![l.email].password = requests[r].password,
                                             ![l.email].version = account[l.email].version + 1]
               /\ sessions' = {s \in sessions : s.email # l.email}
         /\ Consume(l)
         /\ used' = used \cup {l.id}
  BY DEF Confirm
<1>2. l \in Link /\ l.email \in Email
  BY DEF AccountsTypeOK, Link
<1>3. CASE l.purpose = "verify-email"
  <2>1. account[l.email] = NoAccount
    BY <1>1, <1>2, <1>3 DEF Insert, Registered
  <2> QED
    BY <1>1, <1>2, <1>3, <2>1 DEF Insert, Consume, Confirm, Answer
<1>4. CASE l.purpose = "reset-password"
  <2>1. account[l.email] \in Account
    BY <1>2, <1>4 DEF AccountsTypeOK, LinksInv, OnlyNewestLinks, Registered
  <2>2. account' = [account EXCEPT ![l.email] =
           [account[l.email] EXCEPT !.password = requests[r].password, !.version = account[l.email].version + 1]]
    BY <1>1, <1>2, <1>4 DEF AccountsTypeOK
  <2> QED
    BY <1>1, <1>2, <1>4, <2>1, <2>2 DEF Consume, Confirm, Answer
<1> QED
  BY <1>1, <1>3, <1>4

\* Elsewhere the accounts are left alone.
LEMMA ConfirmFrame ==
    ASSUME AccountsTypeOK, LinksInv, NEW r \in Request, Confirm(r)
    PROVE  \E l \in links :
              /\ l \in Link
              /\ \A e \in Email \ {l.email} : account'[e] = account[e]
              /\ \/ account[l.email] = NoAccount /\ sessions' = sessions
                 \/ sessions' = {s \in sessions : s.email # l.email}
              /\ links' = {m \in links : m.email # l.email}
              /\ used' = used \cup {l.id}
              /\ UNCHANGED <<issued, counter>>
<1>1. PICK l \in links :
         /\ l \in Link
         /\ \/ /\ account[l.email] = NoAccount
               /\ account' = [account EXCEPT ![l.email] =
                     [password |-> requests[r].password, handle |-> requests[r].handle,
                      version |-> 1]]
               /\ sessions' = sessions
            \/ /\ account' = [account EXCEPT ![l.email] =
                     [account[l.email] EXCEPT !.password = requests[r].password,
                                              !.version = account[l.email].version + 1]]
               /\ sessions' = {s \in sessions : s.email # l.email}
         /\ links' = {m \in links : m.email # l.email}
         /\ used' = used \cup {l.id}
         /\ UNCHANGED <<issued, counter>>
  BY ConfirmEffect
<1>2. \A e \in Email \ {l.email} : account'[e] = account[e]
  BY <1>1 DEF AccountsTypeOK
<1> QED
  BY <1>1, <1>2

\* Every transaction keeps the types.
LEMMA TypeStep ==
    ASSUME AccountsTypeOK, LinksInv, [AccountsNext]_accountVars
    PROVE  AccountsTypeOK'
<1> USE DEF AccountsTypeOK
<1>0. Cookies \subseteq Nat
  BY DEF Cookies, Session
<1>1. ASSUME NEW e \in Email, NEW p \in Purpose, IssueLink(e, p) PROVE AccountsTypeOK'
  <2>1. counter.link + 1 \in Nat /\ now + TimeToLive(p) \in Nat
    BY TimesAreNat
  <2>2. links' \subseteq Link
    BY <1>1, <2>1, LinkType DEF IssueLink
  <2>3. issued' \in [Email -> [Purpose -> Nat]] /\ counter' \in [link : Nat, session : Nat]
    BY <1>1, <2>1 DEF IssueLink
  <2> QED
    BY <1>1, <2>2, <2>3 DEF IssueLink
<1>2. ASSUME NEW r \in Request, NEW l \in links, NEW pw \in Password, NEW h \in Handle,
             BeginConfirm(r, l, pw, h)
      PROVE  AccountsTypeOK'
  <2>1. l.id \in Nat /\ l.purpose \in Purpose
    BY DEF Link
  <2>2. requests' \in [Request -> Reading \cup {Idle}]
    BY <1>2, <2>1, ReadingType DEF BeginConfirm, Begin
  <2> QED
    BY <1>2, <2>2 DEF BeginConfirm, tables, history
<1>3. ASSUME NEW r \in Request, NEW e \in Email, NEW pw \in Password, NEW c \in Cookies,
             BeginLogin(r, e, pw, c)
      PROVE  AccountsTypeOK'
  <2>1. account[e] \in Account /\ c \in Nat
    BY <1>0, <1>3 DEF BeginLogin, Registered
  <2>2. requests' \in [Request -> Reading \cup {Idle}]
    BY <1>3, <2>1, ReadingType DEF BeginLogin, Begin
  <2> QED
    BY <1>3, <2>2 DEF BeginLogin, tables, history
<1>4. ASSUME NEW r \in Request, NEW e \in Email, NEW pw \in Password, NEW h \in Handle,
             BeginProvision(r, e, pw, h)
      PROVE  AccountsTypeOK'
  <2>1. requests' \in [Request -> Reading \cup {Idle}]
    BY <1>4, ReadingType DEF BeginProvision, Begin
  <2> QED
    BY <1>4, <2>1 DEF BeginProvision, tables, history
<1>5. ASSUME NEW r \in Request, Confirm(r) PROVE AccountsTypeOK'
  <2>1. requests[r] \in Reading /\ requests[r].op = "confirm"
    BY <1>5 DEF Confirm, Continues
  <2>2. requests[r].password \in Password /\ requests[r].handle \in Handle
    BY <2>1, ReadingOf
  <2>3. PICK l \in Link :
           /\ \/ /\ account' = [account EXCEPT ![l.email] =
                       [password |-> requests[r].password, handle |-> requests[r].handle,
                        version |-> 1]]
                 /\ sessions' = sessions
              \/ /\ account[l.email] \in Account
                 /\ account' = [account EXCEPT ![l.email] =
                       [account[l.email] EXCEPT !.password = requests[r].password,
                                                !.version = account[l.email].version + 1]]
                 /\ sessions' = {s \in sessions : s.email # l.email}
           /\ links' = {m \in links : m.email # l.email}
           /\ used' = used \cup {l.id}
           /\ requests' = [requests EXCEPT ![r] = Idle]
           /\ UNCHANGED <<now, issued, counter>>
    BY <1>5, ConfirmEffect
  <2>4. l.id \in Nat
    BY DEF Link
  <2>5. [password |-> requests[r].password, handle |-> requests[r].handle, version |-> 1]
           \in Account
    BY <2>2, AccountType
  <2>6. account[l.email] \in Account =>
           [account[l.email] EXCEPT !.password = requests[r].password,
              !.version = account[l.email].version + 1]
              \in Account
    BY <2>2, ResetType
  <2>7. account' \in [Email -> Account \cup {NoAccount}]
    BY <2>3, <2>5, <2>6
  <2> QED
    BY <2>3, <2>4, <2>7
<1>6. ASSUME NEW r \in Request, OpenSession(r) PROVE AccountsTypeOK'
  <2>1. requests[r] \in Reading /\ requests[r].op = "login"
    BY <1>6 DEF OpenSession, Continues
  <2>2. requests[r].email \in Email /\ requests[r].seen.version \in Nat
    BY <2>1, ReadingOf DEF Account
  <2>3. counter.session + 1 \in Nat /\ now + SessionTime \in Nat
    BY TimesAreNat
  <2>4. sessions' \subseteq Session
    BY <1>6, <2>2, <2>3, SessionType DEF OpenSession
  <2>5. counter' \in [link : Nat, session : Nat]
    BY <1>6, <2>3 DEF OpenSession
  <2> QED
    BY <1>6, <2>4, <2>5 DEF OpenSession, Answer
<1>7. ASSUME NEW r \in Request, Provision(r) PROVE AccountsTypeOK'
  <2>1. requests[r] \in Reading /\ requests[r].op = "provision"
    BY <1>7 DEF Provision, Continues
  <2>2. requests[r].email \in Email /\ requests[r].password \in Password
        /\ requests[r].handle \in Handle
    BY <2>1, ReadingOf
  <2>3. account' \in [Email -> Account \cup {NoAccount}]
    BY <1>7, <2>2, AccountType DEF Provision, Insert
  <2> QED
    BY <1>7, <2>3 DEF Provision, Answer, history
<1>8. ASSUME NEW r \in Request, Drop(r) PROVE AccountsTypeOK'
  BY <1>8 DEF Drop, Answer, tables, history
<1>9. ASSUME NEW s \in sessions, Revoke(s) PROVE AccountsTypeOK'
  BY <1>9 DEF Revoke, history
<1>10. CASE Purge
  BY <1>10 DEF Purge, history
<1>11. CASE Tick
  BY <1>11 DEF Tick, tables, history
<1>12. CASE UNCHANGED accountVars
  BY <1>12 DEF accountVars, tables, history
<1> QED
  BY <1>1, <1>2, <1>3, <1>4, <1>5, <1>6, <1>7, <1>8, <1>9, <1>10, <1>11, <1>12
  DEF AccountsNext

----------------------------------------------------------------------------
\* Links.

\* An address that has an account keeps it.
LEMMA RegisteredStays ==
    ASSUME AccountsTypeOK, LinksInv, [AccountsNext]_accountVars, NEW e \in Registered,
           ~\E r \in Request : Confirm(r)
    PROVE  e \in Registered'
<1>1. CASE account' = account
  BY <1>1 DEF Registered
<1>2. ASSUME NEW r \in Request, Provision(r) PROVE e \in Registered'
  <2>1. requests[r].email \notin Registered /\ account' = [account EXCEPT ![requests[r].email] =
           [password |-> requests[r].password, handle |-> requests[r].handle, version |-> 1]]
    BY <1>2 DEF Provision, Insert
  <2>2. account'[e] = account[e]
    BY <2>1 DEF AccountsTypeOK, Registered
  <2> QED
    BY <2>2 DEF Registered
<1> QED
  BY <1>1, <1>2
  DEF AccountsNext, accountVars, tables, IssueLink, BeginConfirm, BeginLogin, BeginProvision,
      OpenSession, Drop, Revoke, Purge, Tick

\* Every transaction keeps link numbers apart and below the next one, and what confirmed addresses owe to them.
LEMMA LinksStep ==
    ASSUME AccountsTypeOK, LinksInv, [AccountsNext]_accountVars
    PROVE  LinksInv'
<1> USE DEF LinksInv
<1>1. ASSUME NEW e \in Email, NEW p \in Purpose, IssueLink(e, p) PROVE LinksInv'
  <2> DEFINE new == [id |-> counter.link + 1, email |-> e, purpose |-> p,
                     until |-> now + TimeToLive(p)]
  <2>1. counter.link \in Nat /\ counter'.link = counter.link + 1
    BY <1>1 DEF IssueLink, AccountsTypeOK
  <2>2. \A l \in links' : l = new \/ (l \in links /\ (l.email # e \/ l.purpose # p))
    BY <1>1 DEF IssueLink
  <2>3. /\ issued'[e][p] = counter.link + 1
        /\ \A l \in links : l.email # e \/ l.purpose # p =>
              issued'[l.email][l.purpose] = issued[l.email][l.purpose]
    BY <1>1 DEF IssueLink, AccountsTypeOK, Link
  <2>4. used' = used /\ account' = account
    BY <1>1 DEF IssueLink
  <2>5. p = "reset-password" => e \in Registered
    BY <1>1 DEF IssueLink, Eligible
  <2>6. used' \subseteq 1 .. counter'.link
    BY <2>1, <2>4
  <2>7. \A l \in links' : l.id \in 1 .. counter'.link
    BY <2>1, <2>2
  <2>8. \A l, m \in links' : l.id = m.id => l = m
    <3>1. \A l \in links : l.id # counter.link + 1
      BY <2>1
    <3> QED
      BY <2>2, <3>1
  <2>9. OnlyNewestLinks'
    <3> SUFFICES ASSUME NEW l \in links'
                 PROVE  /\ l.id = issued'[l.email][l.purpose]
                        /\ l.id \notin used'
                        /\ l.purpose = "reset-password" => l.email \in Registered'
      BY DEF OnlyNewestLinks
    <3>1. CASE l = new
      <4>1. l.id = counter.link + 1 /\ l.email = e /\ l.purpose = p
        BY <3>1
      <4>2. counter.link + 1 \notin used
        BY <2>1
      <4> QED
        BY <2>3, <2>4, <2>5, <4>1, <4>2 DEF Registered
    <3>2. CASE l \in links /\ (l.email # e \/ l.purpose # p)
      BY <2>3, <2>4, <3>2 DEF OnlyNewestLinks, Registered
    <3> QED
      BY <2>2, <3>1, <3>2
  <2> QED
    BY <2>6, <2>7, <2>8, <2>9
<1>2. ASSUME NEW r \in Request, Confirm(r) PROVE LinksInv'
  <2>1. PICK l \in links :
           /\ \A e \in Email \ {l.email} : account'[e] = account[e]
           /\ links' = {m \in links : m.email # l.email}
           /\ used' = used \cup {l.id}
           /\ UNCHANGED <<issued, counter>>
    BY <1>2, ConfirmFrame
  <2>2. used' \subseteq 1 .. counter'.link /\ \A m \in links' : m.id \in 1 .. counter'.link
    BY <2>1
  <2>3. \A k, m \in links' : k.id = m.id => k = m
    BY <2>1
  <2>4. OnlyNewestLinks'
    <3> SUFFICES ASSUME NEW m \in links'
                 PROVE  /\ m.id = issued'[m.email][m.purpose]
                        /\ m.id \notin used'
                        /\ m.purpose = "reset-password" => m.email \in Registered'
      BY DEF OnlyNewestLinks
    <3>1. m \in links /\ m # l /\ m.email # l.email
      BY <2>1
    <3>2. m.id # l.id
      BY <3>1
    <3>3. m.email \in Email /\ account'[m.email] = account[m.email]
      BY <2>1, <3>1 DEF AccountsTypeOK, Link
    <3> QED
      BY <2>1, <3>1, <3>2, <3>3 DEF OnlyNewestLinks, Registered
  <2> QED
    BY <2>2, <2>3, <2>4
<1>3. CASE ~(\E r \in Request : Confirm(r)) /\ ~(\E e \in Email, p \in Purpose : IssueLink(e, p))
  <2>1. links' \subseteq links /\ UNCHANGED <<issued, used>> /\ counter'.link = counter.link
    BY <1>3 DEF AccountsNext, accountVars, tables, history, BeginConfirm, BeginLogin,
                BeginProvision, OpenSession, Provision, Drop, Revoke, Purge, Tick,
                AccountsTypeOK
  <2>2. \A l \in links' : l.purpose = "reset-password" => l.email \in Registered'
    BY <1>3, <2>1, RegisteredStays DEF OnlyNewestLinks
  <2>3. OnlyNewestLinks'
    BY <2>1, <2>2 DEF OnlyNewestLinks
  <2> QED
    BY <2>1, <2>3
<1> QED
  BY <1>1, <1>2, <1>3

----------------------------------------------------------------------------
\* Sessions.

\* Every transaction leaves only sessions of the current password behind.
LEMMA SessionsStep ==
    ASSUME AccountsTypeOK, LinksInv, SessionsFollowResets, [AccountsNext]_accountVars
    PROVE  SessionsFollowResets'
<1> USE DEF SessionsFollowResets
<1>1. ASSUME NEW r \in Request, Confirm(r) PROVE SessionsFollowResets'
  <2>2. PICK l \in Link :
           /\ \A e \in Email \ {l.email} : account'[e] = account[e]
           /\ \/ account[l.email] = NoAccount /\ sessions' = sessions
              \/ sessions' = {s \in sessions : s.email # l.email}
    BY <1>1, ConfirmFrame
  <2>3. \A s \in sessions' : s \in sessions /\ s.email # l.email
    BY <2>2 DEF Registered
  <2>4. \A s \in sessions' : s.email \in Email /\ account'[s.email] = account[s.email]
    BY <2>2, <2>3 DEF AccountsTypeOK, Session
  <2> QED
    BY <2>3, <2>4 DEF Registered
<1>2. ASSUME NEW r \in Request, OpenSession(r) PROVE SessionsFollowResets'
  <2>1. requests[r].email \in Registered
        /\ account[requests[r].email].version = requests[r].seen.version
    BY <1>2 DEF OpenSession, StillCurrent
  <2> QED
    BY <1>2, <2>1 DEF OpenSession, Registered
<1>3. ASSUME NEW r \in Request, Provision(r) PROVE SessionsFollowResets'
  <2>1. /\ requests[r].email \notin Registered
        /\ account' = [account EXCEPT ![requests[r].email] = account'[requests[r].email]]
        /\ sessions' = sessions
    BY <1>3 DEF Provision, Insert, AccountsTypeOK
  <2>2. \A s \in sessions' : s.email \in Email /\ account'[s.email] = account[s.email]
    BY <2>1 DEF AccountsTypeOK, Session
  <2> QED
    BY <2>1, <2>2 DEF Registered
<1>4. CASE account' = account /\ sessions' \subseteq sessions
  BY <1>4 DEF Registered
<1> QED
  BY <1>1, <1>2, <1>3, <1>4
  DEF AccountsNext, accountVars, tables, IssueLink, BeginConfirm, BeginLogin, BeginProvision,
      Drop, Revoke, Purge, Tick

----------------------------------------------------------------------------
AccountsInv == AccountsTypeOK /\ LinksInv /\ SessionsFollowResets

\* An empty database satisfies the invariant.
LEMMA AccountsInitially == AccountsInit => AccountsInv
<1> SUFFICES ASSUME AccountsInit PROVE AccountsInv
  OBVIOUS
<1>1. AccountsTypeOK
  BY DEF AccountsInit, AccountsTypeOK
<1>2. LinksInv /\ SessionsFollowResets
  BY DEF AccountsInit, LinksInv, OnlyNewestLinks, SessionsFollowResets
<1> QED
  BY <1>1, <1>2 DEF AccountsInv

\* Every transaction keeps the invariant.
LEMMA AccountsStep == AccountsInv /\ [AccountsNext]_accountVars => AccountsInv'
BY TypeStep, LinksStep, SessionsStep DEF AccountsInv

\* The invariant holds in every state of the accounts.
LEMMA AccountsInvariant == AccountsSpec => []AccountsInv
BY AccountsInitially, AccountsStep, PTL DEF AccountsSpec

\* The tables keep the types of their columns, whatever the links, sessions and
\* requests, in auth_store.py's transactions.
THEOREM AccountsTypes == AccountsSpec => []AccountsTypeOK
BY AccountsInvariant, PTL DEF AccountsInv

\* No session outlives the credentials it was opened under: complete_link
\* revokes the others, and auth_create_session refuses a login that read the
\* older ones.
THEOREM SessionsFollow == AccountsSpec => []SessionsFollowResets
BY AccountsInvariant, PTL DEF AccountsInv

\* In whatever order links are reissued, used and expire, what can still be
\* used is the newest, was not used, and if it resets, has an account to reset.
THEOREM NewestLinks == AccountsSpec => []OnlyNewestLinks
BY AccountsInvariant, PTL DEF AccountsInv, LinksInv

\* The change of an account, by the step that makes it.
LEMMA ChangeStep ==
    ASSUME AccountsInv, [AccountsNext]_accountVars, NEW e \in Email, account'[e] # account[e]
    PROVE  \/ /\ account[e] = NoAccount
              /\ \E r \in Request : Provision(r)
           \/ /\ \E l \in links : l.email = e /\ l.until > now /\ l.id \in used' \ used
              /\ \A l \in links' : l.email # e
              /\ account[e] # NoAccount => account'[e].handle = account[e].handle
                                        /\ account'[e].version = account[e].version + 1
<1> USE DEF AccountsInv
<1>1. ASSUME NEW r \in Request, Provision(r) PROVE account[e] = NoAccount
  <2>1. requests[r].email \notin Registered
        /\ account' = [account EXCEPT ![requests[r].email] = account'[requests[r].email]]
    BY <1>1 DEF Provision, Insert, AccountsTypeOK
  <2>2. e = requests[r].email
    BY <2>1 DEF AccountsTypeOK
  <2> QED
    BY <2>1, <2>2 DEF Registered
<1>2. ASSUME NEW r \in Request, Confirm(r)
      PROVE  /\ \E l \in links : l.email = e /\ l.until > now /\ l.id \in used' \ used
             /\ \A l \in links' : l.email # e
             /\ account[e] # NoAccount => account'[e].handle = account[e].handle
                                       /\ account'[e].version = account[e].version + 1
  <2>1. PICK l \in links :
           /\ l \in Link /\ l.until > now
           /\ \/ /\ account[l.email] = NoAccount
                 /\ account' = [account EXCEPT ![l.email] =
                       [password |-> requests[r].password, handle |-> requests[r].handle,
                        version |-> 1]]
              \/ /\ account[l.email] \in Account
                 /\ account' = [account EXCEPT ![l.email] =
                       [account[l.email] EXCEPT !.password = requests[r].password,
                                                !.version = account[l.email].version + 1]]
           /\ links' = {m \in links : m.email # l.email}
           /\ used' = used \cup {l.id}
    BY <1>2, ConfirmEffect
  <2>2. e = l.email
    BY <2>1 DEF AccountsTypeOK
  <2>3. l.id \in used' \ used
    BY <2>1 DEF LinksInv, OnlyNewestLinks
  <2>4. account[e] # NoAccount => /\ account[e] \in Account
                                  /\ account'[e] = [account[e] EXCEPT
                                        !.password = requests[r].password,
                                        !.version = account[e].version + 1]
    BY <2>1, <2>2 DEF AccountsTypeOK
  <2>5. account[e] # NoAccount => account'[e].handle = account[e].handle
                               /\ account'[e].version = account[e].version + 1
    BY <2>4 DEF Account
  <2> QED
    BY <2>1, <2>2, <2>3, <2>5
<1>3. \/ \E r \in Request : Provision(r)
      \/ \E r \in Request : Confirm(r)
  BY DEF AccountsNext, accountVars, tables, IssueLink, BeginConfirm, BeginLogin, BeginProvision,
         OpenSession, Drop, Revoke, Purge, Tick
<1> QED
  BY <1>1, <1>2, <1>3

\* Only a live link mailed to its address, which then ends with all other links
\* of the address, changes an account; only development provisioning creates
\* one without.
THEOREM MailDecides == AccountsSpec => MailDecidesAccounts
<1>1. AccountsInv /\ [AccountsNext]_accountVars =>
         [\A e \in Email :
             account'[e] # account[e] =>
                \/ /\ account[e] = NoAccount
                   /\ \E r \in Request : Provision(r)
                \/ /\ \E l \in links : l.email = e /\ l.until > now /\ l.id \in used' \ used
                   /\ \A l \in links' : l.email # e
                   /\ account[e] # NoAccount => account'[e].handle = account[e].handle
                                             /\ account'[e].version = account[e].version + 1
         ]_accountVars
  BY ChangeStep
<1> QED
  BY <1>1, AccountsInvariant, PTL DEF AccountsSpec, MailDecidesAccounts

----------------------------------------------------------------------------
\* The mail queue

MailTypeOK ==
    /\ service \in {"down", "up", "closing", "joining", "unclean"}
    /\ worker \in Thread \cup {NoThread}
    /\ stopping \in BOOLEAN
    /\ pending \in Seq(Nat)
    /\ threads \in [Thread -> {"unborn", "waiting", "delivering", "ended"}]
    /\ accepted \in Nat /\ taken \in Nat

\* What is pending was accepted after what was taken, in its order.
PendingInOrder ==
    /\ taken <= accepted
    /\ \A i \in 1..Len(pending) : taken < pending[i] /\ pending[i] <= accepted
    /\ \A i, j \in 1..Len(pending) : i < j => pending[i] < pending[j]

\* A thread that lives is the one that is remembered, until it was joined.
MailInv ==
    /\ MailTypeOK
    /\ \A t \in Thread : Alive(t) => t = worker
    /\ PendingInOrder
    /\ service \in {"joining", "unclean", "down"} => stopping /\ pending = <<>>
    /\ service = "down" => worker = NoThread

\* Every step of the queue, its worker and its owner keeps the invariant of the mail queue.
LEMMA MailStep ==
    ASSUME MailInv, [MailNext]_mailVars
    PROVE  MailInv'
<1> USE MailAssumption DEF MailInv, MailTypeOK, Alive
<1>1. CASE StartMail
  BY <1>1 DEF StartMail, PendingInOrder
<1>2. CASE SubmitMail
  <2>1. /\ pending' \in Seq(Nat) /\ accepted' = accepted + 1
        /\ Len(pending') = Len(pending) + 1 /\ pending'[Len(pending) + 1] = accepted + 1
        /\ \A i \in 1..Len(pending) : pending'[i] = pending[i]
    BY <1>2 DEF SubmitMail
  <2>2. PendingInOrder'
    BY <1>2, <2>1 DEF SubmitMail, PendingInOrder
  <2> QED
    BY <1>2, <2>1, <2>2 DEF SubmitMail
<1>3. ASSUME NEW t \in Thread, Wake(t) PROVE MailInv'
  <2>1. CASE stopping
    BY <1>3, <2>1 DEF Wake, PendingInOrder
  <2>2. CASE ~stopping
    <3>1. pending # <<>> /\ pending' = Tail(pending) /\ taken' = pending[1]
      BY <1>3, <2>2 DEF Wake
    <3>2. /\ pending' \in Seq(Nat) /\ Len(pending') = Len(pending) - 1 /\ Len(pending) > 0
          /\ \A i \in 1..Len(pending') : pending'[i] = pending[i + 1]
      BY <3>1, HeadTailProperties
    <3>3. taken' \in Nat
      BY <3>1, <3>2, ElementOfSeq
    <3>4. PendingInOrder'
      <4>1. UNCHANGED accepted
        BY <1>3 DEF Wake
      <4>2. \A i \in 1..Len(pending') : i + 1 \in 1..Len(pending) /\ pending[i + 1] \in Nat
        BY <3>2, ElementOfSeq
      <4>3. 1 \in 1..Len(pending) /\ Len(pending) \in Nat
        BY <3>2
      <4> QED
        BY <3>1, <3>2, <3>3, <4>1, <4>2, <4>3 DEF PendingInOrder
    <3> QED
      BY <1>3, <2>2, <3>2, <3>3, <3>4 DEF Wake
  <2> QED
    BY <2>1, <2>2
<1>4. ASSUME NEW t \in Thread, Deliver(t) PROVE MailInv'
  BY <1>4 DEF Deliver, PendingInOrder
<1>5. CASE EndService
  BY <1>5 DEF EndService, PendingInOrder
<1>6. CASE BeginStop
  BY <1>6 DEF BeginStop, PendingInOrder
<1>7. CASE Joined
  BY <1>7 DEF Joined, PendingInOrder
<1>8. CASE JoinTimesOut
  BY <1>8 DEF JoinTimesOut, PendingInOrder
<1>9. CASE UNCHANGED mailVars
  BY <1>9 DEF mailVars, PendingInOrder
<1> QED
  BY <1>1, <1>2, <1>3, <1>4, <1>5, <1>6, <1>7, <1>8, <1>9 DEF MailNext

\* Mails go out one at a time and in order, however often stop's join runs out.
THEOREM MailsInOrder == MailSpec => []MailsGoOneByOne
<1>1. MailInit => MailInv
  BY MailAssumption DEF MailInit, MailInv, MailTypeOK, PendingInOrder, Alive
<1>2. MailInv /\ [MailNext]_mailVars => MailInv'
  BY MailStep
<1>3. MailInv => MailsGoOneByOne
  <2> SUFFICES ASSUME MailInv PROVE MailsGoOneByOne
    OBVIOUS
  <2>1. DOMAIN pending = 1..Len(pending)
    BY DEF MailInv, MailTypeOK
  <2>2. \A i \in DOMAIN pending : pending[i] > IF i = 1 THEN taken ELSE pending[i - 1]
    BY <2>1 DEF MailInv, MailTypeOK, PendingInOrder
  <2> QED
    BY <2>2, MailAssumption DEF MailInv, MailTypeOK, MailsGoOneByOne
<1> QED
  BY <1>1, <1>2, <1>3, PTL DEF MailSpec

----------------------------------------------------------------------------
\* The page of the web client

Somebody == User \cup {NoUser}

Page ==
    [user : Somebody, mode : {"unavailable", "checking", "cookie"}, busy : BOOLEAN,
     needsLogin : BOOLEAN, recheck : BOOLEAN, submitting : BOOLEAN,
     key : Nat, done : BOOLEAN, shown : Somebody, draft : SUBSET Nat]

WebCall ==
    [heard : BOOLEAN, op : {"check", "boot", "login", "logout", "submit", "load"},
     user : Somebody, key : Nat, cookie : Nat,
     at : {"sent", "guarded", "answered", "stored"},
     says : {"", "ok", "error", "unauthorized", "changed"},
     who : Somebody, sets : Nat, fresh : BOOLEAN, own : BOOLEAN]

WebTypeOK ==
    /\ opened \in Seq(User)
    /\ known \subseteq 1..Len(opened)
    /\ cookie \in Nat
    /\ page \in Page
    /\ calls \subseteq WebCall
    /\ rows \subseteq [owner : Somebody, key : Nat, for : Somebody]
    /\ drawn \in Nat

\* A page that shows nobody's account has no draft under way; a draft has one key.
PageSound(p) ==
    /\ p.shown \in {NoUser, p.user}
    /\ p.user = NoUser => p.key = 0
    /\ p.draft = IF p.key = 0 THEN {} ELSE {p.key}

\* A request past the guard is of the account of its session; an answer names it;
\* and one that still counts is of the account the page shows.
CallsSound ==
    \A c \in calls :
        /\ c.at = "guarded" => c.cookie \in 1..Len(opened) /\ opened[c.cookie] = c.user
        /\ Private(c) /\ c.at = "answered" /\ c.says = "ok" => c.who = c.user
        /\ Private(c) /\ c.heard /\ c.own => c.user = page.user
        /\ c.op = "login" => c.user \in User

\* A key is used for one account.
KeysSound ==
    /\ page.key \in 0..drawn
    /\ \A c \in calls : c.op = "submit" =>
          /\ c.key \in 1..drawn
          /\ c.key = page.key => c.user = page.user
          /\ \A d \in calls : d.op = "submit" /\ d.key = c.key => d.user = c.user
          /\ \A r \in rows : r.key = c.key => r.owner = c.user
    /\ \A r \in rows :
          /\ r.key \in 1..drawn
          /\ r.key = page.key => r.owner = page.user
          /\ r.owner = r.for
          /\ \A s \in rows : s.key = r.key => s.owner = r.owner

WebInv ==
    /\ WebTypeOK
    /\ PageSound(page)
    /\ CallsSound
    /\ KeysSound

\* What a handler may make of the page: it says so when the account changes, and
\* keeps a key only for the same account.
Handling == [now : Page, auth : BOOLEAN, account : BOOLEAN, ask : BOOLEAN]

Follows(p) ==
    /\ p \in Handling
    /\ PageSound(p.now)
    /\ p.now.user # page.user => p.account
    /\ p.now.key # 0 => p.now.key = page.key /\ p.now.user = page.user

\* Clearing the page shows nobody and keeps an update sound.
LEMMA ClearedFollows ==
    ASSUME NEW p, Follows(p)
    PROVE  Follows(Cleared(p)) /\ Cleared(p).now.user = NoUser
BY DEF Follows, Handling, PageSound, Cleared, Page, Somebody

\* Invalidating the page shows nobody and keeps an update sound.
LEMMA InvalidatedFollows ==
    ASSUME NEW p, Follows(p)
    PROVE  Follows(Invalidated(p)) /\ Invalidated(p).now.user = NoUser
<1> DEFINE q == Cleared(p)
<1>1. Follows(q) /\ q.now.user = NoUser
  BY ClearedFollows
<1> HIDE DEF q
<1>2. Follows([q EXCEPT !.now.needsLogin = TRUE, !.auth = TRUE])
  BY <1>1 DEF Follows, Handling, PageSound, Page
<1>3. [q EXCEPT !.now.needsLogin = TRUE, !.auth = TRUE].now.user = NoUser
  BY <1>1 DEF Follows, Handling, Page
<1> QED
  BY <1>2, <1>3 DEF Invalidated, q

\* Showing the account the server named keeps an update sound.
LEMMA AcceptedFollows ==
    ASSUME NEW p, Follows(p), NEW user \in Somebody
    PROVE  Follows(Accepted(p, user))
<1> DEFINE q == IF p.now.user \in {NoUser, user} THEN [p EXCEPT !.account = TRUE] ELSE Cleared(p)
<1>1. Follows(q) /\ q.account /\ q.now.user \in {NoUser, user}
  <2>1. Cleared(p).account
    BY DEF Cleared, Follows, Handling
  <2>2. Follows([p EXCEPT !.account = TRUE])
    BY DEF Follows, Handling
  <2> QED
    BY <2>1, <2>2, ClearedFollows DEF Follows, Handling
<1> HIDE DEF q
<1>2. Follows([q EXCEPT !.now = [q.now EXCEPT !.submitting = FALSE, !.user = user, !.mode = "cookie"]])
  BY <1>1 DEF Follows, Handling, PageSound, Page, Somebody
<1> QED
  BY <1>2 DEF Accepted, q

\* Fields that say nothing of the account.
LEMMA MarksFollow ==
    ASSUME NEW p, Follows(p)
    PROVE  /\ \A b \in BOOLEAN : /\ Follows([p EXCEPT !.now.needsLogin = b])
                                 /\ Follows([p EXCEPT !.now.recheck = b])
                                 /\ Follows([p EXCEPT !.now.busy = b])
           /\ \A m \in {"unavailable", "checking", "cookie"} : Follows([p EXCEPT !.now.mode = m])
           /\ \A b, d \in BOOLEAN : Follows([p EXCEPT !.now.submitting = b, !.now.done = d])
           /\ Follows([p EXCEPT !.auth = TRUE, !.ask = TRUE])
           /\ Follows([p EXCEPT !.now.mode = "checking", !.auth = TRUE])
           /\ Follows([p EXCEPT !.now.busy = TRUE, !.auth = TRUE])
           /\ p.now.user \in Somebody
<1>1. \A b \in BOOLEAN : Follows([p EXCEPT !.now.needsLogin = b])
  BY DEF Follows, Handling, PageSound, Page
<1>2. \A b \in BOOLEAN : Follows([p EXCEPT !.now.recheck = b])
  BY DEF Follows, Handling, PageSound, Page
<1>3. \A b \in BOOLEAN : Follows([p EXCEPT !.now.busy = b])
  BY DEF Follows, Handling, PageSound, Page
<1>4. \A m \in {"unavailable", "checking", "cookie"} : Follows([p EXCEPT !.now.mode = m])
  BY DEF Follows, Handling, PageSound, Page
<1>5. ASSUME NEW b \in BOOLEAN, NEW d \in BOOLEAN
      PROVE  Follows([p EXCEPT !.now.submitting = b, !.now.done = d])
  <2> DEFINE q == [p EXCEPT !.now.submitting = b, !.now.done = d]
  <2>1. /\ q \in Handling /\ q.account = p.account
        /\ q.now = [p.now EXCEPT !.submitting = b, !.done = d]
    BY DEF Follows, Handling, Page
  <2> HIDE DEF q
  <2>2. p.now \in Page /\ PageSound(p.now)
    BY DEF Follows, Handling
  <2>3. q.now.user = p.now.user /\ q.now.key = p.now.key /\ q.now.shown = p.now.shown /\ q.now.draft = p.now.draft
    BY <2>1, <2>2 DEF Page
  <2>4. PageSound(q.now)
    BY <2>1, <2>2, <2>3 DEF PageSound, Page
  <2>5. Follows(q)
    BY <2>1, <2>3, <2>4 DEF Follows
  <2> QED
    BY <2>5 DEF q
<1>6. Follows([p EXCEPT !.auth = TRUE, !.ask = TRUE])
  BY DEF Follows, Handling, PageSound, Page
<1>7. Follows([p EXCEPT !.now.mode = "checking", !.auth = TRUE])
  BY DEF Follows, Handling, PageSound, Page
<1>8. Follows([p EXCEPT !.now.busy = TRUE, !.auth = TRUE])
  BY DEF Follows, Handling, PageSound, Page
<1>9. p.now.user \in Somebody
  BY DEF Follows, Handling, PageSound, Page
<1> QED
  BY <1>1, <1>2, <1>3, <1>4, <1>5, <1>6, <1>7, <1>8, <1>9

\* The checks after an answer keep an update sound.
LEMMA AfterwardsFollows ==
    ASSUME NEW p, Follows(p), NEW others
    PROVE  Follows(Afterwards(p, others)) /\ Follows(Revalidated(p, others))
<1>1. \A q : Follows(q) => Follows(Revalidated(q, others))
  BY MarksFollow DEF Revalidated
<1> QED
  BY <1>1, MarksFollow DEF Afterwards

\* A page left alone is a sound update of itself.
LEMMA UntouchedFollows ==
    ASSUME page \in Page, PageSound(page)
    PROVE  Follows(Untouched) /\ Untouched.now = page
BY DEF Follows, Handling, Untouched

\* An answer that counts shows what is of the account on the page.
LEMMA AnsweredFollows ==
    ASSUME NEW p, Follows(p), NEW d \in WebCall,
           d.own /\ d.says = "ok" => d.who = p.now.user
    PROVE  Follows(Answered(d, p))
<1>1. \A w : w = p.now.user => Follows([p EXCEPT !.now.shown = w])
  <2> DEFINE q == [p EXCEPT !.now.shown = p.now.user]
  <2>1. q.account = p.account /\ q.now = [p.now EXCEPT !.shown = p.now.user]
        /\ p.now \in Page /\ PageSound(p.now) /\ p \in Handling
    BY DEF Follows, Handling
  <2>2. q.now \in Page /\ PageSound(q.now) /\ q.now.user = p.now.user /\ q.now.key = p.now.key
    BY <2>1 DEF PageSound, Page
  <2>3. q \in Handling
    BY <2>1, <2>2 DEF Handling
  <2> HIDE DEF q
  <2>4. Follows(q)
    BY <2>1, <2>2, <2>3 DEF Follows
  <2> QED
    BY <2>4 DEF q
<1> QED
  BY <1>1, InvalidatedFollows DEF Answered

\* The end of a submission keeps an update sound.
LEMMA SubmittedFollows ==
    ASSUME NEW p, Follows(p), NEW d \in WebCall
    PROVE  Follows(Submitted(d, p))
BY MarksFollow DEF Submitted

\* The end of a session check keeps an update sound.
LEMMA CheckedFollows ==
    ASSUME NEW p, Follows(p), NEW d \in WebCall
    PROVE  Follows(Checked(d, p))
<1>1. Follows(Invalidated(p)) /\ Follows(Invalidated([p EXCEPT !.now.mode = "unavailable"]))
  BY MarksFollow, InvalidatedFollows
<1> QED
  BY <1>1, MarksFollow DEF Checked

\* The end of the first load keeps an update sound.
LEMMA BootedFollows ==
    ASSUME NEW p, Follows(p), NEW d \in WebCall
    PROVE  Follows(Booted(d, p))
<1> DEFINE left == IF p.now.user # NoUser THEN Cleared(p) ELSE p
<1>1. Follows(left)
  <2>1. Follows(Cleared(p))
    BY ClearedFollows
  <2>2. left = Cleared(p) \/ left = p
    OBVIOUS
  <2> HIDE DEF left
  <2> QED
    BY <2>1, <2>2
<1> HIDE DEF left
<1>2. Follows([left EXCEPT !.now.mode = "cookie"]) /\ Follows([left EXCEPT !.now.mode = "unavailable"])
  BY <1>1, MarksFollow
<1>3. Follows(Booting(p)) /\ Follows([Booting(p) EXCEPT !.now.recheck = FALSE])
  BY MarksFollow DEF Booting
<1>4. Follows(Accepted(p, d.who))
  BY AcceptedFollows DEF WebCall
<1> QED
  BY <1>2, <1>3, <1>4, MarksFollow DEF Booted, left

\* The end of a login or logout keeps an update sound.
LEMMA SignedFollows ==
    ASSUME NEW p, Follows(p), NEW d \in WebCall
    PROVE  Follows(Signed(d, p))
<1>1. Follows([Accepted(p, d.who) EXCEPT !.now.needsLogin = FALSE])
  BY AcceptedFollows, MarksFollow DEF WebCall
<1>2. Follows([Cleared(p) EXCEPT !.now.needsLogin = TRUE])
  BY ClearedFollows, MarksFollow
<1> QED
  BY <1>1, <1>2, MarksFollow DEF Signed

\* Whatever answer arrives, the page handles it soundly, given that an answer of this page's own request is for the account it shows.
LEMMA HandledFollows ==
    ASSUME page \in Page, PageSound(page), NEW d \in WebCall, NEW others,
           Private(d) /\ d.own /\ d.says = "ok" => d.who = page.user
    PROVE  Follows(Handled(d, others))
<1>1. Follows(Untouched) /\ Untouched.now = page
  BY UntouchedFollows
<1>2. Private(d) => Follows(Answered(d, Untouched))
  BY <1>1, AnsweredFollows
<1> QED
  BY <1>1, <1>2, SubmittedFollows, CheckedFollows, BootedFollows, SignedFollows, AfterwardsFollows
  DEF Handled, Private

\* A request as it is sent is a request, with the parts it was given.
LEMMA SentIsCall ==
    ASSUME cookie \in Nat, NEW op \in {"check", "boot", "login", "logout", "submit", "load"},
           NEW user \in Somebody, NEW key \in Nat
    PROVE  /\ Sent(op, user, key) \in WebCall
           /\ Sent(op, user, key).op = op /\ Sent(op, user, key).user = user
           /\ Sent(op, user, key).key = key /\ Sent(op, user, key).at = "sent"
BY DEF Sent, WebCall, Somebody

\* The request is one that was on its way, whatever became of its answer; or it is
\* the same but for the marks.
Same(c, d) == c.op = d.op /\ c.user = d.user /\ c.key = d.key
SameButMarks(c, d) ==
    /\ Same(c, d)
    /\ c.heard = d.heard /\ c.at = d.at /\ c.says = d.says
    /\ c.who = d.who /\ c.cookie = d.cookie

\* What Becomes makes of the requests on their way.
LEMMA MarksTaken ==
    ASSUME WebTypeOK, NEW p \in Handling, NEW others \in SUBSET calls, NEW new \in SUBSET WebCall,
           Becomes(p, others, new)
    PROVE  /\ calls' \subseteq WebCall
           /\ \A c \in calls' :
                 \/ c \in new
                 \/ \E d \in others : SameButMarks(c, d) /\ (c.own => d.own /\ ~p.account)
                 \/ c.op = "check" /\ c.at = "sent"
<1> DEFINE ask == IF p.ask THEN {Sent("check", NoUser, 0)} ELSE {}
           Marked(d) == [d EXCEPT !.fresh = d.fresh /\ ~p.auth, !.own = d.own /\ ~p.account]
<1>1. calls' = {Marked(d) : d \in others} \cup new \cup ask
  BY DEF Becomes
<1>2. ASSUME NEW d \in others
      PROVE  /\ Marked(d) \in WebCall
             /\ SameButMarks(Marked(d), d)
             /\ Marked(d).own => d.own /\ ~p.account
  <2>1. d \in WebCall
    BY DEF WebTypeOK
  <2>2. ASSUME NEW f \in BOOLEAN, NEW o \in BOOLEAN
        PROVE  /\ [d EXCEPT !.fresh = f, !.own = o] \in WebCall
               /\ SameButMarks([d EXCEPT !.fresh = f, !.own = o], d)
               /\ [d EXCEPT !.fresh = f, !.own = o].own = o
    BY <2>1 DEF WebCall, SameButMarks, Same
  <2>3. (d.fresh /\ ~p.auth) \in BOOLEAN /\ (d.own /\ ~p.account) \in BOOLEAN
    OBVIOUS
  <2> QED
    BY <2>2, <2>3
<1>3. \A c \in ask : c \in WebCall /\ c.op = "check" /\ c.at = "sent"
  <2>1. Sent("check", NoUser, 0) \in WebCall /\ Sent("check", NoUser, 0).op = "check"
        /\ Sent("check", NoUser, 0).at = "sent"
    BY DEF Sent, WebTypeOK, WebCall, Somebody
  <2> QED
    BY <2>1
<1> HIDE DEF Marked, ask
<1>4. calls' \subseteq WebCall
  BY <1>1, <1>2, <1>3
<1>5. ASSUME NEW c \in calls', c \notin new, c \notin ask
      PROVE  \E d \in others : SameButMarks(c, d) /\ (c.own => d.own /\ ~p.account)
  BY <1>1, <1>2, <1>5
<1> QED
  BY <1>3, <1>4, <1>5

\* A handler of the page keeps the invariant.
LEMMA PageStep ==
    ASSUME WebInv, NEW p, Follows(p), NEW others \in SUBSET calls, NEW new \in SUBSET WebCall,
           Becomes(p, others, new), UNCHANGED <<opened, known, cookie, rows, drawn>>,
           \A c \in new : /\ c.at \in {"sent", "guarded"}
                          /\ c.at = "guarded" => c.cookie \in 1..Len(opened) /\ opened[c.cookie] = c.user
                          /\ Private(c) /\ c.heard => c.user = p.now.user
                          /\ c.op = "submit" => \E d \in calls : Same(c, d)
                          /\ c.op = "login" => c.user \in User
    PROVE  WebInv'
<1> USE DEF WebInv
<1>1. page' = p.now /\ PageSound(page') /\ page' \in Page
  BY DEF Becomes, Follows, Handling
<1>2. calls' \subseteq WebCall
  BY MarksTaken DEF Follows
<1>3. \A c \in calls' :
         \/ c \in new
         \/ \E d \in others : SameButMarks(c, d) /\ (c.own => d.own /\ page'.user = page.user)
         \/ c.op = "check" /\ c.at = "sent"
  <2>1. ~p.account => page'.user = page.user
    BY <1>1 DEF Follows
  <2>2. WebTypeOK /\ p \in Handling
    BY DEF Follows
  <2> HIDE DEF WebInv
  <2> QED
    BY <2>1, <2>2, MarksTaken
<1>4. CallsSound'
  BY <1>1, <1>3 DEF CallsSound, Private, Same, SameButMarks
<1>5. \A c \in calls' : c.op = "submit" => \E d \in calls : d.op = "submit" /\ Same(c, d)
  BY <1>3 DEF Same, SameButMarks
<1>6. page'.key \in {0, page.key} /\ (page'.key # 0 => page'.user = page.user)
  BY <1>1 DEF Follows
<1>7. KeysSound'
  BY <1>5, <1>6 DEF KeysSound, Same, WebTypeOK
<1> QED
  BY <1>1, <1>2, <1>4, <1>7 DEF WebTypeOK

\* What a request meets at the server, or in the browser, keeps the invariant.
LEMMA ServerStep ==
    ASSUME WebInv, UNCHANGED <<page, drawn>>,
           opened' \in Seq(User), Len(opened) <= Len(opened'),
           \A i \in 1..Len(opened) : opened'[i] = opened[i],
           known' \subseteq 1..Len(opened'), cookie' \in Nat,
           calls' \subseteq WebCall,
           \A c \in calls' : \E d \in calls :
               /\ Same(c, d) /\ c.heard = d.heard /\ c.own = d.own
               /\ c.at = "guarded" => c.cookie \in 1..Len(opened') /\ opened'[c.cookie] = c.user
               /\ Private(c) /\ c.at = "answered" /\ c.says = "ok" => c.who = c.user,
           \/ UNCHANGED rows
           \/ \E c \in calls : c.op = "submit" /\ rows' = rows \cup {[owner |-> c.user, key |-> c.key,
                                                                      for |-> c.user]}
    PROVE  WebInv'
<1> USE DEF WebInv
<1>1. CallsSound'
  BY DEF CallsSound, Private, Same
<1>2. KeysSound'
  <2>1. CASE UNCHANGED rows
    BY <2>1 DEF KeysSound, Same, WebTypeOK
  <2>2. ASSUME NEW c \in calls, c.op = "submit",
               rows' = rows \cup {[owner |-> c.user, key |-> c.key, for |-> c.user]}
        PROVE  KeysSound'
    <3> DEFINE row == [owner |-> c.user, key |-> c.key, for |-> c.user]
    <3>1. row.owner = c.user /\ row.key = c.key /\ row.for = c.user
      OBVIOUS
    <3> HIDE DEF row
    <3>2. rows' = rows \cup {row}
      BY <2>2 DEF row
    <3>3. \A d \in calls' : \E e \in calls : Same(d, e)
      OBVIOUS
    <3>4. KeysSound /\ UNCHANGED <<page, drawn>>
      OBVIOUS
    <3> HIDE DEF WebInv
    <3>5. \A r \in rows' : /\ r.key \in 1..drawn
                           /\ r.key = page.key => r.owner = page.user
                           /\ r.owner = r.for
                           /\ \A s \in rows' : s.key = r.key => s.owner = r.owner
      BY <2>2, <3>1, <3>2, <3>4 DEF KeysSound
    <3>6. ASSUME NEW d \in calls', d.op = "submit"
          PROVE  /\ d.key \in 1..drawn
                 /\ d.key = page.key => d.user = page.user
                 /\ \A e \in calls' : e.op = "submit" /\ e.key = d.key => e.user = d.user
                 /\ \A r \in rows' : r.key = d.key => r.owner = d.user
      <4>1. PICK e \in calls : Same(d, e)
        BY <3>3
      <4> QED
        BY <2>2, <3>1, <3>2, <3>3, <3>4, <3>6, <4>1 DEF KeysSound, Same
    <3> QED
      BY <3>4, <3>5, <3>6 DEF KeysSound
  <2> QED
    BY <2>1, <2>2
<1>3. rows' \subseteq [owner : Somebody, key : Nat, for : Somebody]
  <2>1. \A c \in calls : [owner |-> c.user, key |-> c.key, for |-> c.user]
                            \in [owner : Somebody, key : Nat, for : Somebody]
    BY DEF WebTypeOK, WebCall
  <2> QED
    BY <2>1 DEF WebTypeOK
<1> QED
  BY <1>1, <1>2, <1>3 DEF WebTypeOK

\* Nothing happens but to the sessions, the cookie and what gets lost.
LEMMA QuietStep ==
    ASSUME WebInv, UNCHANGED <<page, rows, drawn>>,
           opened' \in Seq(User), Len(opened) <= Len(opened'),
           \A i \in 1..Len(opened) : opened'[i] = opened[i],
           known' \subseteq 1..Len(opened'), cookie' \in Nat,
           calls' \subseteq calls
    PROVE  WebInv'
<1>1. calls' \subseteq WebCall /\ Len(opened) \in Nat /\ Len(opened') \in Nat
  BY DEF WebInv, WebTypeOK
<1>2. \A c \in calls' : \E d \in calls :
         /\ Same(c, d) /\ c.heard = d.heard /\ c.own = d.own
         /\ c.at = "guarded" => c.cookie \in 1..Len(opened') /\ opened'[c.cookie] = c.user
         /\ Private(c) /\ c.at = "answered" /\ c.says = "ok" => c.who = c.user
  BY <1>1 DEF WebInv, CallsSound, Same
<1> QED
  BY <1>1, <1>2, ServerStep

\* An answer is of the same request, and names the account of its sender.
LEMMA AnswerStep ==
    ASSUME WebInv, NEW c \in calls, NEW says \in {"ok", "error", "unauthorized", "changed"},
           NEW who \in Somebody, NEW sets \in Nat, Answers(c, says, who, sets),
           Private(c) /\ says = "ok" => who = c.user
    PROVE  /\ calls' \subseteq WebCall
           /\ \A d \in calls' : \E e \in calls :
                 /\ Same(d, e) /\ d.heard = e.heard /\ d.own = e.own
                 /\ d.at = "guarded" => d.cookie \in 1..Len(opened) /\ opened[d.cookie] = d.user
                 /\ Private(d) /\ d.at = "answered" /\ d.says = "ok" => d.who = d.user
<1> DEFINE a == [c EXCEPT !.at = "answered", !.says = says, !.who = who, !.sets = sets]
<1>1. c \in WebCall
  BY DEF WebInv, WebTypeOK
<1>2. /\ a \in WebCall /\ Same(a, c) /\ a.heard = c.heard /\ a.own = c.own
      /\ a.at = "answered" /\ a.says = says /\ a.who = who
  BY <1>1 DEF WebCall, Same
<1>3. calls' \subseteq (calls \ {c}) \cup {a}
  BY DEF Answers
<1> HIDE DEF a
<1>4. calls' \subseteq WebCall
  BY <1>2, <1>3 DEF WebInv, WebTypeOK
<1>5. \A d \in calls : Same(d, d)
  BY DEF Same
<1>6. Private(a) /\ a.says = "ok" => a.who = a.user
  BY <1>2 DEF Private, Same
<1> QED
  BY <1>2, <1>3, <1>4, <1>5, <1>6 DEF WebInv, CallsSound

\* Replacing one of the first n numbers by the next stays among the first n + 1.
LEMMA OneMore ==
    ASSUME NEW n \in Nat, NEW K \in SUBSET (1..n), NEW k
    PROVE  (K \ {k}) \cup {n + 1} \subseteq 1..(n + 1)
<1>1. \A j \in K : j \in 1..(n + 1)
  <2> SUFFICES ASSUME NEW j \in K PROVE j \in 1..(n + 1)
    OBVIOUS
  <2>1. j \in 1..n
    OBVIOUS
  <2> QED
    BY <2>1
<1>2. n + 1 \in 1..(n + 1)
  OBVIOUS
<1> QED
  BY <1>1, <1>2

\* Every step of pages, server and network keeps the invariant of the web client.
LEMMA RequestStep ==
    ASSUME WebInv, [WebNext]_webVars
    PROVE  WebInv'
<1> USE DEF WebInv
<1>0. Follows(Untouched) /\ Untouched.now = page /\ page \in Page /\ cookie \in Nat
  BY UntouchedFollows DEF WebTypeOK
<1>1. CASE Revalidate
  <2>1. Follows(Revalidated(Untouched, calls))
    BY <1>0, AfterwardsFollows
  <2> QED
    BY <1>1, <2>1, PageStep DEF Revalidate
<1>2. CASE Bootstrap
  <2>1. Follows(Booting(Untouched))
    BY <1>0, MarksFollow DEF Booting
  <2>2. /\ Sent("boot", NoUser, 0) \in WebCall /\ Sent("boot", NoUser, 0).at = "sent"
        /\ Sent("boot", NoUser, 0).op = "boot"
    BY <1>0, SentIsCall DEF Somebody
  <2>3. /\ Becomes(Booting(Untouched), calls, {Sent("boot", NoUser, 0)})
        /\ UNCHANGED <<opened, known, cookie, rows, drawn>>
    BY <1>2 DEF Bootstrap
  <2>4. calls \in SUBSET calls /\ {Sent("boot", NoUser, 0)} \in SUBSET WebCall
    BY <2>2
  <2>5. \A c \in {Sent("boot", NoUser, 0)} :
           c.at = "sent" /\ c.op = "boot" /\ ~Private(c)
    BY <2>2 DEF Private
  <2> DEFINE p == Booting(Untouched)
             new == {Sent("boot", NoUser, 0)}
  <2> HIDE DEF WebInv, p, new
  <2>6. WebInv /\ Follows(p) /\ Becomes(p, calls, new) /\ new \in SUBSET WebCall
        /\ \A c \in new : c.at = "sent" /\ c.op = "boot" /\ ~Private(c)
    BY <2>1, <2>3, <2>4, <2>5 DEF p, new
  <2> QED
    BY <2>3, <2>4, <2>6, PageStep
<1>3. ASSUME NEW op \in {"login", "logout"}, NEW user \in Somebody, SubmitAccount(op, user),
             op = "login" => user \in User
      PROVE  WebInv'
  <2>1. Follows([Untouched EXCEPT !.now.busy = TRUE, !.auth = TRUE])
    BY <1>0, MarksFollow
  <2>2. Sent(op, user, 0) \in WebCall /\ Sent(op, user, 0).at = "sent" /\ Sent(op, user, 0).op = op
        /\ Sent(op, user, 0).user = user
    BY <1>0, SentIsCall
  <2> DEFINE p == [Untouched EXCEPT !.now.busy = TRUE, !.auth = TRUE]
             new == {Sent(op, user, 0)}
  <2>3. Becomes(p, calls, new) /\ UNCHANGED <<opened, known, cookie, rows, drawn>>
    BY <1>3 DEF SubmitAccount
  <2>4. calls \in SUBSET calls /\ new \in SUBSET WebCall
    BY <2>2
  <2>5. \A c \in new : /\ c.at = "sent" /\ c.op \in {"login", "logout"} /\ ~Private(c)
                       /\ c.op = "login" => c.user \in User
    BY <1>3, <2>2 DEF Private
  <2> HIDE DEF WebInv, p, new
  <2>6. WebInv /\ Follows(p)
    BY <2>1 DEF WebInv, p
  <2> QED
    BY <2>3, <2>4, <2>5, <2>6, PageStep
<1>4. CASE SubmitPrompt
  <2> DEFINE key == KeyOf
             pressed == [page EXCEPT !.submitting = TRUE, !.key = key, !.draft = page.draft \cup {key}]
             sent == Sent("submit", page.user, key)
  <2>1. /\ key \in 1..drawn' /\ drawn' \in Nat /\ drawn <= drawn'
        /\ page.key # 0 => key = page.key
        /\ page.key = 0 => key = drawn + 1
    BY <1>4 DEF SubmitPrompt, KeyOf, KeysSound, WebTypeOK, Page
  <2>2. page.user # NoUser
    BY <1>4 DEF SubmitPrompt, MayRequest
  <2> HIDE DEF key
  <2>3. sent \in WebCall /\ sent.op = "submit" /\ sent.at = "sent" /\ sent.user = page.user /\ sent.key = key
    BY <1>0, <2>1, SentIsCall DEF Page
  <2> HIDE DEF sent
  <2>4. /\ pressed \in Page /\ PageSound(pressed)
        /\ pressed.user = page.user /\ pressed.key = key
    <3>1. key \in Nat \ {0} /\ page.draft \cup {key} = {key}
      BY <1>0, <2>1 DEF WebTypeOK, PageSound, Page
    <3> QED
      BY <1>0, <2>2, <3>1 DEF Page, PageSound
  <2> DEFINE p == [Untouched EXCEPT !.now = pressed]
  <2>5. Becomes(p, calls, {sent}) /\ p \in Handling /\ p.now = pressed /\ ~p.account
    BY <1>0, <1>4, <2>4 DEF SubmitPrompt, Untouched, Handling, key, sent
  <2> HIDE DEF pressed, p
  <2>6. page' = pressed /\ UNCHANGED <<opened, known, cookie, rows>>
    BY <1>4, <2>5 DEF SubmitPrompt, Becomes
  <2>7. /\ calls' \subseteq WebCall
        /\ \A c \in calls' : \/ c = sent
                             \/ \E d \in calls : SameButMarks(c, d) /\ (c.own => d.own)
                             \/ c.op = "check" /\ c.at = "sent"
    <3>1. WebTypeOK /\ {sent} \in SUBSET WebCall
      BY <2>3
    <3> HIDE DEF WebInv
    <3> QED
      BY <2>5, <3>1, MarksTaken
  <2>8. CallsSound'
    BY <2>3, <2>4, <2>6, <2>7 DEF CallsSound, Private, Same, SameButMarks
  <2>9. \A c \in calls' : c.op = "submit" =>
           \/ c.key = key /\ c.user = page.user
           \/ \E d \in calls : d.op = "submit" /\ Same(c, d)
    BY <2>3, <2>7 DEF Same, SameButMarks
  <2>10. /\ \A d \in calls : d.op = "submit" /\ d.key = key => d.user = page.user
         /\ \A r \in rows : r.key = key => r.owner = page.user
    BY <1>0, <2>1 DEF KeysSound, WebTypeOK
  <2>11. KeysSound'
    BY <2>1, <2>4, <2>6, <2>9, <2>10 DEF KeysSound, Same, WebTypeOK
  <2> QED
    BY <2>1, <2>4, <2>6, <2>7, <2>8, <2>11 DEF WebTypeOK
<1>5. CASE Rerun
  <2>1. /\ page' \in Page /\ PageSound(page') /\ page'.key = 0 /\ page'.user = page.user
    BY <1>0, <1>5 DEF Rerun, Page, PageSound
  <2> QED
    BY <1>5, <2>1 DEF Rerun, WebTypeOK, CallsSound, KeysSound
<1>6. CASE LoadRuns
  <2>1. Sent("load", page.user, 0) \in WebCall /\ Sent("load", page.user, 0).at = "sent"
        /\ Sent("load", page.user, 0).op = "load" /\ Sent("load", page.user, 0).user = page.user
    BY <1>0, SentIsCall DEF Page
  <2> QED
    BY <1>0, <1>6, <2>1, PageStep DEF LoadRuns
<1>7. CASE SignOutElsewhere
  BY <1>7, QuietStep DEF SignOutElsewhere, WebTypeOK
<1>8. ASSUME NEW u \in User, SignInElsewhere(u) PROVE WebInv'
  <2>1. /\ opened' \in Seq(User) /\ Len(opened') = Len(opened) + 1
        /\ \A i \in 1..Len(opened) : opened'[i] = opened[i]
    BY <1>8 DEF SignInElsewhere, WebTypeOK
  <2>2. Len(opened) \in Nat /\ known \subseteq 1..Len(opened)
    BY DEF WebTypeOK
  <2>3. known' \subseteq 1..Len(opened') /\ cookie' \in Nat
    <3>1. known' = (known \ {cookie}) \cup {Len(opened) + 1} /\ cookie' = Len(opened) + 1
      BY <1>8 DEF SignInElsewhere
    <3> HIDE DEF WebInv
    <3>2. Len(opened') = Len(opened) + 1
      BY <2>1
    <3>3. known' \subseteq 1..Len(opened')
      BY <2>2, <3>1, <3>2, OneMore
    <3>4. cookie' \in Nat
      BY <2>2, <3>1
    <3> QED
      BY <3>3, <3>4
  <2> QED
    BY <1>8, <2>1, <2>2, <2>3, QuietStep DEF SignInElsewhere
<1>9. ASSUME NEW s \in known, Expire(s) PROVE WebInv'
  BY <1>9, QuietStep DEF Expire, WebTypeOK
<1>10. ASSUME NEW c \in calls, Vanish(c) PROVE WebInv'
  BY <1>10, QuietStep DEF Vanish, WebTypeOK
<1>11. CASE UNCHANGED webVars
  BY <1>11, QuietStep DEF webVars, WebTypeOK
<1>12. ASSUME NEW c \in calls, StoreCookie(c) PROVE WebInv'
  <2>1. c \in WebCall /\ ~Private(c)
    BY <1>12 DEF StoreCookie, SetsCookie, Private, WebTypeOK
  <2>2. /\ [c EXCEPT !.at = "stored"] \in WebCall /\ Same([c EXCEPT !.at = "stored"], c)
        /\ [c EXCEPT !.at = "stored"].at = "stored" /\ [c EXCEPT !.at = "stored"].heard = c.heard
        /\ [c EXCEPT !.at = "stored"].own = c.own
    BY <2>1 DEF WebCall, Same
  <2>3. cookie' \in Nat /\ UNCHANGED <<opened, known, page, rows, drawn>>
    BY <1>12, <2>1 DEF StoreCookie, WebCall
  <2> DEFINE stored == [c EXCEPT !.at = "stored"]
  <2> HIDE DEF stored
  <2>4. calls' = (calls \ {c}) \cup {stored}
    BY <1>12 DEF StoreCookie, stored
  <2>5. \A d \in calls' : \E e \in calls :
           /\ Same(d, e) /\ d.heard = e.heard /\ d.own = e.own
           /\ d.at = "guarded" => d.cookie \in 1..Len(opened) /\ opened[d.cookie] = d.user
           /\ Private(d) /\ d.at = "answered" /\ d.says = "ok" => d.who = d.user
    <3>1. \A d \in calls : Same(d, d)
      BY DEF Same
    <3>2. stored.at = "stored" /\ Same(stored, c) /\ stored.heard = c.heard /\ stored.own = c.own
      BY <2>2 DEF stored
    <3> QED
      BY <2>4, <3>1, <3>2 DEF CallsSound
  <2>6. calls' \subseteq WebCall
    BY <2>2, <2>4 DEF WebTypeOK, stored
  <2> QED
    BY <2>3, <2>5, <2>6, ServerStep DEF WebTypeOK
<1>13. ASSUME NEW c \in calls, Guard(c) PROVE WebInv'
  <2>1. c \in WebCall /\ c.cookie \in Nat
    BY DEF WebTypeOK, WebCall
  <2>2. CASE Refuses(c, "unauthorized") \/ Refuses(c, "changed")
    <3>1. \E says \in {"unauthorized", "changed"} : Answers(c, says, NoUser, c.cookie)
      BY <2>2 DEF Refuses
    <3>2. UNCHANGED <<opened, known, cookie, page, rows, drawn>>
      BY <1>13 DEF Guard
    <3> HIDE DEF WebInv
    <3>3. NoUser \in Somebody
      BY DEF Somebody
    <3>4. /\ calls' \subseteq WebCall
          /\ \A d \in calls' : \E e \in calls :
                /\ Same(d, e) /\ d.heard = e.heard /\ d.own = e.own
                /\ d.at = "guarded" => d.cookie \in 1..Len(opened) /\ opened[d.cookie] = d.user
                /\ Private(d) /\ d.at = "answered" /\ d.says = "ok" => d.who = d.user
      BY <2>1, <3>1, <3>3, AnswerStep
    <3> QED
      BY <3>2, <3>4, ServerStep DEF WebInv, WebTypeOK
  <2>3. CASE ~(Refuses(c, "unauthorized") \/ Refuses(c, "changed"))
    <3> DEFINE g == [c EXCEPT !.at = "guarded"]
    <3>1. c.cookie \in known /\ opened[c.cookie] = c.user /\ calls' = (calls \ {c}) \cup {g}
      BY <1>13, <2>3 DEF Guard, ExpectedHere
    <3>2. /\ g \in WebCall /\ Same(g, c) /\ g.heard = c.heard /\ g.own = c.own
          /\ g.at = "guarded" /\ g.cookie = c.cookie /\ g.user = c.user
      BY <2>1 DEF WebCall, Same
    <3>3. UNCHANGED <<opened, known, cookie, page, rows, drawn>>
      BY <1>13 DEF Guard
    <3> HIDE DEF g
    <3>4. g.cookie \in 1..Len(opened) /\ opened[g.cookie] = g.user
      BY <3>1, <3>2 DEF WebTypeOK
    <3>5. \A d \in calls' : \E e \in calls :
             /\ Same(d, e) /\ d.heard = e.heard /\ d.own = e.own
             /\ d.at = "guarded" => d.cookie \in 1..Len(opened) /\ opened[d.cookie] = d.user
             /\ Private(d) /\ d.at = "answered" /\ d.says = "ok" => d.who = d.user
      <4>1. \A d \in calls : Same(d, d)
        BY DEF Same
      <4> QED
        BY <3>1, <3>2, <3>4, <4>1 DEF CallsSound
    <3> QED
      BY <3>1, <3>2, <3>3, <3>5, ServerStep DEF WebTypeOK
  <2> QED
    BY <2>2, <2>3
<1>14. ASSUME NEW c \in calls, Serve(c) PROVE WebInv'
  <2>1. /\ c \in WebCall /\ c.cookie \in Nat /\ c.cookie \in 1..Len(opened)
        /\ opened[c.cookie] = c.user /\ c.user \in Somebody /\ NoUser \in Somebody
    BY <1>14 DEF Serve, WebTypeOK, WebCall, CallsSound, Somebody
  <2>2. \E says \in {"ok", "error", "unauthorized"}, who \in Somebody :
           Answers(c, says, who, c.cookie) /\ (says = "ok" => who = c.user)
    BY <1>14, <2>1 DEF Serve, Refuses
  <2>3. \/ UNCHANGED rows
        \/ c.op = "submit" /\ rows' = rows \cup {[owner |-> c.user, key |-> c.key, for |-> c.user]}
    BY <1>14, <2>1 DEF Serve, Private
  <2>4. UNCHANGED <<opened, known, cookie, page, drawn>>
    BY <1>14 DEF Serve
  <2>5. opened \in Seq(User) /\ known \subseteq 1..Len(opened) /\ cookie \in Nat
    BY DEF WebTypeOK
  <2> HIDE DEF WebInv
  <2>6. /\ calls' \subseteq WebCall
        /\ \A d \in calls' : \E e \in calls :
              /\ Same(d, e) /\ d.heard = e.heard /\ d.own = e.own
              /\ d.at = "guarded" => d.cookie \in 1..Len(opened) /\ opened[d.cookie] = d.user
              /\ Private(d) /\ d.at = "answered" /\ d.says = "ok" => d.who = d.user
    BY <2>1, <2>2, AnswerStep
  <2> QED
    BY <2>3, <2>4, <2>5, <2>6, ServerStep
<1>15. ASSUME NEW c \in calls, ServeAccount(c) PROVE WebInv'
  <2>1. c \in WebCall /\ c.cookie \in Nat /\ c.user \in Somebody /\ NoUser \in Somebody /\ ~Private(c)
    BY <1>15 DEF ServeAccount, WebTypeOK, WebCall, Somebody, Private
  <2>2. opened \in Seq(User) /\ known \subseteq 1..Len(opened) /\ Len(opened) \in Nat
    BY DEF WebTypeOK
  <2>8. c.op = "login" => c.user \in User
    BY DEF CallsSound
  <2>3. \E says \in {"ok", "error"}, who \in Somebody, sets \in Nat : Answers(c, says, who, sets)
    BY <1>15, <2>1, <2>2 DEF ServeAccount, Refuses
  <2>4. /\ opened' \in Seq(User) /\ Len(opened) <= Len(opened')
        /\ \A i \in 1..Len(opened) : opened'[i] = opened[i]
        /\ known' \subseteq 1..Len(opened')
    <3>1. CASE /\ opened' = Append(opened, c.user) /\ c.user \in User
               /\ known' = (known \ {c.cookie}) \cup {Len(opened) + 1}
      <4>1. /\ opened' \in Seq(User) /\ Len(opened') = Len(opened) + 1
            /\ \A i \in 1..Len(opened) : opened'[i] = opened[i]
        BY <2>2, <3>1
      <4>2. known' \subseteq 1..Len(opened')
        BY <2>2, <3>1, <4>1, OneMore
      <4> QED
        BY <2>2, <4>1, <4>2
    <3>2. CASE opened' = opened /\ known' \subseteq known
      BY <2>2, <3>2
    <3> QED
      BY <1>15, <3>1, <3>2, <2>8 DEF ServeAccount
  <2>5. UNCHANGED <<cookie, page, rows, drawn>>
    BY <1>15 DEF ServeAccount
  <2> HIDE DEF WebInv
  <2>6. /\ calls' \subseteq WebCall
        /\ \A d \in calls' : \E e \in calls :
              /\ Same(d, e) /\ d.heard = e.heard /\ d.own = e.own
              /\ d.at = "guarded" => d.cookie \in 1..Len(opened) /\ opened[d.cookie] = d.user
              /\ Private(d) /\ d.at = "answered" /\ d.says = "ok" => d.who = d.user
    BY <2>1, <2>3, AnswerStep
  <2>7. \A d \in calls' : d.at = "guarded" => d.cookie \in 1..Len(opened') /\ opened'[d.cookie] = d.user
    BY <2>2, <2>4, <2>6
  <2> QED
    BY <1>0, <2>4, <2>5, <2>6, <2>7, ServerStep
<1>16. ASSUME NEW c \in calls, ServeSession(c) PROVE WebInv'
  <2>1. /\ c \in WebCall /\ c.cookie \in Nat /\ NoUser \in Somebody /\ ~Private(c)
        /\ c.cookie \in known => opened[c.cookie] \in Somebody
    <3>1. c \in WebCall /\ ~Private(c)
      BY <1>16 DEF ServeSession, WebTypeOK, Private
    <3>2. c.cookie \in Nat
      BY <3>1 DEF WebCall
    <3>3. \A i \in 1..Len(opened) : opened[i] \in User
      BY DEF WebTypeOK
    <3> QED
      BY <3>1, <3>2, <3>3 DEF WebTypeOK, Somebody
  <2>2. \E says \in {"ok", "unauthorized"}, who \in Somebody : Answers(c, says, who, c.cookie)
    BY <1>16, <2>1 DEF ServeSession, Refuses
  <2>3. UNCHANGED <<opened, known, cookie, page, rows, drawn>>
    BY <1>16 DEF ServeSession
  <2>4. opened \in Seq(User) /\ known \subseteq 1..Len(opened) /\ cookie \in Nat
    BY DEF WebTypeOK
  <2> HIDE DEF WebInv
  <2>5. /\ calls' \subseteq WebCall
        /\ \A d \in calls' : \E e \in calls :
              /\ Same(d, e) /\ d.heard = e.heard /\ d.own = e.own
              /\ d.at = "guarded" => d.cookie \in 1..Len(opened) /\ opened[d.cookie] = d.user
              /\ Private(d) /\ d.at = "answered" /\ d.says = "ok" => d.who = d.user
    BY <2>1, <2>2, AnswerStep
  <2> QED
    BY <2>3, <2>4, <2>5, ServerStep
<1>17. ASSUME NEW c \in calls, Receive(c) PROVE WebInv'
  <2> DEFINE p == Handled(c, calls \ {c})
  <2>1. c \in WebCall /\ c.heard /\ (c.at = "stored" => ~Private(c))
    BY <1>17 DEF Receive, WebTypeOK, SetsCookie, Private
  <2>2. Private(c) /\ c.own /\ c.says = "ok" => c.who = page.user
    BY <1>17, <2>1 DEF Receive, CallsSound, SetsCookie, Private
  <2>3. Follows(p)
    BY <1>0, <2>1, <2>2, HandledFollows
  <2> HIDE DEF p
  <2>4. /\ Becomes(p, calls \ {c}, AnotherBoot(c))
        /\ UNCHANGED <<opened, known, cookie, rows, drawn>>
    BY <1>17 DEF Receive, p
  <2>5. \A d \in AnotherBoot(c) : d \in WebCall /\ d.at = "sent" /\ d.op = "boot"
    BY <1>0, SentIsCall DEF AnotherBoot, Somebody
  <2> HIDE DEF WebInv
  <2> QED
    BY <2>3, <2>4, <2>5, PageStep DEF Private
<1>18. ASSUME NEW c \in calls, Abandon(c) PROVE WebInv'
  <2> DEFINE d == [c EXCEPT !.says = "error"]
             orphan == IF c.at \in {"sent", "guarded"} THEN {[c EXCEPT !.heard = FALSE]} ELSE {}
             p == Handled(d, calls \ {c})
  <2>1. c \in WebCall
    BY DEF WebTypeOK
  <2>2. d \in WebCall /\ d.says = "error"
    BY <2>1 DEF WebCall
  <2>3. \A e \in orphan : /\ e \in WebCall /\ ~e.heard /\ Same(e, c) /\ e.at = c.at /\ e.cookie = c.cookie
                          /\ e.at \in {"sent", "guarded"}
    BY <2>1 DEF WebCall, Same
  <2>4. Follows(p)
    <3> HIDE DEF d
    <3> QED
      BY <1>0, <2>2, HandledFollows
  <2>5. /\ Becomes(p, calls \ {c}, orphan)
        /\ UNCHANGED <<opened, known, cookie, rows, drawn>>
    BY <1>18 DEF Abandon
  <2> HIDE DEF d, p, orphan
  <2>6. \A e \in orphan : /\ e.at = "guarded" => e.cookie \in 1..Len(opened) /\ opened[e.cookie] = e.user
                          /\ e.op = "login" => e.user \in User
    BY <2>3 DEF CallsSound, Same
  <2> HIDE DEF WebInv
  <2> QED
    BY <2>3, <2>4, <2>5, <2>6, PageStep DEF Private
<1>19. CASE LogOut
  BY <1>3, <1>19 DEF LogOut, Somebody
<1>20. ASSUME NEW u \in User, LogIn(u) PROVE WebInv'
  BY <1>3, <1>20 DEF LogIn, Somebody
<1> QED
  BY <1>1, <1>2, <1>4, <1>5, <1>6, <1>7, <1>8, <1>9, <1>10, <1>11, <1>12, <1>13, <1>14, <1>15,
     <1>16, <1>17, <1>18, <1>19, <1>20
  DEF WebNext

\* The invariant of the web client holds in every state.
LEMMA WebInvariance == WebSpec => []WebInv
<1>1. WebInit => WebInv
  BY DEF WebInit, WebInv, WebTypeOK, PageSound, CallsSound, KeysSound, BlankPage, Page, Somebody
<1> QED
  BY <1>1, RequestStep, PTL DEF WebSpec

\* A submission belongs to the account its page showed when the student pressed.
THEOREM WritesOwn == WebSpec => []WritesAreOwn
<1>1. WebInv => WritesAreOwn
  BY DEF WebInv, KeysSound, WritesAreOwn
<1> QED
  BY <1>1, WebInvariance, PTL

\* What is private on a page is of the account the page shows.
THEOREM PagesOwn == WebSpec => []PagesShowOwn
<1>1. WebInv => PagesShowOwn
  BY DEF WebInv, PageSound, PagesShowOwn
<1> QED
  BY <1>1, WebInvariance, PTL

\* A draft becomes at most one submission.
THEOREM OneRow == WebSpec => []OneRowPerDraft
<1>1. ASSUME WebInv PROVE OneRowPerDraft
  <2> DEFINE R == {r \in rows : r.key \in page.draft}
  <2>1. \A r, s \in R : r = s
    <3>1. \A r \in rows : r = [owner |-> r.owner, key |-> r.key, for |-> r.for]
      BY <1>1 DEF WebInv, WebTypeOK
    <3>2. \A r, s \in R : r.key = s.key
      BY <1>1 DEF WebInv, PageSound
    <3>3. \A r, s \in rows : r.key = s.key => r.owner = s.owner /\ r.for = s.for
      BY <1>1 DEF WebInv, KeysSound
    <3> QED
      BY <3>1, <3>2, <3>3
  <2>2. R = {} \/ \E r \in R : R = {r}
    BY <2>1
  <2> HIDE DEF R
  <2>3. Cardinality(R) <= 1
    <3>1. CASE R = {}
      BY <3>1, FS_EmptySet
    <3>2. ASSUME NEW r, R = {r} PROVE Cardinality(R) <= 1
      BY <3>2, FS_Singleton
    <3> QED
      BY <2>2, <3>1, <3>2
  <2> QED
    BY <2>3 DEF OneRowPerDraft, R
<1>2. WebInv => OneRowPerDraft
  BY <1>1
<1> QED
  BY <1>2, WebInvariance, PTL
=============================================================================
