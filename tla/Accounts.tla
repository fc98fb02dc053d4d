------------------------------ MODULE Accounts ------------------------------
(***************************************************************************)
(* Accounts, mailed links and sessions (auth.py over auth_store.py).  Every *)
(* store operation is one transaction under the auth mutex, hence one step; *)
(* password hashing, mail and the checks of a request lie between its       *)
(* transactions, where other requests may commit anything.                  *)
(*                                                                         *)
(* A mailed link or a cookie is an opaque random token; it is the number    *)
(* under which it was issued.  Whoever holds a link may present it at any   *)
(* time, any number of times.  A request that is refused (throttled, wrong  *)
(* input, a stopped server) is one that does not go on.  A password stands  *)
(* for its salted hash.                                                     *)
(***************************************************************************)
EXTENDS Naturals, FiniteSets

CONSTANTS
    Email, Password, Handle,
    Request,          \* requests in progress at the same time
    VerifyTime, ResetTime, SessionTime,   \* how long links and sessions live
    Idle, NoAccount,
    MaxTime, MaxLinks, MaxSessions        \* bounds for model checking

ASSUME TimesAssumption ==
    /\ {VerifyTime, ResetTime, SessionTime} \subseteq Nat \ {0}
    /\ {MaxTime, MaxLinks, MaxSessions} \subseteq Nat

VARIABLES
    now,
    account,   \* users and auth_credentials: at most one account per address
    links,     \* auth_action_tokens
    issued,    \* for each address and purpose, the newest link issued
    used,      \* links that completed their action
    sessions,  \* auth_sessions, each with the version it was opened under
    counter,   \* tokens drawn so far: [link, session]
    requests   \* what each request in progress has read

tables == <<account, links, sessions>>
history == <<issued, used, counter>>
accountVars == <<now, tables, history, requests>>

Purpose == {"verify-email", "reset-password"}

Account == [password : Password, handle : Handle, version : Nat]
Link == [id : Nat, email : Email, purpose : Purpose, until : Nat]
Session == [id : Nat, email : Email, until : Nat, version : Nat]

\* What a request has read before it goes on.
Confirmation == [op : {"confirm"}, link : Nat, purpose : Purpose,
                 password : Password, handle : Handle]
Login == [op : {"login"}, email : Email, seen : Account, cookie : Nat]
Provisioning == [op : {"provision"}, email : Email, password : Password, handle : Handle]
Reading == Confirmation \cup Login \cup Provisioning

AccountsInit ==
    /\ now = 0
    /\ account = [e \in Email |-> NoAccount]
    /\ links = {}
    /\ issued = [e \in Email |-> [p \in Purpose |-> 0]]
    /\ used = {}
    /\ sessions = {}
    /\ counter = [link |-> 0, session |-> 0]
    /\ requests = [r \in Request |-> Idle]

Registered == {e \in Email : account[e] # NoAccount}

Begin(r, call) ==
    /\ requests[r] = Idle
    /\ requests' = [requests EXCEPT ![r] = call]

Continues(r, op) == requests[r] # Idle /\ requests[r].op = op

Answer(r) == requests' = [requests EXCEPT ![r] = Idle]

\* A refusal or an error between two transactions, or the end of the server.
Drop(r) ==
    /\ requests[r] # Idle
    /\ Answer(r)
    /\ UNCHANGED <<now, tables, history>>

----------------------------------------------------------------------------
\* Links

Eligible(e, p) == (p = "verify-email") = (e \notin Registered)

TimeToLive(p) == IF p = "verify-email" THEN VerifyTime ELSE ResetTime

\* auth_issue_action, by the mail worker, some time after the request.
IssueLink(e, p) ==
    /\ counter.link < MaxLinks
    /\ Eligible(e, p)
    /\ LET id == counter.link + 1
       IN  /\ links' = {l \in links : l.email # e \/ l.purpose # p}
                          \cup {[id |-> id, email |-> e, purpose |-> p,
                                 until |-> now + TimeToLive(p)]}
           /\ issued' = [issued EXCEPT ![e][p] = id]
           /\ counter' = [counter EXCEPT !.link = id]
    /\ UNCHANGED <<now, account, sessions, used, requests>>

\* complete_link: the address of the link is read, then the password is hashed
\* outside the mutex.
BeginConfirm(r, l, password, handle) ==
    /\ l \in links /\ l.until > now
    /\ Begin(r, [op |-> "confirm", link |-> l.id, purpose |-> l.purpose,
                 password |-> password, handle |-> handle])
    /\ UNCHANGED <<now, tables, history>>

Insert(e, password, handle) ==
    /\ e \notin Registered
    /\ \A f \in Registered : account[f].handle # handle
    /\ account' = [account EXCEPT ![e] =
                      [password |-> password, handle |-> handle, version |-> 1]]

\* Mutant: the address's other links are left to expire.
ConsumeOne(l) == links' = links \ {l}

\* Completing an action ends every link mailed to the address.
Consume(l) == links' = {m \in links : m.email # l.email}

\* auth_complete_action.  The unique columns refuse a second account for the
\* address or the handle and leave the link as it was (Drop).
Confirm(r) ==
    /\ Continues(r, "confirm")
    /\ \E l \in links :
          /\ l.id = requests[r].link
          /\ l.purpose = requests[r].purpose
          /\ l.until > now
          /\ \/ /\ l.purpose = "verify-email"
                /\ Insert(l.email, requests[r].password, requests[r].handle)
                /\ UNCHANGED sessions
             \/ /\ l.purpose = "reset-password"
                /\ account' = [account EXCEPT ![l.email].password = requests[r].password,
                                              ![l.email].version = account[l.email].version + 1]
                /\ sessions' = {s \in sessions : s.email # l.email}
          /\ Consume(l)
          /\ used' = used \cup {l.id}
    /\ Answer(r)
    /\ UNCHANGED <<now, issued, counter>>

----------------------------------------------------------------------------
\* Sessions

\* login: the account is read, then the password is verified outside the mutex.
BeginLogin(r, e, password, cookie) ==
    /\ e \in Registered
    /\ account[e].password = password
    /\ Begin(r, [op |-> "login", email |-> e, seen |-> account[e], cookie |-> cookie])
    /\ UNCHANGED <<now, tables, history>>

\* Mutant: what was read before the password was verified is trusted.
StillRegistered(e, seen) == e \in Registered

StillCurrent(e, seen) ==
    /\ e \in Registered
    /\ account[e].version = seen.version
    /\ account[e].password = seen.password

\* auth_create_session: the session of the presented cookie is replaced.
OpenSession(r) ==
    /\ Continues(r, "login")
    /\ StillCurrent(requests[r].email, requests[r].seen)
    /\ counter.session < MaxSessions
    /\ sessions' = {s \in sessions : s.id # requests[r].cookie}
                      \cup {[id |-> counter.session + 1, email |-> requests[r].email,
                             until |-> now + SessionTime,
                             version |-> requests[r].seen.version]}
    /\ counter' = [counter EXCEPT !.session = @ + 1]
    /\ Answer(r)
    /\ UNCHANGED <<now, account, links, issued, used>>

\* logout
Revoke(s) ==
    /\ s \in sessions
    /\ sessions' = sessions \ {s}
    /\ UNCHANGED <<now, account, links, history, requests>>

----------------------------------------------------------------------------
\* provision_development_account: an address is looked up, then an account is
\* inserted unless one appeared meanwhile.

BeginProvision(r, e, password, handle) ==
    /\ e \notin Registered
    /\ Begin(r, [op |-> "provision", email |-> e, password |-> password, handle |-> handle])
    /\ UNCHANGED <<now, tables, history>>

Provision(r) ==
    /\ Continues(r, "provision")
    /\ Insert(requests[r].email, requests[r].password, requests[r].handle)
    /\ Answer(r)
    /\ UNCHANGED <<now, links, sessions, history>>

----------------------------------------------------------------------------
\* auth_throttle, before most requests: what expired is removed.
Purge ==
    /\ links' = {l \in links : l.until > now}
    /\ sessions' = {s \in sessions : s.until > now}
    /\ <<links, sessions>>' # <<links, sessions>>
    /\ UNCHANGED <<now, account, history, requests>>

Tick ==
    /\ now < MaxTime
    /\ now' = now + 1
    /\ UNCHANGED <<tables, history, requests>>

Cookies == {0} \cup {s.id : s \in sessions}

AccountsNext ==
    \/ \E e \in Email, p \in Purpose : IssueLink(e, p)
    \/ \E r \in Request :
          \/ \E l \in links, pw \in Password, h \in Handle : BeginConfirm(r, l, pw, h)
          \/ \E e \in Email, pw \in Password, c \in Cookies : BeginLogin(r, e, pw, c)
          \/ \E e \in Email, pw \in Password, h \in Handle : BeginProvision(r, e, pw, h)
          \/ Confirm(r) \/ OpenSession(r) \/ Provision(r) \/ Drop(r)
    \/ \E s \in sessions : Revoke(s)
    \/ Purge
    \/ Tick

AccountsSpec == AccountsInit /\ [][AccountsNext]_accountVars

----------------------------------------------------------------------------
\* Type invariant: the tables keep the types of their columns.
AccountsTypeOK ==
    /\ now \in Nat
    /\ account \in [Email -> Account \cup {NoAccount}]
    /\ links \in SUBSET Link
    /\ issued \in [Email -> [Purpose -> Nat]]
    /\ used \in SUBSET Nat
    /\ sessions \in SUBSET Session
    /\ counter \in [link : Nat, session : Nat]
    /\ requests \in [Request -> Reading \cup {Idle}]

\* A session in the table was opened under the credentials the account has now:
\* no login that read the old password before a reset, however late it opens
\* its session, and no session opened before the reset, survives it.
SessionsFollowResets ==
    \A s \in sessions : s.email \in Registered /\ s.version = account[s.email].version

\* The links that can still be used: the newest of its kind for an address, at
\* most one of each kind, never one that was used; and a reset link only for an
\* account.  Reissuing, using and expiring in any order cannot revive an older
\* mail.
OnlyNewestLinks ==
    \A l \in links : /\ l.id = issued[l.email][l.purpose]
                     /\ l.id \notin used
                     /\ l.purpose = "reset-password" => l.email \in Registered

\* With what makes it inductive: links are numbered as they are issued.
LinksInv ==
    /\ used \subseteq 1 .. counter.link
    /\ \A l \in links : l.id \in 1 .. counter.link
    /\ \A l, m \in links : l.id = m.id => l = m
    /\ OnlyNewestLinks

\* An account changes only through a live link mailed to its address, which
\* afterwards, with all other mails to that address, no longer works; it is
\* created once, and never changes its handle.
MailDecidesAccounts ==
    [][\A e \in Email :
          account'[e] # account[e] =>
             \/ /\ account[e] = NoAccount
                /\ \E r \in Request : Provision(r)
             \/ /\ \E l \in links : l.email = e /\ l.until > now /\ l.id \in used' \ used
                /\ \A l \in links' : l.email # e
                /\ account[e] # NoAccount => account'[e].handle = account[e].handle
                                          /\ account'[e].version = account[e].version + 1
      ]_accountVars
============================================================================
