----------------------------- MODULE WebClient -----------------------------
(***************************************************************************)
(* A page of the web client over the accounts of the server (app.js and     *)
(* account.js, auth_routes.py, auth.py): one cookie for all tabs of a       *)
(* browser, a page that shows an account until it learns better, and        *)
(* requests whose answers come late, in another order, or never.            *)
(*                                                                         *)
(* A request is drawn up with the cookie of that moment; the server handles *)
(* it, also after the page has given up; an answer's cookie is stored before *)
(* the page handles the answer.  The other tabs are what they do to the     *)
(* sessions and the cookie; their announcements (BroadcastChannel) and the  *)
(* events of the window lead to the same check, which may begin at any time. *)
(* The sequence numbers with which the page tells answers it still waits    *)
(* for from superseded ones are two marks of its requests: increasing       *)
(* authSequence takes away the mark fresh, increasing accountSequence the   *)
(* mark own.  One draft; the configuration of the service is known; mailed  *)
(* links, administration and the Bearer mode are left out.                  *)
(***************************************************************************)
EXTENDS Naturals, Sequences, FiniteSets

CONSTANTS
    User, NoUser,
    MaxOpened, MaxKeys, MaxCalls     \* bounds for model checking

ASSUME BrowserAssumption == {MaxOpened, MaxKeys, MaxCalls} \subseteq Nat

VARIABLES
    opened,    \* the account of each session that was opened, in order
    known,     \* the sessions the server still has
    cookie,    \* the browser's session cookie, 0 if none
    page,      \* what the page remembers
    calls,     \* requests on their way
    rows,      \* submissions: whose, under which key, and whom the page showed
    drawn      \* idempotency keys drawn so far

webVars == <<opened, known, cookie, page, calls, rows, drawn>>

\* draft: the keys drawn for the draft that is on the page.
BlankPage == [user |-> NoUser, mode |-> "unavailable", busy |-> FALSE,
              needsLogin |-> FALSE, recheck |-> FALSE, submitting |-> FALSE,
              key |-> 0, done |-> FALSE, shown |-> NoUser, draft |-> {}]

WebInit ==
    /\ opened = <<>>
    /\ known = {}
    /\ cookie = 0
    /\ page = BlankPage
    /\ calls = {}
    /\ rows = {}
    /\ drawn = 0

\* A request as the page sends it now.
Sent(op, user, key) ==
    [heard |-> TRUE, op |-> op, user |-> user, key |-> key, cookie |-> cookie,
     at |-> "sent", says |-> "", who |-> NoUser, sets |-> cookie,
     fresh |-> TRUE, own |-> TRUE]

----------------------------------------------------------------------------
\* What a handler does to a page p = [now, auth, account, ask]: the page, whether
\* authSequence and accountSequence increased, whether a check is to be sent.

Untouched == [now |-> page, auth |-> FALSE, account |-> FALSE, ask |-> FALSE]

\* clearAccount
Cleared(p) ==
    [p EXCEPT !.now = [p.now EXCEPT !.user = NoUser, !.submitting = FALSE, !.key = 0,
                                    !.done = FALSE, !.shown = NoUser, !.draft = {}],
              !.account = TRUE]

\* invalidateAccount
Invalidated(p) ==
    LET q == Cleared(p) IN [q EXCEPT !.now.needsLogin = TRUE, !.auth = TRUE]

\* acceptSession
Accepted(p, user) ==
    LET q == IF p.now.user \in {NoUser, user} THEN [p EXCEPT !.account = TRUE] ELSE Cleared(p)
    IN  [q EXCEPT !.now = [q.now EXCEPT !.submitting = FALSE, !.user = user, !.mode = "cookie"]]

\* A check is on its way whose answer will still count.
Checking(others) == \E c \in others : c.heard /\ c.op = "check" /\ c.fresh

\* revalidateSession, up to its request.
Revalidated(p, others) ==
    IF p.now.busy \/ p.now.mode = "checking" \/ (~p.auth /\ Checking(others))
    THEN [p EXCEPT !.now.recheck = TRUE]
    ELSE [p EXCEPT !.auth = TRUE, !.ask = TRUE]

\* The end of several handlers: a check that was put off is made up for.
Afterwards(p, others) ==
    IF p.now.recheck /\ ~p.now.busy /\ p.now.mode # "checking"
    THEN Revalidated([p EXCEPT !.now.recheck = FALSE], others)
    ELSE p

\* The page becomes p.now; marks are taken from its requests in others.
Becomes(p, others, new) ==
    /\ page' = p.now
    /\ calls' = {[c EXCEPT !.fresh = c.fresh /\ ~p.auth, !.own = c.own /\ ~p.account] : c \in others}
                 \cup new \cup IF p.ask THEN {Sent("check", NoUser, 0)} ELSE {}

Room == Cardinality(calls) < MaxCalls

----------------------------------------------------------------------------
\* What the student and the window do

\* revalidateSession, on focus, on return to the tab, or told by another tab.
Revalidate ==
    /\ Room
    /\ Becomes(Revalidated(Untouched, calls), calls, {})
    /\ UNCHANGED <<opened, known, cookie, rows, drawn>>

\* bootstrapAuth: the page is loaded, or the student tries again.
Booting(p) == [p EXCEPT !.now.mode = "checking", !.auth = TRUE]

Bootstrap ==
    /\ page.mode = "unavailable" /\ ~page.busy
    /\ Room
    /\ Becomes(Booting(Untouched), calls, {Sent("boot", NoUser, 0)})
    /\ UNCHANGED <<opened, known, cookie, rows, drawn>>

\* submitAccount for the pages login and account.
SubmitAccount(op, user) ==
    /\ ~page.busy /\ page.mode # "checking"
    /\ Room
    /\ LET p == Untouched
       IN  Becomes([p EXCEPT !.now.busy = TRUE, !.auth = TRUE], calls, {Sent(op, user, 0)})
    /\ UNCHANGED <<opened, known, cookie, rows, drawn>>

LogIn(user) == Len(opened) < MaxOpened /\ SubmitAccount("login", user)
LogOut == page.user # NoUser /\ SubmitAccount("logout", NoUser)

\* Mutant: each press draws a key of its own.
KeyOfPress == drawn + 1

\* The key of the attempt is kept until the account or the draft goes.
KeyOf == IF page.key = 0 THEN drawn + 1 ELSE page.key

MayRequest == page.user # NoUser /\ page.mode = "cookie"

\* submitPrompt
SubmitPrompt ==
    /\ MayRequest
    /\ ~page.busy /\ ~page.submitting /\ ~page.done
    /\ Room
    /\ KeyOf <= MaxKeys
    /\ drawn' = IF KeyOf > drawn THEN KeyOf ELSE drawn
    /\ LET p == Untouched
       IN  Becomes([p EXCEPT !.now = [p.now EXCEPT !.submitting = TRUE, !.key = KeyOf,
                                                      !.draft = @ \cup {KeyOf}]],
                   calls, {Sent("submit", page.user, KeyOf)})
    /\ UNCHANGED <<opened, known, cookie, rows>>

\* The student asks for another evaluation of the same draft.
Rerun ==
    /\ page.done
    /\ page' = [page EXCEPT !.key = 0, !.done = FALSE, !.draft = {}]
    /\ UNCHANGED <<opened, known, cookie, calls, rows, drawn>>

\* loadRuns, or any other private reading.
LoadRuns ==
    /\ MayRequest
    /\ Room
    /\ Becomes(Untouched, calls, {Sent("load", page.user, 0)})
    /\ UNCHANGED <<opened, known, cookie, rows, drawn>>

----------------------------------------------------------------------------
\* The server

Answers(c, says, who, sets) ==
    calls' = (calls \ {c}) \cup
             IF c.heard
             THEN {[c EXCEPT !.at = "answered", !.says = says, !.who = who, !.sets = sets]}
             ELSE {}

Refuses(c, says) == Answers(c, says, NoUser, c.cookie)

Private(c) == c.op \in {"submit", "load"}

\* Mutant: the account the page expects is not looked at.
AcceptedUnasked(c) == TRUE

\* x-loj-expected-user names the account of the session.
ExpectedHere(c) == opened[c.cookie] = c.user

\* AuthMiddleware
Guard(c) ==
    /\ Private(c) /\ c.at = "sent"
    /\ IF c.cookie \notin known THEN Refuses(c, "unauthorized")
       ELSE IF ~ExpectedHere(c) THEN Refuses(c, "changed")
       ELSE calls' = (calls \ {c}) \cup {[c EXCEPT !.at = "guarded"]}
    /\ UNCHANGED <<opened, known, cookie, page, rows, drawn>>

\* The route authenticates again and does its work; or it refuses.
Serve(c) ==
    /\ Private(c) /\ c.at = "guarded"
    /\ IF c.cookie \notin known
       THEN Refuses(c, "unauthorized") /\ UNCHANGED rows
       ELSE \/ /\ Answers(c, "ok", opened[c.cookie], c.cookie)
               /\ rows' = IF c.op = "load" \/ \E r \in rows : r.owner = opened[c.cookie]
                                                                /\ r.key = c.key
                          THEN rows
                          ELSE rows \cup {[owner |-> opened[c.cookie], key |-> c.key,
                                           for |-> c.user]}
            \/ Refuses(c, "error") /\ UNCHANGED rows
    /\ UNCHANGED <<opened, known, cookie, page, drawn>>

\* login and logout: the store's transaction, with the cookie the request brought.
ServeAccount(c) ==
    /\ c.op \in {"login", "logout"} /\ c.at = "sent"
    /\ \/ /\ c.op = "login" /\ Len(opened) < MaxOpened
          /\ opened' = Append(opened, c.user)
          /\ known' = (known \ {c.cookie}) \cup {Len(opened) + 1}
          /\ Answers(c, "ok", c.user, Len(opened) + 1)
       \/ /\ c.op = "logout"
          /\ known' = known \ {c.cookie}
          /\ Answers(c, "ok", NoUser, 0)
          /\ UNCHANGED opened
       \/ Refuses(c, "error") /\ UNCHANGED <<opened, known>>
    /\ UNCHANGED <<cookie, page, rows, drawn>>

ServeSession(c) ==
    /\ c.op \in {"check", "boot"} /\ c.at = "sent"
    /\ IF c.cookie \in known THEN Answers(c, "ok", opened[c.cookie], c.cookie)
                            ELSE Refuses(c, "unauthorized")
    /\ UNCHANGED <<opened, known, cookie, page, rows, drawn>>

\* A session ends: its time is over, or its password was reset.
Expire(s) ==
    /\ s \in known
    /\ known' = known \ {s}
    /\ UNCHANGED <<opened, cookie, page, calls, rows, drawn>>

\* Another tab signs in or out, with the same cookie.
SignInElsewhere(user) ==
    /\ Len(opened) < MaxOpened
    /\ opened' = Append(opened, user)
    /\ known' = (known \ {cookie}) \cup {Len(opened) + 1}
    /\ cookie' = Len(opened) + 1
    /\ UNCHANGED <<page, calls, rows, drawn>>

SignOutElsewhere ==
    /\ cookie # 0
    /\ known' = known \ {cookie}
    /\ cookie' = 0
    /\ UNCHANGED <<opened, page, calls, rows, drawn>>

\* A request that was given up gets lost before the server.
Vanish(c) ==
    /\ ~c.heard
    /\ calls' = calls \ {c}
    /\ UNCHANGED <<opened, known, cookie, page, rows, drawn>>

----------------------------------------------------------------------------
\* The answers

SetsCookie(c) == c.op \in {"login", "logout"} /\ c.says = "ok"

\* The browser stores the cookie of an answer.
StoreCookie(c) ==
    /\ c.at = "answered" /\ SetsCookie(c)
    /\ cookie' = c.sets
    /\ calls' = (calls \ {c}) \cup {[c EXCEPT !.at = "stored"]}
    /\ UNCHANGED <<opened, known, page, rows, drawn>>

\* Mutant: an answer counts although the account has changed since.
AnyAnswer(c, p) ==
    IF c.says \in {"unauthorized", "changed"} THEN Invalidated(p)
    ELSE IF c.says = "ok" THEN [p EXCEPT !.now.shown = c.who]
    ELSE p

\* apiRequest with authentication: what every such answer does to the account.
Answered(c, p) ==
    IF ~c.own THEN p
    ELSE IF c.says \in {"unauthorized", "changed"} THEN Invalidated(p)
    ELSE IF c.says = "ok" THEN [p EXCEPT !.now.shown = c.who]
    ELSE p

\* The rest of submitPrompt.
Submitted(c, p) ==
    IF ~c.own \/ p.account THEN p
    ELSE [p EXCEPT !.now.submitting = FALSE, !.now.done = c.says = "ok"]

\* The rest of revalidateSession.
Checked(c, p) ==
    IF ~(c.fresh /\ c.own) THEN p
    ELSE CASE c.says = "ok" /\ c.who # p.now.user ->
                  IF p.now.needsLogin /\ p.now.user = NoUser THEN p ELSE Invalidated(p)
           [] c.says = "ok" /\ c.who = p.now.user -> [p EXCEPT !.now.mode = "cookie"]
           [] c.says = "unauthorized" -> IF p.now.user # NoUser THEN Invalidated(p) ELSE p
           [] OTHER -> Invalidated([p EXCEPT !.now.mode = "unavailable"])

\* The rest of bootstrapAuth, which begins again if a check was put off.
Booted(c, p) ==
    LET left == IF p.now.user # NoUser THEN Cleared(p) ELSE p
    IN  IF ~c.fresh THEN p
        ELSE CASE c.says = "ok" /\ p.now.recheck -> [Booting(p) EXCEPT !.now.recheck = FALSE]
               [] c.says = "ok" /\ ~p.now.recheck ->
                      IF p.now.needsLogin THEN [p EXCEPT !.now.mode = "cookie"]
                                          ELSE Accepted(p, c.who)
               [] c.says = "unauthorized" -> [left EXCEPT !.now.mode = "cookie"]
               [] OTHER -> [left EXCEPT !.now.mode = "unavailable"]

\* The rest of submitAccount.
Signed(c, p) ==
    LET q == IF ~c.fresh \/ c.says # "ok" THEN p
             ELSE IF c.op = "login" THEN [Accepted(p, c.who) EXCEPT !.now.needsLogin = FALSE]
             ELSE [Cleared(p) EXCEPT !.now.needsLogin = TRUE]
    IN  [q EXCEPT !.now.busy = FALSE]

\* What becomes of the page when the answer of c, as it is in d, is handled.
Handled(d, others) ==
    LET p == Untouched
    IN  CASE d.op = "load" -> Answered(d, p)
          [] d.op = "submit" -> Submitted(d, Answered(d, p))
          [] d.op = "check" -> Afterwards(Checked(d, p), others)
          [] d.op = "boot" -> IF d.fresh /\ Booted(d, p).now.mode # "checking"
                              THEN Afterwards(Booted(d, p), others)
                              ELSE Booted(d, p)
          [] OTHER -> Afterwards(Signed(d, p), others)

\* A bootstrap that begins again sends its request.
AnotherBoot(d) ==
    IF d.op = "boot" /\ d.fresh /\ d.says = "ok" /\ page.recheck
    THEN {Sent("boot", NoUser, 0)} ELSE {}

Receive(c) ==
    /\ c.heard
    /\ c.at = IF SetsCookie(c) THEN "stored" ELSE "answered"
    /\ Becomes(Handled(c, calls \ {c}), calls \ {c}, AnotherBoot(c))
    /\ UNCHANGED <<opened, known, cookie, rows, drawn>>

\* The request takes too long or its answer is broken: the page handles an error,
\* and the server may still receive it.
Abandon(c) ==
    /\ c.heard
    /\ LET orphan == IF c.at \in {"sent", "guarded"} THEN {[c EXCEPT !.heard = FALSE]} ELSE {}
       IN  Becomes(Handled([c EXCEPT !.says = "error"], calls \ {c}), calls \ {c}, orphan)
    /\ UNCHANGED <<opened, known, cookie, rows, drawn>>

WebNext ==
    \/ Revalidate \/ Bootstrap \/ LogOut \/ SubmitPrompt \/ Rerun \/ LoadRuns \/ SignOutElsewhere
    \/ \E u \in User : LogIn(u) \/ SignInElsewhere(u)
    \/ \E c \in calls : \/ Guard(c) \/ Serve(c) \/ ServeAccount(c) \/ ServeSession(c)
                        \/ Vanish(c) \/ StoreCookie(c) \/ Receive(c) \/ Abandon(c)
    \/ \E s \in known : Expire(s)

WebSpec == WebInit /\ [][WebNext]_webVars

----------------------------------------------------------------------------
\* A submission belongs to the account its page showed when the student pressed,
\* whoever has signed in in another tab since and whenever the request arrives.
WritesAreOwn == \A r \in rows : r.owner = r.for

\* What is private on a page is of the account the page shows, whatever answers
\* of earlier accounts still arrive.
PagesShowOwn == page.shown \in {NoUser, page.user}

\* A draft pressed again after lost answers, or after signing in again, becomes
\* one submission until the student asks for another.
OneRowPerDraft == Cardinality({r \in rows : r.key \in page.draft}) <= 1
============================================================================
