--------------------------- MODULE SubmissionApi ---------------------------
(***************************************************************************)
(* POST /v1/submissions up to the store's answer, in the process that also  *)
(* runs the request executor: what is refused at once, whether the runtime  *)
(* is available (ProbedAvailability around ExecutorAvailability around      *)
(* LocalModelProbe), then the store.  And GET /v1/submissions: a student    *)
(* turns the pages of the own history while submissions are being created.  *)
(*                                                                         *)
(* The first looks at the flags are one step: all of them are looked at     *)
(* again, one after the other, when the model has answered.  Quotas, the    *)
(* outbox and the life of a submission are SubmissionStore's subject; a     *)
(* failing dispatch after the commit does not change the answer.            *)
(***************************************************************************)
EXTENDS SequencesExt

CONSTANTS
    Visit,               \* requests that are handled at the same time
    Post,                \* what clients send, a record (see Posts)
    Member,          \* the callers who have an account
    Route, Activated,    \* challenges with a contract; those open to the public
    DraftsAllowed,       \* allow_draft_submissions
    Identifier,          \* of submissions: random, so not in order of creation
    PageLength, Ttl,     \* the limit of a page; how long a health answer is kept
    MaxClock,            \* bound for model checking
    NoVisit, NoPages

\* flaw: what is wrong with the body, the prompt or the key, if anything.
Posts(callers, routes) ==
    [caller : callers, route : routes, flaw : {"none", "size", "content"}]

ASSUME ApiAssumption ==
    /\ PageLength \in Nat \ {0} /\ Ttl \in Nat /\ MaxClock \in Nat
    /\ Activated \subseteq Route /\ DraftsAllowed \in BOOLEAN /\ Identifier \subseteq Nat

VARIABLES
    clock,
    declared,   \* routes declared available, ProbedAvailability._declared
    lifetime,   \* of the executor: "new", "live" or "over"
    faulted,      \* its sticky fault, in memory or of the ledger
    stopSet,   \* stop was set
    probe,      \* the cached answer, and who holds the probe's lock
    visits,     \* how far each handler is
    entries,    \* committed submissions
    pages       \* the history a student has read

switches == <<declared, lifetime, faulted, stopSet>>
apiVars == <<clock, switches, probe, visits, entries, pages>>

ApiInit ==
    /\ clock = 0
    /\ declared = Route
    /\ lifetime = "new"
    /\ faulted = FALSE
    /\ stopSet = FALSE
    /\ probe = [until |-> 0, healthy |-> FALSE, holder |-> NoVisit]
    /\ visits = [v \in Visit |-> [at |-> "idle"]]
    /\ entries = {}
    /\ pages = NoPages

At(v, step) == visits[v].at = step
Put(v, state) == visits' = [visits EXCEPT ![v] = state]
Step(v, step) == Put(v, [visits[v] EXCEPT !.at = step])
Respond(v) == Put(v, [at |-> "idle"])

----------------------------------------------------------------------------
\* create_submission, up to the store

\* The size of the body, the account, the contract, its activation.
Acceptable(post) ==
    /\ post.flaw # "size"
    /\ post.caller \in Member
    /\ post.route \in Route
    /\ post.route \in Activated \/ DraftsAllowed

Arrive(v, post) ==
    /\ At(v, "idle")
    /\ Acceptable(post)
    /\ Put(v, [at |-> "looking", post |-> post, trouble |-> FALSE])
    /\ UNCHANGED <<clock, switches, probe, entries, pages>>

LocalReady == lifetime = "live" /\ ~faulted
RouteReady(route) == route \in declared /\ ~stopSet /\ LocalReady

FirstLook(v) ==
    /\ At(v, "looking")
    /\ IF RouteReady(visits[v].post.route) THEN Step(v, "asking") ELSE Respond(v)
    /\ UNCHANGED <<clock, switches, probe, entries, pages>>

\* The model has answered: what was wrong by then is remembered for the property.
Told(v, healthy) ==
    IF healthy
    THEN Put(v, [visits[v] EXCEPT !.at = "told",
                                 !.trouble = ~RouteReady(visits[v].post.route)])
    ELSE Respond(v)

\* LocalModelProbe.healthy, under its lock.
AskModel(v) ==
    /\ At(v, "asking")
    /\ probe.holder = NoVisit
    /\ \/ /\ clock < probe.until
          /\ Told(v, probe.healthy)
          /\ UNCHANGED probe
       \/ /\ clock >= probe.until
          /\ Step(v, "probing")
          /\ probe' = [probe EXCEPT !.holder = v]
    /\ UNCHANGED <<clock, switches, entries, pages>>

Probed(v) ==
    /\ At(v, "probing")
    /\ \E healthy \in BOOLEAN :
          /\ probe' = [until |-> clock + Ttl, healthy |-> healthy, holder |-> NoVisit]
          /\ Told(v, healthy)
    /\ UNCHANGED <<clock, switches, entries, pages>>

\* Mutant: the flags are not looked at again.
LookOnce(v) ==
    /\ At(v, "told")
    /\ Step(v, "confirming")
    /\ UNCHANGED <<clock, switches, probe, entries, pages>>

LookAgain(v) ==
    /\ At(v, "told")
    /\ IF LocalReady /\ ~stopSet THEN Step(v, "confirming") ELSE Respond(v)
    /\ UNCHANGED <<clock, switches, probe, entries, pages>>

\* The declaration once more; then the prompt and the key, and the store reads
\* the clock.
CheckContent(v) ==
    /\ At(v, "confirming")
    /\ IF visits[v].post.route \in declared /\ visits[v].post.flaw = "none"
       THEN Put(v, [at |-> "writing", post |-> visits[v].post, time |-> clock,
                   trouble |-> visits[v].trouble])
       ELSE Respond(v)
    /\ UNCHANGED <<clock, switches, probe, entries, pages>>

\* The transaction of the store: a new row, unless a known key is answered from
\* its row or the admissions, the quotas or the queue refuse.
Commit(v) ==
    /\ At(v, "writing")
    /\ \/ UNCHANGED entries
       \/ \E id \in Identifier \ {e.id : e \in entries} :
             entries' = entries \cup {[id |-> id, caller |-> visits[v].post.caller,
                                       time |-> visits[v].time]}
    /\ Respond(v)
    /\ UNCHANGED <<clock, switches, probe, pages>>

----------------------------------------------------------------------------
\* What happens meanwhile

GoLive ==
    /\ lifetime = "new"
    /\ lifetime' = "live"
    /\ UNCHANGED <<clock, declared, faulted, stopSet, probe, visits, entries, pages>>

ExecutorFails ==
    /\ lifetime = "live" /\ ~faulted
    /\ faulted' = TRUE
    /\ UNCHANGED <<clock, declared, lifetime, stopSet, probe, visits, entries, pages>>

AskToStop ==
    /\ ~stopSet
    /\ stopSet' = TRUE
    /\ UNCHANGED <<clock, declared, lifetime, faulted, probe, visits, entries, pages>>

\* run_continuous leaves its finally clause.
GoOver ==
    /\ lifetime = "live" /\ (faulted \/ stopSet)
    /\ lifetime' = "over"
    /\ UNCHANGED <<clock, declared, faulted, stopSet, probe, visits, entries, pages>>

\* A failed executor withdraws its routes, one by one.
Withdraw(route) ==
    /\ lifetime = "over" /\ faulted /\ route \in declared
    /\ declared' = declared \ {route}
    /\ UNCHANGED <<clock, lifetime, faulted, stopSet, probe, visits, entries, pages>>

Elapses ==
    /\ clock < MaxClock
    /\ clock' = clock + 1
    /\ UNCHANGED <<switches, probe, visits, entries, pages>>

----------------------------------------------------------------------------
\* get_submissions with the store's submissions_for_owner

Later(x, y) == x.time > y.time \/ (x.time = y.time /\ x.id > y.id)

\* Mutant: the cursor's identifier is not compared.
OlderByTime(e, last) == e.time < last.time

\* Rows beyond a cursor, which names the last row that was shown.
Older(e, last) == Later(last, e)

Own(caller) == {e \in entries : e.caller = caller}

\* ORDER BY and LIMIT: the first of the rows.
FirstOf(rows, shown) ==
    /\ \A i, j \in DOMAIN shown : i < j => Later(shown[i], shown[j])
    /\ \A e \in rows \ ToSet(shown) : Len(shown) = PageLength /\ Later(Last(shown), e)

\* A page of some rows; the code asks for one row more to know whether there are more.
ShowPage(rows, caller, there, seen) ==
    \E shown \in SeqOf(rows, PageLength) :
        /\ FirstOf(rows, shown)
        /\ pages' = [caller |-> caller, there |-> there, seen |-> seen \o shown,
                     more |-> rows # ToSet(shown)]

OpenHistory(caller) ==
    /\ ShowPage(Own(caller), caller, Own(caller), <<>>)
    /\ UNCHANGED <<clock, switches, probe, visits, entries>>

TurnPage ==
    /\ pages # NoPages
    /\ pages.more
    /\ ShowPage({e \in Own(pages.caller) : Older(e, Last(pages.seen))},
                pages.caller, pages.there, pages.seen)
    /\ UNCHANGED <<clock, switches, probe, visits, entries>>

ApiNext ==
    \/ \E v \in Visit : \/ FirstLook(v) \/ AskModel(v) \/ Probed(v) \/ LookAgain(v) \/ CheckContent(v) \/ Commit(v)
                        \/ \E post \in Post : Arrive(v, post)
    \/ GoLive \/ ExecutorFails \/ AskToStop \/ GoOver \/ Elapses \/ TurnPage
    \/ \E route \in Route : Withdraw(route)
    \/ \E caller \in Member : OpenHistory(caller)

ApiSpec == ApiInit /\ [][ApiNext]_apiVars

----------------------------------------------------------------------------
\* What was wrong with the executor or the route when the model's answer came
\* back, however long that took and whoever else was asking, keeps a request
\* from reaching the store: it was turned away.
TroubleTurnsAway == \A v \in Visit : At(v, "writing") => ~visits[v].trouble

\* Whatever is committed while a student turns the pages, and in whatever order
\* of its times: no submission is shown twice, the newest come first, those there
\* at the start are shown when their place is passed, and all of them in the end.
HistoryIsWhole ==
    pages # NoPages =>
        /\ \A i, j \in DOMAIN pages.seen : i < j => Later(pages.seen[i], pages.seen[j])
        /\ \A e \in pages.there \ {pages.seen[i] : i \in DOMAIN pages.seen} :
              pages.more /\ Later(Last(pages.seen), e)
============================================================================
