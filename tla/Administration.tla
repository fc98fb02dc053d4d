--------------------------- MODULE Administration ---------------------------
(***************************************************************************)
(* The administrators' policy for one task (admin_store.py): a revision, a  *)
(* teaching draft, what is published, and whether admissions are closed,    *)
(* all tied to the fingerprint of the catalog source they were made for.    *)
(* Of a text only the source it was written for is kept.  What a change may *)
(* do to a policy is defined here; PostgresStore says when it is committed, *)
(* by whom, and what it fences.                                             *)
(***************************************************************************)
EXTENDS Naturals

CONSTANTS Source,      \* fingerprints of the catalog entry, one per deployed catalog
          NoSource     \* "no row yet", "no text"

ASSUME SourceAssumption == NoSource \notin Source

\* AdminState; draft and published name the source their text was saved for.
Policy == [source : Source \cup {NoSource}, revision : Nat, closed : BOOLEAN, draft : Source \cup {NoSource},
           published : Source \cup {NoSource}, publishedFor : Source \cup {NoSource}]

NoPolicy == [source |-> NoSource, revision |-> 0, closed |-> FALSE, draft |-> NoSource,
             published |-> NoSource, publishedFor |-> NoSource]

MatchesSource(p, f) == p.source \in {NoSource, f}

\* closed_for, which is also what assert_admissions_open refuses.
ClosedFor(p, f) == p.closed \/ ~MatchesSource(p, f)

\* published_content: a text reviewed for another source is not shown.
Shown(p, f) == IF p.publishedFor = f THEN p.published ELSE NoSource

\* The policy a change leaves: the next revision, for the source f.
Revised(p, f) == [p EXCEPT !.revision = p.revision + 1, !.source = f]

\* A draft for a changed source closes a task that has a contract, so that an
\* administrator has to look at it before students can submit again.
Save(p, f) ==
    [Revised(p, f) EXCEPT !.draft = f,
                          !.closed = p.closed \/ ~MatchesSource(p, f)]

Publish(p, f) ==
    [Revised(p, f) EXCEPT !.published = p.draft, !.publishedFor = f]

Admissions(p, f, closed) == [Revised(p, f) EXCEPT !.closed = closed]

\* admin_change of a task with a contract: what a request may turn p into on a
\* server that loaded source f.  Only a draft may be saved for a new source;
\* whether the runtime allows a task to be reopened is known outside.
Changes(p, f, canReopen) ==
    {Save(p, f)}
    \cup {q \in {Publish(p, f)} : MatchesSource(p, f) /\ p.draft # NoSource}
    \cup {Admissions(p, f, c) :
             c \in {c \in BOOLEAN : MatchesSource(p, f) /\ (c \/ canReopen)}}
============================================================================
