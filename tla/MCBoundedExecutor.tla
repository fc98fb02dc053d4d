------------------------- MODULE MCBoundedExecutor -------------------------
(* Three operations of an executor with two slots; and beside it the        *)
(* requests of the API that ask whether the executor is available: each     *)
(* behaviour is of one of the two.                                          *)
EXTENDS BoundedExecutor, SubmissionApi, TLC

CONSTANTS o1, o2, o3, v1, v2, ann, ben, open, draft

Calls == {o1, o2, o3}
Visits == {v1, v2}

\* A caller without an account, a route that is not open, every flaw.
Requests == Posts({ann, ben}, {open, draft})

Symmetry == Permutations(Calls) \cup Permutations(Visits)

Init == BoundedInit /\ ApiInit

Next ==
    \/ ApiInit /\ BoundedNext /\ UNCHANGED apiVars
    \/ BoundedInit /\ ApiNext /\ UNCHANGED boundedVars

Spec == Init /\ [][Next]_<<boundedVars, apiVars>>
=============================================================================
