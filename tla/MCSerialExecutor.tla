-------------------------- MODULE MCSerialExecutor --------------------------
(* Three operations of one executor; beside it the private workbench, of    *)
(* which a host runs one or the other; and a page of the web client.  Each  *)
(* behaviour is of one of the three.                                        *)
EXTENDS SerialExecutor, Workbench, WebClient, TLC

CONSTANTS o1, o2, o3, r1, r2, r3, j1, j2

Calls == {o1, o2, o3}

Owner == r1 :> j1 @@ r2 :> j1 @@ r3 :> j2

Symmetry == Permutations(Calls) \cup Permutations(User)

Init == SerialInit /\ WorkbenchInit /\ WebInit

Next ==
    \/ SerialNext /\ UNCHANGED <<workbenchVars, webVars>> /\ WorkbenchInit /\ WebInit
    \/ WorkbenchNext /\ UNCHANGED <<serialVars, webVars>> /\ SerialInit /\ WebInit
    \/ WebNext /\ UNCHANGED <<serialVars, workbenchVars>> /\ SerialInit /\ WorkbenchInit

Spec == Init /\ [][Next]_<<serialVars, workbenchVars, webVars>>
=============================================================================
