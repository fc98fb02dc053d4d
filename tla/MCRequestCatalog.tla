-------------------------- MODULE MCRequestCatalog --------------------------
(* The request executor; and beside it the catalog of the challenges that   *)
(* it serves: each behaviour is of one of the two.                          *)
EXTENDS MCRequestExecutor, ChallengeCatalog

CONSTANTS upos, xpos

\* One challenge of V1 and one that an expansion adds.
V1 == <<upos>>
Expansion == <<xpos>>

Init == RequestInit /\ CatalogInit

Next ==
    \/ CatalogInit /\ RequestNext /\ UNCHANGED catalogVars
    \/ RequestInit /\ CatalogNext /\ UNCHANGED requestVars

Spec == Init /\ [][Next]_<<requestVars, catalogVars>>
=============================================================================
