------------------------- MODULE MCRequestExecutor -------------------------
(* Two jobs, of two samples and of one, in two slots. *)
EXTENDS RequestExecutor, TLC

CONSTANTS j1, j2, u1, u2

Jobs == {j1, j2}
Attempts == 1 .. MaxAttempts
Samples == j1 :> 2 @@ j2 :> 1
Calls == UNION {{j} \X Attempts \X (1 .. Samples[j]) : j \in Jobs}
TwoOwners == j1 :> u1 @@ j2 :> u2
=============================================================================
