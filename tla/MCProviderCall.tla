--------------------------- MODULE MCProviderCall ---------------------------
(* Two calls of one provider. *)
EXTENDS ProviderCall

CONSTANTS g1, g2

Calls == {g1, g2}
=============================================================================
