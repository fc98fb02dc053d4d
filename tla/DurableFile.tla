---------------------------- MODULE DurableFile ----------------------------
(***************************************************************************)
(* Files that are written by an atomic replacement and made durable by a   *)
(* sync of their directory: what a reader sees of one, and what is kept    *)
(* over a power loss.                                                      *)
(***************************************************************************)

Both(v) == [seen |-> v, kept |-> v]

\* What a write that fails or is cut off leaves of the change from f to v.
Torn(f, v) == {f, [f EXCEPT !.seen = v]}

\* What a power loss leaves of a file, and of a directory of files, each of
\* whose new entries is lost or not.
AfterPowerLoss(f) == {Both(f.seen), Both(f.kept)}

EntriesAfterPowerLoss(d) == {Both(S) : S \in {T \in SUBSET d.seen : d.kept \subseteq T}}
=============================================================================
