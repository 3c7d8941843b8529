-------------------------- MODULE MCIngestionQueue --------------------------
(***************************************************************************)
(* Instances of IngestionQueue for TLC.                                    *)
(***************************************************************************)
EXTENDS IngestionQueue, TLC

CONSTANTS w1, w2, c1, c2, d1, d2

WorkerSymmetry == Permutations({w1, w2})
Symmetry == Permutations({w1, w2}) \cup Permutations({c1, c2})

\* Bounds: one mishap of either kind, or both over a single job. No mishap is fair, so
\* every behaviour within the bound is explored whole.
OneMishap == crashes + removals <= 1
OneMishapOrOneJob == crashes + faults <= 1 \/ created <= 1
=============================================================================
