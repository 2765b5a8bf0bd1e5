----------------------------- MODULE MCRunStore -----------------------------
(* RunStore for TLC: runner processes that may be exchanged for one another. *)
EXTENDS RunStore, TLC

Interchangeable == Permutations(Runner)
=============================================================================
