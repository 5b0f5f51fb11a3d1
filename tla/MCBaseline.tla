----------------------------- MODULE MCBaseline -----------------------------
(* Symmetry for model checking BaselineLifecycle. *)
EXTENDS BaselineLifecycle, TLC

Renamings == Permutations(Chains) \cup Permutations(Analysts)
=============================================================================
