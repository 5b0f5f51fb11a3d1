---------------------------- MODULE MCAuditTrail ----------------------------
(* Bounds and mutants for model checking AuditTrail. *)
EXTENDS AuditTrail, TLC

Threads == Permutations(Callers)
=============================================================================
