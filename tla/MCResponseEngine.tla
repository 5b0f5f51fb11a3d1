-------------------------- MODULE MCResponseEngine --------------------------
(* Actions and symmetry for model checking ResponseEngine. *)
EXTENDS ResponseEngine, TLC

CONSTANTS pid, r1, r2

Action(type, target, report) == [type |-> type, target |-> target, report |-> report]

\* A process shares its name with no other.
NameOf == [t \in {pid} |-> t]

\* One report about a process, and a second one that wants it killed.
OneProcess == {Action("freeze_process", pid, r1), Action("kill_process", pid, r2)}

\* A single action that several requests fight over.
Contested == {Action("freeze_process", pid, r1)}

Threads == Permutations(Callers)
=============================================================================
