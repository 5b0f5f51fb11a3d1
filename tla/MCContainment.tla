--------------------------- MODULE MCContainment ---------------------------
(* Actions, names and symmetry for model checking Containment. *)
EXTENDS Containment, TLC

CONSTANTS ip, path, namesake, r1, r2

Action(type, target, report) == [type |-> type, target |-> target, report |-> report]

\* One address in a report, or in two.
OneAddress == {Action("block_ip", ip, r1)}
SharedAddress == OneAddress \cup {Action("block_ip", ip, r2)}

\* Two files of one name, in different directories.
SameName == {Action("quarantine_file", path, r1), Action("quarantine_file", namesake, r2)}

\* Two reports name the same address, and files of one name.
SharedTargets == SharedAddress \cup SameName

NameOf == [t \in {ip, path, namesake} |-> IF t = namesake THEN path ELSE t]

\* Bound: the clock moves only as long as nothing but one file was acted on.
Known == entries \cup file \cup UNION {work[c] \cup todo[c] : c \in Callers}
OneFileAfterTick ==
  clock = 1 \/ /\ \A t \in Targets \ {path} : host[t] = [here |-> TRUE, held |-> {}]
               /\ \A e \in Known : e.action.target = path

Threads == Permutations(Callers)
=============================================================================
