-------------------------- MODULE ActionLifecycle --------------------------
(***************************************************************************)
(* The lifecycle docs/INTERFACES.md draws for a response action: it is     *)
(* recommended, waits for a human or is approved, runs only when approved, *)
(* and ends executed, failed or rejected for good.  It runs at most once.  *)
(* A restart of the process forgets the actions it knew.                   *)
(***************************************************************************)
CONSTANT Actions

VARIABLES
  stage,   \* where each action is
  ran      \* actions that were carried out, or tried

Stages == {"RECOMMENDED", "PENDING_APPROVAL", "APPROVED", "RUNNING",
           "EXECUTED", "FAILED", "REJECTED", "FORGOTTEN"}

Init ==
  /\ stage = [a \in Actions |-> "RECOMMENDED"]
  /\ ran = {}

Move(a, from, to) ==
  /\ stage[a] = from
  /\ stage' = [stage EXCEPT ![a] = to]

\* The gate routes the recommended actions of a report, all at once.
Gate(batch) ==
  /\ \A a \in batch : stage[a] = "RECOMMENDED"
  /\ \E to \in {"PENDING_APPROVAL", "APPROVED", "FORGOTTEN"} :
       stage' = [a \in Actions |-> IF a \in batch THEN to ELSE stage[a]]
  /\ UNCHANGED ran

Decide(a) ==
  /\ Move(a, "PENDING_APPROVAL", "APPROVED") \/ Move(a, "PENDING_APPROVAL", "REJECTED")
  /\ UNCHANGED ran

Run(a) ==
  /\ Move(a, "APPROVED", "RUNNING")
  /\ a \notin ran
  /\ ran' = ran \cup {a}

Finish(a) ==
  /\ Move(a, "RUNNING", "EXECUTED") \/ Move(a, "RUNNING", "FAILED")
  /\ UNCHANGED ran

Forget ==
  /\ stage' = [a \in Actions |-> IF stage[a] = "RECOMMENDED" THEN stage[a] ELSE "FORGOTTEN"]
  /\ UNCHANGED ran

Next ==
  \/ \E batch \in SUBSET Actions : Gate(batch)
  \/ \E a \in Actions : Decide(a) \/ Run(a) \/ Finish(a)
  \/ Forget

Spec == Init /\ [][Next]_<<stage, ran>>
=============================================================================
