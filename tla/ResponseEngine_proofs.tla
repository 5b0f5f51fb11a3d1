----------------------- MODULE ResponseEngine_proofs -----------------------
(***************************************************************************)
(* Proofs about ResponseEngine, for any workers, actions and bounds: it    *)
(* drives the containment manager only as Containment allows, so what is   *)
(* proved there holds of it; its types; that nothing runs undecided or     *)
(* without its approval on record; that what is shown as executed can be   *)
(* undone; and, for one request at a time, the documented lifecycle.       *)
(***************************************************************************)
EXTENDS ResponseEngine, Containment_proofs

(***************************************************************************)
(* Every step is a step of Containment, or leaves its variables alone.     *)
(***************************************************************************)
LEMMA StepRefines ==
  ASSUME job \in [Callers -> SUBSET Actions], [ResponseNext]_vars
  PROVE  [Next]_containmentVars
<1>1. ASSUME NEW w \in Callers, ResponseStep(w) PROVE [Next]_containmentVars
  <2>0. job[w] \subseteq Actions
    OBVIOUS
  <2>1. CASE BeginApply(w) \/ BeginApplyRaises(w)
    <3>1. PICK a \in Actions : Apply(w, a) \/ ApplyRaises(w, a)
      BY <2>0, <2>1 DEF BeginApply, BeginApplyRaises
    <3>. QED  BY <3>1 DEF Next, ContainmentStep
  <2>2. CASE Applying(w)
    BY <2>2 DEF Applying, Next, ContainmentStep
  <2>3. CASE \E r \in Reports : BeginRollback(w, r)
    BY <2>3 DEF BeginRollback, Next, ContainmentStep
  <2>4. CASE RollbackStep(w)
    BY <2>4 DEF RollbackStep, Next, ContainmentStep
  <2>5. CASE \/ \E a \in Actions : BeginApprove(w, a) \/ BeginReject(w, a)
             \/ Approve(w) \/ RecordApproval(w) \/ RecordApprovalRaises(w) \/ Check(w)
             \/ MarkExecuted(w) \/ MarkFailed(w) \/ Reject(w)
    <3>1. UNCHANGED containmentVars
      BY <2>5 DEF BeginApprove, BeginReject, Approve, RecordApproval, RecordApprovalRaises, Check,
         MarkExecuted, MarkFailed, Reject, Settle
    <3>. QED  BY <3>1
  <2>. QED  BY <1>1, <2>1, <2>2, <2>3, <2>4, <2>5 DEF ResponseStep
<1>2. CASE \E r \in Reports : Detect(r) \/ DetectRaises(r)
  BY <1>2 DEF Detect, DetectRaises
<1>3. CASE World \/ ResponseRestart
  BY <1>3 DEF Next, ResponseRestart
<1>4. CASE UNCHANGED vars
  BY <1>4 DEF vars
<1>. QED  BY <1>1, <1>2, <1>3, <1>4 DEF ResponseNext

(***************************************************************************)
(* The type invariant.                                                     *)
(***************************************************************************)
GateSteps == {"idle", "approve", "record", "check", "apply", "applying",
              "executed", "failed", "reject"}

\* Going to another step, or leaving the request, keeps the workers typed.
LEMMA WorkersType ==
  ASSUME wpc \in [Callers -> GateSteps], job \in [Callers -> SUBSET Actions], NEW w \in Callers
  PROVE  /\ \A step \in GateSteps : Goto(w, step) => wpc' \in [Callers -> GateSteps]
         /\ Leave(w) => wpc' \in [Callers -> GateSteps] /\ job' \in [Callers -> SUBSET Actions]
BY DEF Goto, Leave, GateSteps, NoJob

\* Recording an event, or failing to, keeps the trail typed.
LEMMA TrailType ==
  ASSUME trail \subseteq [event : Events, action : Actions], auditFailures \in Nat
  PROVE  /\ \A event \in Events, as \in SUBSET Actions :
              Recorded(event, as) => trail' \subseteq [event : Events, action : Actions] /\ auditFailures' \in Nat
         /\ RecordRaises => trail' \subseteq [event : Events, action : Actions] /\ auditFailures' \in Nat
<1>1. ASSUME NEW event \in Events, NEW as \in SUBSET Actions, Recorded(event, as)
      PROVE  trail' \subseteq [event : Events, action : Actions] /\ auditFailures' \in Nat
  <2>1. \A a \in as : [event |-> event, action |-> a] \in [event : Events, action : Actions]
    OBVIOUS
  <2>. QED  BY <1>1, <2>1 DEF Recorded
<1>2. ASSUME RecordRaises
      PROVE  trail' \subseteq [event : Events, action : Actions] /\ auditFailures' \in Nat
  BY <1>2 DEF RecordRaises
<1>. QED  BY <1>1, <1>2

\* Publishing a report keeps the list typed and within its length.
LEMMA ReportsType ==
  ASSUME reports \in Seq(Reports), Len(reports) <= MaxReports, NEW r \in Reports
  PROVE  Published(r) \in Seq(Reports) /\ Len(Published(r)) <= MaxReports
<1>1. MaxReports \in Nat \ {0} /\ Len(reports) \in Nat
  BY ReportsAssumption
<1>2. CASE Len(reports) < MaxReports
  <2>1. Append(reports, r) \in Seq(Reports) /\ Len(Append(reports, r)) = Len(reports) + 1
    OBVIOUS
  <2>. QED  BY <1>1, <1>2, <2>1 DEF Published
<1>3. CASE ~(Len(reports) < MaxReports)
  <2>1. reports # <<>> /\ Len(reports) = MaxReports
    BY <1>1, <1>3
  <2>2. Tail(reports) \in Seq(Reports) /\ Len(Tail(reports)) = Len(reports) - 1
    BY <2>1
  <2>3. Append(Tail(reports), r) \in Seq(Reports) /\ Len(Append(Tail(reports), r)) = Len(Tail(reports)) + 1
    BY <2>2
  <2>. QED  BY <1>1, <1>3, <2>1, <2>2, <2>3 DEF Published
<1>. QED  BY <1>2, <1>3

\* A worker's step keeps the type invariant.
LEMMA WorkerKeepsTypes ==
  ASSUME ResponseTypeOK, TypeOK', NEW w \in Callers, ResponseStep(w)
  PROVE  ResponseTypeOK'
<1>t. /\ wpc \in [Callers -> GateSteps] /\ job \in [Callers -> SUBSET Actions]
      /\ status \in [Actions -> Statuses] /\ autoApprove \in BOOLEAN
      /\ reports \in Seq(Reports) /\ Len(reports) <= MaxReports
      /\ trail \subseteq [event : Events, action : Actions] /\ auditFailures \in Nat
      /\ decided \subseteq Actions /\ ran \subseteq Actions
      /\ \A s \in Statuses : SetStatus(w, s) \in [Actions -> Statuses]
      /\ job[w] \subseteq Actions
  BY DEF ResponseTypeOK, GateSteps, SetStatus
<1>1. ASSUME NEW a \in Actions, BeginApprove(w, a) \/ BeginReject(w, a) PROVE ResponseTypeOK'
  <2>1. job' \in [Callers -> SUBSET Actions]
    BY <1>1, <1>t DEF BeginApprove, BeginReject
  <2>2. wpc' \in [Callers -> GateSteps]
    BY <1>1, <1>t, WorkersType DEF BeginApprove, BeginReject, GateSteps
  <2>. QED  BY <1>1, <1>t, <2>1, <2>2 DEF BeginApprove, BeginReject, ResponseTypeOK, GateSteps
<1>2. ASSUME Approve(w) PROVE ResponseTypeOK'
  <2>1. wpc' \in [Callers -> GateSteps]
    BY <1>2, <1>t, WorkersType DEF Approve, GateSteps
  <2>2. status' \in [Actions -> Statuses] /\ decided' \subseteq Actions
    BY <1>2, <1>t DEF Approve, Statuses
  <2>. QED  BY <1>2, <1>t, <2>1, <2>2 DEF Approve, ResponseTypeOK, GateSteps
<1>3. ASSUME RecordApproval(w) \/ RecordApprovalRaises(w) PROVE ResponseTypeOK'
  <2>1. trail' \subseteq [event : Events, action : Actions] /\ auditFailures' \in Nat
    BY <1>3, <1>t, TrailType DEF RecordApproval, RecordApprovalRaises, ToRecord, Events
  <2>2. wpc' \in [Callers -> GateSteps] /\ job' \in [Callers -> SUBSET Actions]
    BY <1>3, <1>t, WorkersType DEF RecordApproval, RecordApprovalRaises, GateSteps
  <2>. QED  BY <1>3, <1>t, <2>1, <2>2 DEF RecordApproval, RecordApprovalRaises, ResponseTypeOK, GateSteps
<1>4. ASSUME Check(w) PROVE ResponseTypeOK'
  <2>1. wpc' \in [Callers -> GateSteps] /\ job' \in [Callers -> SUBSET Actions]
    BY <1>4, <1>t, WorkersType DEF Check, GateSteps
  <2>. QED  BY <1>4, <1>t, <2>1 DEF Check, ResponseTypeOK, GateSteps
<1>5. ASSUME BeginApply(w) \/ BeginApplyRaises(w) PROVE ResponseTypeOK'
  <2>1. wpc' \in [Callers -> GateSteps]
    BY <1>5, <1>t, WorkersType DEF BeginApply, BeginApplyRaises, GateSteps
  <2>2. ran' \subseteq Actions
    BY <1>5, <1>t DEF BeginApply, BeginApplyRaises
  <2>. QED  BY <1>5, <1>t, <2>1, <2>2 DEF BeginApply, BeginApplyRaises, ResponseTypeOK, GateSteps
<1>6. ASSUME Applying(w) PROVE ResponseTypeOK'
  <2>1. wpc' \in [Callers -> GateSteps]
    BY <1>6, <1>t, WorkersType DEF Applying, GateSteps
  <2>. QED  BY <1>6, <1>t, <2>1 DEF Applying, ResponseTypeOK, GateSteps
<1>7. ASSUME NEW step, NEW outcome \in Statuses, NEW event \in Events, Settle(w, step, outcome, event)
      PROVE  ResponseTypeOK'
  <2>1. trail' \subseteq [event : Events, action : Actions] /\ auditFailures' \in Nat
    BY <1>t, <1>7, TrailType DEF Settle
  <2>2. wpc' \in [Callers -> GateSteps] /\ job' \in [Callers -> SUBSET Actions]
    BY <1>t, <1>7, WorkersType DEF Settle
  <2>. QED  BY <1>t, <1>7, <2>1, <2>2 DEF Settle, ResponseTypeOK, GateSteps
<1>10. ASSUME MarkExecuted(w) \/ MarkFailed(w) \/ Reject(w) PROVE ResponseTypeOK'
  <2>1. /\ {"EXECUTED", "FAILED", "REJECTED"} \subseteq Statuses
        /\ {"execution", "execution_failed", "rejected"} \subseteq Events
    BY DEF Statuses, Events
  <2>. QED  BY <1>7, <1>10, <2>1 DEF MarkExecuted, MarkFailed, Reject
<1>8. ASSUME NEW r \in Reports, BeginRollback(w, r) PROVE ResponseTypeOK'
  BY <1>8, <1>t DEF BeginRollback, gateVars, ResponseTypeOK, GateSteps
<1>9. ASSUME RollbackStep(w) PROVE ResponseTypeOK'
  <2>1. trail' \subseteq [event : Events, action : Actions] /\ auditFailures' \in Nat
    <3>1. {e.action : e \in work[w]} \subseteq Actions
      BY DEF ResponseTypeOK, TypeOK, Entry
    <3>. QED  BY <1>9, <1>t, <3>1, TrailType DEF RollbackStep, gateVars, Events
  <2>. QED  BY <1>9, <1>t, <2>1 DEF RollbackStep, gateVars, ResponseTypeOK, GateSteps
<1>. QED  BY <1>1, <1>2, <1>3, <1>4, <1>5, <1>6, <1>8, <1>9, <1>10 DEF ResponseStep

\* Every step, stuttering included, keeps the type invariant.
LEMMA ResponseKeepsTypes ==
  ASSUME ResponseTypeOK, [ResponseNext]_vars
  PROVE  ResponseTypeOK'
<1>t. /\ status \in [Actions -> Statuses] /\ reports \in Seq(Reports) /\ Len(reports) <= MaxReports
      /\ trail \subseteq [event : Events, action : Actions] /\ auditFailures \in Nat
      /\ TypeOK /\ job \in [Callers -> SUBSET Actions]
  BY DEF ResponseTypeOK
<1>0. TypeOK'
  BY <1>t, StepRefines, NextKeepsTypes
<1>1. ASSUME NEW r \in Reports, Detect(r) PROVE ResponseTypeOK'
  <2>1. reports' \in Seq(Reports) /\ Len(reports') <= MaxReports
    BY <1>1, <1>t, ReportsType DEF Detect
  <2>2. trail' \subseteq [event : Events, action : Actions] /\ auditFailures' \in Nat
    <3>1. (IF AutoApproved THEN OfReport(r) ELSE {}) \in SUBSET Actions
      BY DEF OfReport
    <3>. QED  BY <1>1, <1>t, <3>1, TrailType DEF Detect, Events
  <2>3. status' \in [Actions -> Statuses]
    BY <1>1, <1>t DEF Detect, Statuses
  <2>. QED  BY <1>0, <1>1, <2>1, <2>2, <2>3 DEF Detect, ResponseTypeOK
<1>2. ASSUME NEW r \in Reports, DetectRaises(r) PROVE ResponseTypeOK'
  <2>1. trail' \subseteq [event : Events, action : Actions] /\ auditFailures' \in Nat
    BY <1>2, <1>t, TrailType DEF DetectRaises
  <2>2. status' \in [Actions -> Statuses]
    BY <1>2, <1>t DEF DetectRaises, Statuses
  <2>. QED  BY <1>0, <1>2, <2>1, <2>2 DEF DetectRaises, ResponseTypeOK
<1>3. CASE \E w \in Callers : ResponseStep(w)
  BY <1>0, <1>3, WorkerKeepsTypes
<1>4. CASE World /\ UNCHANGED gateVars
  BY <1>0, <1>4 DEF gateVars, ResponseTypeOK
<1>5. ASSUME ResponseRestart PROVE ResponseTypeOK'
  <2>1. status' \in [Actions -> Statuses]
    BY <1>5, <1>t DEF ResponseRestart, Statuses
  <2>2. reports' \in Seq(Reports) /\ Len(reports') <= MaxReports
    <3>1. reports' = <<>> /\ MaxReports \in Nat
      BY <1>5, ReportsAssumption DEF ResponseRestart
    <3>. QED  BY <3>1
  <2>. QED  BY <1>0, <1>5, <2>1, <2>2 DEF ResponseRestart, ResponseTypeOK, NoJob
<1>6. CASE UNCHANGED vars
  BY <1>0, <1>6 DEF vars, gateVars, ResponseTypeOK
<1>. QED  BY <1>1, <1>2, <1>3, <1>4, <1>5, <1>6 DEF ResponseNext

LEMMA ResponseInitType == ResponseInit => ResponseTypeOK
<1>. SUFFICES ASSUME ResponseInit PROVE ResponseTypeOK
  OBVIOUS
<1>1. reports \in Seq(Reports) /\ Len(reports) <= MaxReports
  <2>1. reports = <<>> /\ MaxReports \in Nat
    BY ReportsAssumption DEF ResponseInit
  <2>. QED  BY <2>1
<1>2. TypeOK
  BY InitType DEF ResponseInit
<1>. QED  BY <1>1, <1>2 DEF ResponseInit, ResponseTypeOK, Statuses, NoJob

\* Every variable keeps its type, for any workers, actions and bounds.
THEOREM ResponseTypeCorrect == ResponseSpec => []ResponseTypeOK
<1>1. ResponseInit => ResponseTypeOK
  BY ResponseInitType
<1>2. ResponseTypeOK /\ [ResponseNext]_vars => ResponseTypeOK'
  BY ResponseKeepsTypes
<1>. QED  BY <1>1, <1>2, PTL DEF ResponseSpec

\* The response engine drives the containment manager as Containment allows.
THEOREM RefinesContainment == ResponseSpec => Spec
<1>1. ResponseInit => Init
  BY DEF ResponseInit
<1>2. ResponseTypeOK /\ [ResponseNext]_vars => [Next]_containmentVars
  BY StepRefines DEF ResponseTypeOK
<1>. QED  BY <1>1, <1>2, ResponseTypeCorrect, PTL DEF ResponseSpec, Spec

\* So whatever the requests do to each other, what they hold has a handle.
THEOREM RequestsKeepHandles == ResponseSpec => []HeldHasHandle
BY RefinesContainment, HandlesAreKept, PTL

(***************************************************************************)
(* Nothing runs undecided.  What a worker has found APPROVED stays decided *)
(* even when the status changes after the check, and a handle is never     *)
(* older than the decision it came from, so a reload brings back no other. *)
(***************************************************************************)
DecidedInv ==
  ~autoApprove => /\ ran \subseteq decided
                  /\ \A x \in Entry : Known(x) => x.action \in decided
                  /\ \A a \in Actions : status[a] = "APPROVED" => a \in decided
                  /\ \A w \in Callers : wpc[w] = "apply" => job[w] \subseteq decided

\* apply() makes a handle for the action it was given.
LEMMA ApplyKnown ==
  ASSUME TypeOK, NEW c \in Callers, NEW a \in Actions, Apply(c, a), NEW x, Known(x)'
  PROVE  Known(x) \/ x.action = a
<1>1. PICK e : e.action = a /\ Handles(c, "append", {e})
  BY DEF Apply
<1>2. \A d \in Callers : work'[d] \subseteq work[d] \cup {e}
  BY <1>1, HandlesAt
<1>3. UNCHANGED <<entries, file, todo>>
  BY DEF Apply, store
<1>. QED  BY <1>1, <1>2, <1>3 DEF Known

\* Steps of the manager other than apply() make no handle.
LEMMA KnownShrinks ==
  ASSUME TypeOK, [Next]_containmentVars, UNCHANGED lastId
  PROVE  \A x : Known(x)' => Known(x)
<1>1. lastId \in Nat
  BY DEF TypeOK
<1>. QED  BY <1>1, KnownStep

\* A step of a worker keeps it.
LEMMA DecidedWorkerStep ==
  ASSUME ResponseTypeOK, DecidedInv, ~autoApprove, NEW w \in Callers, ResponseStep(w)
  PROVE  DecidedInv'
<1>t. /\ wpc \in [Callers -> GateSteps] /\ job \in [Callers -> SUBSET Actions]
      /\ status \in [Actions -> Statuses] /\ TypeOK
      /\ job[w] \subseteq Actions
  BY DEF ResponseTypeOK, GateSteps
<1>d. /\ ran \subseteq decided
      /\ \A x \in Entry : Known(x) => x.action \in decided
      /\ \A a \in Actions : status[a] = "APPROVED" => a \in decided
      /\ \A v \in Callers : wpc[v] = "apply" => job[v] \subseteq decided
  BY DEF DecidedInv
<1>n. [Next]_containmentVars
  BY <1>t, StepRefines DEF ResponseNext
<1>0. ASSUME UNCHANGED <<ran, lastId>>, decided \subseteq decided',
             \A a \in Actions : status'[a] = "APPROVED" => status[a] = "APPROVED" \/ a \in decided',
             \A v \in Callers : wpc'[v] = "apply" => job'[v] \subseteq decided'
      PROVE  DecidedInv'
  BY <1>0, <1>d, <1>n, <1>t, KnownShrinks DEF DecidedInv
<1>h. ASSUME NEW step \in GateSteps, Goto(w, step), step # "apply", NEW v \in Callers, wpc'[v] = "apply"
      PROVE  v # w /\ wpc[v] = "apply"
  BY <1>h, <1>t DEF Goto
<1>l. ASSUME Leave(w), NEW v \in Callers, wpc'[v] = "apply"
      PROVE  v # w /\ wpc[v] = "apply" /\ job'[v] = job[v]
  BY <1>l, <1>t DEF Leave
<1>1. ASSUME NEW a \in Actions, BeginApprove(w, a) \/ BeginReject(w, a) PROVE DecidedInv'
  <2>1. /\ UNCHANGED <<ran, lastId, decided, status>>
        /\ job' = [job EXCEPT ![w] = {a}]
        /\ \E step \in GateSteps : Goto(w, step) /\ step # "apply"
    BY <1>1 DEF BeginApprove, BeginReject, GateSteps, containmentVars
  <2>2. \A v \in Callers : wpc'[v] = "apply" => job'[v] \subseteq decided'
    BY <2>1, <1>h, <1>d, <1>t
  <2>. QED  BY <2>1, <2>2, <1>0
<1>2. CASE Approve(w)
  <2>1. /\ UNCHANGED <<ran, lastId, job>> /\ decided' = decided \cup job[w]
        /\ status' = [a \in Actions |-> IF a \in job[w] THEN "APPROVED" ELSE status[a]]
        /\ Goto(w, "record") /\ "record" \in GateSteps
    BY <1>2 DEF Approve, SetStatus, containmentVars, GateSteps
  <2>2. \A v \in Callers : wpc'[v] = "apply" => job'[v] \subseteq decided'
    BY <2>1, <1>h, <1>d
  <2>3. \A a \in Actions : status'[a] = "APPROVED" => status[a] = "APPROVED" \/ a \in decided'
    BY <2>1
  <2>. QED  BY <2>1, <2>2, <2>3, <1>0
<1>3. CASE RecordApproval(w) \/ RecordApprovalRaises(w)
  <2>1. /\ UNCHANGED <<ran, lastId, decided, status>>
        /\ (Goto(w, "check") /\ UNCHANGED job) \/ Leave(w)
        /\ "check" \in GateSteps
    BY <1>3 DEF RecordApproval, RecordApprovalRaises, containmentVars, GateSteps
  <2>2. \A v \in Callers : wpc'[v] = "apply" => job'[v] \subseteq decided'
    BY <2>1, <1>h, <1>l, <1>d
  <2>. QED  BY <2>1, <2>2, <1>0
<1>4. CASE Check(w)
  <2>1. UNCHANGED <<ran, lastId, decided, status>>
    BY <1>4 DEF Check, containmentVars
  <2>2. CASE MayRun(w) /\ Goto(w, "apply") /\ UNCHANGED job
    <3>1. job[w] \subseteq decided
      BY <2>2, <1>d, <1>t DEF MayRun
    <3>2. \A v \in Callers : v # w => wpc'[v] = wpc[v]
      BY <2>2, <1>t DEF Goto
    <3>3. \A v \in Callers : wpc'[v] = "apply" => job'[v] \subseteq decided'
      BY <2>1, <2>2, <3>1, <3>2, <1>d
    <3>. QED  BY <2>1, <3>3, <1>0
  <2>3. CASE Leave(w)
    <3>1. \A v \in Callers : wpc'[v] = "apply" => job'[v] \subseteq decided'
      BY <2>1, <2>3, <1>l, <1>d
    <3>. QED  BY <2>1, <3>1, <1>0
  <2>. QED  BY <1>4, <2>2, <2>3 DEF Check
<1>5. CASE BeginApply(w) \/ BeginApplyRaises(w)
  <2>1. PICK a \in job[w] : (Apply(w, a) \/ ApplyRaises(w, a)) /\ ran' = ran \cup {a}
    BY <1>5 DEF BeginApply, BeginApplyRaises
  <2>2. /\ wpc[w] = "apply" /\ UNCHANGED <<status, job, decided>>
        /\ \E step \in GateSteps : Goto(w, step) /\ step # "apply"
    BY <1>5 DEF BeginApply, BeginApplyRaises, GateSteps
  <2>3. a \in decided /\ a \in Actions
    BY <2>1, <2>2, <1>d, <1>t
  <2>4. \A x : Known(x)' => Known(x) \/ x.action = a
    <3>1. CASE Apply(w, a)
      BY <3>1, <2>3, <1>t, ApplyKnown
    <3>2. CASE ApplyRaises(w, a)
      <4>1. UNCHANGED lastId
        BY <3>2 DEF ApplyRaises
      <4>. QED  BY <4>1, <1>t, <1>n, KnownShrinks
    <3>. QED  BY <2>1, <3>1, <3>2
  <2>5. \A v \in Callers : wpc'[v] = "apply" => job'[v] \subseteq decided'
    BY <2>2, <1>h, <1>d
  <2>. QED  BY <2>1, <2>2, <2>3, <2>4, <2>5, <1>d DEF DecidedInv
<1>6. CASE Applying(w)
  <2>1. /\ UNCHANGED <<ran, lastId, decided, status, job>>
        /\ UNCHANGED wpc \/ \E step \in GateSteps : Goto(w, step) /\ step # "apply"
    BY <1>6 DEF Applying, AppendEntry, PersistEntry, PersistRaises, GateSteps
  <2>2. \A v \in Callers : wpc'[v] = "apply" => job'[v] \subseteq decided'
    BY <2>1, <1>h, <1>d
  <2>. QED  BY <2>1, <2>2, <1>0
<1>7. CASE MarkExecuted(w) \/ MarkFailed(w) \/ Reject(w)
  <2>1. PICK outcome \in {"EXECUTED", "FAILED", "REJECTED"} :
          /\ UNCHANGED <<ran, lastId, decided>> /\ Leave(w)
          /\ status' = [a \in Actions |-> IF a \in job[w] THEN outcome ELSE status[a]]
    BY <1>7 DEF MarkExecuted, MarkFailed, Reject, Settle, SetStatus, containmentVars
  <2>2. \A v \in Callers : wpc'[v] = "apply" => job'[v] \subseteq decided'
    BY <2>1, <1>l, <1>d
  <2>3. \A a \in Actions : status'[a] = "APPROVED" => status[a] = "APPROVED" \/ a \in decided'
    BY <2>1
  <2>. QED  BY <2>1, <2>2, <2>3, <1>0
<1>8. CASE (\E r \in Reports : BeginRollback(w, r)) \/ RollbackStep(w)
  <2>1. UNCHANGED <<ran, lastId, decided, status, wpc, job>>
    BY <1>8 DEF BeginRollback, StartRollback, RollbackStep, gateVars, Undo, UndoRaises, RemoveEntry, RemoveRaises
  <2>. QED  BY <2>1, <1>0, <1>d
<1>. QED  BY <1>1, <1>2, <1>3, <1>4, <1>5, <1>6, <1>7, <1>8 DEF ResponseStep

\* Every step keeps it, the reload of a restart included.
LEMMA DecidedStep ==
  ASSUME ResponseTypeOK, DecidedInv, [ResponseNext]_vars
  PROVE  DecidedInv'
<1>t. /\ job \in [Callers -> SUBSET Actions] /\ TypeOK
      /\ status \in [Actions -> Statuses]
  BY DEF ResponseTypeOK
<1>n. [Next]_containmentVars
  BY <1>t, StepRefines
<1>a. UNCHANGED autoApprove
  BY DEF ResponseNext, Detect, DetectRaises, ResponseStep, BeginApprove, BeginReject, Approve,
     RecordApproval, RecordApprovalRaises, Check, BeginApply, BeginApplyRaises, Applying, MarkExecuted,
     MarkFailed, Reject, Settle, BeginRollback, RollbackStep, ResponseRestart, gateVars, vars
<1>. SUFFICES ASSUME ~autoApprove PROVE DecidedInv'
  BY <1>a DEF DecidedInv
<1>0. ASSUME UNCHANGED <<ran, lastId, decided>>,
             \A a \in Actions : status'[a] = "APPROVED" => status[a] = "APPROVED",
             \A v \in Callers : wpc'[v] = "apply" => wpc[v] = "apply" /\ job'[v] = job[v]
      PROVE  DecidedInv'
  BY <1>0, <1>n, <1>t, KnownShrinks DEF DecidedInv
<1>1. ASSUME NEW r \in Reports, Detect(r) PROVE DecidedInv'
  <2>1. \A a \in Actions : status'[a] = "APPROVED" => status[a] = "APPROVED"
    BY <1>1, <1>t DEF Detect, AutoApproved
  <2>2. UNCHANGED <<ran, lastId, decided, wpc, job>>
    BY <1>1 DEF Detect, containmentVars
  <2>. QED  BY <2>1, <2>2, <1>0
<1>2. ASSUME NEW r \in Reports, DetectRaises(r) PROVE DecidedInv'
  BY <1>2 DEF DetectRaises
<1>3. CASE \E w \in Callers : ResponseStep(w)
  BY <1>3, DecidedWorkerStep
<1>4. CASE World /\ UNCHANGED gateVars
  <2>1. UNCHANGED <<ran, lastId, decided, status, wpc, job>>
    BY <1>4 DEF World, Vanish, Appear, Tick, gateVars
  <2>. QED  BY <2>1, <1>0
<1>5. CASE ResponseRestart
  <2>1. UNCHANGED <<ran, lastId, decided>>
    BY <1>5 DEF ResponseRestart, Restart
  <2>2. \A a \in Actions : status'[a] = "APPROVED" => status[a] = "APPROVED"
    BY <1>5 DEF ResponseRestart
  <2>3. \A v \in Callers : wpc'[v] # "apply"
    BY <1>5 DEF ResponseRestart
  <2>. QED  BY <2>1, <2>2, <2>3, <1>0
<1>6. CASE UNCHANGED vars
  <2>1. UNCHANGED <<ran, lastId, decided, status, wpc, job>>
    BY <1>6 DEF vars, gateVars, containmentVars
  <2>. QED  BY <2>1, <1>0
<1>. QED  BY <1>1, <1>2, <1>3, <1>4, <1>5, <1>6 DEF ResponseNext

\* At first there is nothing to have been decided.
LEMMA DecidedInit == ResponseInit => DecidedInv
<1>. SUFFICES ASSUME ResponseInit PROVE DecidedInv
  OBVIOUS
<1>1. \A x : ~Known(x)
  BY DEF ResponseInit, Init, Known
<1>2. \A w \in Callers : wpc[w] = "idle"
  BY DEF ResponseInit
<1>3. \A a \in Actions : status[a] = "RECOMMENDED"
  BY DEF ResponseInit
<1>4. ran = {}
  BY DEF ResponseInit
<1>. QED  BY <1>1, <1>2, <1>3, <1>4 DEF DecidedInv

\* Whatever requests race, and whatever a restart reloads, nothing was done
\* to the host for an action that nobody approved.
THEOREM NobodyIsBypassed == ResponseSpec => []NothingRunsUndecided
<1>1. ResponseInit => ResponseTypeOK /\ DecidedInv
  BY ResponseInitType, DecidedInit
<1>2. ResponseTypeOK /\ DecidedInv /\ [ResponseNext]_vars => ResponseTypeOK' /\ DecidedInv'
  BY ResponseKeepsTypes, DecidedStep
<1>3. ResponseTypeOK /\ DecidedInv => NothingRunsUndecided
  <2>. SUFFICES ASSUME ResponseTypeOK, DecidedInv, ~autoApprove, NEW e \in Alive \cup file
                PROVE  ran \subseteq decided /\ e.action \in decided
    BY DEF NothingRunsUndecided, DecidedInv
  <2>1. TypeOK
    BY DEF ResponseTypeOK
  <2>2. Known(e) /\ e \in Entry
    BY <2>1, HandleSets DEF Known, TypeOK
  <2>. QED  BY <2>2 DEF DecidedInv
<1>. QED  BY <1>1, <1>2, <1>3, PTL DEF ResponseSpec
-----------------------------------------------------------------------------
(* What a worker's request leaves alone. *)

\* A step of one worker is not a step of another's request.
LEMMA OthersWait ==
  ASSUME ResponseTypeOK, NEW w \in Callers, ResponseStep(w)
  PROVE  \A v \in Callers : v # w => wpc'[v] = wpc[v] /\ job'[v] = job[v]
<1>t. wpc \in [Callers -> GateSteps] /\ job \in [Callers -> SUBSET Actions]
  BY DEF ResponseTypeOK, GateSteps
<1>g. ASSUME NEW step, Goto(w, step) PROVE \A v \in Callers : v # w => wpc'[v] = wpc[v]
  BY <1>g, <1>t DEF Goto
<1>l. ASSUME Leave(w) PROVE \A v \in Callers : v # w => wpc'[v] = wpc[v] /\ job'[v] = job[v]
  BY <1>l, <1>t DEF Leave
<1>1. ASSUME NEW a \in Actions, BeginApprove(w, a) \/ BeginReject(w, a)
      PROVE  \A v \in Callers : v # w => wpc'[v] = wpc[v] /\ job'[v] = job[v]
  BY <1>1, <1>g, <1>t DEF BeginApprove, BeginReject
<1>2. CASE Approve(w) \/ RecordApproval(w) \/ BeginApply(w) \/ BeginApplyRaises(w) \/ Applying(w)
  BY <1>2, <1>g DEF Approve, RecordApproval, BeginApply, BeginApplyRaises, Applying
<1>3. CASE RecordApprovalRaises(w) \/ MarkExecuted(w) \/ MarkFailed(w) \/ Reject(w)
  BY <1>3, <1>l DEF RecordApprovalRaises, MarkExecuted, MarkFailed, Reject, Settle
<1>4. CASE Check(w)
  BY <1>4, <1>g, <1>l DEF Check
<1>5. CASE (\E r \in Reports : BeginRollback(w, r)) \/ RollbackStep(w)
  BY <1>5 DEF BeginRollback, RollbackStep, gateVars
<1>. QED  BY <1>1, <1>2, <1>3, <1>4, <1>5 DEF ResponseStep

\* The trail is only added to, and a failed audit write stays counted.
LEMMA TrailGrows ==
  ASSUME ResponseTypeOK, [ResponseNext]_vars
  PROVE  /\ trail \subseteq trail'
         /\ auditFailures' = auditFailures \/ auditFailures' = auditFailures + 1
<1>r. ASSUME NEW event, NEW as, Recorded(event, as)
      PROVE  trail \subseteq trail' /\ auditFailures' = auditFailures
  BY <1>r DEF Recorded
<1>f. ASSUME RecordRaises PROVE trail' = trail /\ auditFailures' = auditFailures + 1
  BY <1>f DEF RecordRaises
<1>1. ASSUME NEW w \in Callers, ResponseStep(w)
      PROVE  trail \subseteq trail' /\ (auditFailures' = auditFailures \/ auditFailures' = auditFailures + 1)
  <2>1. CASE \/ \E a \in Actions : BeginApprove(w, a) \/ BeginReject(w, a)
             \/ Approve(w) \/ Check(w) \/ BeginApply(w) \/ BeginApplyRaises(w) \/ Applying(w)
    BY <2>1 DEF BeginApprove, BeginReject, Approve, Check, BeginApply, BeginApplyRaises, Applying
  <2>2. CASE RecordApproval(w) \/ RecordApprovalRaises(w)
    BY <2>2, <1>r, <1>f DEF RecordApproval, RecordApprovalRaises
  <2>3. CASE MarkExecuted(w) \/ MarkFailed(w) \/ Reject(w)
    BY <2>3, <1>r, <1>f DEF MarkExecuted, MarkFailed, Reject, Settle
  <2>4. CASE \E r \in Reports : BeginRollback(w, r)
    BY <2>4 DEF BeginRollback, gateVars
  <2>5. CASE RollbackStep(w)
    BY <2>5, <1>r, <1>f DEF RollbackStep, gateVars
  <2>. QED  BY <1>1, <2>1, <2>2, <2>3, <2>4, <2>5 DEF ResponseStep
<1>2. ASSUME NEW r \in Reports, Detect(r) \/ DetectRaises(r)
      PROVE  trail \subseteq trail' /\ (auditFailures' = auditFailures \/ auditFailures' = auditFailures + 1)
  BY <1>2, <1>r, <1>f DEF Detect, DetectRaises
<1>3. CASE World /\ UNCHANGED gateVars
  BY <1>3 DEF gateVars
<1>4. CASE ResponseRestart \/ UNCHANGED vars
  BY <1>4 DEF ResponseRestart, vars, gateVars
<1>. QED  BY <1>1, <1>2, <1>3, <1>4 DEF ResponseNext
-----------------------------------------------------------------------------
(***************************************************************************)
(* Accountability.  An action goes ahead once it is APPROVED, and a worker *)
(* that has found it so goes on even if another one changes the status: as *)
(* long as no audit write has failed, its approval is on record or the     *)
(* worker that approved it is about to record it.                          *)
(***************************************************************************)
Ahead == {"apply", "applying", "executed", "failed"}

Recording(a) == \E w \in Callers : wpc[w] = "record" /\ a \in job[w]

GoesAhead(a) ==
  \/ status[a] \in {"APPROVED", "EXECUTED"}
  \/ \E w \in Callers : wpc[w] \in Ahead /\ a \in job[w]

AccountInv ==
  auditFailures = 0 => \A a \in Actions : GoesAhead(a) => OnRecord(a) \/ Recording(a)

\* It is enough that no action newly goes ahead without one or the other,
\* and that the worker recording an approval leaves it on record.
LEMMA AccountKept ==
  ASSUME ResponseTypeOK, AccountInv, [ResponseNext]_vars,
         auditFailures' = 0 =>
           \A a \in Actions : GoesAhead(a)' => OnRecord(a)' \/ Recording(a)' \/ (GoesAhead(a) /\ ~Recording(a))
  PROVE  AccountInv'
<1>1. trail \subseteq trail' /\ (auditFailures' = auditFailures \/ auditFailures' = auditFailures + 1)
  BY TrailGrows
<1>2. auditFailures' = 0 => auditFailures = 0
  BY <1>1 DEF ResponseTypeOK
<1>3. \A a \in Actions : OnRecord(a) => OnRecord(a)'
  BY <1>1 DEF OnRecord
<1>. QED  BY <1>2, <1>3 DEF AccountInv

LEMMA AccountWorkerStep ==
  ASSUME ResponseTypeOK, AccountInv, NEW w \in Callers, ResponseStep(w)
  PROVE  AccountInv'
<1>t. /\ wpc \in [Callers -> GateSteps] /\ job \in [Callers -> SUBSET Actions]
      /\ status \in [Actions -> Statuses] /\ auditFailures \in Nat
  BY DEF ResponseTypeOK, GateSteps
<1>o. \A v \in Callers : v # w => wpc'[v] = wpc[v] /\ job'[v] = job[v]
  BY OthersWait
<1>n. [ResponseNext]_vars
  BY DEF ResponseNext
<1>0. ASSUME auditFailures' = 0 =>
               \A a \in Actions :
                 /\ status'[a] \in {"APPROVED", "EXECUTED"} \/ (wpc'[w] \in Ahead /\ a \in job'[w])
                      => GoesAhead(a) \/ (wpc'[w] = "record" /\ a \in job'[w])
                 /\ wpc[w] = "record" /\ a \in job[w]
                      => OnRecord(a)' \/ (wpc'[w] = "record" /\ a \in job'[w])
      PROVE  AccountInv'
  <2>1. ASSUME auditFailures' = 0, NEW a \in Actions, GoesAhead(a)', ~OnRecord(a)', ~Recording(a)'
        PROVE  GoesAhead(a) /\ ~Recording(a)
    <3>1. ~(wpc'[w] = "record" /\ a \in job'[w])
      BY <2>1 DEF Recording
    <3>2. ~Recording(a)
      BY <1>0, <1>o, <2>1, <3>1 DEF Recording
    <3>3. GoesAhead(a)
      BY <1>0, <1>o, <2>1, <3>1 DEF GoesAhead
    <3>. QED  BY <3>2, <3>3
  <2>. QED  BY <1>n, <2>1, AccountKept
<1>1. ASSUME NEW b \in Actions, BeginApprove(w, b) \/ BeginReject(w, b) PROVE AccountInv'
  <2>1. wpc[w] = "idle" /\ status' = status /\ wpc'[w] \in {"approve", "check", "reject"}
    BY <1>1, <1>t DEF BeginApprove, BeginReject, Idle, Goto
  <2>. QED  BY <2>1, <1>0 DEF GoesAhead, Ahead
<1>2. CASE Approve(w)
  <2>1. wpc[w] = "approve" /\ wpc'[w] = "record" /\ job'[w] = job[w]
    BY <1>2, <1>t DEF Approve, Goto
  <2>2. \A a \in Actions : a \notin job[w] => status'[a] = status[a]
    BY <1>2 DEF Approve, SetStatus
  <2>. QED  BY <2>1, <2>2, <1>0 DEF GoesAhead, Ahead
<1>3. CASE RecordApproval(w)
  <2>1. wpc'[w] = "check" /\ status' = status
    BY <1>3, <1>t DEF RecordApproval, Goto
  <2>2. \A a \in job[w] : OnRecord(a)'
    BY <1>3 DEF RecordApproval, Recorded, ToRecord, OnRecord
  <2>. QED  BY <2>1, <2>2, <1>0 DEF GoesAhead, Ahead
<1>4. CASE RecordApprovalRaises(w)
  <2>1. auditFailures' # 0
    BY <1>4, <1>t DEF RecordApprovalRaises, RecordRaises
  <2>. QED  BY <2>1, <1>0
<1>5. CASE Check(w)
  <2>1. wpc[w] = "check" /\ status' = status
    BY <1>5 DEF Check
  <2>2. CASE MayRun(w) /\ Goto(w, "apply") /\ UNCHANGED job
    <3>1. \A a \in job[w] : GoesAhead(a)
      BY <2>2 DEF MayRun, GoesAhead
    <3>. QED  BY <2>1, <2>2, <3>1, <1>0 DEF GoesAhead
  <2>3. CASE Leave(w)
    <3>1. wpc'[w] = "idle"
      BY <2>3, <1>t DEF Leave
    <3>. QED  BY <2>1, <3>1, <1>0 DEF GoesAhead, Ahead
  <2>. QED  BY <1>5, <2>2, <2>3 DEF Check
<1>6. CASE BeginApply(w) \/ BeginApplyRaises(w) \/ Applying(w)
  <2>1. wpc[w] \in Ahead /\ wpc[w] # "record" /\ job' = job /\ status' = status
    BY <1>6 DEF BeginApply, BeginApplyRaises, Applying, Ahead
  <2>. QED  BY <2>1, <1>0 DEF GoesAhead
<1>7. CASE MarkExecuted(w) \/ MarkFailed(w) \/ Reject(w)
  <2>1. wpc'[w] = "idle" /\ wpc[w] \in {"executed", "failed", "reject"}
    BY <1>7, <1>t DEF MarkExecuted, MarkFailed, Reject, Settle, Leave
  <2>2. \A a \in Actions : status'[a] \in {"APPROVED", "EXECUTED"} =>
          status[a] \in {"APPROVED", "EXECUTED"} \/ (wpc[w] = "executed" /\ a \in job[w])
    BY <1>7 DEF MarkExecuted, MarkFailed, Reject, Settle, SetStatus
  <2>. QED  BY <2>1, <2>2, <1>0 DEF GoesAhead, Ahead
<1>8. CASE (\E r \in Reports : BeginRollback(w, r)) \/ RollbackStep(w)
  <2>1. UNCHANGED <<status, wpc, job>>
    BY <1>8 DEF BeginRollback, RollbackStep, gateVars
  <2>2. \A a \in Actions : GoesAhead(a)' => GoesAhead(a)
    BY <2>1 DEF GoesAhead
  <2>3. \A a \in Actions : Recording(a) => Recording(a)'
    BY <2>1 DEF Recording
  <2>. QED  BY <1>n, <2>2, <2>3, AccountKept
<1>. QED  BY <1>1, <1>2, <1>3, <1>4, <1>5, <1>6, <1>7, <1>8 DEF ResponseStep

LEMMA AccountStep ==
  ASSUME ResponseTypeOK, AccountInv, [ResponseNext]_vars
  PROVE  AccountInv'
<1>t. status \in [Actions -> Statuses] /\ auditFailures \in Nat
  BY DEF ResponseTypeOK
<1>0. ASSUME UNCHANGED <<wpc, job>>,
             \A a \in Actions : status'[a] \in {"APPROVED", "EXECUTED"} => GoesAhead(a) \/ OnRecord(a)'
      PROVE  AccountInv'
  <2>1. \A a \in Actions : GoesAhead(a)' => GoesAhead(a) \/ OnRecord(a)'
    BY <1>0 DEF GoesAhead
  <2>2. \A a \in Actions : Recording(a) => Recording(a)'
    BY <1>0 DEF Recording
  <2>. QED  BY <2>1, <2>2, AccountKept
<1>1. ASSUME NEW r \in Reports, Detect(r) PROVE AccountInv'
  <2>1. ASSUME NEW a \in Actions, status'[a] \in {"APPROVED", "EXECUTED"}
        PROVE  GoesAhead(a) \/ OnRecord(a)'
    <3>1. CASE a \in OfReport(r)
      <4>1. AutoApproved
        BY <1>1, <2>1, <3>1 DEF Detect
      <4>2. OnRecord(a)'
        BY <1>1, <3>1, <4>1 DEF Detect, Recorded, OnRecord
      <4>. QED  BY <4>2
    <3>2. CASE a \notin OfReport(r)
      BY <1>1, <2>1, <3>2 DEF Detect, GoesAhead
    <3>. QED  BY <3>1, <3>2
  <2>2. UNCHANGED <<wpc, job>>
    BY <1>1 DEF Detect
  <2>. QED  BY <2>1, <2>2, <1>0
<1>2. ASSUME NEW r \in Reports, DetectRaises(r) PROVE AccountInv'
  BY <1>0, <1>2 DEF DetectRaises, GoesAhead
<1>3. CASE \E w \in Callers : ResponseStep(w)
  BY <1>3, AccountWorkerStep
<1>4. CASE World /\ UNCHANGED gateVars
  BY <1>0, <1>4 DEF gateVars, GoesAhead
<1>5. CASE ResponseRestart
  <2>1. \A a \in Actions : ~GoesAhead(a)'
    BY <1>5 DEF ResponseRestart, GoesAhead, Ahead
  <2>. QED  BY <2>1 DEF AccountInv
<1>6. CASE UNCHANGED vars
  BY <1>0, <1>6 DEF vars, gateVars, GoesAhead
<1>. QED  BY <1>1, <1>2, <1>3, <1>4, <1>5, <1>6 DEF ResponseNext

\* Whichever of the racing requests executes an action, the approval is on
\* record once the request that approved it has got there.
THEOREM ApprovalIsRecorded == ResponseSpec => []ApprovalRecorded
<1>1. ResponseInit => ResponseTypeOK /\ AccountInv
  <2>. SUFFICES ASSUME ResponseInit PROVE AccountInv
    BY ResponseInitType
  <2>1. \A a \in Actions : ~GoesAhead(a)
    BY DEF ResponseInit, GoesAhead, Ahead
  <2>. QED  BY <2>1 DEF AccountInv
<1>2. ResponseTypeOK /\ AccountInv /\ [ResponseNext]_vars => ResponseTypeOK' /\ AccountInv'
  BY ResponseKeepsTypes, AccountStep
<1>3. AccountInv => ApprovalRecorded
  BY DEF AccountInv, ApprovalRecorded, GoesAhead, Recording
<1>. QED  BY <1>1, <1>2, <1>3, PTL DEF ResponseSpec
-----------------------------------------------------------------------------
(***************************************************************************)
(* Undoing.  A worker holds one action, and while it applies that one, or  *)
(* removes a handle, it has that one handle in its hands.                  *)
(***************************************************************************)
JobInv ==
  \A w \in Callers :
    /\ wpc[w] # "idle" => \E a \in Actions : job[w] = {a}
    /\ wpc[w] = "applying" =>
         cpc[w] \in {"append", "persist"} /\ \E e \in Entry : work[w] = {e} /\ job[w] = {e.action}
    /\ cpc[w] = "remove" => \E e \in Entry : work[w] = {e}

\* There is a handle for the action, or the trail accounts for its loss.
Undoable(a) ==
  \/ \E e \in entries : e.action = a
  \/ [event |-> "rollback", action |-> a] \in trail
  \/ auditFailures > 0

UndoInv ==
  /\ \A a \in Actions : status[a] = "EXECUTED" => Undoable(a)
  /\ \A w \in Callers :
       wpc[w] = "executed" \/ (wpc[w] = "applying" /\ cpc[w] = "persist") =>
         \A a \in job[w] : Undoable(a)

\* What a worker's step does to the containment manager's callers.
LEMMA HandsOf ==
  ASSUME TypeOK, NEW c \in Callers
  PROVE  /\ \A a \in Actions : Apply(c, a) =>
              /\ cpc' = [cpc EXCEPT ![c] = "append"]
              /\ \E e \in Entry : e.action = a /\ work' = [work EXCEPT ![c] = {e}]
         /\ \A a \in Actions : ApplyRaises(c, a) => UNCHANGED <<cpc, work>>
         /\ AppendEntry(c) => cpc[c] = "append" /\ cpc' = [cpc EXCEPT ![c] = "persist"] /\ UNCHANGED work
         /\ PersistEntry(c) \/ PersistRaises(c) =>
              cpc[c] = "persist" /\ cpc' = [cpc EXCEPT ![c] = "idle"] /\ work' = [work EXCEPT ![c] = {}]
         /\ \A r \in Reports : StartRollback(c, r) =>
              cpc[c] = "idle" /\ cpc' = [cpc EXCEPT ![c] = "undo"] /\ work' = [work EXCEPT ![c] = {}]
         /\ \A e \in todo[c] : Undo(c, e) =>
              cpc[c] = "undo" /\ cpc' = [cpc EXCEPT ![c] = "remove"] /\ e \in Entry /\ work' = [work EXCEPT ![c] = {e}]
         /\ (\E e \in todo[c] : UndoRaises(c, e)) \/ RemoveEntry(c) \/ RemoveRaises(c) =>
              /\ cpc[c] \in {"undo", "remove"}
              /\ \E step \in {"idle", "undo"} : cpc' = [cpc EXCEPT ![c] = step]
              /\ work' = [work EXCEPT ![c] = {}]
<1>t. work \in [Callers -> SUBSET Entry] /\ todo \in [Callers -> SUBSET Entry] /\ lastId \in Nat /\ clock \in Nat
  BY DEF TypeOK
<1>1. ASSUME NEW a \in Actions, Apply(c, a)
      PROVE  /\ cpc' = [cpc EXCEPT ![c] = "append"]
             /\ \E e \in Entry : e.action = a /\ work' = [work EXCEPT ![c] = {e}]
  <2> DEFINE e == [id |-> lastId + 1, action |-> a, place |-> Place(a)]
  <2>1. e \in Entry /\ e.action = a
    BY <1>t DEF Entry, Place
  <2>. QED  BY <1>1, <2>1 DEF Apply, Handles
<1>2. ASSUME NEW a \in Actions, ApplyRaises(c, a) PROVE UNCHANGED <<cpc, work>>
  BY <1>2 DEF ApplyRaises, callers
<1>3. ASSUME AppendEntry(c)
      PROVE  cpc[c] = "append" /\ cpc' = [cpc EXCEPT ![c] = "persist"] /\ UNCHANGED work
  BY <1>3, <1>t DEF AppendEntry, Handles
<1>4. ASSUME PersistEntry(c) \/ PersistRaises(c)
      PROVE  cpc[c] = "persist" /\ cpc' = [cpc EXCEPT ![c] = "idle"] /\ work' = [work EXCEPT ![c] = {}]
  BY <1>4 DEF PersistEntry, PersistRaises, Handles
<1>5. ASSUME NEW r \in Reports, StartRollback(c, r)
      PROVE  cpc[c] = "idle" /\ cpc' = [cpc EXCEPT ![c] = "undo"] /\ work' = [work EXCEPT ![c] = {}]
  BY <1>5 DEF StartRollback, Handles
<1>6. ASSUME NEW e \in todo[c], Undo(c, e)
      PROVE  cpc[c] = "undo" /\ cpc' = [cpc EXCEPT ![c] = "remove"] /\ e \in Entry /\ work' = [work EXCEPT ![c] = {e}]
  BY <1>6, <1>t DEF Undo, Handles
<1>7. ASSUME (\E e \in todo[c] : UndoRaises(c, e)) \/ RemoveEntry(c) \/ RemoveRaises(c)
      PROVE  /\ cpc[c] \in {"undo", "remove"}
             /\ \E step \in {"idle", "undo"} : cpc' = [cpc EXCEPT ![c] = step]
             /\ work' = [work EXCEPT ![c] = {}]
  <2>1. ASSUME NEW rest, Advance(c, rest)
        PROVE  /\ \E step \in {"idle", "undo"} : cpc' = [cpc EXCEPT ![c] = step]
               /\ work' = [work EXCEPT ![c] = {}]
    BY <2>1 DEF Advance, Handles
  <2>2. ASSUME NEW e \in todo[c], UndoRaises(c, e)
        PROVE  cpc[c] = "undo" /\ Advance(c, todo[c] \ {e})
    BY <2>2 DEF UndoRaises
  <2>3. RemoveEntry(c) => cpc[c] = "remove" /\ Advance(c, todo[c] \ work[c])
    BY DEF RemoveEntry
  <2>4. CASE RemoveRaises(c)
    BY <2>4 DEF RemoveRaises, Handles
  <2>. QED  BY <1>7, <2>1, <2>2, <2>3, <2>4
<1>. QED  BY <1>1, <1>2, <1>3, <1>4, <1>5, <1>6, <1>7

LEMMA JobWorkerStep ==
  ASSUME ResponseTypeOK, JobInv, NEW w \in Callers, ResponseStep(w)
  PROVE  JobInv'
<1>t. /\ wpc \in [Callers -> GateSteps] /\ job \in [Callers -> SUBSET Actions]
      /\ TypeOK /\ work \in [Callers -> SUBSET Entry] /\ job[w] \subseteq Actions
      /\ cpc \in [Callers -> {"idle", "append", "persist", "undo", "remove"}]
  BY DEF ResponseTypeOK, GateSteps, TypeOK
<1>0. ASSUME \A v \in Callers : v # w => cpc'[v] = cpc[v] /\ work'[v] = work[v],
             wpc'[w] # "idle" => \E a \in Actions : job'[w] = {a},
             wpc'[w] = "applying" =>
               cpc'[w] \in {"append", "persist"} /\ \E e \in Entry : work'[w] = {e} /\ job'[w] = {e.action},
             cpc'[w] = "remove" => \E e \in Entry : work'[w] = {e}
      PROVE  JobInv'
  BY <1>0, OthersWait DEF JobInv
<1>i. /\ wpc[w] # "idle" => \E a \in Actions : job[w] = {a}
      /\ wpc[w] = "applying" =>
           cpc[w] \in {"append", "persist"} /\ \E e \in Entry : work[w] = {e} /\ job[w] = {e.action}
      /\ cpc[w] = "remove" => \E e \in Entry : work[w] = {e}
  BY DEF JobInv
<1>u. ASSUME UNCHANGED <<cpc, work>>
      PROVE  \A v \in Callers : cpc'[v] = cpc[v] /\ work'[v] = work[v]
  BY <1>u
<1>1. ASSUME NEW a \in Actions, BeginApprove(w, a) \/ BeginReject(w, a) PROVE JobInv'
  <2>1. UNCHANGED <<cpc, work>> /\ job'[w] = {a} /\ wpc'[w] \in {"approve", "check", "reject"}
    BY <1>1, <1>t DEF BeginApprove, BeginReject, Goto, containmentVars, callers
  <2>. QED  BY <2>1, <1>0, <1>i, <1>u
<1>2. CASE Approve(w) \/ RecordApproval(w) \/ RecordApprovalRaises(w) \/ Check(w)
           \/ MarkExecuted(w) \/ MarkFailed(w) \/ Reject(w)
  <2>1. UNCHANGED <<cpc, work>>
    BY <1>2 DEF Approve, RecordApproval, RecordApprovalRaises, Check, MarkExecuted, MarkFailed, Reject, Settle,
       containmentVars, callers
  <2>2. wpc[w] # "idle"
    BY <1>2 DEF Approve, RecordApproval, RecordApprovalRaises, Check, MarkExecuted, MarkFailed, Reject, Settle
  <2>3. wpc'[w] = "idle" \/ (wpc'[w] \in {"record", "check", "apply"} /\ job'[w] = job[w])
    BY <1>2, <1>t DEF Approve, RecordApproval, RecordApprovalRaises, Check, MarkExecuted, MarkFailed, Reject, Settle,
       Goto, Leave
  <2>. QED  BY <2>1, <2>2, <2>3, <1>0, <1>i, <1>u
<1>3. CASE BeginApply(w)
  <2>1. PICK a \in job[w] : Apply(w, a)
    BY <1>3 DEF BeginApply
  <2>2. wpc[w] # "idle" /\ wpc'[w] = "applying" /\ job' = job /\ a \in Actions
    BY <1>3, <1>t DEF BeginApply, Goto
  <2>3. PICK e \in Entry : e.action = a /\ work' = [work EXCEPT ![w] = {e}]
    BY <2>1, <2>2, <1>t, HandsOf
  <2>4. cpc' = [cpc EXCEPT ![w] = "append"]
    BY <2>1, <2>2, <1>t, HandsOf
  <2>5. job[w] = {a}
    BY <1>i, <2>1, <2>2
  <2>. QED  BY <2>2, <2>3, <2>4, <2>5, <1>0, <1>t
<1>4. CASE BeginApplyRaises(w)
  <2>1. PICK a \in job[w] : ApplyRaises(w, a)
    BY <1>4 DEF BeginApplyRaises
  <2>2. wpc[w] # "idle" /\ wpc'[w] = "failed" /\ job' = job /\ UNCHANGED <<cpc, work>>
    BY <1>4, <1>t, <2>1, HandsOf DEF BeginApplyRaises, Goto
  <2>. QED  BY <2>2, <1>0, <1>i, <1>u
<1>5. CASE Applying(w)
  <2>1. wpc[w] = "applying" /\ job' = job
    BY <1>5 DEF Applying
  <2>2. CASE AppendEntry(w) /\ UNCHANGED wpc
    BY <2>1, <2>2, <1>0, <1>i, <1>t, HandsOf
  <2>3. CASE PersistEntry(w) \/ PersistRaises(w)
    <3>1. cpc' = [cpc EXCEPT ![w] = "idle"] /\ work' = [work EXCEPT ![w] = {}]
      BY <2>3, <1>t, HandsOf
    <3>2. wpc'[w] \in {"executed", "failed"}
      BY <1>5, <1>t, <2>3 DEF Applying, AppendEntry, PersistEntry, PersistRaises, Goto
    <3>. QED  BY <2>1, <3>1, <3>2, <1>0, <1>i, <1>t
  <2>. QED  BY <1>5, <2>2, <2>3 DEF Applying
<1>6. ASSUME NEW r \in Reports, BeginRollback(w, r) PROVE JobInv'
  <2>1. StartRollback(w, r) /\ UNCHANGED <<wpc, job>> /\ wpc[w] = "idle"
    BY <1>6 DEF BeginRollback, gateVars, Idle
  <2>2. cpc' = [cpc EXCEPT ![w] = "undo"] /\ work' = [work EXCEPT ![w] = {}]
    BY <2>1, <1>t, HandsOf
  <2>. QED  BY <2>1, <2>2, <1>0, <1>t
<1>7. CASE RollbackStep(w)
  <2>1. UNCHANGED <<wpc, job>>
    BY <1>7 DEF RollbackStep, gateVars
  <2>2. CASE \E e \in todo[w] : Undo(w, e)
    <3>1. PICK e \in Entry : cpc[w] = "undo" /\ cpc' = [cpc EXCEPT ![w] = "remove"] /\ work' = [work EXCEPT ![w] = {e}]
      BY <2>2, <1>t, HandsOf
    <3>. QED  BY <2>1, <3>1, <1>0, <1>i, <1>t
  <2>3. CASE (\E e \in todo[w] : UndoRaises(w, e)) \/ RemoveEntry(w) \/ RemoveRaises(w)
    <3>1. PICK step \in {"idle", "undo"} : cpc' = [cpc EXCEPT ![w] = step]
      BY <2>3, <1>t, HandsOf
    <3>2. cpc[w] \in {"undo", "remove"} /\ work' = [work EXCEPT ![w] = {}]
      BY <2>3, <1>t, HandsOf
    <3>. QED  BY <2>1, <3>1, <3>2, <1>0, <1>i, <1>t
  <2>. QED  BY <1>7, <2>2, <2>3 DEF RollbackStep
<1>. QED  BY <1>1, <1>2, <1>3, <1>4, <1>5, <1>6, <1>7 DEF ResponseStep

LEMMA JobStep ==
  ASSUME ResponseTypeOK, JobInv, [ResponseNext]_vars
  PROVE  JobInv'
<1>1. CASE \E w \in Callers : ResponseStep(w)
  BY <1>1, JobWorkerStep
<1>2. CASE (\E r \in Reports : Detect(r) \/ DetectRaises(r)) \/ (World /\ UNCHANGED gateVars) \/ UNCHANGED vars
  <2>1. UNCHANGED <<wpc, job, cpc, work>>
    BY <1>2 DEF Detect, DetectRaises, World, Tick, Vanish, Appear, gateVars, vars, containmentVars, callers
  <2>. QED  BY <2>1 DEF JobInv
<1>3. CASE ResponseRestart
  <2>1. \A w \in Callers : wpc'[w] = "idle" /\ cpc'[w] = "idle"
    BY <1>3 DEF ResponseRestart, Restart
  <2>. QED  BY <2>1 DEF JobInv
<1>. QED  BY <1>1, <1>2, <1>3 DEF ResponseNext

\* No request takes the handle of an action without a trace: who removes one
\* records it, or fails to and is counted; who comes second removes nothing.
LEMMA UndoableKept ==
  ASSUME ResponseTypeOK, JobInv, NEW w \in Callers, ResponseStep(w), NEW a, Undoable(a)
  PROVE  Undoable(a)'
<1>t. auditFailures \in Nat
  BY DEF ResponseTypeOK
<1>n. [ResponseNext]_vars
  BY DEF ResponseNext
<1>g. trail \subseteq trail' /\ (auditFailures' = auditFailures \/ auditFailures' = auditFailures + 1)
  BY <1>n, TrailGrows
<1>0. ASSUME entries \subseteq entries' PROVE Undoable(a)'
  BY <1>0, <1>g, <1>t DEF Undoable
<1>1. CASE \/ \E b \in Actions : BeginApprove(w, b) \/ BeginReject(w, b)
           \/ Approve(w) \/ RecordApproval(w) \/ RecordApprovalRaises(w) \/ Check(w)
           \/ MarkExecuted(w) \/ MarkFailed(w) \/ Reject(w)
  BY <1>0, <1>1 DEF BeginApprove, BeginReject, Approve, RecordApproval, RecordApprovalRaises, Check,
     MarkExecuted, MarkFailed, Reject, Settle, containmentVars
<1>2. CASE BeginApply(w) \/ BeginApplyRaises(w)
  BY <1>0, <1>2 DEF BeginApply, BeginApplyRaises, Apply, ApplyRaises
<1>3. CASE Applying(w)
  BY <1>0, <1>3 DEF Applying, AppendEntry, WithAppended, PersistEntry, PersistRaises
<1>4. CASE \E r \in Reports : BeginRollback(w, r)
  BY <1>0, <1>4 DEF BeginRollback, StartRollback
<1>5. CASE RollbackStep(w)
  <2>1. CASE \E e \in todo[w] : Undo(w, e) \/ UndoRaises(w, e)
    BY <1>0, <2>1 DEF Undo, UndoRaises
  <2>2. ASSUME cpc[w] = "remove" PROVE \E e \in Entry : work[w] = {e}
    BY <2>2 DEF JobInv
  <2>3. CASE RemoveEntry(w) /\ Recorded("rollback", {e.action : e \in work[w]})
    <3>1. PICK e \in Entry : work[w] = {e}
      BY <2>2, <2>3 DEF RemoveEntry
    <3>2. entries' = entries \ {e} /\ [event |-> "rollback", action |-> e.action] \in trail'
      BY <2>3, <3>1 DEF RemoveEntry, Recorded
    <3>3. CASE a = e.action
      BY <3>2, <3>3 DEF Undoable
    <3>4. CASE a # e.action
      BY <1>g, <1>t, <3>2, <3>4 DEF Undoable
    <3>. QED  BY <3>3, <3>4
  <2>4. CASE RemoveRaises(w) /\ IF InList(work[w]) THEN RecordRaises ELSE UNCHANGED <<trail, auditFailures>>
    <3>1. PICK e \in Entry : work[w] = {e}
      BY <2>2, <2>4 DEF RemoveRaises
    <3>2. CASE InList(work[w])
      <4>1. auditFailures' > 0
        BY <1>t, <2>4, <3>2 DEF RecordRaises
      <4>. QED  BY <4>1 DEF Undoable
    <3>3. CASE ~InList(work[w])
      <4>1. entries' = entries
        BY <2>4, <3>1, <3>3 DEF RemoveRaises, InList
      <4>. QED  BY <1>0, <4>1
    <3>. QED  BY <3>2, <3>3
  <2>. QED  BY <1>5, <2>1, <2>3, <2>4 DEF RollbackStep
<1>. QED  BY <1>1, <1>2, <1>3, <1>4, <1>5 DEF ResponseStep

LEMMA UndoWorkerStep ==
  ASSUME ResponseTypeOK, JobInv, UndoInv, NEW w \in Callers, ResponseStep(w)
  PROVE  UndoInv'
<1>t. /\ wpc \in [Callers -> GateSteps] /\ job \in [Callers -> SUBSET Actions]
      /\ status \in [Actions -> Statuses] /\ TypeOK /\ job[w] \subseteq Actions
      /\ cpc \in [Callers -> {"idle", "append", "persist", "undo", "remove"}]
      /\ work \in [Callers -> SUBSET Entry]
  BY DEF ResponseTypeOK, GateSteps, TypeOK
<1>k. \A a : Undoable(a) => Undoable(a)'
  BY UndoableKept
<1>i. /\ \A a \in Actions : status[a] = "EXECUTED" => Undoable(a)
      /\ \A v \in Callers : wpc[v] = "executed" \/ (wpc[v] = "applying" /\ cpc[v] = "persist") =>
           \A a \in job[v] : Undoable(a)
  BY DEF UndoInv
<1>0. ASSUME \A v \in Callers : v # w => cpc'[v] = cpc[v],
             \A a \in Actions : status'[a] = "EXECUTED" => Undoable(a),
             wpc'[w] = "executed" \/ (wpc'[w] = "applying" /\ cpc'[w] = "persist") =>
               \A a \in job'[w] : Undoable(a) \/ Undoable(a)'
      PROVE  UndoInv'
  <2>1. ASSUME NEW v \in Callers, v # w, wpc'[v] = "executed" \/ (wpc'[v] = "applying" /\ cpc'[v] = "persist")
        PROVE  \A a \in job'[v] : Undoable(a)'
    BY <1>0, <1>i, <1>k, <2>1, OthersWait
  <2>2. ASSUME wpc'[w] = "executed" \/ (wpc'[w] = "applying" /\ cpc'[w] = "persist")
        PROVE  \A a \in job'[w] : Undoable(a)'
    BY <1>0, <1>k, <2>2
  <2>3. \A a \in Actions : status'[a] = "EXECUTED" => Undoable(a)'
    BY <1>0, <1>k
  <2>. QED  BY <2>1, <2>2, <2>3 DEF UndoInv
<1>1. CASE \/ \E a \in Actions : BeginApprove(w, a) \/ BeginReject(w, a)
           \/ Approve(w) \/ RecordApproval(w) \/ RecordApprovalRaises(w) \/ Check(w)
  <2>1. wpc'[w] \in GateSteps \ {"executed", "applying"}
    BY <1>1, <1>t DEF BeginApprove, BeginReject, Approve, RecordApproval, RecordApprovalRaises, Check, Goto, Leave,
       GateSteps
  <2>2. UNCHANGED cpc
    BY <1>1 DEF BeginApprove, BeginReject, Approve, RecordApproval, RecordApprovalRaises, Check,
       containmentVars, callers
  <2>3. \A a \in Actions : status'[a] = "EXECUTED" => status[a] = "EXECUTED"
    BY <1>1 DEF BeginApprove, BeginReject, Approve, RecordApproval, RecordApprovalRaises, Check, SetStatus
  <2>. QED  BY <2>1, <2>2, <2>3, <1>0, <1>i
<1>2. CASE BeginApply(w)
  <2>1. PICK a \in job[w] : Apply(w, a)
    BY <1>2 DEF BeginApply
  <2>2. cpc' = [cpc EXCEPT ![w] = "append"] /\ UNCHANGED status /\ wpc'[w] = "applying"
    BY <1>2, <1>t, <2>1, HandsOf DEF BeginApply, Goto
  <2>. QED  BY <2>2, <1>0, <1>i, <1>t
<1>3. CASE BeginApplyRaises(w)
  <2>1. UNCHANGED <<cpc, status>> /\ wpc'[w] = "failed"
    BY <1>3, <1>t, HandsOf DEF BeginApplyRaises, Goto
  <2>. QED  BY <2>1, <1>0, <1>i
<1>4. CASE Applying(w)
  <2>1. wpc[w] = "applying" /\ UNCHANGED <<job, status>>
    BY <1>4 DEF Applying
  <2>2. PICK e \in Entry : work[w] = {e} /\ job[w] = {e.action}
    BY <2>1 DEF JobInv
  <2>3. CASE AppendEntry(w) /\ UNCHANGED wpc
    <3>1. cpc' = [cpc EXCEPT ![w] = "persist"] /\ e \in entries'
      BY <1>t, <2>2, <2>3, HandsOf DEF AppendEntry, WithAppended
    <3>2. \A a \in job'[w] : Undoable(a)'
      BY <2>1, <2>2, <3>1 DEF Undoable
    <3>. QED  BY <2>1, <3>1, <3>2, <1>0, <1>i, <1>t
  <2>4. CASE PersistEntry(w) \/ PersistRaises(w)
    <3>1. cpc[w] = "persist" /\ cpc' = [cpc EXCEPT ![w] = "idle"]
      BY <1>t, <2>4, HandsOf
    <3>2. \A a \in job'[w] : Undoable(a)
      BY <1>i, <2>1, <3>1
    <3>. QED  BY <2>1, <3>1, <3>2, <1>0, <1>i, <1>t
  <2>. QED  BY <1>4, <2>3, <2>4 DEF Applying
<1>5. CASE MarkExecuted(w) \/ MarkFailed(w) \/ Reject(w)
  <2>1. UNCHANGED cpc /\ wpc'[w] = "idle"
    BY <1>5, <1>t DEF MarkExecuted, MarkFailed, Reject, Settle, Leave, containmentVars, callers
  <2>2. \A a \in Actions : status'[a] = "EXECUTED" => status[a] = "EXECUTED" \/ (wpc[w] = "executed" /\ a \in job[w])
    BY <1>5 DEF MarkExecuted, MarkFailed, Reject, Settle, SetStatus
  <2>. QED  BY <2>1, <2>2, <1>0, <1>i
<1>6. CASE (\E r \in Reports : BeginRollback(w, r)) \/ RollbackStep(w)
  <2>1. UNCHANGED <<wpc, job, status>>
    BY <1>6 DEF BeginRollback, RollbackStep, gateVars
  <2>2. \A v \in Callers : cpc'[v] # cpc[v] => v = w /\ cpc'[w] # "persist"
    <3>1. ASSUME NEW r \in Reports, BeginRollback(w, r) PROVE cpc' = [cpc EXCEPT ![w] = "undo"]
      BY <3>1, <1>t, HandsOf DEF BeginRollback
    <3>2. CASE \E e \in todo[w] : Undo(w, e)
      <4>1. cpc' = [cpc EXCEPT ![w] = "remove"]
        BY <3>2, <1>t, HandsOf
      <4>. QED  BY <4>1, <1>t
    <3>3. CASE (\E e \in todo[w] : UndoRaises(w, e)) \/ RemoveEntry(w) \/ RemoveRaises(w)
      <4>1. PICK step \in {"idle", "undo"} : cpc' = [cpc EXCEPT ![w] = step]
        BY <3>3, <1>t, HandsOf
      <4>. QED  BY <4>1, <1>t
    <3>. QED  BY <1>6, <1>t, <3>1, <3>2, <3>3 DEF RollbackStep
  <2>. QED  BY <2>1, <2>2, <1>0, <1>i
<1>. QED  BY <1>1, <1>2, <1>3, <1>4, <1>5, <1>6 DEF ResponseStep

LEMMA UndoStep ==
  ASSUME ResponseTypeOK, JobInv, UndoInv, [ResponseNext]_vars
  PROVE  UndoInv'
<1>t. auditFailures \in Nat
  BY DEF ResponseTypeOK
<1>0. ASSUME UNCHANGED <<entries, cpc, wpc, job>>, \A a \in Actions : status'[a] = "EXECUTED" => status[a] = "EXECUTED"
      PROVE  UndoInv'
  <2>1. trail \subseteq trail' /\ (auditFailures' = auditFailures \/ auditFailures' = auditFailures + 1)
    BY TrailGrows
  <2>2. \A a : Undoable(a) => Undoable(a)'
    BY <1>0, <1>t, <2>1 DEF Undoable
  <2>. QED  BY <1>0, <2>2 DEF UndoInv
<1>1. CASE \E w \in Callers : ResponseStep(w)
  BY <1>1, UndoWorkerStep
<1>2. CASE \E r \in Reports : Detect(r) \/ DetectRaises(r)
  <2>1. UNCHANGED <<entries, cpc, wpc, job>>
    BY <1>2 DEF Detect, DetectRaises, containmentVars, callers
  <2>2. \A a \in Actions : status'[a] = "EXECUTED" => status[a] = "EXECUTED"
    BY <1>2 DEF Detect, DetectRaises
  <2>. QED  BY <1>0, <2>1, <2>2
<1>3. CASE (World /\ UNCHANGED gateVars) \/ UNCHANGED vars
  <2>1. UNCHANGED <<entries, cpc, wpc, job, status>>
    BY <1>3 DEF World, Tick, Vanish, Appear, gateVars, vars, containmentVars, callers
  <2>. QED  BY <1>0, <2>1
<1>4. CASE ResponseRestart
  <2>1. /\ \A w \in Callers : wpc'[w] = "idle"
        /\ \A a \in Actions : status'[a] # "EXECUTED"
    BY <1>4 DEF ResponseRestart
  <2>. QED  BY <2>1 DEF UndoInv
<1>. QED  BY <1>1, <1>2, <1>3, <1>4 DEF ResponseNext

\* An action shown as executed keeps its handle, or the trail says where it
\* went, however approvals and rollbacks of its report are interleaved.
THEOREM ExecutedStaysUndoable == ResponseSpec => []ExecutedCanBeUndone
<1>1. ResponseInit => ResponseTypeOK /\ JobInv /\ UndoInv
  <2>. SUFFICES ASSUME ResponseInit PROVE JobInv /\ UndoInv
    BY ResponseInitType
  <2>1. /\ \A w \in Callers : wpc[w] = "idle" /\ cpc[w] = "idle"
        /\ \A a \in Actions : status[a] = "RECOMMENDED"
    BY DEF ResponseInit, Init
  <2>. QED  BY <2>1 DEF JobInv, UndoInv
<1>2. ResponseTypeOK /\ JobInv /\ UndoInv /\ [ResponseNext]_vars => ResponseTypeOK' /\ JobInv' /\ UndoInv'
  BY ResponseKeepsTypes, JobStep, UndoStep
<1>3. UndoInv => ExecutedCanBeUndone
  BY DEF UndoInv, Undoable, ExecutedCanBeUndone
<1>. QED  BY <1>1, <1>2, <1>3, PTL DEF ResponseSpec
-----------------------------------------------------------------------------
(***************************************************************************)
(* The lifecycle, with one request at a time: what its worker believes of  *)
(* an action is then still so, an action in the list of reports has been   *)
(* through the gate, and one that was carried out is never waiting again.  *)
(***************************************************************************)
OneWorker == \A c, d \in Callers : c = d

Underway == {"applying", "executed", "failed"}

StageInv ==
  /\ \A a \in Actions : Listed(a.report) => status[a] # "RECOMMENDED"
  /\ \A w \in Callers : \A a \in job[w] :
       /\ status[a] # "RECOMMENDED"
       /\ wpc[w] \in {"approve", "reject"} => status[a] = "PENDING_APPROVAL"
       /\ wpc[w] \in {"record"} \cup Ahead => status[a] = "APPROVED"
  /\ \A a \in ran :
       /\ status[a] \notin {"RECOMMENDED", "PENDING_APPROVAL"}
       /\ status[a] = "APPROVED" => \E w \in Callers : a \in job[w] /\ wpc[w] \in Underway

\* Putting a report in the list adds no other.
LEMMA PublishedLists ==
  ASSUME reports \in Seq(Reports), NEW r \in Reports, NEW q,
         \E i \in DOMAIN Published(r) : Published(r)[i] = q
  PROVE  q = r \/ Listed(q)
<1>1. ASSUME NEW s \in Seq(Reports), \A i \in 1 .. Len(s) : Listed(s[i]),
             \E i \in DOMAIN Append(s, r) : Append(s, r)[i] = q
      PROVE  q = r \/ Listed(q)
  <2>1. PICK i \in DOMAIN Append(s, r) : Append(s, r)[i] = q
    BY <1>1
  <2>2. i \in 1 .. Len(s) + 1
    BY <2>1
  <2>3. CASE i \in 1 .. Len(s)
    BY <1>1, <2>1, <2>3
  <2>4. CASE i = Len(s) + 1
    BY <2>1, <2>4
  <2>. QED  BY <2>2, <2>3, <2>4
<1>2. CASE Len(reports) < MaxReports
  <2>1. \A i \in 1 .. Len(reports) : Listed(reports[i])
    BY DEF Listed
  <2>. QED  BY <1>1, <1>2, <2>1 DEF Published
<1>3. CASE ~(Len(reports) < MaxReports) /\ reports # <<>>
  <2>1. Tail(reports) \in Seq(Reports) /\ Len(Tail(reports)) = Len(reports) - 1
    BY <1>3
  <2>2. \A i \in 1 .. Len(Tail(reports)) : Listed(Tail(reports)[i])
    <3>. SUFFICES ASSUME NEW i \in 1 .. Len(Tail(reports)) PROVE Listed(Tail(reports)[i])
      OBVIOUS
    <3>1. Tail(reports)[i] = reports[i + 1] /\ i + 1 \in DOMAIN reports
      BY <1>3, <2>1
    <3>. QED  BY <3>1 DEF Listed
  <2>. QED  BY <1>1, <1>3, <2>1, <2>2 DEF Published
<1>4. CASE ~(Len(reports) < MaxReports) /\ reports = <<>>
  BY <1>4, ReportsAssumption
<1>. QED  BY <1>2, <1>3, <1>4

LEMMA StageWorkerStep ==
  ASSUME OneWorker, ResponseTypeOK, StageInv, NEW w \in Callers, ResponseStep(w)
  PROVE  StageInv'
<1>t. /\ wpc \in [Callers -> GateSteps] /\ job \in [Callers -> SUBSET Actions]
      /\ status \in [Actions -> Statuses] /\ job[w] \subseteq Actions /\ ran \subseteq Actions
  BY DEF ResponseTypeOK, GateSteps
<1>o. \A v \in Callers : v = w
  BY DEF OneWorker
<1>i. /\ \A a \in Actions : Listed(a.report) => status[a] # "RECOMMENDED"
      /\ \A a \in job[w] :
           /\ status[a] # "RECOMMENDED"
           /\ wpc[w] \in {"approve", "reject"} => status[a] = "PENDING_APPROVAL"
           /\ wpc[w] \in {"record"} \cup Ahead => status[a] = "APPROVED"
      /\ \A a \in ran :
           /\ status[a] \notin {"RECOMMENDED", "PENDING_APPROVAL"}
           /\ status[a] = "APPROVED" => a \in job[w] /\ wpc[w] \in Underway
  BY <1>o DEF StageInv
<1>0. ASSUME UNCHANGED reports,
             \A a \in Actions : status[a] # "RECOMMENDED" => status'[a] # "RECOMMENDED",
             \A a \in job'[w] :
               /\ status'[a] # "RECOMMENDED"
               /\ wpc'[w] \in {"approve", "reject"} => status'[a] = "PENDING_APPROVAL"
               /\ wpc'[w] \in {"record"} \cup Ahead => status'[a] = "APPROVED",
             \A a \in ran' :
               /\ status'[a] \notin {"RECOMMENDED", "PENDING_APPROVAL"}
               /\ status'[a] = "APPROVED" => a \in job'[w] /\ wpc'[w] \in Underway
      PROVE  StageInv'
  <2>1. \A a \in Actions : Listed(a.report)' => Listed(a.report)
    BY <1>0 DEF Listed
  <2>. QED  BY <1>0, <1>i, <1>o, <2>1 DEF StageInv
<1>1. ASSUME NEW a \in Actions, BeginApprove(w, a) \/ BeginReject(w, a) PROVE StageInv'
  <2>1. /\ UNCHANGED <<reports, status, ran>> /\ wpc[w] = "idle"
        /\ job'[w] = {a} /\ Listed(a.report)
        /\ \/ wpc'[w] = "check"
           \/ wpc'[w] \in {"approve", "reject"} /\ status[a] = "PENDING_APPROVAL"
    BY <1>1, <1>t DEF BeginApprove, BeginReject, Goto, Idle
  <2>. QED  BY <2>1, <1>0, <1>i DEF Ahead, Underway
<1>2. CASE Approve(w)
  <2>1. /\ UNCHANGED <<reports, ran, job>> /\ wpc[w] = "approve" /\ wpc'[w] = "record"
        /\ status' = [a \in Actions |-> IF a \in job[w] THEN "APPROVED" ELSE status[a]]
    BY <1>2, <1>t DEF Approve, Goto, SetStatus
  <2>2. \A a \in ran : a \notin job[w]
    BY <2>1, <1>i
  <2>3. \A a \in job[w] : status'[a] = "APPROVED"
    BY <2>1, <1>t
  <2>4. \A a \in ran : status'[a] = status[a]
    BY <2>1, <2>2, <1>t
  <2>. QED  BY <2>1, <2>2, <2>3, <2>4, <1>0, <1>i DEF Ahead, Underway
<1>3. CASE RecordApproval(w)
  <2>1. UNCHANGED <<reports, status, ran, job>> /\ wpc[w] = "record" /\ wpc'[w] = "check"
    BY <1>3, <1>t DEF RecordApproval, Goto
  <2>. QED  BY <2>1, <1>0, <1>i DEF Ahead, Underway
<1>4. CASE RecordApprovalRaises(w) \/ (Check(w) /\ Leave(w))
  <2>1. /\ UNCHANGED <<reports, status, ran>> /\ wpc[w] \in {"record", "check"}
        /\ job'[w] = {} /\ wpc'[w] = "idle"
    BY <1>4, <1>t DEF RecordApprovalRaises, Check, Leave, NoJob
  <2>. QED  BY <2>1, <1>0, <1>i DEF Ahead, Underway
<1>5. CASE Check(w) /\ MayRun(w) /\ Goto(w, "apply") /\ UNCHANGED job
  <2>1. UNCHANGED <<reports, status, ran, job>> /\ wpc[w] = "check" /\ wpc'[w] = "apply"
    BY <1>5, <1>t DEF Check, Goto
  <2>2. \A a \in job[w] : status[a] = "APPROVED"
    BY <1>5 DEF MayRun
  <2>. QED  BY <2>1, <2>2, <1>0, <1>i DEF Ahead, Underway
<1>6. CASE BeginApply(w) \/ BeginApplyRaises(w)
  <2>1. PICK a \in job[w] : ran' = ran \cup {a}
    BY <1>6 DEF BeginApply, BeginApplyRaises
  <2>2. UNCHANGED <<reports, status, job>> /\ wpc[w] = "apply" /\ wpc'[w] \in {"applying", "failed"}
    BY <1>6, <1>t DEF BeginApply, BeginApplyRaises, Goto
  <2>. QED  BY <2>1, <2>2, <1>0, <1>i DEF Ahead, Underway
<1>7. CASE Applying(w)
  <2>1. UNCHANGED <<reports, status, ran, job>> /\ wpc[w] = "applying" /\ wpc'[w] \in Underway
    BY <1>7, <1>t DEF Applying, Goto, Underway
  <2>. QED  BY <2>1, <1>0, <1>i DEF Ahead, Underway
<1>8. CASE MarkExecuted(w) \/ MarkFailed(w) \/ Reject(w)
  <2>1. PICK outcome \in {"EXECUTED", "FAILED", "REJECTED"} :
          status' = [a \in Actions |-> IF a \in job[w] THEN outcome ELSE status[a]]
    BY <1>8 DEF MarkExecuted, MarkFailed, Reject, Settle, SetStatus
  <2>2. UNCHANGED <<reports, ran>> /\ job'[w] = {} /\ wpc'[w] = "idle"
    BY <1>8, <1>t DEF MarkExecuted, MarkFailed, Reject, Settle, Leave, NoJob
  <2>3. \A a \in ran : status'[a] \notin {"RECOMMENDED", "PENDING_APPROVAL", "APPROVED"}
    BY <2>1, <1>i, <1>t
  <2>. QED  BY <2>1, <2>2, <2>3, <1>0 DEF Ahead
<1>9. CASE (\E r \in Reports : BeginRollback(w, r)) \/ RollbackStep(w)
  <2>1. UNCHANGED <<reports, status, ran, wpc, job>>
    BY <1>9 DEF BeginRollback, RollbackStep, gateVars
  <2>. QED  BY <2>1, <1>0, <1>i
<1>. QED  BY <1>1, <1>2, <1>3, <1>4, <1>5, <1>6, <1>7, <1>8, <1>9 DEF ResponseStep, Check

LEMMA StageStep ==
  ASSUME OneWorker, ResponseTypeOK, StageInv, [ResponseNext]_vars
  PROVE  StageInv'
<1>t. status \in [Actions -> Statuses] /\ ran \subseteq Actions /\ reports \in Seq(Reports)
      /\ job \in [Callers -> SUBSET Actions]
  BY DEF ResponseTypeOK
<1>0. ASSUME UNCHANGED <<wpc, job, ran>>,
             \A a \in Actions : status[a] # "RECOMMENDED" => status'[a] = status[a],
             \A a \in Actions : Listed(a.report)' => Listed(a.report) \/ status'[a] # "RECOMMENDED"
      PROVE  StageInv'
  <2>1. \A a \in Actions : Listed(a.report)' => status'[a] # "RECOMMENDED"
    BY <1>0 DEF StageInv
  <2>2. \A w \in Callers : \A a \in job[w] : a \in Actions /\ status[a] # "RECOMMENDED"
    BY <1>t DEF StageInv
  <2>3. \A a \in ran : a \in Actions /\ status[a] # "RECOMMENDED"
    BY <1>t DEF StageInv
  <2>. QED  BY <1>0, <2>1, <2>2, <2>3 DEF StageInv
<1>1. ASSUME NEW r \in Reports, Detect(r) PROVE StageInv'
  <2>1. \A a \in OfReport(r) : status[a] = "RECOMMENDED"
    BY <1>1 DEF Detect, Unseen
  <2>2. \A a \in Actions : IF a \in OfReport(r) THEN status'[a] \in {"APPROVED", "PENDING_APPROVAL"}
                           ELSE status'[a] = status[a]
    BY <1>1 DEF Detect
  <2>3. \A a \in Actions : Listed(a.report)' => Listed(a.report) \/ status'[a] # "RECOMMENDED"
    <3>1. ASSUME NEW a \in Actions, Listed(a.report)' PROVE a.report = r \/ Listed(a.report)
      <4>1. reports' = Published(r)
        BY <1>1 DEF Detect
      <4>2. \E i \in DOMAIN Published(r) : Published(r)[i] = a.report
        BY <3>1, <4>1 DEF Listed
      <4>. QED  BY <1>t, <4>2, PublishedLists
    <3>2. \A a \in Actions : a.report = r => a \in OfReport(r)
      BY DEF OfReport
    <3>. QED  BY <2>2, <3>1, <3>2
  <2>4. UNCHANGED <<wpc, job, ran>>
    BY <1>1 DEF Detect
  <2>. QED  BY <1>0, <2>1, <2>2, <2>3, <2>4
<1>2. ASSUME NEW r \in Reports, DetectRaises(r) PROVE StageInv'
  <2>1. \A a \in OfReport(r) : status[a] = "RECOMMENDED"
    BY <1>2 DEF DetectRaises, Unseen
  <2>2. UNCHANGED <<wpc, job, ran, reports>>
    BY <1>2 DEF DetectRaises
  <2>3. \A a \in Actions : status'[a] = IF a \in OfReport(r) THEN "FORGOTTEN" ELSE status[a]
    BY <1>2 DEF DetectRaises
  <2>. QED  BY <1>0, <2>1, <2>2, <2>3 DEF Listed
<1>3. CASE \E w \in Callers : ResponseStep(w)
  BY <1>3, StageWorkerStep
<1>4. CASE (World /\ UNCHANGED gateVars) \/ UNCHANGED vars
  <2>1. UNCHANGED <<wpc, job, ran, reports, status>>
    BY <1>4 DEF gateVars, vars
  <2>. QED  BY <1>0, <2>1 DEF Listed
<1>5. CASE ResponseRestart
  <2>1. /\ reports' = <<>> /\ ran' = ran
        /\ \A w \in Callers : wpc'[w] = "idle" /\ job'[w] = {}
        /\ \A a \in Actions : status'[a] = IF status[a] = "RECOMMENDED" THEN "RECOMMENDED" ELSE "FORGOTTEN"
    BY <1>5 DEF ResponseRestart, NoJob
  <2>2. \A a \in Actions : ~Listed(a.report)'
    BY <2>1 DEF Listed
  <2>3. \A a \in ran : status'[a] = "FORGOTTEN"
    BY <2>1, <1>t DEF StageInv
  <2>. QED  BY <2>1, <2>2, <2>3 DEF StageInv
<1>. QED  BY <1>1, <1>2, <1>3, <1>4, <1>5 DEF ResponseNext

\* With one worker, an action is RUNNING while that one has it in hand.
LEMMA StageOfOne ==
  ASSUME OneWorker, NEW w \in Callers, NEW a \in Actions
  PROVE  /\ Stage(a) = IF status[a] = "APPROVED" /\ a \in job[w] /\ wpc[w] \in Underway
                       THEN "RUNNING" ELSE status[a]
         /\ Stage(a)' = IF status'[a] = "APPROVED" /\ a \in job'[w] /\ wpc'[w] \in Underway
                        THEN "RUNNING" ELSE status'[a]
BY DEF Stage, Underway, OneWorker

\* One action going from one stage to another, and no other moving, is a move.
LEMMA StageMoves ==
  ASSUME NEW a \in Actions, NEW from, NEW to, Stage(a) = from,
         \A b \in Actions : Stage(b)' = IF b = a THEN to ELSE Stage(b)
  PROVE  Lifecycle!Move(a, from, to)
BY DEF Lifecycle!Move

LEMMA LifecycleWorkerStep ==
  ASSUME OneWorker, ResponseTypeOK, JobInv, StageInv, NEW w \in Callers, ResponseStep(w)
  PROVE  Lifecycle!Next \/ UNCHANGED <<[a \in Actions |-> Stage(a)], ran>>
<1>t. /\ wpc \in [Callers -> GateSteps] /\ job \in [Callers -> SUBSET Actions]
      /\ status \in [Actions -> Statuses] /\ job[w] \subseteq Actions /\ ran \subseteq Actions
  BY DEF ResponseTypeOK, GateSteps
<1>i. /\ wpc[w] # "idle" => \E a \in Actions : job[w] = {a}
      /\ \A a \in job[w] :
           /\ wpc[w] \in {"approve", "reject"} => status[a] = "PENDING_APPROVAL"
           /\ wpc[w] \in {"record"} \cup Ahead => status[a] = "APPROVED"
      /\ \A a \in ran : status[a] = "APPROVED" => a \in job[w] /\ wpc[w] \in Underway
  BY DEF JobInv, StageInv, OneWorker
<1>s. \A a \in Actions :
        /\ Stage(a) = IF status[a] = "APPROVED" /\ a \in job[w] /\ wpc[w] \in Underway
                      THEN "RUNNING" ELSE status[a]
        /\ Stage(a)' = IF status'[a] = "APPROVED" /\ a \in job'[w] /\ wpc'[w] \in Underway
                       THEN "RUNNING" ELSE status'[a]
  BY StageOfOne
<1>0. ASSUME UNCHANGED ran, \A a \in Actions : Stage(a)' = Stage(a)
      PROVE  UNCHANGED <<[a \in Actions |-> Stage(a)], ran>>
  BY <1>0
<1>1. ASSUME NEW a \in Actions, BeginApprove(w, a) \/ BeginReject(w, a)
      PROVE  UNCHANGED <<[b \in Actions |-> Stage(b)], ran>>
  <2>1. UNCHANGED <<status, ran>> /\ wpc[w] = "idle" /\ wpc'[w] \in {"check", "approve", "reject"}
    BY <1>1, <1>t DEF BeginApprove, BeginReject, Goto, Idle
  <2>. QED  BY <2>1, <1>0, <1>s DEF Underway
<1>2. CASE Approve(w)
  <2>1. /\ ran' = ran /\ wpc[w] = "approve" /\ wpc'[w] = "record"
        /\ status' = [a \in Actions |-> IF a \in job[w] THEN "APPROVED" ELSE status[a]]
    BY <1>2, <1>t DEF Approve, Goto, SetStatus
  <2>2. PICK a \in Actions : job[w] = {a} /\ status[a] = "PENDING_APPROVAL"
    BY <1>i, <2>1
  <2>3. Stage(a) = "PENDING_APPROVAL" /\ \A b \in Actions : Stage(b)' = IF b = a THEN "APPROVED" ELSE Stage(b)
    BY <1>s, <2>1, <2>2 DEF Underway
  <2>4. Lifecycle!Decide(a)
    BY <2>1, <2>3, StageMoves DEF Lifecycle!Decide
  <2>. QED  BY <2>4 DEF Lifecycle!Next
<1>3. CASE RecordApproval(w) \/ RecordApprovalRaises(w) \/ Check(w)
  <2>1. /\ UNCHANGED <<status, ran>> /\ wpc[w] \in {"record", "check"}
        /\ wpc'[w] \in {"check", "apply", "idle"}
    BY <1>3, <1>t DEF RecordApproval, RecordApprovalRaises, Check, Goto, Leave
  <2>. QED  BY <2>1, <1>0, <1>s DEF Underway
<1>4. CASE BeginApply(w) \/ BeginApplyRaises(w)
  <2>1. /\ UNCHANGED <<status, job>> /\ wpc[w] = "apply" /\ wpc'[w] \in Underway
    BY <1>4, <1>t DEF BeginApply, BeginApplyRaises, Goto, Underway
  <2>2. PICK a \in Actions : job[w] = {a} /\ status[a] = "APPROVED" /\ a \notin ran
    BY <1>i, <2>1 DEF Ahead, Underway
  <2>3. ran' = ran \cup {a}
    BY <1>4, <2>2 DEF BeginApply, BeginApplyRaises
  <2>4. Stage(a) = "APPROVED" /\ \A b \in Actions : Stage(b)' = IF b = a THEN "RUNNING" ELSE Stage(b)
    BY <1>s, <2>1, <2>2 DEF Underway
  <2>5. Lifecycle!Run(a)
    BY <2>2, <2>3, <2>4, StageMoves DEF Lifecycle!Run
  <2>. QED  BY <2>5 DEF Lifecycle!Next
<1>5. CASE Applying(w)
  <2>1. UNCHANGED <<status, ran, job>> /\ wpc[w] = "applying" /\ wpc'[w] \in Underway
    BY <1>5, <1>t DEF Applying, Goto, Underway
  <2>. QED  BY <2>1, <1>0, <1>s DEF Underway
<1>6. ASSUME NEW step, NEW outcome \in {"EXECUTED", "FAILED", "REJECTED"}, NEW event,
             Settle(w, step, outcome, event), step # "idle"
      PROVE  \E a \in Actions :
               /\ job[w] = {a} /\ wpc[w] = step /\ ran' = ran
               /\ \A b \in Actions : Stage(b)' = IF b = a THEN outcome ELSE Stage(b)
  <2>1. /\ ran' = ran /\ wpc[w] = step /\ wpc'[w] = "idle"
        /\ status' = [a \in Actions |-> IF a \in job[w] THEN outcome ELSE status[a]]
    BY <1>6, <1>t DEF Settle, Leave, SetStatus
  <2>2. PICK a \in Actions : job[w] = {a}
    BY <1>i, <1>6, <2>1
  <2>3. \A b \in Actions : Stage(b)' = IF b = a THEN outcome ELSE Stage(b)
    BY <1>s, <2>1, <2>2 DEF Underway
  <2>. QED  BY <2>1, <2>2, <2>3
<1>7. CASE MarkExecuted(w)
  <2>1. PICK a \in Actions : /\ job[w] = {a} /\ wpc[w] = "executed" /\ ran' = ran
                             /\ \A b \in Actions : Stage(b)' = IF b = a THEN "EXECUTED" ELSE Stage(b)
    BY <1>6, <1>7 DEF MarkExecuted
  <2>2. Stage(a) = "RUNNING"
    BY <1>i, <1>s, <2>1 DEF Ahead, Underway
  <2>3. Lifecycle!Finish(a)
    BY <2>1, <2>2, StageMoves DEF Lifecycle!Finish
  <2>. QED  BY <2>3 DEF Lifecycle!Next
<1>8. CASE MarkFailed(w)
  <2>1. PICK a \in Actions : /\ job[w] = {a} /\ wpc[w] = "failed" /\ ran' = ran
                             /\ \A b \in Actions : Stage(b)' = IF b = a THEN "FAILED" ELSE Stage(b)
    BY <1>6, <1>8 DEF MarkFailed
  <2>2. Stage(a) = "RUNNING"
    BY <1>i, <1>s, <2>1 DEF Ahead, Underway
  <2>3. Lifecycle!Finish(a)
    BY <2>1, <2>2, StageMoves DEF Lifecycle!Finish
  <2>. QED  BY <2>3 DEF Lifecycle!Next
<1>9. CASE Reject(w)
  <2>1. PICK a \in Actions : /\ job[w] = {a} /\ wpc[w] = "reject" /\ ran' = ran
                             /\ \A b \in Actions : Stage(b)' = IF b = a THEN "REJECTED" ELSE Stage(b)
    BY <1>6, <1>9 DEF Reject
  <2>2. Stage(a) = "PENDING_APPROVAL"
    BY <1>i, <1>s, <2>1 DEF Underway
  <2>3. Lifecycle!Decide(a)
    BY <2>1, <2>2, StageMoves DEF Lifecycle!Decide
  <2>. QED  BY <2>3 DEF Lifecycle!Next
<1>10. CASE (\E r \in Reports : BeginRollback(w, r)) \/ RollbackStep(w)
  <2>1. UNCHANGED <<status, ran, wpc, job>>
    BY <1>10 DEF BeginRollback, RollbackStep, gateVars
  <2>. QED  BY <2>1, <1>0, <1>s
<1>. QED  BY <1>1, <1>2, <1>3, <1>4, <1>5, <1>7, <1>8, <1>9, <1>10 DEF ResponseStep

LEMMA LifecycleStep ==
  ASSUME OneWorker, ResponseTypeOK, JobInv, StageInv, [ResponseNext]_vars
  PROVE  [Lifecycle!Next]_<<[a \in Actions |-> Stage(a)], ran>>
<1>t. status \in [Actions -> Statuses] /\ job \in [Callers -> SUBSET Actions]
  BY DEF ResponseTypeOK
<1>j. \A a \in Actions : status[a] = "RECOMMENDED" => Stage(a) = status[a] /\ \A w \in Callers : a \notin job[w]
  BY DEF Stage, StageInv
<1>1. CASE \E w \in Callers : ResponseStep(w)
  BY <1>1, LifecycleWorkerStep
<1>2. ASSUME NEW r \in Reports, Detect(r) \/ DetectRaises(r)
      PROVE  Lifecycle!Next
  <2> DEFINE batch == OfReport(r)
  <2>1. \A a \in batch : a \in Actions /\ status[a] = "RECOMMENDED" /\ Stage(a) = "RECOMMENDED"
    BY <1>2, <1>j DEF Detect, DetectRaises, Unseen, OfReport
  <2>2. UNCHANGED <<wpc, job, ran>>
    BY <1>2 DEF Detect, DetectRaises
  <2>3. PICK g \in {"PENDING_APPROVAL", "APPROVED", "FORGOTTEN"} :
          status' = [a \in Actions |-> IF a \in batch THEN g ELSE status[a]]
    <3>1. CASE Detect(r) /\ AutoApproved
      BY <3>1 DEF Detect
    <3>2. CASE Detect(r) /\ ~AutoApproved
      BY <3>2 DEF Detect
    <3>3. CASE DetectRaises(r)
      BY <3>3 DEF DetectRaises
    <3>. QED  BY <1>2, <3>1, <3>2, <3>3
  <2>4. \A a \in Actions : Stage(a)' = IF a \in batch THEN g ELSE Stage(a)
    <3>. SUFFICES ASSUME NEW a \in Actions PROVE Stage(a)' = IF a \in batch THEN g ELSE Stage(a)
      OBVIOUS
    <3>1. CASE a \in batch
      <4>1. status'[a] = g /\ \A w \in Callers : a \notin job'[w]
        BY <1>j, <2>1, <2>2, <2>3, <3>1
      <4>. QED  BY <3>1, <4>1 DEF Stage
    <3>2. CASE a \notin batch
      <4>1. status'[a] = status[a]
        BY <2>3, <3>2
      <4>. QED  BY <2>2, <3>2, <4>1 DEF Stage
    <3>. QED  BY <3>1, <3>2
  <2>5. Lifecycle!Gate(batch)
    BY <2>1, <2>2, <2>4 DEF Lifecycle!Gate
  <2>6. batch \in SUBSET Actions
    BY <2>1
  <2>. QED  BY <2>5, <2>6 DEF Lifecycle!Next
<1>3. CASE (World /\ UNCHANGED gateVars) \/ UNCHANGED vars
  <2>1. UNCHANGED <<status, wpc, job, ran>>
    BY <1>3 DEF gateVars, vars
  <2>2. \A a \in Actions : Stage(a)' = Stage(a)
    BY <2>1 DEF Stage
  <2>. QED  BY <2>1, <2>2
<1>4. CASE ResponseRestart
  <2>1. /\ ran' = ran /\ \A w \in Callers : wpc'[w] = "idle"
        /\ \A a \in Actions : status'[a] = IF status[a] = "RECOMMENDED" THEN "RECOMMENDED" ELSE "FORGOTTEN"
    BY <1>4 DEF ResponseRestart
  <2>2. \A a \in Actions : Stage(a)' = IF Stage(a) = "RECOMMENDED" THEN Stage(a) ELSE "FORGOTTEN"
    BY <1>j, <2>1 DEF Stage
  <2>3. Lifecycle!Forget
    BY <2>1, <2>2 DEF Lifecycle!Forget
  <2>. QED  BY <2>3 DEF Lifecycle!Next
<1>. QED  BY <1>1, <1>2, <1>3, <1>4 DEF ResponseNext

\* When requests are handled one at a time, every action goes through the
\* documented lifecycle: it runs at most once, only when approved, and its
\* outcome is final.  With two workers it does not, which is why this is a
\* hypothesis here and a finding there.
THEOREM OneAtATimeFollowsLifecycle ==
  ASSUME OneWorker
  PROVE  ResponseSpec => ImplementsLifecycle
<1>1. ResponseInit => ResponseTypeOK /\ JobInv /\ StageInv /\ Lifecycle!Init
  <2>. SUFFICES ASSUME ResponseInit PROVE JobInv /\ StageInv /\ Lifecycle!Init
    BY ResponseInitType
  <2>1. /\ \A w \in Callers : wpc[w] = "idle" /\ cpc[w] = "idle" /\ job[w] = {}
        /\ \A a \in Actions : status[a] = "RECOMMENDED"
        /\ reports = <<>> /\ ran = {}
    BY DEF ResponseInit, Init, NoJob
  <2>2. \A a \in Actions : Stage(a) = "RECOMMENDED" /\ ~Listed(a.report)
    BY <2>1 DEF Stage, Listed
  <2>. QED  BY <2>1, <2>2 DEF JobInv, StageInv, Lifecycle!Init
<1>2. ResponseTypeOK /\ JobInv /\ StageInv /\ [ResponseNext]_vars => ResponseTypeOK' /\ JobInv' /\ StageInv'
  BY ResponseKeepsTypes, JobStep, StageStep
<1>3. ResponseTypeOK /\ JobInv /\ StageInv /\ [ResponseNext]_vars
        => [Lifecycle!Next]_<<[a \in Actions |-> Stage(a)], ran>>
  BY LifecycleStep
<1>. QED  BY <1>1, <1>2, <1>3, PTL DEF ResponseSpec, ImplementsLifecycle, Lifecycle!Spec
=============================================================================
