--------------------------- MODULE ResponseEngine ---------------------------
(***************************************************************************)
(* The response layer around ContainmentManager: ApprovalGate              *)
(* (backend/response/approval.py), ActionExecutor (actions.py), the report *)
(* list and execute_action() of the pipeline (backend/pipeline.py), and    *)
(* the approve, reject and rollback endpoints (backend/api/routes.py).     *)
(*                                                                         *)
(* The endpoints run on a thread pool and share the action objects with no *)
(* lock: every test of an action's status and the assignment after it are  *)
(* two steps here.  A request for a report or action that does not exist   *)
(* is answered 404 and changes nothing.  The audit trail is known by what  *)
(* it holds; AuditTrail models how it holds it.                            *)
(***************************************************************************)
EXTENDS Containment, Sequences

CONSTANTS
  MaxReports,        \* GuardianPipeline.reports: deque(maxlen)
  MaxAuditFailures   \* bound: audit records that cannot be written

ASSUME ReportsAssumption == MaxReports \in Nat \ {0} /\ MaxAuditFailures \in Nat

VARIABLES
  autoApprove,    \* config response.auto_approve_destructive
  status,         \* ResponseAction.status; FORGOTTEN when no report has it any more
  reports,        \* GuardianPipeline.reports
  trail,          \* what the audit trail holds
  wpc,            \* where each worker is in a request
  job,            \* the action its request is about
  auditFailures,
  decided,        \* actions an analyst's request set to APPROVED
  ran             \* actions given to ContainmentManager.apply()

gateVars == <<autoApprove, status, reports, trail, wpc, job, auditFailures, decided, ran>>
vars == <<containmentVars, gateVars>>

Statuses == {"RECOMMENDED", "PENDING_APPROVAL", "APPROVED", "EXECUTED", "FAILED",
             "REJECTED", "FORGOTTEN"}
Events == {"auto_approved", "approved", "rejected", "execution", "execution_failed", "rollback"}
NoJob == {}

OfReport(r) == {a \in Actions : a.report = r}

Listed(r) == \E i \in DOMAIN reports : reports[i] = r

ResponseInit ==
  /\ Init
  /\ autoApprove \in BOOLEAN
  /\ status = [a \in Actions |-> "RECOMMENDED"]
  /\ reports = <<>>
  /\ trail = {}
  /\ wpc = [w \in Callers |-> "idle"]
  /\ job = [w \in Callers |-> NoJob]
  /\ auditFailures = 0
  /\ decided = {}
  /\ ran = {}

Idle(w) == wpc[w] = "idle" /\ cpc[w] = "idle"

Goto(w, step) == wpc' = [wpc EXCEPT ![w] = step]

Leave(w) ==
  /\ wpc' = [wpc EXCEPT ![w] = "idle"]
  /\ job' = [job EXCEPT ![w] = NoJob]

\* AuditTrail.record() of one event about each of the actions.
Recorded(event, as) ==
  /\ trail' = trail \cup {[event |-> event, action |-> a] : a \in as}
  /\ UNCHANGED auditFailures

RecordRaises ==
  /\ auditFailures < MaxAuditFailures
  /\ auditFailures' = auditFailures + 1
  /\ UNCHANGED trail

(***************************************************************************)
(* analyze_window(): the driver builds a report, the gate routes each of   *)
(* its actions, and the report is put in the list, which evicts the oldest *)
(* report once it is full.                                                 *)
(***************************************************************************)
Unseen(r) == \A a \in OfReport(r) : status[a] = "RECOMMENDED"

\* Mutant: the list of reports has no bound.
Bug_KeepAll(r) == Append(reports, r)

Published(r) ==
  IF Len(reports) < MaxReports THEN Append(reports, r) ELSE Append(Tail(reports), r)

\* Mutant: destructive actions are approved whatever the configuration says.
Bug_AlwaysApprove == TRUE

AutoApproved == autoApprove

Detect(r) ==
  /\ Unseen(r)
  /\ status' = [a \in Actions |->
       IF a \notin OfReport(r) THEN status[a]
       ELSE IF AutoApproved THEN "APPROVED" ELSE "PENDING_APPROVAL"]
  /\ Recorded("auto_approved", IF AutoApproved THEN OfReport(r) ELSE {})
  /\ reports' = Published(r)
  /\ UNCHANGED <<containmentVars, autoApprove, wpc, job, decided, ran>>

\* An auto_approved record cannot be written: the tick ends with the error
\* before the report is in the list, and the report is lost.
DetectRaises(r) ==
  /\ Unseen(r)
  /\ autoApprove
  /\ RecordRaises
  /\ status' = [a \in Actions |-> IF a \in OfReport(r) THEN "FORGOTTEN" ELSE status[a]]
  /\ UNCHANGED <<containmentVars, autoApprove, reports, wpc, job, decided, ran>>

(***************************************************************************)
(* POST .../approve: approve() finds the action pending, or ignores the    *)
(* call; execute_action() calls the executor in either case.               *)
(***************************************************************************)
BeginApprove(w, a) ==
  /\ Idle(w)
  /\ Listed(a.report)
  /\ job' = [job EXCEPT ![w] = {a}]
  /\ Goto(w, IF status[a] = "PENDING_APPROVAL" THEN "approve" ELSE "check")
  /\ UNCHANGED <<containmentVars, autoApprove, status, reports, trail, auditFailures, decided, ran>>

\* Mutant: approve() does not change the status.
Bug_KeepStatus(w, s) == status

SetStatus(w, s) == [a \in Actions |-> IF a \in job[w] THEN s ELSE status[a]]

\* action.status = APPROVED
Approve(w) ==
  /\ wpc[w] = "approve"
  /\ status' = SetStatus(w, "APPROVED")
  /\ decided' = decided \cup job[w]
  /\ Goto(w, "record")
  /\ UNCHANGED <<containmentVars, autoApprove, reports, trail, job, auditFailures, ran>>

\* Mutant: approve() does not record the decision.
Bug_NoApprovalRecord(w) == {}

ToRecord(w) == job[w]

RecordApproval(w) ==
  /\ wpc[w] = "record"
  /\ Recorded("approved", ToRecord(w))
  /\ Goto(w, "check")
  /\ UNCHANGED <<containmentVars, autoApprove, status, reports, job, decided, ran>>

\* The record cannot be written: the request fails, the action stays APPROVED.
RecordApprovalRaises(w) ==
  /\ wpc[w] = "record"
  /\ RecordRaises
  /\ Leave(w)
  /\ UNCHANGED <<containmentVars, autoApprove, status, reports, decided, ran>>

\* Mutant: the executor runs whatever it is given.
Bug_NoStatusCheck(w) == TRUE

MayRun(w) == \A a \in job[w] : status[a] = "APPROVED"

\* ActionExecutor.execute(): only an APPROVED action goes on.
Check(w) ==
  /\ wpc[w] = "check"
  /\ IF MayRun(w) THEN Goto(w, "apply") /\ UNCHANGED job ELSE Leave(w)
  /\ UNCHANGED <<containmentVars, autoApprove, status, reports, trail, auditFailures, decided, ran>>

(***************************************************************************)
(* containment.apply(): the steps of Containment, on behalf of execute().  *)
(***************************************************************************)
BeginApply(w) ==
  /\ wpc[w] = "apply"
  /\ \E a \in job[w] : Apply(w, a) /\ ran' = ran \cup {a}
  /\ Goto(w, "applying")
  /\ UNCHANGED <<autoApprove, status, reports, trail, job, auditFailures, decided>>

BeginApplyRaises(w) ==
  /\ wpc[w] = "apply"
  /\ \E a \in job[w] : ApplyRaises(w, a) /\ ran' = ran \cup {a}
  /\ Goto(w, "failed")
  /\ UNCHANGED <<autoApprove, status, reports, trail, job, auditFailures, decided>>

Applying(w) ==
  /\ wpc[w] = "applying"
  /\ \/ AppendEntry(w) /\ UNCHANGED wpc
     \/ PersistEntry(w) /\ Goto(w, "executed")
     \/ PersistRaises(w) /\ Goto(w, "failed")
  /\ UNCHANGED <<autoApprove, status, reports, trail, job, auditFailures, decided, ran>>

(***************************************************************************)
(* execute(): the outcome is marked on the action and recorded; when the   *)
(* record cannot be written the request fails with the action marked.      *)
(***************************************************************************)
Settle(w, step, outcome, event) ==
  /\ wpc[w] = step
  /\ status' = SetStatus(w, outcome)
  /\ Recorded(event, job[w]) \/ RecordRaises
  /\ Leave(w)
  /\ UNCHANGED <<containmentVars, autoApprove, reports, decided, ran>>

MarkExecuted(w) == Settle(w, "executed", "EXECUTED", "execution")
MarkFailed(w) == Settle(w, "failed", "FAILED", "execution_failed")

(***************************************************************************)
(* POST .../reject.                                                        *)
(***************************************************************************)
BeginReject(w, a) ==
  /\ Idle(w)
  /\ Listed(a.report)
  /\ status[a] = "PENDING_APPROVAL"
  /\ job' = [job EXCEPT ![w] = {a}]
  /\ Goto(w, "reject")
  /\ UNCHANGED <<containmentVars, autoApprove, status, reports, trail, auditFailures, decided, ran>>

Reject(w) == Settle(w, "reject", "REJECTED", "rejected")

(***************************************************************************)
(* POST .../rollback: the report must still be listed.                     *)
(***************************************************************************)
BeginRollback(w, r) ==
  /\ Idle(w)
  /\ Listed(r)
  /\ StartRollback(w, r)
  /\ UNCHANGED gateVars

RollbackStep(w) ==
  \/ /\ \E e \in todo[w] : Undo(w, e) \/ UndoRaises(w, e)
     /\ UNCHANGED gateVars
  \/ /\ RemoveEntry(w)
     /\ Recorded("rollback", {e.action : e \in work[w]})
     /\ UNCHANGED <<autoApprove, status, reports, wpc, job, decided, ran>>
  \/ /\ RemoveRaises(w)
     /\ IF InList(work[w]) THEN RecordRaises ELSE UNCHANGED <<trail, auditFailures>>
     /\ UNCHANGED <<autoApprove, status, reports, wpc, job, decided, ran>>

(***************************************************************************)
(* A restart loses the reports and with them the actions, not the handles. *)
(***************************************************************************)
ResponseRestart ==
  /\ Restart
  /\ status' = [a \in Actions |-> IF status[a] = "RECOMMENDED" THEN "RECOMMENDED" ELSE "FORGOTTEN"]
  /\ reports' = <<>>
  /\ wpc' = [w \in Callers |-> "idle"]
  /\ job' = [w \in Callers |-> NoJob]
  /\ UNCHANGED <<autoApprove, trail, auditFailures, decided, ran>>

ResponseStep(w) ==
  \/ \E a \in Actions : BeginApprove(w, a) \/ BeginReject(w, a)
  \/ Approve(w) \/ RecordApproval(w) \/ RecordApprovalRaises(w) \/ Check(w)
  \/ BeginApply(w) \/ BeginApplyRaises(w) \/ Applying(w)
  \/ MarkExecuted(w) \/ MarkFailed(w) \/ Reject(w)
  \/ \E r \in Reports : BeginRollback(w, r)
  \/ RollbackStep(w)

ResponseNext ==
  \/ \E r \in Reports : Detect(r) \/ DetectRaises(r)
  \/ \E w \in Callers : ResponseStep(w)
  \/ World /\ UNCHANGED gateVars
  \/ ResponseRestart

ResponseSpec == ResponseInit /\ [][ResponseNext]_vars
-----------------------------------------------------------------------------
ResponseTypeOK ==
  /\ TypeOK
  /\ autoApprove \in BOOLEAN
  /\ status \in [Actions -> Statuses]
  /\ reports \in Seq(Reports)
  /\ Len(reports) <= MaxReports
  /\ trail \subseteq [event : Events, action : Actions]
  /\ wpc \in [Callers -> {"idle", "approve", "record", "check", "apply", "applying",
                          "executed", "failed", "reject"}]
  /\ job \in [Callers -> SUBSET Actions]
  /\ auditFailures \in Nat
  /\ decided \subseteq Actions
  /\ ran \subseteq Actions

(***************************************************************************)
(* Nothing is done to the host without a decision: every action given to   *)
(* the containment manager, and the action behind every handle, those that *)
(* a restart reloaded included, was approved by an analyst, unless         *)
(* auto_approve_destructive is set, whatever requests race with it.        *)
(***************************************************************************)
NothingRunsUndecided ==
  ~autoApprove => /\ ran \subseteq decided
                  /\ \A e \in Alive \cup file : e.action \in decided

(***************************************************************************)
(* Every executed action has its approval in the audit trail once the      *)
(* request that approved it has written it, if no audit write failed, even *)
(* when the request that executed it is another one.                       *)
(***************************************************************************)
OnRecord(a) == \E event \in {"approved", "auto_approved"} : [event |-> event, action |-> a] \in trail

ApprovalRecorded ==
  \A a \in Actions :
    status[a] = "EXECUTED" /\ auditFailures = 0 /\ (\A w \in Callers : wpc[w] = "record" => a \notin job[w])
      => OnRecord(a)

(***************************************************************************)
(* An action shown as executed can still be undone, or the audit trail     *)
(* says that it was: concurrent rollbacks of its report do not drop its    *)
(* handle unnoticed.                                                       *)
(***************************************************************************)
ExecutedCanBeUndone ==
  \A a \in Actions :
    status[a] = "EXECUTED" /\ Reversible(a) =>
      \/ \E e \in entries : e.action = a
      \/ [event |-> "rollback", action |-> a] \in trail
      \/ auditFailures > 0

(***************************************************************************)
(* With one request at a time, the actions go through the lifecycle of     *)
(* docs/INTERFACES.md: each runs at most once, only when approved, and an  *)
(* outcome is final.                                                       *)
(***************************************************************************)
Stage(a) ==
  IF status[a] = "APPROVED" /\ \E w \in Callers : a \in job[w] /\ wpc[w] \in {"applying", "executed", "failed"}
  THEN "RUNNING" ELSE status[a]

Lifecycle == INSTANCE ActionLifecycle WITH stage <- [a \in Actions |-> Stage(a)]

ImplementsLifecycle == Lifecycle!Spec

(***************************************************************************)
(* What docs/INTERFACES.md says of the executor: only APPROVED actions     *)
(* run.  It is said of the moment when the effect takes place.             *)
(***************************************************************************)
OnlyApprovedActionsRun ==
  [][\A a \in ran' \ ran : status[a] = "APPROVED"]_vars

(***************************************************************************)
(* What the docstring of the approval module says: approvals are recorded, *)
(* so that every response decision is accountable.                         *)
(***************************************************************************)
ExecutedIsAccountable ==
  \A a \in Actions : status[a] = "EXECUTED" /\ (\A w \in Callers : Idle(w)) => OnRecord(a)
=============================================================================
