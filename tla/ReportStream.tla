---------------------------- MODULE ReportStream ----------------------------
(***************************************************************************)
(* How a detected report reaches the dashboard.  The driver thread         *)
(* (api/driver.py) runs a tick, records what it returned and a health      *)
(* snapshot in the bounded change log (api/changes.py); /api/ws sends each *)
(* socket what it has not sent it yet, from the start of the log for a new *)
(* socket; the GuardianProvider of the frontend puts frames, polled        *)
(* listings and the answers of mutations into one list of threats.         *)
(*                                                                         *)
(* A report is a number, in the order of creation, and "ver" counts the    *)
(* changes of its actions' states and its verdict, so that a copy is       *)
(* [id, ver].  Frames come over one connection that is up or down: that is *)
(* Subscription, which GuardianSocket implements. Events and health, which *)
(* every answer replaces as a whole, the texts of errors, and rollbacks,   *)
(* which change neither side's reports, are left out; a health item still  *)
(* takes its place in the log.                                             *)
(***************************************************************************)
EXTENDS Integers, Sequences, SequencesExt, FiniteSets, Sublists

CONSTANTS
  MaxReports,   \* bound: reports ever detected
  MaxVersion,   \* bound: versions of a report
  MaxRestarts,  \* bound: restarts of the server
  ReportCap,    \* maxlen of pipeline.reports
  LogCap,       \* maxlen of the change log
  Limit,        \* reports one GET /api/threats returns
  FrameCap,     \* bound: frames between send_json() and onmessage
  Slots         \* bound: overlapping GET /api/threats requests

ASSUME BoundsAssumption ==
  /\ {MaxReports, MaxVersion, ReportCap, LogCap, Limit, FrameCap} \subseteq Nat \ {0}
  /\ MaxRestarts \in Nat

VARIABLES
  \* server
  created,    \* reports detected so far
  reports,    \* pipeline.reports: ids, oldest first
  ver,        \* the version of each report object
  pc,         \* of the driver: "tick" or "record"
  new,        \* ids the running tick has appended, still to be copied
  pending,    \* copies to be recorded
  log,        \* the change log
  restarts,
  \* connection
  link,       \* the socket is open on both sides
  sent,       \* items of the log with seq <= last_seq, of the open socket
  frames,     \* on their way
  \* browser
  threats,    \* newest first, but for what was touched later
  fetch,      \* GET /api/threats requests
  mutation,   \* a label, approve or reject request
  \* history
  lost        \* reports the stream dropped, for a reason named where it happens

server == <<created, reports, ver, pc, new, pending, log, restarts>>
conn == <<link, sent, frames>>
calls == <<fetch, mutation>>
vars == <<server, conn, threats, calls, lost>>

Ids == 1 .. MaxReports
Copies == [id : Ids, ver : 1 .. MaxVersion]
ReportItem(c) == [kind |-> "report", report |-> c]
HealthItem == [kind |-> "health"]
IsReport(item) == item.kind = "report"
IdsIn(items) == {items[n].report.id : n \in {m \in DOMAIN items : IsReport(items[m])}}
IdsOf(copies) == {copies[n].id : n \in DOMAIN copies}

\* report.to_dict()
Copy(i) == [id |-> i, ver |-> ver[i]]

\* A list that keeps its newest n elements, and the newest n of one.
Bug_KeepAll(s, n) == s
Kept(s, n) == IF Len(s) > n THEN SubSeq(s, Len(s) - n + 1, Len(s)) ELSE s

\* GET /api/threats
Listing == [n \in DOMAIN Reverse(Kept(reports, Limit)) |->
              Copy(Reverse(Kept(reports, Limit))[n])]

-----------------------------------------------------------------------------
Free == [st |-> "free"]
Answered(d) == [st |-> "answered", data |-> d]
Calls(S) == {Free} \cup [st : {"answered"}, data : S]
Item == [kind : {"report"}, report : Copies] \cup {HealthItem}

TypeOK ==
  /\ created \in 0 .. MaxReports
  /\ reports \in Seq(1 .. created) /\ Len(reports) <= ReportCap
  /\ ver \in [Ids -> 1 .. MaxVersion]
  /\ pc \in {"tick", "record"}
  /\ new \in Seq(1 .. created)
  /\ pending \in Seq(Copies)
  /\ log \in Seq(Item) /\ Len(log) <= LogCap
  /\ restarts \in 0 .. MaxRestarts
  /\ link \in BOOLEAN
  /\ sent \in 0 .. Len(log)
  /\ frames \in Seq(Seq(Item)) /\ Len(frames) <= FrameCap
  /\ ~link => sent = 0 /\ frames = <<>>
  /\ threats \in Seq(Copies)
  /\ fetch \in [Slots -> Calls(Seq(Copies))]
  /\ mutation \in Calls(Copies)
  /\ lost \subseteq Ids

Init ==
  /\ created = 0 /\ reports = <<>> /\ ver = [i \in Ids |-> 1]
  /\ pc = "tick" /\ new = <<>> /\ pending = <<>> /\ log = <<>> /\ restarts = 0
  /\ link = FALSE /\ sent = 0 /\ frames = <<>>
  /\ threats = <<>>
  /\ fetch = [s \in Slots |-> Free] /\ mutation = Free
  /\ lost = {}

-----------------------------------------------------------------------------
\* The driver.

\* analyze_window() appends one report; requests see it from now on.
Detect ==
  /\ pc = "tick" /\ created < MaxReports
  /\ created' = created + 1
  /\ reports' = Kept(Append(reports, created + 1), ReportCap)
  /\ new' = Append(new, created + 1)
  /\ UNCHANGED <<ver, pc, pending, log, restarts>>
  /\ UNCHANGED <<conn, threats, calls, lost>>

TickReturns ==
  /\ pc = "tick"
  /\ pc' = "record"
  /\ UNCHANGED <<created, reports, ver, new, pending, log, restarts>>
  /\ UNCHANGED <<conn, threats, calls, lost>>

Bug_ThreadEnds == "ended"
AfterRaise == "record"

\* The tick raises, perhaps after some reports were appended:
\* those are in the list, and are not recorded by any later tick.
TickRaises ==
  /\ pc = "tick"
  /\ pc' = AfterRaise
  /\ new' = <<>>
  /\ lost' = lost \cup ToSet(new)
  /\ UNCHANGED <<created, reports, ver, pending, log, restarts>>
  /\ UNCHANGED <<conn, threats, calls>>

\* The list of copies is complete before the first one is recorded.
CopyReport ==
  /\ pc = "record" /\ new # <<>>
  /\ pending' = Append(pending, Copy(Head(new)))
  /\ new' = Tail(new)
  /\ UNCHANGED <<created, reports, ver, pc, log, restarts>>
  /\ UNCHANGED <<conn, threats, calls, lost>>

\* ChangeLog.record(): the oldest item may go, and is lost for a dashboard
\* that has no socket or a socket it was not sent on.
Record(item) ==
  LET full == Len(log) = LogCap
      overrun == full /\ (~link \/ sent = 0) /\ IsReport(Head(log))
  IN  /\ log' = Kept(Append(log, item), LogCap)
      /\ sent' = IF full /\ sent > 0 THEN sent - 1 ELSE sent
      /\ lost' = IF overrun THEN lost \cup {Head(log).report.id} ELSE lost

RecordReport ==
  /\ pc = "record" /\ new = <<>> /\ pending # <<>>
  /\ Record(ReportItem(Head(pending)))
  /\ pending' = Tail(pending)
  /\ UNCHANGED <<created, reports, ver, pc, new, restarts>>
  /\ UNCHANGED <<link, frames, threats, calls>>

RecordHealth ==
  /\ pc = "record" /\ new = <<>> /\ pending = <<>>
  /\ Record(HealthItem)
  /\ pc' = "tick"
  /\ UNCHANGED <<created, reports, ver, new, pending, restarts>>
  /\ UNCHANGED <<link, frames, threats, calls>>

\* The snapshot raises: logged, and the loop goes on.
HealthRaises ==
  /\ pc = "record" /\ new = <<>> /\ pending = <<>>
  /\ pc' = "tick"
  /\ UNCHANGED <<created, reports, ver, new, pending, log, restarts>>
  /\ UNCHANGED <<conn, threats, calls, lost>>

Driver ==
  Detect \/ TickReturns \/ TickRaises \/ CopyReport
    \/ RecordReport \/ RecordHealth \/ HealthRaises

\* Another analyst's decision or verdict, or one whose answer does not return.
Decide(i) ==
  /\ i \in ToSet(reports)
  /\ ver[i] < MaxVersion
  /\ ver' = [ver EXCEPT ![i] = @ + 1]
  /\ UNCHANGED <<created, reports, pc, new, pending, log, restarts>>
  /\ UNCHANGED <<conn, threats, calls, lost>>

-----------------------------------------------------------------------------
\* The connection.

Bug_FromNow == Len(log)
FromStart == 0

Connect ==
  /\ ~link
  /\ link' = TRUE
  /\ sent' = FromStart
  /\ UNCHANGED <<server, frames, threats, calls, lost>>

\* What an open socket was sent and the log dropped since is lost with it.
Drop ==
  /\ link
  /\ link' = FALSE
  /\ sent' = 0
  /\ frames' = <<>>
  /\ lost' = lost \cup (UNION {IdsIn(frames[n]) : n \in DOMAIN frames} \ IdsIn(log))
  /\ UNCHANGED <<server, threats, calls>>

\* One turn of ws_stream(): since(last_seq), in one frame.
SendFrame ==
  /\ link /\ sent < Len(log) /\ Len(frames) < FrameCap
  /\ frames' = Append(frames, SubSeq(log, sent + 1, Len(log)))
  /\ sent' = Len(log)
  /\ UNCHANGED <<server, link, threats, calls, lost>>

\* The server process ends and starts again: the list of reports and the log
\* are gone, and so is the connection.
Restart ==
  /\ restarts < MaxRestarts
  /\ restarts' = restarts + 1
  /\ reports' = <<>> /\ log' = <<>> /\ pc' = "tick" /\ new' = <<>> /\ pending' = <<>>
  /\ link' = FALSE /\ sent' = 0 /\ frames' = <<>>
  /\ lost' = 1 .. created
  /\ UNCHANGED <<created, ver, threats, calls>>

-----------------------------------------------------------------------------
\* The provider.

Bug_NoFilter(list, c) == <<c>> \o list
upsertThreat(list, c) == <<c>> \o At(list, {n \in DOMAIN list : list[n].id # c.id})

\* onFrame(): one item after the other.
OnItem(list, item) == IF IsReport(item) THEN upsertThreat(list, item.report) ELSE list
OnReports(items) ==
  LET upTo[n \in 0 .. Len(items)] ==
        IF n = 0 THEN threats ELSE OnItem(upTo[n - 1], items[n])
  IN  upTo[Len(items)]

Frame ==
  /\ frames # <<>>
  /\ threats' = OnReports(Head(frames))
  /\ frames' = Tail(frames)
  /\ UNCHANGED <<server, link, sent, calls, lost>>

\* refresh(), by the timers of Threats, Processes and Kernel Activity, by a
\* button, on loading and after a token was saved.  The request reaches the
\* server in the same step, as nothing depends on it before; one that is refused
\* or lost leaves the list alone.  (Bound: no request without a free slot.)
Refresh(s) ==
  /\ fetch[s] = Free
  /\ fetch' = [fetch EXCEPT ![s] = Answered(Listing)]
  /\ UNCHANGED <<server, conn, threats, mutation, lost>>

Bug_Merge(list) == list \o SelectSeq(threats, LAMBDA r : r.id \notin IdsOf(list))
Fetched(list) == list

SettleFetch(s) ==
  /\ fetch[s] # Free
  /\ fetch' = [fetch EXCEPT ![s] = Free]
  /\ threats' = Fetched(fetch[s].data)
  /\ UNCHANGED <<server, conn, mutation, lost>>

\* labelReport(), approve() or reject() on a report that is shown and that the
\* server finds.  A refusal leaves the list alone.
Mutate(i) ==
  /\ mutation = Free
  /\ i \in IdsOf(threats) \cap ToSet(reports)
  /\ ver[i] < MaxVersion
  /\ ver' = [ver EXCEPT ![i] = @ + 1]
  /\ mutation' = Answered([id |-> i, ver |-> ver'[i]])
  /\ UNCHANGED <<created, reports, pc, new, pending, log, restarts>>
  /\ UNCHANGED <<conn, threats, fetch, lost>>

SettleMutation ==
  /\ mutation # Free
  /\ mutation' = Free
  /\ threats' = upsertThreat(threats, mutation.data)
  /\ UNCHANGED <<server, conn, fetch, lost>>

-----------------------------------------------------------------------------
Browser ==
  \/ Frame \/ SettleMutation
  \/ \E s \in Slots : Refresh(s) \/ SettleFetch(s)
  \/ \E i \in Ids : Mutate(i)

Server ==
  \/ Driver \/ Restart
  \/ SendFrame
  \/ \E i \in Ids : Decide(i)

Next == Browser \/ Server \/ Connect \/ Drop

\* The driver's thread and the browser's task queue run, and the socket loop
\* turns once per refresh period.  Nothing is said of what a tick detects, of
\* the network, of requests, of pages and of analysts.
Fairness ==
  /\ WF_vars(Driver) /\ WF_vars(SendFrame) /\ WF_vars(Frame)
  /\ \A s \in Slots : WF_vars(SettleFetch(s))
  /\ WF_vars(SettleMutation)

Spec == Init /\ [][Next]_vars
FairSpec == Spec /\ Fairness

-----------------------------------------------------------------------------
(***************************************************************************)
(* NoDuplicates.  No report is twice in the list, whatever mix of replayed *)
(* frames, listings and answers made it: the counts, the chart and the     *)
(* keys of the pages are right only then.                                  *)
(***************************************************************************)
NoDuplicates == Cardinality(IdsOf(threats)) = Len(threats)

(***************************************************************************)
(* DetectedIsShown.  A report that a tick appends is shown on whatever     *)
(* page is open, or lost for a cause the model names: its tick raised      *)
(* later, the log overran a socket, a socket died with it, or the server   *)
(* restarted.                                                              *)
(***************************************************************************)
DetectedIsShown ==
  <>[]link =>
    \A i \in Ids : (i \in ToSet(new)) ~> (i \in IdsOf(threats) \cup lost)

(***************************************************************************)
(* PolledViewConverges.  A page that polls shows in the end exactly the    *)
(* server's listing, without an error, once the connection is steady: late *)
(* answers, replayed copies, reports of an earlier run or lost by the      *)
(* stream are all repaired.  (The changes of reports are bounded, so they  *)
(* end: between two polls the view may lag behind a later one.)            *)
(***************************************************************************)
PolledViewConverges ==
  (<>[]link /\ []<><<\E s \in Slots : Refresh(s)>>_vars)
    => <>[](threats = Listing)

(***************************************************************************)
(* TicksGoOn.  No failure of a tick or of a snapshot ends the driver.      *)
(***************************************************************************)
TicksGoOn == []<>(pc = "tick") /\ []<>(pc = "record")
=============================================================================
