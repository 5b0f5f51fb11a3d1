-------------------------------- MODULE Desk --------------------------------
(***************************************************************************)
(* An analyst at the dashboard: pages, the report whose detail is shown,   *)
(* the buttons of its rows, and their requests, while the provider's list  *)
(* of threats changes under them (frames, listings, answers) and the       *)
(* server's list under that.                                               *)
(*                                                                         *)
(* ThreatDetail is rendered without a key, and its ActionRows are keyed by *)
(* their index: the instances, and their "busy", live on when the page     *)
(* goes from one report to another, and end when the page changes, when    *)
(* nothing is shown, or when the next report has fewer actions.  Row 0     *)
(* stands for the two label buttons.  Overview, Processes and Response     *)
(* show no detail and link to reports: together they are "elsewhere".      *)
(* Rolling back, which disables nothing and leaves the list alone, and     *)
(* texts of errors are left out.                                           *)
(***************************************************************************)
EXTENDS Views

CONSTANTS
  MaxReports,   \* bound: reports ever detected
  Infos,        \* what the reports may be: functions from their numbers
  Events,       \* the kernel events the pages show
  Requests,     \* bound: requests under way
  MaxDecisions  \* bound: decisions taken

Ids == 1 .. MaxReports
\* What GET /api/health may answer, or a frame say, with n reports listed: learning
\* and ready are independent, as the engine may be ready early, or detect by
\* signals alone.
HealthRecord(learning, ready, n) ==
  [learning |-> learning, ready |-> ready, baseline |-> 0,
   threats |-> n, events_in_window |-> Len(Events), running |-> TRUE]

ASSUME BoundAssumption == MaxReports \in Nat
ASSUME InfosAssumption ==
  \A info \in Infos : \A i \in Ids :
    /\ info[i].ts \in Nat /\ info[i].pid \in Nat /\ info[i].severity \in Severities
    /\ info[i].actions \in Seq({"pending_approval", "approved"})
ASSUME EventsAssumption == Events \in Seq([pid : Nat, kind : STRING, ts : Nat])
\* null is no number, no severity and no answer.
ASSUME NoneAssumption ==
  /\ None \notin Ids /\ None \notin Severities
  /\ \A n \in 0 .. MaxReports : None # HealthRecord(FALSE, TRUE, n)

VARIABLES
  info,       \* never changes
  created,    \* reports detected so far
  listed,     \* pipeline.reports: numbers, oldest first
  status,     \* of each report's actions at the server
  threats,    \* the provider's list
  page, reportId, selectedId,
  busy,       \* rows of the mounted detail whose buttons are disabled
  requests,
  aim         \* the report the analyst has looked at, and means

serverVars == <<created, listed, status>>
nav == <<page, reportId, selectedId>>
vars == <<info, serverVars, threats, nav, busy, requests, aim>>

-----------------------------------------------------------------------------
Free == [id |-> 0, row |-> 0, mounted |-> FALSE]
Pages == {"threats", "analysis", "elsewhere"}
RowNumbers(i) == 0 .. Len(info[i].actions)

\* The server decides at once on what need not be approved, or waits.
Served == Statuses \ {"recommended"}
Item == [id : Ids, ts : Nat, pid : Nat, severity : Severities, actions : Seq(Served)]

TypeOK ==
  /\ info \in Infos
  /\ created \in 0 .. MaxReports
  /\ listed \in Seq(1 .. created) /\ Len(listed) <= created
  /\ DOMAIN status = Ids
  /\ \A i \in Ids : status[i] \in Seq(Served) /\ Len(status[i]) = Len(info[i].actions)
  /\ threats \in Seq(Item)
  /\ \A n \in DOMAIN threats : threats[n].id \in 1 .. created
  /\ IsInjective([n \in DOMAIN threats |-> threats[n].id])
  /\ page \in Pages
  /\ reportId \in Ids \cup {None} /\ selectedId \in Ids \cup {None}
  /\ reportId # None => page = "threats"
  /\ selectedId # None => page = "analysis"
  /\ busy \subseteq Nat
  /\ \A k \in Requests :
       requests[k] # Free => /\ requests[k].id \in Ids
                             /\ requests[k].row \in RowNumbers(requests[k].id)
  /\ aim \in Ids \cup {None}

\* A report as the server shows it now, and as it was when detected.
Report(i, actions) ==
  [id |-> i, ts |-> info[i].ts, pid |-> info[i].pid,
   severity |-> info[i].severity, actions |-> actions]
Now(i) == Report(i, status[i])
Logged(i) == Report(i, info[i].actions)

\* What the actions of report i may have shown at some time.  An action that was
\* carried out was "approved" before.
Shows(i, n) ==
  {info[i].actions[n], status[i][n]}
    \cup {st \in {"approved"} : status[i][n] \in {"executed", "failed"}}
Past(i) ==
  LET rows == DOMAIN status[i]
  IN  {a \in [rows -> UNION {Shows(i, n) : n \in rows}] : \A n \in rows : a[n] \in Shows(i, n)}

\* An answer of GET /api/threats, newest first, made when "last" was the newest
\* report; the limit, or the server's own, cut it off before "first".
Pasts(first, last) ==
  {p \in [first .. last -> UNION {Past(i) : i \in first .. last}] :
     \A i \in first .. last : p[i] \in Past(i)}
Listing(first, last, p) ==
  [n \in 1 .. last - first + 1 |-> Report(last - n + 1, p[last - n + 1])]

Bug_NoFilter(list, r) == <<r>> \o list
upsertThreat(list, r) == <<r>> \o At(list, {n \in DOMAIN list : list[n].id # r.id})

-----------------------------------------------------------------------------
\* The report in detail, and the row instances that are mounted.
Shown ==
  IF page = "threats" THEN ThreatSelected(threats, reportId)
  ELSE IF page = "analysis" THEN Analysed(threats, selectedId)
  ELSE None

Mounted(d) == IF d = None THEN {} ELSE RowNumbers(d)

\* After a step: the rows that stay mounted, and what is left of the busy rows b
\* and of the requests q.
Kept == IF page' = page THEN Mounted(Shown) \cap Mounted(Shown') ELSE {}
Rendered(b, q) ==
  LET kept == Kept
  IN  /\ busy' = b \cap kept
      /\ requests' = [k \in Requests |->
                        [id |-> q[k].id, row |-> q[k].row,
                         mounted |-> q[k].mounted /\ q[k].row \in kept]]

Init ==
  /\ info \in Infos
  /\ created = 0 /\ listed = <<>> /\ status = [i \in Ids |-> info[i].actions]
  /\ threats = <<>>
  /\ page \in Pages /\ reportId = None /\ selectedId = None
  /\ busy = {} /\ requests = [k \in Requests |-> Free] /\ aim = None

-----------------------------------------------------------------------------
\* The analyst.

\* By the sidebar, a link, or the browser's history.
Go(p, r) ==
  /\ page' = p
  /\ reportId' = r
  /\ r # None => p = "threats"
  /\ selectedId' = IF p = page THEN selectedId ELSE None
  /\ aim' = None
  /\ UNCHANGED <<info, serverVars, threats>>
  /\ Rendered(busy, requests)

\* setSelectedId() of AI Analysis.
Select(i) ==
  /\ page = "analysis"
  /\ i \in AIAnalysis(threats, selectedId).list
  /\ selectedId' = i
  /\ aim' = None
  /\ UNCHANGED <<info, serverVars, threats, page, reportId>>
  /\ Rendered(busy, requests)

\* The analyst reads what is shown, and makes up his mind.
Look ==
  /\ Shown # None
  /\ aim' = Shown
  /\ UNCHANGED <<info, serverVars, threats, nav, busy, requests>>

\* A button of a row: approve, reject or a verdict, on the report shown now.
Buttons(row) ==
  row # 0 => ThreatDetail(FindById(threats, Shown)).rows[row].actionable
Click(k, row) ==
  /\ requests[k] = Free
  /\ aim # None /\ Shown # None
  /\ row \in Mounted(Shown) /\ Buttons(row)
  /\ row \notin busy
  /\ busy' = busy \cup {row}
  /\ requests' = [requests EXCEPT ![k] = [id |-> Shown, row |-> row, mounted |-> TRUE]]
  /\ UNCHANGED <<info, serverVars, threats, nav, aim>>

-----------------------------------------------------------------------------
\* Requests.  The finally-block of a row that is gone sets a state nobody sees.

Bug_NoFinally(k) == busy
NotBusyAfter(k) == IF requests[k].mounted THEN busy \ {requests[k].row} ELSE busy

\* The server's part: approve() and execute_action(), or reject(), on an action that
\* waits for it or was left "approved", or no change.
Decisions(st) ==
  UNION {{<<i, n>> : n \in {m \in DOMAIN st[i] : st[i][m] # info[i].actions[m]}} : i \in Ids}
Outcomes(st) ==
  CASE st = "pending_approval" -> {"executed", "failed", "rejected"}
    [] st = "approved" -> {"approved", "executed", "failed"}
    [] OTHER -> {st}
Decided(i, n) ==
  IF n \in DOMAIN status[i]
  THEN {[status EXCEPT ![i][n] = st] : st \in Outcomes(status[i][n])}
  ELSE {status}

Settle(k) ==
  LET i == requests[k].id
  IN  /\ requests[k] # Free
      /\ i \in ToSet(listed)
      /\ status' \in Decided(i, requests[k].row)
      /\ Cardinality(Decisions(status')) <= MaxDecisions
      /\ threats' = upsertThreat(threats, Report(i, status'[i]))
      /\ UNCHANGED <<info, created, listed, nav, aim>>
      /\ Rendered(NotBusyAfter(k), [requests EXCEPT ![k] = Free])

\* Refused, or no answer; what the server may have done is Decide or ApproveRaises.
Fail(k) ==
  /\ requests[k] # Free
  /\ UNCHANGED <<info, serverVars, threats, nav, aim>>
  /\ Rendered(NotBusyAfter(k), [requests EXCEPT ![k] = Free])

-----------------------------------------------------------------------------
\* The server and the stream.

Detect ==
  /\ created < MaxReports
  /\ created' = created + 1
  /\ listed' = Append(listed, created + 1)
  /\ UNCHANGED <<info, status, threats, nav, busy, requests, aim>>

\* Pushed out by newer reports, or gone with a restart.
Evict ==
  /\ listed # <<>>
  /\ listed' = Tail(listed)
  /\ UNCHANGED <<info, created, status, threats, nav, busy, requests, aim>>

\* Another analyst.
Decide(i) ==
  /\ i \in ToSet(listed)
  /\ \E n \in DOMAIN status[i] : status' \in Decided(i, n) \ {status}
  /\ Cardinality(Decisions(status')) <= MaxDecisions
  /\ UNCHANGED <<info, created, listed, threats, nav, busy, requests, aim>>

\* approve() sets the status before it writes its record: when that raises, the
\* request fails and the action stays approved.
ApproveRaises(i) ==
  /\ i \in ToSet(listed)
  /\ \E n \in DOMAIN status[i] :
       /\ status[i][n] = "pending_approval"
       /\ status' = [status EXCEPT ![i][n] = "approved"]
  /\ Cardinality(Decisions(status')) <= MaxDecisions
  /\ UNCHANGED <<info, created, listed, threats, nav, busy, requests, aim>>

\* A frame with a report of the change log, new or replayed.
Frame(i) ==
  /\ i \in 1 .. created
  /\ \E r \in {Logged(i), Now(i)} : threats' = upsertThreat(threats, r)
  /\ UNCHANGED <<info, serverVars, nav, aim>>
  /\ Rendered(busy, requests)

\* The answer of a listing asked for by the page or a poll, which nothing orders:
\* as it is, or as it was at any time before.
Fetch ==
  /\ \E last \in 0 .. created : \E first \in 1 .. last + 1 : \E p \in Pasts(first, last) :
       threats' = Listing(first, last, p)
  /\ UNCHANGED <<info, serverVars, nav, aim>>
  /\ Rendered(busy, requests)

Next ==
  \/ \E p \in Pages, r \in Ids \cup {None} : Go(p, r)
  \/ \E i \in Ids : Select(i) \/ Decide(i) \/ ApproveRaises(i) \/ Frame(i)
  \/ \E k \in Requests : Settle(k) \/ Fail(k) \/ \E row \in Mounted(Shown) : Click(k, row)
  \/ Look \/ Detect \/ Evict \/ Fetch

Spec == Init /\ [][Next]_vars

-----------------------------------------------------------------------------
(***************************************************************************)
(* BusyIffRequest.  A row is disabled exactly as long as one request made  *)
(* by its mounted instance is under way, through changes of the report,    *)
(* of the page and of the list: no button is dead, and no row sends twice. *)
(* A request whose row was unmounted is on its own: the same action can be *)
(* clicked again while it runs.                                            *)
(***************************************************************************)
Own(row) == {k \in Requests : requests[k].mounted /\ requests[k].row = row}
BusyIffRequest ==
  /\ \A row \in Mounted(Shown) : Cardinality(Own(row)) = IF row \in busy THEN 1 ELSE 0
  /\ \A k \in Requests : requests[k].mounted => requests[k].row \in Mounted(Shown)

(***************************************************************************)
(* HitsTheAim.  A click acts on the report the analyst looked at, although *)
(* the list changes between the look and the click.  On AI Analysis that   *)
(* takes a report chosen from its list and still in it: otherwise what is  *)
(* shown is the newest report, and another one may take its place at any   *)
(* time (AIAnalysis.tsx:19).                                               *)
(***************************************************************************)
FollowsNewest == page = "analysis" /\ (aim # selectedId \/ ~HasId(threats, selectedId))
ClickHits ==
  \A k \in Requests :
    requests[k] = Free /\ requests'[k] # Free => requests'[k].id = aim \/ FollowsNewest
HitsTheAim == [][ClickHits]_vars

-----------------------------------------------------------------------------
Health(learning, ready) == HealthRecord(learning, ready, Len(listed))
Healths == {None} \cup {Health(learning, ready) : learning \in BOOLEAN, ready \in BOOLEAN}
OnOverview == Overview(threats, Events, Health(FALSE, TRUE))

\* The sum of f on 0 .. n - 1.
Total(f, n) ==
  LET upTo[c \in 0 .. n] == IF c = 0 THEN 0 ELSE upTo[c - 1] + f[c - 1]
  IN  upTo[n]

(***************************************************************************)
(* ChartIsRight.  The timeline of Overview counts every report that is not *)
(* "info" once, in the column of its minute; only a report on the last     *)
(* minute boundary is shown a minute early (EventChart.tsx:25).            *)
(***************************************************************************)
Starts(t) == FirstMinute(threats) + 60 * ColumnOf(threats, t)
InItsMinute(t) ==
  \/ t.ts \in Starts(t) .. Starts(t) + 59
  \/ t.ts = Starts(t) + 60 /\ t.ts = LastMinute(threats)
ChartIsRight ==
  threats # <<>> =>
    /\ \A s \in Charted :
         Total(OnOverview.timeline[s], Columns(threats)) = OnOverview.footer[s]
    /\ \A n \in DOMAIN threats : InItsMinute(threats[n])

(***************************************************************************)
(* PagesAgree.  Overview names the suspicious processes of Processes, or   *)
(* eight of them, each once, and with the same severity unless a process   *)
(* has several reports (Overview takes the first, Processes the last); the *)
(* severity of a row on Processes is that of the report it links to;       *)
(* all the events counted there are found on Kernel Activity by pid; an    *)
(* action that Response lists as waiting has its buttons, or as executed   *)
(* its rollback, on the report that Response links to; and the header says *)
(* "LEARNING" exactly when System Health does, or has nothing to show.     *)
(***************************************************************************)
Single(p) == Cardinality({n \in DOMAIN threats : threats[n].pid = p}) = 1
DetailOf(i) == ThreatDetail(FindById(threats, Threats(threats, "all", i).detail))
PagesAgree ==
  LET first == OnOverview.processes
      suspicious == Processes(Events, threats, TRUE)
  IN  /\ Len(first) = Min({ShownRows, suspicious.count})
      /\ \A m, n \in DOMAIN first : first[m].pid = first[n].pid => m = n
      /\ \A n \in DOMAIN first : \E r \in suspicious.rows :
           /\ r.pid = first[n].pid
           /\ Single(r.pid) => r.status = first[n].severity
      /\ \A r \in suspicious.rows : DetailOf(r.link).severity = r.status
      /\ \A r \in Processes(Events, threats, FALSE).rows :
           KernelActivity(Events, "all", r.pid).shown >= r.events
      /\ \A r \in Response(threats, "pending_approval").rows :
           DetailOf(r.link).rows[r.index].actionable
      /\ \A r \in Response(threats, "executed").rows : DetailOf(r.link).rollback
      /\ \A h \in Healths :
           AppHeader(threats, h).level = "LEARNING" <=>
             (h = None \/ SystemHealth(h).learning = "baseline")

(***************************************************************************)
(* AlarmMatchesResponse.  The posture shown by the header is an alarm      *)
(* exactly when the Response page lists, for a report that is not "info",  *)
(* an action that waits for a decision, or one left approved, by the       *)
(* server on its own or by a request that failed: the latter has no filter *)
(* and no button, so no page offers a way to end it.                       *)
(***************************************************************************)
Unfiltered ==
  Response(threats, "all").rows \ UNION {Response(threats, f).rows : f \in ResponseFilters \ {"all"}}
Alarms(rows) == \E r \in rows : FindById(threats, r.link).severity # "info"
AlarmMatchesResponse ==
  OnOverview.status \in {"THREAT ACTIVE", "ELEVATED"}
    <=> Alarms(Response(threats, "pending_approval").rows \cup Unfiltered)
=============================================================================
