-------------------------------- MODULE Views --------------------------------
(***************************************************************************)
(* What the pages of the dashboard derive from the lists the               *)
(* GuardianProvider holds: pure functions of the list of threats, of the   *)
(* list of kernel events and of health.  A report is                       *)
(* [id, ts, pid, severity, actions] with the sequence of its actions'      *)
(* statuses, an event is [pid, kind, ts].  Health is None before it first  *)
(* arrives; what it says of telemetry is whether the provider is running.  *)
(* Times are whole seconds, and wording, colours, layout and the texts of  *)
(* a report are left out: a page is the records of what it shows, of what  *)
(* it offers and where it links.                                           *)
(***************************************************************************)
EXTENDS Integers, Sequences, SequencesExt, FiniteSets, FiniteSetsExt, Sublists

CONSTANT None   \* null or undefined

Severities == {"info", "low", "medium", "high", "critical"}
Statuses == {"recommended", "pending_approval", "approved", "executed", "rejected", "failed"}

\* array.find() and array.filter(): the elements that P holds of.
HasId(list, id) == \E n \in DOMAIN list : list[n].id = id
FindById(list, id) == list[CHOOSE n \in DOMAIN list : list[n].id = id]

\* [...list].sort((a, b) => b.ts - a.ts), which is stable.
RankOf(list, n) ==
  Cardinality({m \in DOMAIN list :
                 \/ list[m].ts > list[n].ts
                 \/ list[m].ts = list[n].ts /\ m <= n})
NewestFirst(list) ==
  [k \in DOMAIN list |-> list[CHOOSE n \in DOMAIN list : RankOf(list, n) = k]]

-----------------------------------------------------------------------------
\* The posture shown by the header and by Overview.

OpenStatuses == {"recommended", "pending_approval", "approved"}
Bug_AnyAction(t) == t.actions # <<>>
IsOpen(t) == \E n \in DOMAIN t.actions : t.actions[n] \in OpenStatuses

\* health?.learning ?? true
Learning(health) == health = None \/ health.learning

threatLevel(threats, learning) ==
  LET open == {threats[n].severity : n \in {m \in DOMAIN threats : IsOpen(threats[m])}}
  IN  CASE learning -> "LEARNING"
        [] ~learning /\ open \cap {"critical", "high"} # {} -> "THREAT ACTIVE"
        [] ~learning /\ open \cap {"critical", "high"} = {}
             /\ open \cap {"medium", "low"} # {} -> "ELEVATED"
        [] OTHER -> "PROTECTED"

\* The header, but for the status of the stream (GuardianSocket).
AppHeader(threats, health) ==
  [level |-> threatLevel(threats, Learning(health)),
   window |-> IF health = None THEN None ELSE health.events_in_window]

severityCounts(threats) ==
  [s \in Severities |-> Cardinality({n \in DOMAIN threats : threats[n].severity = s})]

-----------------------------------------------------------------------------
\* The timeline: one column per minute, stacked by severity, no "info".

Charted == {"critical", "high", "medium", "low"}
Times(threats) == {threats[n].ts : n \in DOMAIN threats}
FirstMinute(threats) == (Min(Times(threats)) \div 60) * 60
LastMinute(threats) == ((Max(Times(threats)) + 59) \div 60) * 60
Columns(threats) == Max({1, (LastMinute(threats) - FirstMinute(threats)) \div 60})

\* A report on the last boundary would be one column too far.
Bug_NoClamp(threats, t) == (t.ts - FirstMinute(threats)) \div 60
ColumnOf(threats, t) ==
  Min({Columns(threats) - 1, (t.ts - FirstMinute(threats)) \div 60})

\* counts[sev][idx] of a list that is not empty.
EventChart(threats) ==
  [s \in Charted |->
    [c \in 0 .. Columns(threats) - 1 |->
      Cardinality({n \in DOMAIN threats :
        threats[n].severity = s /\ ColumnOf(threats, threats[n]) = c})]]

-----------------------------------------------------------------------------
\* Overview

ShownRows == 8
AtMost(list, n) == IF Len(list) > n THEN SubSeq(list, 1, n) ELSE list

Bug_NoSeen(threats) ==
  AtMost([n \in DOMAIN threats |->
            [pid |-> threats[n].pid, severity |-> threats[n].severity, ts |-> threats[n].ts]],
         ShownRows)

\* The first report of each pid in the list.
FirstOfPid(threats) ==
  {n \in DOMAIN threats : \A m \in 1 .. n - 1 : threats[m].pid # threats[n].pid}
suspiciousProcesses(threats) ==
  LET first == At(threats, FirstOfPid(threats))
  IN  AtMost([n \in DOMAIN first |->
                [pid |-> first[n].pid, severity |-> first[n].severity, ts |-> first[n].ts]],
             ShownRows)

StatCards(threats, events, health) ==
  [threats |-> IF health = None THEN Len(threats) ELSE health.threats,
   window |-> IF health = None THEN 0 ELSE health.events_in_window,
   critical |-> severityCounts(threats)["critical"],
   high |-> severityCounts(threats)["high"],
   processes |-> Cardinality({events[n].pid : n \in DOMAIN events})]

Timeline(threats) == IF threats = <<>> THEN None ELSE EventChart(threats)

KernelPanel(events) == AtMost(events, ShownRows)

\* "Latest detection, explained", with its link to the report.
LatestPanel(threats) ==
  IF threats = <<>> THEN None
  ELSE [severity |-> threats[1].severity, pid |-> threats[1].pid, link |-> threats[1].id]

Footer(threats) == severityCounts(threats)

Overview(threats, events, health) ==
  [status |-> threatLevel(threats, Learning(health)),
   cards |-> StatCards(threats, events, health),
   timeline |-> Timeline(threats),
   processes |-> suspiciousProcesses(threats),
   kernel |-> KernelPanel(events),
   latest |-> LatestPanel(threats),
   footer |-> Footer(threats)]

-----------------------------------------------------------------------------
\* System Health, but for its row on the stream (GuardianSocket).

StatusRow(ok) == IF ok THEN "up" ELSE "down"
SystemHealth(health) ==
  IF health = None THEN None
  ELSE [learning |-> IF health.learning THEN "baseline" ELSE "detecting",
        baseline |-> health.baseline,
        threats |-> health.threats,
        window |-> health.events_in_window,
        ingestion |-> StatusRow(health.events_in_window >= 0),
        engine |-> StatusRow(health.ready),
        provider |-> StatusRow(health.running)]

-----------------------------------------------------------------------------
\* Processes: one row per pid of an event or a report.

NoRow == [count |-> 0, ts |-> 0, severity |-> None, link |-> None, kinds |-> {}]

\* A pid's row after the events, then after the reports: the last one stays.
EventRow(events, p) ==
  LET own == {n \in DOMAIN events : events[n].pid = p}
  IN  [NoRow EXCEPT !.count = Cardinality(own),
                    !.ts = Max({0} \cup {events[n].ts : n \in own}),
                    !.kinds = {events[n].kind : n \in own}]
ProcRow(events, threats, p) ==
  LET row == EventRow(events, p)
      own == {n \in DOMAIN threats : threats[n].pid = p}
  IN  IF own = {} THEN row
      ELSE [row EXCEPT !.severity = threats[Max(own)].severity,
                       !.link = threats[Max(own)].id,
                       !.ts = Max({@} \cup {threats[n].ts : n \in own})]

Pids(list) == {list[n].pid : n \in DOMAIN list}
Rows(events, threats, suspiciousOnly) ==
  LET row(p) == ProcRow(events, threats, p)
      pids == {p \in Pids(events) \cup Pids(threats) :
                 suspiciousOnly => row(p).severity # None}
  IN  {[pid |-> p, row |-> row(p)] : p \in pids}

\* A row is marked "normal", or with the severity and a link to a report.
Processes(events, threats, suspiciousOnly) ==
  LET rows == Rows(events, threats, suspiciousOnly)
  IN  [count |-> Cardinality(rows),
       rows |-> {[pid |-> r.pid,
                  events |-> r.row.count,
                  kinds |-> r.row.kinds,
                  status |-> IF r.row.severity = None THEN "normal" ELSE r.row.severity,
                  link |-> r.row.link] : r \in rows}]

-----------------------------------------------------------------------------
\* Kernel Activity

\* The search text is the decimal text of a number; pids have up to two digits.
TextIncludes(p, q) == q \in {p, p % 10} \/ (p >= 10 /\ q = p \div 10)
Filtered(events, kind, search) ==
  At(events, {n \in DOMAIN events :
                /\ kind = "all" \/ events[n].kind = kind
                /\ search = None \/ TextIncludes(events[n].pid, search)})

KernelActivity(events, kind, search) ==
  LET filtered == Filtered(events, kind, search)
  IN  [shown |-> Len(filtered), rows |-> filtered]

-----------------------------------------------------------------------------
\* Response: one row per action, with a link to its report; the order of the
\* rows, newest first, is layout.

ResponseFilters == {"all", "pending_approval", "recommended", "executed", "rejected", "failed"}
ActionsOf(threats) ==
  UNION {{<<m, n>> : n \in DOMAIN threats[m].actions} : m \in DOMAIN threats}
ResponseRow(t, n) == [link |-> t.id, ts |-> t.ts, index |-> n, status |-> t.actions[n]]
Response(threats, filter) ==
  LET row(a) == ResponseRow(threats[a[1]], a[2])
      shown == {a \in ActionsOf(threats) : filter = "all" \/ row(a).status = filter}
  IN  [count |-> Cardinality(shown), rows |-> {row(a) : a \in shown}]

-----------------------------------------------------------------------------
\* Threats and AI Analysis: a list of links, and the report shown in detail.

ThreatList(threats, filter) ==
  LET sorted == NewestFirst(threats)
  IN  At(sorted, {n \in DOMAIN sorted : filter = "all" \/ sorted[n].severity = filter})

Bug_FallsBack(threats, reportId) ==
  IF HasId(threats, reportId) THEN reportId
  ELSE IF threats = <<>> THEN None ELSE NewestFirst(threats)[1].id
ThreatSelected(threats, reportId) == IF HasId(threats, reportId) THEN reportId ELSE None

Threats(threats, filter, reportId) ==
  [list |-> {t.id : t \in ToSet(ThreatList(threats, filter))},
   detail |-> ThreatSelected(threats, reportId)]

Analysed(threats, selectedId) ==
  IF HasId(threats, selectedId) THEN selectedId
  ELSE IF threats = <<>> THEN None ELSE NewestFirst(threats)[1].id

AIAnalysis(threats, selectedId) ==
  [list |-> {t.id : t \in ToSet(NewestFirst(threats))},
   detail |-> Analysed(threats, selectedId)]

-----------------------------------------------------------------------------
\* ThreatDetail: the rows of a report's actions, and what it offers on them.

ActionRow(t, n) ==
  [status |-> t.actions[n],
   actionable |-> t.actions[n] \in {"recommended", "pending_approval"}]

ThreatDetail(t) ==
  [severity |-> t.severity,
   rows |-> [n \in DOMAIN t.actions |-> ActionRow(t, n)],
   rollback |-> "executed" \in ToSet(t.actions)]
=============================================================================
