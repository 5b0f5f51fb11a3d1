------------------------- MODULE BaselineLifecycle -------------------------
(***************************************************************************)
(* What the detector learns as normal: the learning phase, the sliding     *)
(* baseline, the chain cache, the periodic refit and label_chain()         *)
(* (backend/pipeline.py), the verdicts (backend/feedback/) and the life of *)
(* the fitted model (backend/detection/isolation_forest.py).               *)
(*                                                                         *)
(* The driver thread learns and scores windows, API threads label chains;  *)
(* they share the baseline, the cache and the detector with no lock.  A    *)
(* model is known by the chains it was fitted on ({}: not trained), and a  *)
(* feature vector by its chain; whether a chain's events, and so its       *)
(* fingerprint, changed since it was cached is left open, and so is what a *)
(* score says of it.                                                       *)
(***************************************************************************)
EXTENDS Naturals, Sequences, FiniteSets, Sublists

CONSTANTS
  Chains,       \* chain keys
  Analysts,     \* API threads in label_chain()
  Driver,       \* the pipeline driver thread
  Cap,          \* detection.baseline_max_samples, 0 for no cap
  MinWindows,   \* detection.min_learning_windows
  ModelPath,    \* is detection.model_path configured?
  Interval,     \* detection.refit_interval_windows, 0 for no refit
  MaxReports,   \* GuardianPipeline.reports: deque(maxlen)
  WindowSize,   \* bound: chains in a window
  MaxTicks,     \* bound: calls of analyze_window()
  MaxLabels,    \* bound: calls of label_chain()
  MaxCrashes    \* bound: restarts

ASSUME ThreadsAssumption == Driver \notin Analysts /\ IsFiniteSet(Chains)
ASSUME LimitsAssumption ==
  /\ ModelPath \in BOOLEAN
  /\ Cap \in Nat /\ MinWindows \in Nat /\ Interval \in Nat
  /\ MaxReports \in Nat \ {0} /\ WindowSize \in Nat /\ MaxTicks \in Nat
  /\ MaxLabels \in Nat /\ MaxCrashes \in Nat

VARIABLES
  learning,    \* GuardianPipeline.learning
  ticks,       \* _learning_ticks
  signalOnly,  \* _use_signal_only
  on,          \* chains the detector was fitted on
  baseline,    \* _baseline
  cache,       \* _chain_cache: the chains it has a score of
  old,         \* those whose score is of an earlier model
  reports,     \* the chains of the reports in the list
  sinceRefit,  \* _windows_since_refit
  ledger,      \* FeedbackLedger._entries, in the order of their keys
  ledgerFile,  \* the verdicts that would be read back
  modelFile,   \* the persisted model
  pc,          \* where each thread is
  batch,       \* chains of the window the driver has still to look at
  hand,        \* the chain whose score the driver works with
  handOld,     \* is the score it is about to store of an earlier model?
  job,         \* the verdict each analyst works on
  held,        \* the vectors each thread has in a local list
  training,    \* the chains it is fitting the detector on
  mixed,       \* threads that another's fit or save has come in between
  windows, labels, crashes,
  late,        \* verdicts of malicious that came after a thread's snapshot
  blame        \* why a malicious chain may still be in the model

detection == <<learning, ticks, signalOnly, sinceRefit>>
scores == <<cache, old>>
window == <<batch, hand, handOld>>
verdicts == <<ledger, ledgerFile>>
locals == <<held, training>>
bounds == <<windows, labels, crashes>>
vars == <<detection, on, baseline, scores, reports, verdicts, modelFile, pc, window, job,
          locals, mixed, bounds, late, blame>>

Threads == Analysts \cup {Driver}
Verdict == [chain : Chains, verdict : {"benign", "malicious"}]
Steps == {"idle", "looking", "storing", "reporting", "adding", "extending", "trimming",
          "cutting", "inserting", "changing", "repeating", "filtering", "assigning", "snapshot",
          "fitting", "clearing", "saving", "popping"}
Causes == {"none", "learned", "loaded", "skipped", "unsaved", "raised", "overtaken", "mixed"}

In(s) == {s[i] : i \in DOMAIN s}

Goto(t, step) == pc' = [pc EXCEPT ![t] = step]

Blame(cs, cause) == blame' = [c \in Chains |-> IF c \in cs THEN cause ELSE blame[c]]

(***************************************************************************)
(* The ledger and the baseline.                                            *)
(***************************************************************************)
\* malicious_keys
MaliciousIn(entries) ==
  {entries[i].chain : i \in {j \in DOMAIN entries : entries[j].verdict = "malicious"}}

Malicious == MaliciousIn(ledger)

\* reweight_baseline(), and the chains of the vectors it keeps.
Clean(vectors) == At(vectors, {i \in DOMAIN vectors : vectors[i] \notin Malicious})

\* Mutant: the refit does not apply the verdicts.
Bug_CleanChains == {c \in Chains : c \in In(baseline)}

CleanChains == {c \in Chains \ Malicious : c \in In(baseline)}

\* The cap in _add_to_baseline().
Trimmed(vectors) ==
  IF Cap = 0 \/ Len(vectors) <= Cap THEN vectors
  ELSE SubSeq(vectors, Len(vectors) - Cap + 1, Len(vectors))

\* record(): an entry keeps its place among the keys, a new one comes last.
Entered(v) ==
  IF \E i \in DOMAIN ledger : ledger[i].chain = v.chain
  THEN [i \in DOMAIN ledger |-> IF ledger[i].chain = v.chain THEN v ELSE ledger[i]]
  ELSE Append(ledger, v)

Effect(v) ==
  IF \A i \in DOMAIN ledger : ledger[i].chain # v.chain THEN "inserting"
  ELSE IF v \in In(ledger) THEN "repeating" ELSE "changing"

Init ==
  /\ learning = TRUE
  /\ ticks = 0
  /\ signalOnly = FALSE
  /\ on = {}
  /\ baseline = <<>>
  /\ cache = {}
  /\ old = {}
  /\ reports = <<>>
  /\ sinceRefit = 0
  /\ ledger = <<>>
  /\ ledgerFile = <<>>
  /\ modelFile = [state |-> "none", on |-> {}]
  /\ pc = [t \in Threads |-> "idle"]
  /\ batch = {}
  /\ hand = {}
  /\ handOld = FALSE
  /\ job = [a \in Analysts |-> {}]
  /\ held = [t \in Threads |-> <<>>]
  /\ training = [t \in Threads |-> {}]
  /\ mixed = {}
  /\ windows = 0
  /\ labels = 0
  /\ crashes = 0
  /\ late = {}
  /\ blame = [c \in Chains |-> "none"]

(***************************************************************************)
(* learning_step() with a live provider.  A tick whose telemetry fails     *)
(* raises before it is counted and changes nothing.                        *)
(***************************************************************************)
LearnTick ==
  /\ pc[Driver] = "idle" /\ learning
  /\ ticks + 1 < MinWindows
  /\ ticks' = ticks + 1
  /\ UNCHANGED <<learning, signalOnly, sinceRefit, on, baseline, scores, reports, verdicts,
                 modelFile, pc, window, job, locals, mixed, bounds, late, blame>>

\* The vectors of a window or a buffer: one per chain, in any order.
Windows ==
  {s \in UNION {[1..n -> Chains] : n \in 0..Cardinality(Chains)} :
     \A i, j \in DOMAIN s : i # j => s[i] # s[j]}

(***************************************************************************)
(* The last learning tick: complete_learning() fits what was seen, without *)
(* asking the ledger, or falls back on signals when nothing was.           *)
(***************************************************************************)
CompleteLearning ==
  /\ pc[Driver] = "idle" /\ learning
  /\ ticks + 1 >= MinWindows
  /\ ticks' = ticks + 1
  /\ learning' = FALSE
  /\ \E seen \in Windows :
       /\ baseline' = Trimmed(seen)
       /\ signalOnly' = (seen = <<>>)
       /\ on' = In(baseline')
       /\ Blame(on' \cap Malicious, "learned")
       /\ Goto(Driver, IF ModelPath /\ seen # <<>> THEN "saving" ELSE "idle")
  /\ UNCHANGED <<sinceRefit, scores, reports, verdicts, modelFile, window, job,
                 locals, mixed, bounds, late>>

(***************************************************************************)
(* analyze_window(): one vector after the other is looked up in the cache, *)
(* or scored and stored, and then reported or added to the baseline.      *)
(***************************************************************************)
StartWindow ==
  /\ pc[Driver] = "idle" /\ ~learning
  /\ windows < MaxTicks
  /\ windows' = windows + 1
  /\ batch' \in {S \in SUBSET Chains : Cardinality(S) <= WindowSize}
  /\ Goto(Driver, "looking")
  /\ UNCHANGED <<detection, on, baseline, scores, reports, verdicts, modelFile, hand, handOld,
                 job, locals, mixed, labels, crashes, late, blame>>

Hit(c) ==
  /\ pc[Driver] = "looking" /\ c \in batch
  /\ c \in cache
  /\ hand' = {c}
  /\ batch' = batch \ {c}
  /\ \E step \in {"reporting", "adding"} : Goto(Driver, step)
  /\ UNCHANGED <<detection, on, baseline, scores, reports, verdicts, modelFile, handOld, job,
                 locals, mixed, bounds, late, blame>>

\* A score by signals when there is no model to use, else by the model.
Miss(c) ==
  /\ pc[Driver] = "looking" /\ c \in batch
  /\ hand' = {c}
  /\ batch' = batch \ {c}
  /\ Goto(Driver, "storing")
  /\ UNCHANGED <<detection, on, baseline, scores, reports, verdicts, modelFile, handOld, job,
                 locals, mixed, bounds, late, blame>>

Store ==
  /\ pc[Driver] = "storing"
  /\ cache' = cache \cup hand
  /\ old' = IF handOld THEN old \cup hand ELSE old \ hand
  /\ handOld' = FALSE
  /\ \E step \in {"reporting", "adding"} : Goto(Driver, step)
  /\ UNCHANGED <<detection, on, baseline, reports, verdicts, modelFile, batch, hand, job, locals,
                 mixed, bounds, late, blame>>

\* predict() raises on a forest that an analyst's refit is changing, or changed
\* under it: the driver gives up the window and its refit.
PredictRaises ==
  /\ pc[Driver] = "storing" /\ ~signalOnly
  /\ handOld \/ \E a \in Analysts : pc[a] = "fitting"
  /\ batch' = {}
  /\ hand' = {}
  /\ handOld' = FALSE
  /\ Goto(Driver, "idle")
  /\ UNCHANGED <<detection, on, baseline, scores, reports, verdicts, modelFile, job, locals, mixed,
                 bounds, late, blame>>

\* The newest reports, as the deque keeps them.
Listed(c) ==
  LET all == Append(reports, c)
  IN  IF Len(all) <= MaxReports THEN all ELSE SubSeq(all, Len(all) - MaxReports + 1, Len(all))

ReportThreat ==
  /\ pc[Driver] = "reporting"
  /\ \E c \in hand : reports' = Listed(c)
  /\ hand' = {}
  /\ Goto(Driver, "looking")
  /\ UNCHANGED <<detection, on, baseline, scores, verdicts, modelFile, batch, handOld, job, locals,
                 mixed, bounds, late, blame>>

\* The gate's audit record or the stored report raises, before or after the
\* report is in the list: the driver gives up the window and its refit.
ReportRaises ==
  /\ pc[Driver] = "reporting"
  /\ \E c \in hand : reports' \in {reports, Listed(c)}
  /\ hand' = {}
  /\ batch' = {}
  /\ Goto(Driver, "idle")
  /\ UNCHANGED <<detection, on, baseline, scores, verdicts, modelFile, handOld, job, locals,
                 mixed, bounds, late, blame>>

\* The end of the window, and _maybe_refit().
EndWindow ==
  /\ pc[Driver] = "looking" /\ batch = {}
  /\ LET due == Interval # 0 /\ sinceRefit + 1 >= Interval
     IN  /\ sinceRefit' = IF Interval = 0 \/ due THEN 0 ELSE sinceRefit + 1
         /\ Goto(Driver, IF due THEN "snapshot" ELSE "idle")
  /\ UNCHANGED <<learning, ticks, signalOnly, on, baseline, scores, reports,
                 verdicts, modelFile, window, job, locals, mixed, bounds, late, blame>>

(***************************************************************************)
(* _add_to_baseline() of one vector, by the driver or an analyst: the keys *)
(* already there are read, the list is extended, and a copy cut to the cap *)
(* is made and then assigned.                                              *)
(***************************************************************************)
\* Mutant: the label is added in the place of the vector it is about.
Bug_Added(t) == IF t = Driver THEN hand ELSE job[t]

Added(t) == IF t = Driver THEN hand ELSE {v.chain : v \in job[t]}

LeaveAdd(t) ==
  /\ Goto(t, IF t = Driver THEN "looking" ELSE "filtering")
  /\ hand' = IF t = Driver THEN {} ELSE hand

Seen(t) ==
  /\ pc[t] = "adding"
  /\ \E c \in Added(t) :
       held' = [held EXCEPT ![t] = IF c \in In(baseline) THEN <<>> ELSE <<c>>]
  /\ Goto(t, "extending")
  /\ UNCHANGED <<detection, on, baseline, scores, reports, verdicts, modelFile, window, job,
                 training, mixed, bounds, late, blame>>

Extend(t) ==
  /\ pc[t] = "extending"
  /\ baseline' = baseline \o held[t]
  /\ held' = [held EXCEPT ![t] = <<>>]
  /\ IF Trimmed(baseline') = baseline'
     THEN LeaveAdd(t)
     ELSE Goto(t, "trimming") /\ UNCHANGED hand
  /\ UNCHANGED <<detection, on, scores, reports, verdicts, modelFile, batch, handOld, job, mixed,
                 training, bounds, late, blame>>

Trim(t) ==
  /\ pc[t] = "trimming"
  /\ held' = [held EXCEPT ![t] = Trimmed(baseline)]
  /\ Goto(t, "cutting")
  /\ UNCHANGED <<detection, on, baseline, scores, reports, verdicts, modelFile, window, job,
                 training, mixed, bounds, late, blame>>

AssignTrimmed(t) ==
  /\ pc[t] = "cutting"
  /\ baseline' = held[t]
  /\ held' = [held EXCEPT ![t] = <<>>]
  /\ LeaveAdd(t)
  /\ UNCHANGED <<detection, on, scores, reports, verdicts, modelFile, batch, handOld, job,
                 training, mixed, bounds, late, blame>>

(***************************************************************************)
(* label_chain() and FeedbackLedger.record().  The lock is held from the   *)
(* change in memory to the end of the save, which rewrites the file.       *)
(***************************************************************************)
Finish(a) ==
  /\ Goto(a, "idle")
  /\ job' = IF a \in Analysts THEN [job EXCEPT ![a] = {}] ELSE job

\* The chain of an analyst's verdict, if it is a malicious one.
Accused(t) ==
  IF t = Driver THEN {}
  ELSE {v.chain : v \in {w \in job[t] : w.verdict = "malicious"}}

Recording == {"inserting", "changing", "repeating"}

Label(a, v) ==
  /\ pc[a] = "idle"
  /\ v.chain \in In(reports)
  /\ labels < MaxLabels
  /\ \A b \in Analysts : pc[b] \notin Recording
  /\ labels' = labels + 1
  /\ ledger' = Entered(v)
  /\ job' = [job EXCEPT ![a] = {v}]
  /\ Goto(a, Effect(v))
  /\ late' = late \cup {<<t, v.chain>> : t \in
       {u \in Threads : pc[u] = "fitting" /\ v.verdict = "malicious"}}
  /\ IF Effect(v) = "repeating" THEN UNCHANGED blame ELSE Blame({v.chain}, "none")
  /\ UNCHANGED <<detection, on, baseline, scores, reports, ledgerFile, modelFile, window,
                 locals, mixed, windows, crashes>>

\* The file is written and record() returns whether the label changed; if
\* it did not, nothing else is done.
SaveVerdict(a) ==
  /\ pc[a] \in Recording
  /\ ledgerFile' = ledger
  /\ IF pc[a] = "repeating" THEN Finish(a)
     ELSE /\ \E v \in job[a] : Goto(a, IF v.verdict = "benign" THEN "adding" ELSE "filtering")
          /\ UNCHANGED job
  /\ UNCHANGED <<detection, on, baseline, scores, reports, ledger, modelFile, window, locals,
                 mixed, bounds, late, blame>>

\* What a rewrite of the file that does not end leaves there.
CutLedgers == {ledgerFile} \cup {SubSeq(ledger, 1, n) : n \in 0..Len(ledger)}

SaveVerdictRaises(a) ==
  /\ pc[a] \in Recording
  /\ ledgerFile' \in CutLedgers
  /\ Blame(Accused(a), "unsaved")
  /\ Finish(a)
  /\ UNCHANGED <<detection, on, baseline, scores, reports, ledger, modelFile, window, locals,
                 mixed, bounds, late>>

\* _apply_feedback(): a filtered copy is made, and then assigned.
Filter(a) ==
  /\ pc[a] = "filtering"
  /\ held' = [held EXCEPT ![a] = Clean(baseline)]
  /\ Goto(a, "assigning")
  /\ UNCHANGED <<detection, on, baseline, scores, reports, verdicts, modelFile, window, job,
                 mixed, training, bounds, late, blame>>

Assign(a) ==
  /\ pc[a] = "assigning"
  /\ baseline' = held[a]
  /\ held' = [held EXCEPT ![a] = <<>>]
  /\ Goto(a, "snapshot")
  /\ UNCHANGED <<detection, on, scores, reports, verdicts, modelFile, window, job, mixed,
                 training, bounds, late, blame>>

(***************************************************************************)
(* _refit_detector(), by the driver or an analyst.                         *)
(***************************************************************************)
AfterRefit(t) == IF t = Driver THEN "idle" ELSE "popping"

Snapshot(t) ==
  /\ pc[t] = "snapshot"
  /\ IF Len(Clean(baseline)) < 2
     THEN /\ Goto(t, AfterRefit(t))
          /\ Blame(Accused(t), "skipped")
          /\ UNCHANGED training
     ELSE /\ Goto(t, "fitting")
          /\ training' = [training EXCEPT ![t] = CleanChains]
          /\ UNCHANGED blame
  /\ UNCHANGED <<detection, on, baseline, scores, reports, verdicts, modelFile, window, job,
                 mixed, held, bounds, late>>

\* malicious_keys iterates over the entries without the lock: a new key that
\* comes in between raises RuntimeError.
ReadRaises(t) ==
  /\ pc[t] \in {"filtering", "snapshot"}
  /\ \E b \in Analysts : pc[b] = "inserting"
  /\ Blame(Accused(t), "raised")
  /\ Finish(t)
  /\ UNCHANGED <<detection, on, baseline, scores, reports, verdicts, modelFile, window, locals,
                 mixed, bounds, late>>

\* Others in the same part of the code, whose work this step comes in between.
Disturb(t) == mixed' = (mixed \ {t}) \cup {u \in Threads \ {t} : pc[u] = pc[t]}

\* fit() changes the model in place: two that overlap may leave a model of
\* both.  Every score made so far is of an earlier model now.
Fit(t) ==
  /\ pc[t] = "fitting"
  /\ on' \in {training[t]} \cup (IF t \in mixed THEN {training[t] \cup on} ELSE {})
  /\ training' = [training EXCEPT ![t] = {}]
  /\ Disturb(t)
  /\ IF signalOnly THEN UNCHANGED <<old, handOld>>
     ELSE old' = cache /\ handOld' = (pc[Driver] = "storing")
  /\ blame' = [c \in Chains |-> IF c \notin on' THEN "none"
                                ELSE IF c \notin training[t] THEN "mixed"
                                ELSE IF <<t, c>> \in late THEN "overtaken" ELSE "none"]
  /\ late' = {l \in late : l[1] # t}
  /\ Goto(t, "clearing")
  /\ UNCHANGED <<detection, baseline, cache, reports, verdicts, modelFile, batch, hand,
                 job, held, bounds>>

Forget(cs) ==
  /\ cache' = cache \ cs
  /\ old' = old \ cs

\* Mutant: only the chain that was labelled leaves the cache.
Bug_Clear(t) ==
  /\ pc[t] = "clearing"
  /\ Forget(Accused(t))
  /\ Goto(t, IF ModelPath THEN "saving" ELSE AfterRefit(t))
  /\ UNCHANGED <<detection, on, baseline, reports, verdicts, modelFile, window, job, locals,
                 mixed, bounds, late, blame>>

Clear(t) ==
  /\ pc[t] = "clearing"
  /\ Forget(Chains)
  /\ Goto(t, IF ModelPath THEN "saving" ELSE AfterRefit(t))
  /\ UNCHANGED <<detection, on, baseline, reports, verdicts, modelFile, window, job, locals,
                 mixed, bounds, late, blame>>

Torn == [state |-> "torn", on |-> {}]

\* save() writes the model as it is by then, over the file.
SaveModel(t) ==
  /\ pc[t] = "saving"
  /\ modelFile' \in {[state |-> "whole", on |-> on]} \cup (IF t \in mixed THEN {Torn} ELSE {})
  /\ Disturb(t)
  /\ Goto(t, AfterRefit(t))
  /\ UNCHANGED <<detection, on, baseline, scores, reports, verdicts, window, job, locals, bounds,
                 late, blame>>

SaveModelRaises(t) ==
  /\ pc[t] = "saving"
  /\ modelFile' \in {modelFile, Torn}
  /\ Disturb(t)
  /\ Finish(t)
  /\ UNCHANGED <<detection, on, baseline, scores, reports, verdicts, window, locals, bounds,
                 late, blame>>

Pop(a) ==
  /\ pc[a] = "popping"
  /\ Forget(Added(a))
  /\ Finish(a)
  /\ UNCHANGED <<detection, on, baseline, reports, verdicts, modelFile, window, locals, mixed,
                 bounds, late, blame>>

(***************************************************************************)
(* A crash, possibly inside a rewrite of one of the files, and the next    *)
(* start: the verdicts are read back, and a persisted model ends learning. *)
(* A torn model file makes load() raise: the operator removes it.          *)
(***************************************************************************)
Restart ==
  /\ crashes < MaxCrashes
  /\ crashes' = crashes + 1
  /\ ledger' \in IF \E a \in Analysts : pc[a] \in Recording THEN CutLedgers ELSE {ledgerFile}
  /\ ledgerFile' = ledger'
  /\ modelFile' \in {IF modelFile.state = "torn" THEN [state |-> "none", on |-> {}] ELSE modelFile}
       \cup (IF \E t \in Threads : pc[t] = "saving"
             THEN {[state |-> "none", on |-> {}]} ELSE {})
  /\ on' = modelFile'.on
  /\ learning' = (modelFile'.state = "none")
  /\ blame' = [c \in Chains |-> IF c \in on' \cap MaliciousIn(ledger') THEN "loaded" ELSE "none"]
  /\ ticks' = 0
  /\ signalOnly' = FALSE
  /\ baseline' = <<>>
  /\ cache' = {}
  /\ old' = {}
  /\ reports' = <<>>
  /\ sinceRefit' = 0
  /\ pc' = [t \in Threads |-> "idle"]
  /\ batch' = {}
  /\ hand' = {}
  /\ handOld' = FALSE
  /\ job' = [a \in Analysts |-> {}]
  /\ held' = [t \in Threads |-> <<>>]
  /\ training' = [t \in Threads |-> {}]
  /\ mixed' = {}
  /\ late' = {}
  /\ UNCHANGED <<windows, labels>>

Refit(t) ==
  Snapshot(t) \/ ReadRaises(t) \/ Fit(t) \/ Clear(t) \/ SaveModel(t) \/ SaveModelRaises(t)

Add(t) == Seen(t) \/ Extend(t) \/ Trim(t) \/ AssignTrimmed(t)

DriverStep ==
  \/ LearnTick \/ CompleteLearning \/ StartWindow
  \/ \E c \in Chains : Hit(c) \/ Miss(c)
  \/ Store \/ PredictRaises \/ ReportThreat \/ ReportRaises \/ EndWindow
  \/ Add(Driver) \/ Refit(Driver)

LabelStep(a) ==
  \/ SaveVerdict(a) \/ SaveVerdictRaises(a)
  \/ Filter(a) \/ Assign(a) \/ Pop(a)
  \/ Add(a) \/ Refit(a)

Next ==
  \/ DriverStep
  \/ \E a \in Analysts : LabelStep(a) \/ \E v \in Verdict : Label(a, v)
  \/ Restart

Spec == Init /\ [][Next]_vars

(***************************************************************************)
(* Properties.                                                             *)
(***************************************************************************)
TypeOK ==
  /\ learning \in BOOLEAN /\ signalOnly \in BOOLEAN
  /\ ticks \in Nat /\ sinceRefit \in Nat
  /\ on \in SUBSET Chains
  /\ baseline \in Seq(Chains)
  /\ cache \in SUBSET Chains
  /\ old \in SUBSET Chains
  /\ reports \in Seq(Chains) /\ Len(reports) <= MaxReports
  /\ ledger \in Seq(Verdict) /\ ledgerFile \in Seq(Verdict)
  /\ modelFile \in [state : {"none", "torn", "whole"}, on : SUBSET Chains]
  /\ pc \in [Threads -> Steps]
  /\ batch \in SUBSET Chains
  /\ hand \in SUBSET Chains /\ handOld \in BOOLEAN
  /\ job \in [Analysts -> SUBSET Verdict]
  /\ held \in [Threads -> Seq(Chains)] /\ training \in [Threads -> SUBSET Chains]
  /\ mixed \in SUBSET Threads
  /\ windows \in Nat /\ labels \in Nat /\ crashes \in Nat
  /\ late \in SUBSET (Threads \X Chains)
  /\ blame \in [Chains -> Causes]

\* An analyst's verdict on the chain is on its way into the model.
OnTheWay == {"inserting", "changing", "filtering", "assigning", "snapshot", "fitting"}

OnItsWay(c) ==
  \E a \in Analysts :
    /\ pc[a] \in OnTheWay
    /\ c \in Accused(a)

\* A chain that is labelled malicious is not in the model in use, unless its
\* label_chain() is still at work or for one of the causes in "blame":
\* learning does not ask the ledger, a persisted model is older than the
\* verdict, too few vectors are left for a refit, the verdict could not be
\* written, or a new one came in while the verdicts were read, a refit that
\* began before the verdict ended after it, or two refits overlapped.
MaliciousStaysOut ==
  \A c \in on \cap Malicious : blame[c] # "none" \/ OnItsWay(c)

\* Whenever no refit is between its fit() and its clear(), at most one score
\* of an earlier model is in the cache or about to be stored there: the one
\* the driver was computing when the model changed.
StaleScores ==
  (\A t \in Threads : pc[t] # "clearing") =>
    Cardinality(old \cup (IF handOld THEN hand ELSE {})) <= 1

\* Once the detector is trained, signal-only mode is over: it stands in
\* "until enough baseline data accumulates" (pipeline.py:213-216).
SignalOnlyEnds ==
  on # {} /\ (\A t \in Threads : pc[t] = "idle") => ~signalOnly
=============================================================================
