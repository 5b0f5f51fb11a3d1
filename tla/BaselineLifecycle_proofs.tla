---------------------- MODULE BaselineLifecycle_proofs ----------------------
(***************************************************************************)
(* What BaselineLifecycle promises of the model in use and of the chain    *)
(* cache, for any number of analysts, chains, labels and restarts.         *)
(***************************************************************************)
EXTENDS BaselineLifecycle, Sublists_proofs

(***************************************************************************)
(* The cache.  A score of an earlier model comes into the cache only from  *)
(* the driver's hand, and then the cache was cleared since the model       *)
(* changed.                                                                *)
(***************************************************************************)
AtMostOne(S) == \A x, y \in S : x = y

Rested == \A t \in Threads : pc[t] # "clearing"

CacheInv ==
  /\ hand \in SUBSET Chains /\ old \in SUBSET Chains /\ cache \in SUBSET Chains
  /\ handOld \in BOOLEAN
  /\ pc \in [Threads -> Steps]
  /\ AtMostOne(hand)
  /\ Rested => AtMostOne(old) /\ (handOld => old = {})

\* A set with at most one element has a cardinality of at most 1.
LEMMA SmallCardinality ==
  ASSUME NEW S, AtMostOne(S)
  PROVE  Cardinality(S) <= 1
<1>1. CASE S = {}
  <2>1. Cardinality(S) = 0
    BY <1>1, FS_EmptySet
  <2>. QED  BY <2>1
<1>2. CASE S # {}
  <2>1. PICK x \in S : TRUE
    BY <1>2
  <2>2. S = {x}
    BY <2>1 DEF AtMostOne
  <2>3. Cardinality(S) = 1
    BY <2>2, FS_Singleton
  <2>. QED  BY <2>3
<1>. QED  BY <1>1, <1>2

\* Where a thread goes.
LEMMA PcType ==
  ASSUME pc \in [Threads -> Steps], NEW t \in Threads, NEW s \in Steps, Goto(t, s)
  PROVE  /\ pc' \in [Threads -> Steps] /\ pc'[t] = s
         /\ \A u \in Threads \ {t} : pc'[u] = pc[u]
BY DEF Goto

\* Going from and to other steps than "clearing" changes nothing about rest.
LEMMA StillRested ==
  ASSUME pc \in [Threads -> Steps], NEW t \in Threads, NEW s \in Steps, Goto(t, s),
         pc[t] # "clearing", s # "clearing"
  PROVE  Rested' = Rested /\ pc' \in [Threads -> Steps]
BY PcType DEF Rested

\* Steps that leave the cache and the hand alone.
LEMMA CacheAlone ==
  ASSUME CacheInv, UNCHANGED <<cache, old, hand, handOld>>, NEW t \in Threads,
         NEW s \in Steps, Goto(t, s), pc[t] # "clearing", s # "clearing"
  PROVE  CacheInv'
<1>1. Rested' = Rested /\ pc' \in [Threads -> Steps]
  BY StillRested DEF CacheInv
<1>. QED  BY <1>1 DEF CacheInv, AtMostOne

\* Steps that take the driver's hand away.
LEMMA HandGone ==
  ASSUME CacheInv, UNCHANGED <<cache, old, handOld>>, hand' = {} \/ UNCHANGED hand, NEW t \in Threads,
         NEW s \in Steps, Goto(t, s), pc[t] # "clearing", s # "clearing"
  PROVE  CacheInv'
<1>1. Rested' = Rested /\ pc' \in [Threads -> Steps]
  BY StillRested DEF CacheInv
<1>. QED  BY <1>1 DEF CacheInv, AtMostOne

LEMMA CacheInit == Init => CacheInv
<1>. SUFFICES ASSUME Init PROVE CacheInv
  OBVIOUS
<1>1. pc \in [Threads -> Steps]
  BY DEF Init, Steps
<1>. QED  BY <1>1 DEF Init, CacheInv, AtMostOne

LEMMA CacheDriver ==
  ASSUME CacheInv,
         \/ LearnTick \/ CompleteLearning \/ StartWindow
         \/ \E c \in Chains : Hit(c) \/ Miss(c)
         \/ Store \/ PredictRaises \/ ReportThreat \/ ReportRaises \/ EndWindow
  PROVE  CacheInv'
<1>. Driver \in Threads /\ pc \in [Threads -> Steps]
  BY DEF Threads, CacheInv
<1>. {"idle", "saving", "looking", "storing", "reporting", "adding", "snapshot"} \subseteq Steps
  BY DEF Steps
<1>1. CASE LearnTick
  BY <1>1 DEF LearnTick, scores, window, CacheInv, Rested, AtMostOne
<1>2. CASE CompleteLearning
  <2>1. PICK s \in {"idle", "saving"} : Goto(Driver, s)
    BY <1>2 DEF CompleteLearning
  <2>2. UNCHANGED <<cache, old, hand, handOld>> /\ pc[Driver] # "clearing"
    BY <1>2 DEF CompleteLearning, scores, window
  <2>. QED  BY <2>1, <2>2, CacheAlone
<1>3. CASE StartWindow
  BY <1>3, CacheAlone DEF StartWindow, scores
<1>4. ASSUME NEW c \in Chains, Hit(c) \/ Miss(c) PROVE CacheInv'
  <2>1. PICK s \in {"storing", "reporting", "adding"} : Goto(Driver, s)
    BY <1>4 DEF Hit, Miss
  <2>2. UNCHANGED <<cache, old, handOld>> /\ hand' = {c} /\ pc[Driver] # "clearing"
    BY <1>4 DEF Hit, Miss, scores
  <2>3. Rested' = Rested /\ pc' \in [Threads -> Steps]
    BY <2>1, <2>2, StillRested
  <2>. QED  BY <2>2, <2>3 DEF CacheInv, AtMostOne
<1>5. CASE Store
  <2>1. PICK s \in {"reporting", "adding"} : Goto(Driver, s)
    BY <1>5 DEF Store
  <2>2. Rested' = Rested /\ pc' \in [Threads -> Steps]
    BY <1>5, <2>1, StillRested DEF Store
  <2>3. /\ cache' = cache \cup hand /\ UNCHANGED hand /\ handOld' = FALSE
        /\ old' = IF handOld THEN old \cup hand ELSE old \ hand
    BY <1>5 DEF Store
  <2>. QED  BY <2>2, <2>3 DEF CacheInv, AtMostOne
<1>6. CASE ReportThreat \/ ReportRaises
  <2>1. PICK s \in {"looking", "idle"} : Goto(Driver, s)
    BY <1>6 DEF ReportThreat, ReportRaises
  <2>2. UNCHANGED <<cache, old, handOld>> /\ hand' = {} /\ pc[Driver] # "clearing"
    BY <1>6 DEF ReportThreat, ReportRaises, scores
  <2>. QED  BY <2>1, <2>2, HandGone
<1>7. CASE EndWindow
  <2>1. PICK s \in {"snapshot", "idle"} : Goto(Driver, s)
    BY <1>7 DEF EndWindow
  <2>2. UNCHANGED <<cache, old, hand, handOld>> /\ pc[Driver] # "clearing"
    BY <1>7 DEF EndWindow, scores, window
  <2>. QED  BY <2>1, <2>2, CacheAlone
<1>8. CASE PredictRaises
  <2>1. Rested' = Rested /\ pc' \in [Threads -> Steps]
    BY <1>8, StillRested DEF PredictRaises
  <2>2. UNCHANGED <<cache, old>> /\ hand' = {} /\ handOld' = FALSE
    BY <1>8 DEF PredictRaises, scores
  <2>. QED  BY <2>1, <2>2 DEF CacheInv, AtMostOne
<1>. QED  BY <1>1, <1>2, <1>3, <1>4, <1>5, <1>6, <1>7, <1>8

LEMMA CacheAdd ==
  ASSUME CacheInv, NEW t \in Threads, Add(t)
  PROVE  CacheInv'
<1>. {"extending", "trimming", "cutting", "looking", "filtering"} \subseteq Steps
  BY DEF Steps
<1>1. PICK s \in {"extending", "trimming", "cutting", "looking", "filtering"} : Goto(t, s)
  BY DEF Add, Seen, Extend, Trim, AssignTrimmed, LeaveAdd
<1>2. UNCHANGED <<cache, old, handOld>> /\ (hand' = {} \/ UNCHANGED hand) /\ pc[t] # "clearing"
  BY DEF Add, Seen, Extend, Trim, AssignTrimmed, LeaveAdd, scores, window
<1>. QED  BY <1>1, <1>2, HandGone

LEMMA CacheRefit ==
  ASSUME CacheInv, NEW t \in Threads, Refit(t)
  PROVE  CacheInv'
<1>. {"fitting", "idle", "popping", "clearing", "saving"} \subseteq Steps
  BY DEF Steps
<1>1. CASE Snapshot(t) \/ ReadRaises(t) \/ SaveModel(t) \/ SaveModelRaises(t)
  <2>1. PICK s \in {"fitting", "idle", "popping"} : Goto(t, s)
    BY <1>1 DEF Snapshot, ReadRaises, SaveModel, SaveModelRaises, Finish, AfterRefit
  <2>2. UNCHANGED <<cache, old, hand, handOld>>
    BY <1>1 DEF Snapshot, ReadRaises, SaveModel, SaveModelRaises, scores, window
  <2>3. pc[t] # "clearing"
    BY <1>1 DEF Snapshot, ReadRaises, SaveModel, SaveModelRaises
  <2>. QED  BY <2>1, <2>2, <2>3, CacheAlone
<1>2. CASE Fit(t)
  <2>1. pc' \in [Threads -> Steps] /\ pc'[t] = "clearing"
    BY <1>2, PcType DEF Fit, CacheInv
  <2>2. ~Rested'
    BY <2>1 DEF Rested
  <2>3. UNCHANGED <<cache, hand>> /\ old' \in {old, cache} /\ handOld' \in BOOLEAN
    BY <1>2 DEF Fit, CacheInv
  <2>. QED  BY <2>1, <2>2, <2>3 DEF CacheInv, AtMostOne
<1>3. CASE Clear(t)
  <2>1. PICK s \in {"idle", "popping", "saving"} : Goto(t, s)
    BY <1>3 DEF Clear, AfterRefit
  <2>2. pc' \in [Threads -> Steps]
    BY <2>1, PcType DEF CacheInv
  <2>3. cache' = cache \ Chains /\ old' = old \ Chains /\ UNCHANGED <<hand, handOld>>
    BY <1>3 DEF Clear, Forget, window
  <2>. QED  BY <2>2, <2>3 DEF CacheInv, AtMostOne
<1>. QED  BY <1>1, <1>2, <1>3 DEF Refit

LEMMA CacheLabel ==
  ASSUME CacheInv, NEW a \in Analysts,
         \/ SaveVerdict(a) \/ SaveVerdictRaises(a) \/ Filter(a) \/ Assign(a) \/ Pop(a)
         \/ \E v \in Verdict : Label(a, v)
  PROVE  CacheInv'
<1>. a \in Threads
  BY DEF Threads
<1>. {"idle", "adding", "filtering", "assigning", "snapshot"} \cup Recording \subseteq Steps
  BY DEF Steps, Recording
<1>1. CASE SaveVerdict(a) \/ SaveVerdictRaises(a) \/ Filter(a) \/ Assign(a)
  <2>1. PICK s \in {"idle", "adding", "filtering", "assigning", "snapshot"} : Goto(a, s)
    BY <1>1 DEF SaveVerdict, SaveVerdictRaises, Filter, Assign, Finish
  <2>2. UNCHANGED <<cache, old, hand, handOld>>
    BY <1>1 DEF SaveVerdict, SaveVerdictRaises, Filter, Assign, scores, window
  <2>3. pc[a] # "clearing"
    BY <1>1 DEF SaveVerdict, SaveVerdictRaises, Filter, Assign, Recording
  <2>. QED  BY <2>1, <2>2, <2>3, CacheAlone
<1>2. CASE Pop(a)
  <2>1. Rested' = Rested /\ pc' \in [Threads -> Steps]
    BY <1>2, StillRested DEF Pop, Finish, CacheInv
  <2>2. old' = old \ Added(a) /\ cache' = cache \ Added(a) /\ UNCHANGED <<hand, handOld>>
    BY <1>2 DEF Pop, Forget, window
  <2>. QED  BY <2>1, <2>2 DEF CacheInv, AtMostOne
<1>3. ASSUME NEW v \in Verdict, Label(a, v) PROVE CacheInv'
  <2>1. Effect(v) \in Recording
    BY DEF Effect, Recording
  <2>2. Goto(a, Effect(v)) /\ pc[a] # "clearing" /\ UNCHANGED <<cache, old, hand, handOld>>
    BY <1>3 DEF Label, scores, window
  <2>. QED  BY <2>1, <2>2, CacheAlone DEF Recording
<1>. QED  BY <1>1, <1>2, <1>3

LEMMA CacheStep == CacheInv /\ [Next]_vars => CacheInv'
<1>. SUFFICES ASSUME CacheInv, [Next]_vars PROVE CacheInv'
  OBVIOUS
<1>1. CASE DriverStep
  BY <1>1, CacheDriver, CacheAdd, CacheRefit DEF DriverStep, Threads
<1>2. ASSUME NEW a \in Analysts, LabelStep(a) \/ \E v \in Verdict : Label(a, v)
      PROVE  CacheInv'
  BY <1>2, CacheLabel, CacheAdd, CacheRefit DEF LabelStep, Threads
<1>3. CASE Restart
  <2>1. pc' \in [Threads -> Steps]
    BY <1>3 DEF Restart, Steps
  <2>2. cache' = {} /\ old' = {} /\ hand' = {} /\ handOld' = FALSE
    BY <1>3 DEF Restart
  <2>. QED  BY <2>1, <2>2 DEF CacheInv, AtMostOne
<1>4. CASE UNCHANGED vars
  BY <1>4 DEF vars, scores, window, CacheInv, Rested, AtMostOne
<1>. QED  BY <1>1, <1>2, <1>3, <1>4 DEF Next

LEMMA CacheImplies == CacheInv => StaleScores
<1>. SUFFICES ASSUME CacheInv, Rested
              PROVE  Cardinality(old \cup (IF handOld THEN hand ELSE {})) <= 1
  BY DEF StaleScores, Rested
<1>1. AtMostOne(old \cup (IF handOld THEN hand ELSE {}))
  BY DEF CacheInv, AtMostOne
<1>. QED
  BY <1>1, SmallCardinality

\* StaleScores in every behaviour: the cache never serves more than one score
\* of a model that was replaced (pipeline.py:242-270, 377-388, 417).
THEOREM CacheIsFresh == Spec => []StaleScores
<1>1. Init => CacheInv
  BY CacheInit
<1>2. CacheInv /\ [Next]_vars => CacheInv'
  BY CacheStep
<1>3. CacheInv => StaleScores
  BY CacheImplies
<1>. QED
  BY <1>1, <1>2, <1>3, PTL DEF Spec

(***************************************************************************)
(* The model.  What is fitted was cleaned of the verdicts known by then,   *)
(* so a chain can only be called malicious later, and then "late" says so; *)
(* and whoever recorded the verdict is on the way to a fit of their own.   *)
(***************************************************************************)
ModelTypes ==
  /\ on \in SUBSET Chains
  /\ training \in [Threads -> SUBSET Chains]
  /\ blame \in [Chains -> Causes]
  /\ pc \in [Threads -> Steps]
  /\ job \in [Analysts -> SUBSET Verdict]
  /\ ledger \in Seq(Verdict) /\ ledgerFile \in Seq(Verdict)
  /\ modelFile \in [state : {"none", "torn", "whole"}, on : SUBSET Chains]

OneJob == \A a \in Analysts : AtMostOne(job[a])

CleanTraining ==
  \A t \in Threads : pc[t] = "fitting" => \A c \in training[t] \cap Malicious : <<t, c>> \in late

ModelInv == ModelTypes /\ OneJob /\ CleanTraining /\ MaliciousStaysOut

LEMMA ModelInit == Init => ModelInv
<1>. SUFFICES ASSUME Init PROVE ModelInv
  OBVIOUS
<1>1. ModelTypes
  BY DEF Init, ModelTypes, Steps, Causes
<1>2. OneJob
  BY DEF Init, OneJob, AtMostOne
<1>3. CleanTraining
  BY DEF Init, CleanTraining
<1>4. MaliciousStaysOut
  BY DEF Init, MaliciousStaysOut
<1>. QED  BY <1>1, <1>2, <1>3, <1>4 DEF ModelInv

\* A verdict changes only whether its own chain is among the malicious ones.
LEMMA EnteredMalicious ==
  ASSUME ledger \in Seq(Verdict), NEW v \in Verdict
  PROVE  /\ Entered(v) \in Seq(Verdict)
         /\ MaliciousIn(Entered(v)) \subseteq
              (Malicious \ {v.chain}) \cup (IF v.verdict = "malicious" THEN {v.chain} ELSE {})
<1>1. CASE \E i \in DOMAIN ledger : ledger[i].chain = v.chain
  <2>1. Entered(v) = [i \in DOMAIN ledger |-> IF ledger[i].chain = v.chain THEN v ELSE ledger[i]]
    BY <1>1 DEF Entered
  <2>2. DOMAIN ledger = 1..Len(ledger) /\ Len(ledger) \in Nat
    OBVIOUS
  <2>3. \A i \in DOMAIN ledger : ledger[i] \in Verdict
    BY <2>2
  <2>4. Entered(v) \in [1..Len(ledger) -> Verdict]
    BY <2>1, <2>2, <2>3
  <2>5. Entered(v) \in Seq(Verdict)
    BY <2>2, <2>4
  <2>6. DOMAIN Entered(v) = DOMAIN ledger
    BY <2>1
  <2>7. ASSUME NEW i \in DOMAIN Entered(v), Entered(v)[i].verdict = "malicious"
        PROVE  Entered(v)[i].chain \in
                 (Malicious \ {v.chain}) \cup (IF v.verdict = "malicious" THEN {v.chain} ELSE {})
    <3>1. Entered(v)[i] = v \/ (Entered(v)[i] = ledger[i] /\ ledger[i].chain # v.chain)
      BY <2>1, <2>6
    <3>. QED  BY <2>6, <2>7, <3>1 DEF Malicious, MaliciousIn
  <2>. QED  BY <2>5, <2>7 DEF MaliciousIn
<1>2. CASE ~ \E i \in DOMAIN ledger : ledger[i].chain = v.chain
  <2>1. Entered(v) = Append(ledger, v)
    BY <1>2 DEF Entered
  <2>2. Len(ledger) \in Nat /\ DOMAIN ledger = 1..Len(ledger)
    OBVIOUS
  <2>3. Entered(v) \in Seq(Verdict) /\ DOMAIN Entered(v) = 1..(Len(ledger) + 1)
    BY <2>1, AppendProperties
  <2>4. ASSUME NEW i \in DOMAIN Entered(v), Entered(v)[i].verdict = "malicious"
        PROVE  Entered(v)[i].chain \in
                 (Malicious \ {v.chain}) \cup (IF v.verdict = "malicious" THEN {v.chain} ELSE {})
    <3>1. CASE i \in DOMAIN ledger
      <4>1. Entered(v)[i] = ledger[i]
        BY <2>1, <2>2, <3>1, AppendProperties
      <4>. QED  BY <1>2, <2>4, <3>1, <4>1 DEF Malicious, MaliciousIn
    <3>2. CASE i \notin DOMAIN ledger
      <4>1. i = Len(ledger) + 1
        BY <2>2, <2>3, <3>2
      <4>2. Entered(v)[i] = v
        BY <2>1, <2>2, <4>1, AppendProperties
      <4>. QED  BY <2>4, <4>2
    <3>. QED  BY <3>1, <3>2
  <2>. QED  BY <2>3, <2>4 DEF MaliciousIn
<1>. QED  BY <1>1, <1>2

\* Steps that leave everything the invariant speaks of alone.
LEMMA ModelUnchanged ==
  ASSUME ModelInv,
         UNCHANGED <<on, ledger, ledgerFile, modelFile, pc, job, training, late, blame>>
  PROVE  ModelInv'
<1>1. ModelTypes' /\ OneJob' /\ CleanTraining'
  BY DEF ModelInv, ModelTypes, OneJob, AtMostOne, CleanTraining, Malicious
<1>2. MaliciousStaysOut'
  BY DEF ModelInv, MaliciousStaysOut, Malicious, OnItsWay, Accused
<1>. QED  BY <1>1, <1>2 DEF ModelInv

\* Steps of a thread that leave the model, the verdicts and the jobs alone,
\* and that do not lead off the way into the model.
LEMMA ModelAlone ==
  ASSUME ModelInv, UNCHANGED <<on, ledger, job, training, late, blame>>,
         ledgerFile' \in {ledgerFile, ledger},
         modelFile' \in [state : {"none", "torn", "whole"}, on : SUBSET Chains],
         NEW t \in Threads, NEW s \in Steps, Goto(t, s), s # "fitting",
         t \in Analysts /\ pc[t] \in OnTheWay /\ Accused(t) # {} => s \in OnTheWay
  PROVE  ModelInv'
<1>0. pc' \in [Threads -> Steps] /\ pc'[t] = s /\ \A u \in Threads \ {t} : pc'[u] = pc[u]
  BY PcType DEF ModelInv, ModelTypes
<1>1. ModelTypes'
  BY <1>0 DEF ModelInv, ModelTypes
<1>2. OneJob'
  BY DEF ModelInv, OneJob, AtMostOne
<1>3. CleanTraining'
  BY <1>0 DEF ModelInv, CleanTraining, Malicious
<1>4. ASSUME NEW c, OnItsWay(c) PROVE OnItsWay(c)'
  <2>1. PICK a \in Analysts : pc[a] \in OnTheWay /\ c \in Accused(a)
    BY <1>4 DEF OnItsWay
  <2>2. a \in Threads /\ Accused(a)' = Accused(a)
    BY DEF Threads, Accused
  <2>3. pc'[a] \in OnTheWay
    BY <1>0, <2>1, <2>2
  <2>. QED  BY <2>1, <2>2, <2>3 DEF OnItsWay, OnTheWay
<1>5. MaliciousStaysOut'
  BY <1>4 DEF ModelInv, MaliciousStaysOut, Malicious
<1>. QED  BY <1>1, <1>2, <1>3, <1>5 DEF ModelInv

\* Steps in which a thread gives up or skips, and blames it on a cause.
LEMMA ModelBlamed ==
  ASSUME ModelInv, UNCHANGED <<on, ledger, training, late, modelFile>>,
         ledgerFile' \in Seq(Verdict), NEW t \in Threads, NEW cause \in Causes \ {"none"},
         Blame(Accused(t), cause), NEW s \in Steps, Goto(t, s), s # "fitting",
         job' = job \/ (t \in Analysts /\ job' = [job EXCEPT ![t] = {}])
  PROVE  ModelInv'
<1>0. pc' \in [Threads -> Steps] /\ pc'[t] = s /\ \A u \in Threads \ {t} : pc'[u] = pc[u]
  BY PcType DEF ModelInv, ModelTypes
<1>1. blame' \in [Chains -> Causes] /\ \A c \in Chains : c \in Accused(t) => blame'[c] # "none"
  BY DEF ModelInv, ModelTypes, Blame
<1>2. \A c \in Chains : blame[c] # "none" => blame'[c] # "none"
  BY DEF ModelInv, ModelTypes, Blame
<1>3. ModelTypes'
  BY <1>0, <1>1 DEF ModelInv, ModelTypes
<1>4. OneJob'
  BY DEF ModelInv, ModelTypes, OneJob, AtMostOne
<1>5. CleanTraining'
  BY <1>0 DEF ModelInv, CleanTraining, Malicious
<1>6. ASSUME NEW c \in Chains, OnItsWay(c), c \notin Accused(t) PROVE OnItsWay(c)'
  <2>1. PICK a \in Analysts : pc[a] \in OnTheWay /\ c \in Accused(a)
    BY <1>6 DEF OnItsWay
  <2>2. a \in Threads \ {t}
    BY <1>6, <2>1 DEF Threads
  <2>3. Accused(a)' = Accused(a)
    BY <2>2 DEF Accused, ModelInv, ModelTypes
  <2>. QED  BY <1>0, <2>1, <2>2, <2>3 DEF OnItsWay, OnTheWay
<1>7. MaliciousStaysOut'
  BY <1>1, <1>2, <1>6 DEF ModelInv, ModelTypes, MaliciousStaysOut, Malicious
<1>. QED  BY <1>3, <1>4, <1>5, <1>7 DEF ModelInv

\* The end of a request that was not on the way into the model any more.
LEMMA ModelFinish ==
  ASSUME ModelInv, UNCHANGED <<on, ledger, training, late, blame>>, NEW t \in Threads, Finish(t),
         modelFile' \in [state : {"none", "torn", "whole"}, on : SUBSET Chains],
         ledgerFile' \in Seq(Verdict), pc[t] \notin OnTheWay
  PROVE  ModelInv'
<1>0. pc' \in [Threads -> Steps] /\ pc'[t] = "idle" /\ \A u \in Threads \ {t} : pc'[u] = pc[u]
  BY DEF ModelInv, ModelTypes, Finish, Goto, Steps
<1>1. job' = job \/ (t \in Analysts /\ job' = [job EXCEPT ![t] = {}])
  BY DEF Finish
<1>2. ModelTypes'
  BY <1>0, <1>1 DEF ModelInv, ModelTypes
<1>3. OneJob'
  BY <1>1 DEF ModelInv, ModelTypes, OneJob, AtMostOne
<1>4. CleanTraining'
  BY <1>0 DEF ModelInv, CleanTraining, Malicious
<1>5. ASSUME NEW c, OnItsWay(c) PROVE OnItsWay(c)'
  <2>1. PICK a \in Analysts : pc[a] \in OnTheWay /\ c \in Accused(a)
    BY <1>5 DEF OnItsWay
  <2>2. a \in Threads \ {t}
    BY <2>1 DEF Threads
  <2>3. Accused(a)' = Accused(a)
    BY <1>1, <2>2 DEF Accused, ModelInv, ModelTypes
  <2>. QED  BY <1>0, <2>1, <2>2, <2>3 DEF OnItsWay, OnTheWay
<1>6. MaliciousStaysOut'
  BY <1>5 DEF ModelInv, MaliciousStaysOut, Malicious
<1>. QED  BY <1>2, <1>3, <1>4, <1>6 DEF ModelInv

LEMMA ModelDriver ==
  ASSUME ModelInv,
         \/ LearnTick \/ StartWindow
         \/ \E c \in Chains : Hit(c) \/ Miss(c)
         \/ Store \/ PredictRaises \/ ReportThreat \/ ReportRaises \/ EndWindow
  PROVE  ModelInv'
<1>. Driver \in Threads /\ Driver \notin Analysts
  BY ThreadsAssumption DEF Threads
<1>0. modelFile \in [state : {"none", "torn", "whole"}, on : SUBSET Chains]
  BY DEF ModelInv, ModelTypes
<1>1. CASE LearnTick
  BY <1>1, ModelUnchanged DEF LearnTick, locals, verdicts
<1>2. CASE ~LearnTick
  <2>1. UNCHANGED <<on, ledger, ledgerFile, job, training, late, blame, modelFile>>
    BY <1>2 DEF StartWindow, Hit, Miss, Store, PredictRaises, ReportThreat, ReportRaises, EndWindow,
                locals, verdicts
  <2>2. PICK s \in {"looking", "reporting", "adding", "storing", "idle", "snapshot"} :
          Goto(Driver, s)
    BY <1>2 DEF StartWindow, Hit, Miss, Store, PredictRaises, ReportThreat, ReportRaises, EndWindow
  <2>3. s \in Steps /\ s # "fitting"
    BY DEF Steps
  <2>. QED  BY <1>0, <2>1, <2>2, <2>3, ModelAlone
<1>. QED  BY <1>1, <1>2

\* The cap keeps a part of the list.
LEMMA TrimmedSubset ==
  ASSUME NEW s \in Seq(Chains)
  PROVE  In(Trimmed(s)) \subseteq Chains
<1>. Cap \in Nat /\ Len(s) \in Nat
  BY LimitsAssumption
<1>1. CASE Cap = 0 \/ Len(s) <= Cap
  BY <1>1 DEF Trimmed, In
<1>2. CASE Cap # 0 /\ Len(s) > Cap
  <2>1. Trimmed(s) = SubSeq(s, Len(s) - Cap + 1, Len(s))
    BY <1>2 DEF Trimmed
  <2>2. Trimmed(s) \in Seq(Chains)
    BY <1>2, <2>1, SubSeqProperties
  <2>. QED  BY <2>2 DEF In
<1>. QED  BY <1>1, <1>2

LEMMA ModelLearned ==
  ASSUME ModelInv, CompleteLearning
  PROVE  ModelInv'
<1>. Driver \in Threads /\ Driver \notin Analysts
  BY ThreadsAssumption DEF Threads
<1>1. UNCHANGED <<ledger, ledgerFile, modelFile, job, training, late>>
  BY DEF CompleteLearning, verdicts, locals
<1>2. PICK s \in {"saving", "idle"} : Goto(Driver, s)
  BY DEF CompleteLearning
<1>3. pc' \in [Threads -> Steps] /\ pc'[Driver] = s /\ \A u \in Threads \ {Driver} : pc'[u] = pc[u]
  <2>1. s \in Steps
    BY DEF Steps
  <2>. QED  BY <1>2, <2>1, PcType DEF ModelInv, ModelTypes
<1>4. on' \subseteq Chains
  <2>1. PICK seen \in Windows : on' = In(Trimmed(seen))
    BY DEF CompleteLearning
  <2>2. PICK n \in 0..Cardinality(Chains) : seen \in [1..n -> Chains]
    BY DEF Windows
  <2>3. n \in Nat
    BY <2>2, ThreadsAssumption, FS_CardinalityType
  <2>4. seen \in Seq(Chains)
    BY <2>2, <2>3
  <2>. QED  BY <2>1, <2>4, TrimmedSubset
<1>5. Blame(on' \cap Malicious, "learned")
  BY DEF CompleteLearning
<1>6. blame' \in [Chains -> Causes] /\ \A c \in on' \cap Malicious : blame'[c] # "none"
  BY <1>4, <1>5 DEF Blame, Causes, ModelInv, ModelTypes
<1>7. ModelTypes'
  BY <1>1, <1>3, <1>4, <1>6 DEF ModelInv, ModelTypes
<1>8. OneJob'
  BY <1>1 DEF ModelInv, OneJob, AtMostOne
<1>9. CleanTraining'
  BY <1>1, <1>3 DEF ModelInv, CleanTraining, Malicious
<1>10. MaliciousStaysOut'
  BY <1>1, <1>6 DEF MaliciousStaysOut, Malicious
<1>. QED  BY <1>7, <1>8, <1>9, <1>10 DEF ModelInv

LEMMA ModelAdd ==
  ASSUME ModelInv, NEW t \in Threads, Add(t)
  PROVE  ModelInv'
<1>0. modelFile \in [state : {"none", "torn", "whole"}, on : SUBSET Chains]
  BY DEF ModelInv, ModelTypes
<1>1. UNCHANGED <<on, ledger, ledgerFile, job, training, late, blame, modelFile>>
  BY DEF Add, Seen, Extend, Trim, AssignTrimmed, locals, verdicts
<1>2. PICK s \in {"extending", "trimming", "cutting", "looking", "filtering"} : Goto(t, s)
  BY DEF Add, Seen, Extend, Trim, AssignTrimmed, LeaveAdd
<1>3. s \in Steps /\ s # "fitting" /\ pc[t] \notin OnTheWay
  BY DEF Steps, Add, Seen, Extend, Trim, AssignTrimmed, OnTheWay
<1>. QED  BY <1>0, <1>1, <1>2, <1>3, ModelAlone

LEMMA ModelFit ==
  ASSUME ModelInv, NEW t \in Threads, Fit(t)
  PROVE  ModelInv'
<1>1. UNCHANGED <<ledger, ledgerFile, modelFile, job>>
  BY DEF Fit, verdicts
<1>2. pc' \in [Threads -> Steps] /\ pc'[t] = "clearing" /\ \A u \in Threads \ {t} : pc'[u] = pc[u]
  BY PcType DEF Fit, Steps, ModelInv, ModelTypes
<1>3. /\ training[t] \subseteq Chains
      /\ on' \subseteq Chains
      /\ training' \in [Threads -> SUBSET Chains]
      /\ \A u \in Threads \ {t} : training'[u] = training[u]
  BY DEF Fit, ModelInv, ModelTypes
<1>4. blame' = [c \in Chains |-> IF c \notin on' THEN "none"
                                ELSE IF c \notin training[t] THEN "mixed"
                                ELSE IF <<t, c>> \in late THEN "overtaken" ELSE "none"]
  BY DEF Fit
<1>5. \A c \in training[t] \cap Malicious : <<t, c>> \in late
  BY DEF Fit, ModelInv, CleanTraining
<1>6. ModelTypes'
  <2>1. blame' \in [Chains -> Causes]
    BY <1>4 DEF Causes
  <2>. QED  BY <1>1, <1>2, <1>3, <2>1 DEF ModelInv, ModelTypes
<1>7. OneJob'
  BY <1>1 DEF ModelInv, OneJob, AtMostOne
<1>8. CleanTraining'
  <2>1. late' = {l \in late : l[1] # t}
    BY DEF Fit
  <2>2. SUFFICES ASSUME NEW u \in Threads, pc'[u] = "fitting",
                        NEW c \in training'[u] \cap Malicious'
                 PROVE  <<u, c>> \in late'
    BY DEF CleanTraining
  <2>3. u \in Threads \ {t} /\ pc[u] = "fitting" /\ c \in training[u] \cap Malicious
    BY <1>1, <1>2, <1>3, <2>2 DEF Malicious
  <2>4. <<u, c>> \in late
    BY <2>3 DEF ModelInv, CleanTraining
  <2>. QED  BY <2>1, <2>3, <2>4
<1>9. MaliciousStaysOut'
  <2>1. SUFFICES ASSUME NEW c \in on' \cap Malicious PROVE blame'[c] # "none"
    BY <1>1 DEF MaliciousStaysOut, Malicious
  <2>2. c \in Chains
    BY <1>3
  <2>. QED  BY <1>4, <1>5, <2>1, <2>2
<1>. QED  BY <1>6, <1>7, <1>8, <1>9 DEF ModelInv

LEMMA ModelSnapshot ==
  ASSUME ModelInv, NEW t \in Threads, Snapshot(t)
  PROVE  ModelInv'
<1>1. UNCHANGED <<on, ledger, ledgerFile, modelFile, job, late>>
  BY DEF Snapshot, verdicts
<1>2. CASE Len(Clean(baseline)) < 2
  <2>1. UNCHANGED training /\ Blame(Accused(t), "skipped") /\ Goto(t, AfterRefit(t))
    BY <1>2 DEF Snapshot
  <2>2. AfterRefit(t) \in Steps /\ AfterRefit(t) # "fitting" /\ "skipped" \in Causes \ {"none"}
    BY DEF AfterRefit, Steps, Causes
  <2>3. ledgerFile' \in Seq(Verdict)
    BY <1>1 DEF ModelInv, ModelTypes
  <2>. QED  BY <1>1, <2>1, <2>2, <2>3, ModelBlamed
<1>3. CASE ~(Len(Clean(baseline)) < 2)
  <2>1. /\ UNCHANGED blame /\ Goto(t, "fitting") /\ pc[t] = "snapshot"
        /\ training' = [training EXCEPT ![t] = CleanChains]
    BY <1>3 DEF Snapshot
  <2>2. pc' \in [Threads -> Steps] /\ pc'[t] = "fitting" /\ \A u \in Threads \ {t} : pc'[u] = pc[u]
    BY <2>1, PcType DEF Steps, ModelInv, ModelTypes
  <2>3. ModelTypes'
    BY <1>1, <2>1, <2>2 DEF ModelInv, ModelTypes, CleanChains
  <2>4. OneJob'
    BY <1>1 DEF ModelInv, OneJob, AtMostOne
  <2>5. training'[t] \cap Malicious = {} /\ \A u \in Threads \ {t} : training'[u] = training[u]
    BY <2>1 DEF ModelInv, ModelTypes, CleanChains
  <2>6. CleanTraining'
    BY <1>1, <2>2, <2>5 DEF ModelInv, CleanTraining, Malicious
  <2>7. ASSUME NEW c, OnItsWay(c) PROVE OnItsWay(c)'
    <3>1. PICK a \in Analysts : pc[a] \in OnTheWay /\ c \in Accused(a)
      BY <2>7 DEF OnItsWay
    <3>2. a \in Threads /\ Accused(a)' = Accused(a)
      BY <1>1 DEF Threads, Accused
    <3>. QED  BY <2>2, <3>1, <3>2 DEF OnItsWay, OnTheWay
  <2>8. MaliciousStaysOut'
    BY <1>1, <2>1, <2>7 DEF ModelInv, MaliciousStaysOut, Malicious
  <2>. QED  BY <2>3, <2>4, <2>6, <2>8 DEF ModelInv
<1>. QED  BY <1>2, <1>3

LEMMA ModelRefit ==
  ASSUME ModelInv, NEW t \in Threads, Refit(t)
  PROVE  ModelInv'
<1>0. /\ modelFile \in [state : {"none", "torn", "whole"}, on : SUBSET Chains]
      /\ ledgerFile \in Seq(Verdict) /\ on \subseteq Chains
  BY DEF ModelInv, ModelTypes
<1>1. CASE ReadRaises(t)
  <2>1. /\ UNCHANGED <<on, ledger, ledgerFile, training, late, modelFile>>
        /\ Blame(Accused(t), "raised") /\ Finish(t)
    BY <1>1 DEF ReadRaises, verdicts, locals
  <2>2. Goto(t, "idle") /\ (job' = job \/ (t \in Analysts /\ job' = [job EXCEPT ![t] = {}]))
    BY <2>1 DEF Finish
  <2>3. "idle" \in Steps /\ "raised" \in Causes \ {"none"}
    BY DEF Steps, Causes
  <2>. QED  BY <1>0, <2>1, <2>2, <2>3, ModelBlamed
<1>2. CASE Clear(t) \/ SaveModel(t)
  <2>1. UNCHANGED <<on, ledger, ledgerFile, job, training, late, blame>>
    BY <1>2 DEF Clear, SaveModel, verdicts, locals
  <2>2. PICK s \in {"saving", "idle", "popping"} : Goto(t, s)
    BY <1>2 DEF Clear, SaveModel, AfterRefit
  <2>3. s \in Steps /\ s # "fitting" /\ pc[t] \notin OnTheWay
    BY <1>2 DEF Clear, SaveModel, Steps, OnTheWay
  <2>4. modelFile' \in [state : {"none", "torn", "whole"}, on : SUBSET Chains]
    BY <1>0, <1>2 DEF Clear, SaveModel, Torn
  <2>. QED  BY <2>1, <2>2, <2>3, <2>4, ModelAlone
<1>3. CASE SaveModelRaises(t)
  <2>1. UNCHANGED <<on, ledger, ledgerFile, training, late, blame>> /\ Finish(t)
    BY <1>3 DEF SaveModelRaises, verdicts, locals
  <2>2. modelFile' \in [state : {"none", "torn", "whole"}, on : SUBSET Chains]
    BY <1>0, <1>3 DEF SaveModelRaises, Torn
  <2>3. ledgerFile' \in Seq(Verdict) /\ pc[t] \notin OnTheWay
    BY <1>0, <1>3, <2>1 DEF SaveModelRaises, OnTheWay
  <2>. QED  BY <2>1, <2>2, <2>3, ModelFinish
<1>. QED  BY <1>1, <1>2, <1>3, ModelFit, ModelSnapshot DEF Refit

LEMMA ModelLabel ==
  ASSUME ModelInv, NEW a \in Analysts, NEW v \in Verdict, Label(a, v)
  PROVE  ModelInv'
<1>. a \in Threads /\ ledger \in Seq(Verdict)
  BY DEF Threads, ModelInv, ModelTypes
<1>1. /\ UNCHANGED <<on, ledgerFile, modelFile, training>> /\ pc[a] = "idle"
      /\ ledger' = Entered(v) /\ job' = [job EXCEPT ![a] = {v}] /\ Goto(a, Effect(v))
  BY DEF Label, locals
<1>2. Effect(v) \in Recording /\ Recording \subseteq Steps
  BY DEF Effect, Recording, Steps
<1>3. /\ pc' \in [Threads -> Steps] /\ pc'[a] = Effect(v)
      /\ \A u \in Threads \ {a} : pc'[u] = pc[u]
  BY <1>1, <1>2, PcType DEF ModelInv, ModelTypes
<1>4. /\ ledger' \in Seq(Verdict)
      /\ Malicious' \subseteq (Malicious \ {v.chain}) \cup
                               (IF v.verdict = "malicious" THEN {v.chain} ELSE {})
  <2>1. Malicious' = MaliciousIn(Entered(v))
    BY <1>1 DEF Malicious, MaliciousIn
  <2>. QED  BY <1>1, <2>1, EnteredMalicious
<1>5. blame' = blame \/ (Effect(v) # "repeating" /\ Blame({v.chain}, "none"))
  BY DEF Label
<1>6. blame' \in [Chains -> Causes] /\ \A c \in Chains \ {v.chain} : blame'[c] = blame[c]
  BY <1>5 DEF Blame, Causes, ModelInv, ModelTypes
<1>7. ModelTypes'
  BY <1>1, <1>3, <1>4, <1>6 DEF ModelInv, ModelTypes
<1>8. OneJob'
  BY <1>1 DEF ModelInv, ModelTypes, OneJob, AtMostOne
<1>9. CleanTraining'
  <2>1. late' = late \cup {<<t, v.chain>> : t \in
                  {u \in Threads : pc[u] = "fitting" /\ v.verdict = "malicious"}}
    BY DEF Label
  <2>2. SUFFICES ASSUME NEW u \in Threads, pc'[u] = "fitting",
                        NEW c \in training'[u] \cap Malicious'
                 PROVE  <<u, c>> \in late'
    BY DEF CleanTraining
  <2>3. pc[u] = "fitting" /\ c \in training[u]
    BY <1>1, <1>2, <1>3, <2>2 DEF Recording
  <2>4. CASE c \in Malicious
    BY <2>1, <2>3, <2>4 DEF ModelInv, CleanTraining
  <2>5. CASE c \notin Malicious
    BY <1>4, <2>1, <2>3, <2>5
  <2>. QED  BY <2>4, <2>5
<1>10. ASSUME NEW c, OnItsWay(c) PROVE OnItsWay(c)'
  <2>1. PICK b \in Analysts : pc[b] \in OnTheWay /\ c \in Accused(b)
    BY <1>10 DEF OnItsWay
  <2>2. b \in Threads \ {a}
    BY <1>1, <2>1 DEF Threads, OnTheWay
  <2>3. Accused(b)' = Accused(b)
    BY <1>1, <2>2 DEF Accused, ModelInv, ModelTypes
  <2>. QED  BY <1>3, <2>1, <2>2, <2>3 DEF OnItsWay, OnTheWay
<1>11. ASSUME NEW c \in on \cap Malicious', ~(blame'[c] # "none") PROVE OnItsWay(c)'
  <2>1. c \in Chains
    BY DEF ModelInv, ModelTypes
  <2>2. CASE c # v.chain
    <3>1. c \in Malicious /\ blame'[c] = blame[c]
      BY <1>4, <1>6, <2>1, <2>2
    <3>. QED  BY <1>10, <1>11, <3>1 DEF ModelInv, MaliciousStaysOut
  <2>3. CASE c = v.chain /\ Effect(v) = "repeating"
    <3>1. v.verdict = "malicious" /\ v \in In(ledger)
      BY <1>4, <2>3 DEF Effect
    <3>2. c \in Malicious
      BY <2>3, <3>1 DEF In, Malicious, MaliciousIn
    <3>. QED  BY <1>5, <1>10, <1>11, <2>3, <3>2 DEF ModelInv, MaliciousStaysOut
  <2>4. CASE c = v.chain /\ Effect(v) # "repeating"
    <3>1. v.verdict = "malicious"
      BY <1>4, <2>4
    <3>2. a \notin {Driver}
      BY ThreadsAssumption
    <3>3. job'[a] = {v}
      BY <1>1 DEF ModelInv, ModelTypes
    <3>4. c \in Accused(a)'
      BY <2>4, <3>1, <3>2, <3>3 DEF Accused
    <3>5. pc'[a] \in OnTheWay
      BY <1>2, <1>3, <2>4 DEF Recording, OnTheWay
    <3>. QED  BY <3>4, <3>5 DEF OnItsWay, OnTheWay
  <2>. QED  BY <2>2, <2>3, <2>4
<1>12. MaliciousStaysOut'
  BY <1>1, <1>11 DEF MaliciousStaysOut
<1>. QED  BY <1>7, <1>8, <1>9, <1>12 DEF ModelInv

\* What a broken rewrite leaves of the ledger are verdicts.
LEMMA CutLedgersType ==
  ASSUME ledger \in Seq(Verdict), ledgerFile \in Seq(Verdict)
  PROVE  CutLedgers \subseteq Seq(Verdict)
<1>1. ASSUME NEW n \in 0..Len(ledger) PROVE SubSeq(ledger, 1, n) \in Seq(Verdict)
  <2>1. n \in Nat /\ n <= Len(ledger)
    OBVIOUS
  <2>. QED  BY <2>1, SubSeqProperties
<1>. QED  BY <1>1 DEF CutLedgers

LEMMA ModelVerdict ==
  ASSUME ModelInv, NEW a \in Analysts,
         SaveVerdict(a) \/ SaveVerdictRaises(a) \/ Filter(a) \/ Assign(a) \/ Pop(a)
  PROVE  ModelInv'
<1>. a \in Threads /\ a # Driver
  BY ThreadsAssumption DEF Threads
<1>0. /\ modelFile \in [state : {"none", "torn", "whole"}, on : SUBSET Chains]
      /\ ledger \in Seq(Verdict) /\ ledgerFile \in Seq(Verdict)
  BY DEF ModelInv, ModelTypes
<1>1. CASE SaveVerdict(a) /\ pc[a] = "repeating"
  <2>1. UNCHANGED <<on, ledger, modelFile, training, late, blame>> /\ Finish(a)
        /\ ledgerFile' = ledger
    BY <1>1 DEF SaveVerdict, locals
  <2>. QED  BY <1>0, <1>1, <2>1, ModelFinish DEF OnTheWay
<1>2. CASE SaveVerdict(a) /\ pc[a] # "repeating"
  <2>1. /\ UNCHANGED <<on, ledger, modelFile, job, training, late, blame>>
        /\ ledgerFile' = ledger
    BY <1>2 DEF SaveVerdict, locals
  <2>2. PICK v \in job[a] : Goto(a, IF v.verdict = "benign" THEN "adding" ELSE "filtering")
    BY <1>2 DEF SaveVerdict
  <2>3. Accused(a) # {} => v.verdict = "malicious"
    BY DEF Accused, ModelInv, OneJob, AtMostOne
  <2>4. PICK s \in {"adding", "filtering"} : Goto(a, s) /\ (Accused(a) # {} => s = "filtering")
    BY <2>2, <2>3
  <2>5. s \in Steps /\ s # "fitting"
    BY DEF Steps
  <2>. QED  BY <1>0, <2>1, <2>4, <2>5, ModelAlone DEF OnTheWay
<1>3. CASE SaveVerdictRaises(a)
  <2>1. /\ UNCHANGED <<on, ledger, modelFile, training, late>> /\ ledgerFile' \in CutLedgers
        /\ Blame(Accused(a), "unsaved") /\ Finish(a)
    BY <1>3 DEF SaveVerdictRaises, locals
  <2>2. Goto(a, "idle") /\ (job' = job \/ (a \in Analysts /\ job' = [job EXCEPT ![a] = {}]))
    BY <2>1 DEF Finish
  <2>3. "idle" \in Steps /\ "unsaved" \in Causes \ {"none"} /\ ledgerFile' \in Seq(Verdict)
    BY <1>0, <2>1, CutLedgersType DEF Steps, Causes
  <2>. QED  BY <2>1, <2>2, <2>3, ModelBlamed
<1>4. CASE Filter(a) \/ Assign(a)
  <2>1. UNCHANGED <<on, ledger, ledgerFile, job, training, late, blame, modelFile>>
    BY <1>4 DEF Filter, Assign, verdicts
  <2>2. PICK s \in {"assigning", "snapshot"} : Goto(a, s)
    BY <1>4 DEF Filter, Assign
  <2>3. s \in Steps /\ s # "fitting" /\ s \in OnTheWay
    BY DEF Steps, OnTheWay
  <2>. QED  BY <1>0, <2>1, <2>2, <2>3, ModelAlone
<1>5. CASE Pop(a)
  <2>1. UNCHANGED <<on, ledger, ledgerFile, modelFile, training, late, blame>> /\ Finish(a)
        /\ pc[a] \notin OnTheWay
    BY <1>5 DEF Pop, locals, verdicts, OnTheWay
  <2>. QED  BY <1>0, <2>1, ModelFinish
<1>. QED  BY <1>1, <1>2, <1>3, <1>4, <1>5

LEMMA ModelRestart ==
  ASSUME ModelInv, Restart
  PROVE  ModelInv'
<1>0. modelFile \in [state : {"none", "torn", "whole"}, on : SUBSET Chains]
  BY DEF ModelInv, ModelTypes
<1>1. modelFile' \in [state : {"none", "torn", "whole"}, on : SUBSET Chains]
  BY <1>0 DEF Restart
<1>2. on' = modelFile'.on /\ on' \subseteq Chains
  BY <1>1 DEF Restart
<1>3. ledger' \in Seq(Verdict) /\ ledgerFile' = ledger'
  BY CutLedgersType DEF Restart, ModelInv, ModelTypes
<1>4. blame' = [c \in Chains |-> IF c \in on' \cap Malicious' THEN "loaded" ELSE "none"]
  BY DEF Restart, Malicious
<1>5. /\ pc' = [t \in Threads |-> "idle"] /\ job' = [b \in Analysts |-> {}]
      /\ training' = [t \in Threads |-> {}]
  BY DEF Restart
<1>6. ModelTypes'
  <2>1. pc' \in [Threads -> Steps] /\ blame' \in [Chains -> Causes]
    BY <1>4, <1>5 DEF Steps, Causes
  <2>. QED  BY <1>1, <1>2, <1>3, <1>5, <2>1 DEF ModelTypes
<1>7. OneJob' /\ CleanTraining'
  BY <1>5 DEF OneJob, AtMostOne, CleanTraining
<1>8. MaliciousStaysOut'
  BY <1>2, <1>4 DEF MaliciousStaysOut
<1>. QED  BY <1>6, <1>7, <1>8 DEF ModelInv

LEMMA ModelStep == ModelInv /\ [Next]_vars => ModelInv'
<1>. SUFFICES ASSUME ModelInv, [Next]_vars PROVE ModelInv'
  OBVIOUS
<1>1. CASE DriverStep
  BY <1>1, ModelDriver, ModelLearned, ModelAdd, ModelRefit DEF DriverStep, Threads
<1>2. ASSUME NEW a \in Analysts, LabelStep(a) \/ \E v \in Verdict : Label(a, v)
      PROVE  ModelInv'
  BY <1>2, ModelVerdict, ModelLabel, ModelAdd, ModelRefit DEF LabelStep, Threads
<1>3. CASE Restart
  BY <1>3, ModelRestart
<1>4. CASE UNCHANGED vars
  BY <1>4, ModelUnchanged DEF vars, verdicts, locals
<1>. QED  BY <1>1, <1>2, <1>3, <1>4 DEF Next

\* MaliciousStaysOut in every behaviour: a chain labelled malicious stays out
\* of the model in use but for the causes "blame" lists (label_chain() and
\* _refit_detector(), pipeline.py:377-423; FeedbackLedger.record()).
THEOREM VerdictsKeepOut == Spec => []MaliciousStaysOut
<1>1. Init => ModelInv
  BY ModelInit
<1>2. ModelInv /\ [Next]_vars => ModelInv'
  BY ModelStep
<1>3. ModelInv => MaliciousStaysOut
  BY DEF ModelInv
<1>. QED
  BY <1>1, <1>2, <1>3, PTL DEF Spec

(***************************************************************************)
(* Types.  The invariants above hold those of the cache and of the model;  *)
(* what is left are the lists of vectors and reports, and the counters.    *)
(***************************************************************************)
ListTypes ==
  /\ baseline \in Seq(Chains)
  /\ held \in [Threads -> Seq(Chains)]
  /\ reports \in Seq(Chains) /\ Len(reports) <= MaxReports

CountTypes ==
  /\ ticks \in Nat /\ sinceRefit \in Nat
  /\ windows \in Nat /\ labels \in Nat /\ crashes \in Nat

FlagTypes ==
  /\ learning \in BOOLEAN /\ signalOnly \in BOOLEAN
  /\ batch \in SUBSET Chains
  /\ mixed \in SUBSET Threads
  /\ late \in SUBSET (Threads \X Chains)

\* The cap keeps the newest vectors.
LEMMA TrimmedType ==
  ASSUME NEW s \in Seq(Chains)
  PROVE  Trimmed(s) \in Seq(Chains)
<1>. Cap \in Nat /\ Len(s) \in Nat
  BY LimitsAssumption
<1>1. CASE Cap = 0 \/ Len(s) <= Cap
  BY <1>1 DEF Trimmed
<1>2. CASE Cap # 0 /\ Len(s) > Cap
  <2>1. Trimmed(s) = SubSeq(s, Len(s) - Cap + 1, Len(s))
    BY <1>2 DEF Trimmed
  <2>. QED  BY <1>2, <2>1, SubSeqProperties
<1>. QED  BY <1>1, <1>2

\* So does the filter that drops the malicious ones.
LEMMA CleanType ==
  ASSUME NEW s \in Seq(Chains)
  PROVE  Clean(s) \in Seq(Chains)
<1> DEFINE P == {i \in DOMAIN s : s[i] \notin Malicious}
<1>1. P \in SUBSET (1 .. Len(s))
  BY LenProperties
<1>2. At(s, P) \in Seq(Chains)
  <2> HIDE DEF P
  <2>. QED  BY <1>1, AtProperties
<1>. QED  BY <1>2 DEF Clean

\* The list of reports keeps the newest, up to its limit.
LEMMA ListedType ==
  ASSUME reports \in Seq(Chains), NEW c \in Chains
  PROVE  Listed(c) \in Seq(Chains) /\ Len(Listed(c)) <= MaxReports
<1> DEFINE all == Append(reports, c)
<1>1. all \in Seq(Chains) /\ Len(all) \in Nat /\ MaxReports \in Nat \ {0}
  BY AppendProperties, LenProperties, LimitsAssumption
<1>2. Listed(c) = IF Len(all) <= MaxReports THEN all
                  ELSE SubSeq(all, Len(all) - MaxReports + 1, Len(all))
  BY DEF Listed
<1> HIDE DEF all
<1>3. CASE Len(all) <= MaxReports
  BY <1>1, <1>2, <1>3
<1>4. CASE Len(all) > MaxReports
  <2> DEFINE m == Len(all) - MaxReports + 1
  <2>1. m \in 1 .. Len(all) /\ \A i \in m .. Len(all) : all[i] \in Chains
    BY <1>1, <1>4, ElementOfSeq
  <2>2. Listed(c) = SubSeq(all, m, Len(all))
    BY <1>1, <1>2, <1>4
  <2>3. Len(all) - m + 1 = MaxReports
    BY <1>1
  <2> HIDE DEF m
  <2>4. Listed(c) \in Seq(Chains) /\ Len(Listed(c)) = Len(all) - m + 1
    BY <1>1, <2>1, <2>2, SubSeqProperties
  <2>. QED  BY <1>1, <2>3, <2>4
<1>. QED  BY <1>1, <1>3, <1>4

LEMMA RestInit == Init => ListTypes /\ CountTypes /\ FlagTypes
<1>. SUFFICES ASSUME Init PROVE ListTypes /\ CountTypes /\ FlagTypes
  OBVIOUS
<1>1. <<>> \in Seq(Chains) /\ Len(<<>>) = 0 /\ 0 <= MaxReports
  BY EmptySeq, LimitsAssumption
<1>2. baseline = <<>> /\ held = [t \in Threads |-> <<>>] /\ reports = <<>>
  BY DEF Init
<1>3. ListTypes
  BY <1>1, <1>2 DEF ListTypes
<1>4. CountTypes
  BY DEF Init, CountTypes
<1>5. FlagTypes
  BY DEF Init, FlagTypes
<1>. QED  BY <1>3, <1>4, <1>5

\* Only a few steps touch the lists.
LEMMA ListStep ==
  ASSUME ListTypes, CacheInv, ModelTypes, [Next]_vars
  PROVE  ListTypes'
<1>0. /\ baseline \in Seq(Chains) /\ held \in [Threads -> Seq(Chains)]
      /\ reports \in Seq(Chains) /\ Len(reports) <= MaxReports
      /\ <<>> \in Seq(Chains)
  BY EmptySeq DEF ListTypes
<1>1. CASE CompleteLearning
  <2>1. PICK seen \in Windows : baseline' = Trimmed(seen)
    BY <1>1 DEF CompleteLearning
  <2>2. PICK n \in 0..Cardinality(Chains) : seen \in [1..n -> Chains]
    BY DEF Windows
  <2>3. n \in Nat
    BY <2>2, ThreadsAssumption, FS_CardinalityType
  <2>4. baseline' \in Seq(Chains)
    BY <2>1, <2>2, <2>3, TrimmedType
  <2>5. UNCHANGED <<held, reports>>
    BY <1>1 DEF CompleteLearning, locals
  <2>. QED  BY <1>0, <2>4, <2>5 DEF ListTypes
<1>2. CASE ReportThreat \/ ReportRaises
  <2>1. PICK c \in hand : reports' \in {reports, Listed(c)}
    BY <1>2 DEF ReportThreat, ReportRaises
  <2>2. c \in Chains
    BY DEF CacheInv
  <2>3. reports' \in Seq(Chains) /\ Len(reports') <= MaxReports
    BY <1>0, <2>1, <2>2, ListedType
  <2>4. UNCHANGED <<baseline, held>>
    BY <1>2 DEF ReportThreat, ReportRaises, locals
  <2>. QED  BY <1>0, <2>3, <2>4 DEF ListTypes
<1>3. ASSUME NEW t \in Threads, Seen(t) PROVE ListTypes'
  <2>1. Added(t) \subseteq Chains
    BY DEF Added, CacheInv, ModelTypes, Threads, Verdict
  <2>2. PICK c \in Chains :
          held' = [held EXCEPT ![t] = IF c \in In(baseline) THEN <<>> ELSE <<c>>]
    BY <1>3, <2>1 DEF Seen
  <2>3. held' \in [Threads -> Seq(Chains)]
    BY <1>0, <2>2
  <2>4. UNCHANGED <<baseline, reports>>
    BY <1>3 DEF Seen
  <2>. QED  BY <1>0, <2>3, <2>4 DEF ListTypes
<1>4. ASSUME NEW t \in Threads, Extend(t) PROVE ListTypes'
  <2>1. baseline' = baseline \o held[t] /\ held' = [held EXCEPT ![t] = <<>>]
        /\ reports' = reports
    BY <1>4 DEF Extend
  <2>2. baseline' \in Seq(Chains)
    BY <1>0, <2>1, ConcatProperties
  <2>3. held' \in [Threads -> Seq(Chains)]
    BY <1>0, <2>1
  <2>. QED  BY <1>0, <2>1, <2>2, <2>3 DEF ListTypes
<1>5. ASSUME NEW t \in Threads, Trim(t) PROVE ListTypes'
  <2>1. held' = [held EXCEPT ![t] = Trimmed(baseline)] /\ UNCHANGED <<baseline, reports>>
    BY <1>5 DEF Trim
  <2>2. held' \in [Threads -> Seq(Chains)]
    BY <1>0, <2>1, TrimmedType
  <2>. QED  BY <1>0, <2>1, <2>2 DEF ListTypes
<1>11. ASSUME NEW t \in Threads, AssignTrimmed(t) PROVE ListTypes'
  <2>1. baseline' = held[t] /\ held' = [held EXCEPT ![t] = <<>>] /\ reports' = reports
    BY <1>11 DEF AssignTrimmed
  <2>2. baseline' \in Seq(Chains) /\ held' \in [Threads -> Seq(Chains)]
    BY <1>0, <2>1
  <2>. QED  BY <1>0, <2>1, <2>2 DEF ListTypes
<1>6. ASSUME NEW a \in Analysts, Filter(a) PROVE ListTypes'
  <2>1. held' = [held EXCEPT ![a] = Clean(baseline)] /\ UNCHANGED <<baseline, reports>>
    BY <1>6 DEF Filter
  <2>2. held' \in [Threads -> Seq(Chains)]
    BY <1>0, <2>1, CleanType
  <2>. QED  BY <1>0, <2>1, <2>2 DEF ListTypes
<1>7. ASSUME NEW a \in Analysts, Assign(a) PROVE ListTypes'
  <2>1. baseline' = held[a] /\ held' = [held EXCEPT ![a] = <<>>] /\ reports' = reports
        /\ a \in Threads
    BY <1>7 DEF Assign, Threads
  <2>2. baseline' \in Seq(Chains) /\ held' \in [Threads -> Seq(Chains)]
    BY <1>0, <2>1
  <2>. QED  BY <1>0, <2>1, <2>2 DEF ListTypes
<1>8. CASE Restart
  <2>1. baseline' = <<>> /\ held' = [t \in Threads |-> <<>>] /\ reports' = <<>>
    BY <1>8 DEF Restart
  <2>2. Len(<<>>) = 0 /\ 0 <= MaxReports
    BY LimitsAssumption
  <2>. QED  BY <1>0, <2>1, <2>2 DEF ListTypes
<1>9. CASE UNCHANGED <<baseline, held, reports>>
  BY <1>0, <1>9 DEF ListTypes
<1>10. \/ CompleteLearning \/ ReportThreat \/ ReportRaises \/ Restart
       \/ \E t \in Threads : Seen(t) \/ Extend(t) \/ Trim(t) \/ AssignTrimmed(t)
       \/ \E a \in Analysts : Filter(a) \/ Assign(a)
       \/ UNCHANGED <<baseline, held, reports>>
  <2>1. CASE DriverStep
    <3>1. (\/ LearnTick \/ StartWindow \/ (\E c \in Chains : Hit(c) \/ Miss(c))
           \/ Store \/ PredictRaises \/ EndWindow)
            => UNCHANGED <<baseline, held, reports>>
      BY DEF LearnTick, StartWindow, Hit, Miss, Store, PredictRaises, EndWindow, locals
    <3>2. Refit(Driver) => UNCHANGED <<baseline, held, reports>>
      BY DEF Refit, Snapshot, ReadRaises, Fit, Clear, SaveModel, SaveModelRaises, locals
    <3>. QED  BY <2>1, <3>1, <3>2 DEF DriverStep, Add, Threads
  <2>2. ASSUME NEW a \in Analysts, LabelStep(a) \/ \E v \in Verdict : Label(a, v)
        PROVE  \/ \E t \in Threads : Seen(t) \/ Extend(t) \/ Trim(t) \/ AssignTrimmed(t)
               \/ \E b \in Analysts : Filter(b) \/ Assign(b)
               \/ UNCHANGED <<baseline, held, reports>>
    <3>1. (SaveVerdict(a) \/ SaveVerdictRaises(a) \/ Pop(a) \/ (\E v \in Verdict : Label(a, v)))
            => UNCHANGED <<baseline, held, reports>>
      BY DEF SaveVerdict, SaveVerdictRaises, Pop, Label, locals
    <3>2. Refit(a) => UNCHANGED <<baseline, held, reports>>
      BY DEF Refit, Snapshot, ReadRaises, Fit, Clear, SaveModel, SaveModelRaises, locals
    <3>. QED  BY <2>2, <3>1, <3>2 DEF LabelStep, Add, Threads
  <2>3. CASE UNCHANGED vars
    BY <2>3 DEF vars, locals
  <2>. QED  BY <2>1, <2>2, <2>3 DEF Next
<1>. QED  BY <1>1, <1>2, <1>3, <1>4, <1>5, <1>6, <1>7, <1>8, <1>9, <1>10, <1>11

\* The counters count up, or start again.
LEMMA CountStep ==
  ASSUME CountTypes, [Next]_vars
  PROVE  CountTypes'
<1> DEFINE CountsUp == /\ ticks' \in {ticks, ticks + 1, 0}
                       /\ sinceRefit' \in {sinceRefit, sinceRefit + 1, 0}
                       /\ windows' \in {windows, windows + 1}
                       /\ labels' \in {labels, labels + 1}
                       /\ crashes' \in {crashes, crashes + 1}
<1>1. CountsUp
  <2>1. CASE DriverStep
    <3>1. CASE Add(Driver) \/ Refit(Driver)
      BY <3>1 DEF Add, Seen, Extend, Trim,
                  AssignTrimmed, Refit, Snapshot, ReadRaises, Fit, Clear,
                  SaveModel, SaveModelRaises, detection, bounds
    <3>2. CASE LearnTick \/ CompleteLearning
      BY <3>2 DEF LearnTick, CompleteLearning, bounds
    <3>3. CASE StartWindow \/ EndWindow
      BY <3>3 DEF StartWindow, EndWindow, detection, bounds
    <3>4. CASE \/ Store \/ PredictRaises \/ ReportThreat \/ ReportRaises
               \/ \E c \in Chains : Hit(c) \/ Miss(c)
      BY <3>4 DEF Store, PredictRaises, ReportThreat, ReportRaises, Hit, Miss, detection, bounds
    <3>. QED  BY <2>1, <3>1, <3>2, <3>3, <3>4 DEF DriverStep
  <2>2. ASSUME NEW a \in Analysts, LabelStep(a) \/ \E v \in Verdict : Label(a, v)
        PROVE  CountsUp
    BY <2>2 DEF LabelStep, Add, Seen, Extend, Trim,
                AssignTrimmed, Refit, Snapshot, ReadRaises, Fit, Clear,
                SaveModel, SaveModelRaises, SaveVerdict, SaveVerdictRaises, Filter, Assign,
                Pop, Label, detection, bounds
  <2>3. CASE Restart
    BY <2>3 DEF Restart
  <2>4. CASE UNCHANGED vars
    BY <2>4 DEF vars, detection, bounds
  <2>. QED  BY <2>1, <2>2, <2>3, <2>4 DEF Next
<1>. QED  BY <1>1 DEF CountTypes

LEMMA FlagStep ==
  ASSUME FlagTypes, ModelTypes, [Next]_vars
  PROVE  FlagTypes'
<1>1. learning' \in BOOLEAN /\ signalOnly' \in BOOLEAN
  <2>1. \/ UNCHANGED <<learning, signalOnly>>
        \/ CompleteLearning \/ Restart
    <3>1. ASSUME NEW t \in Threads, Add(t) \/ Refit(t) PROVE UNCHANGED <<learning, signalOnly>>
      BY <3>1 DEF Add, Seen, Extend, Trim,
                  AssignTrimmed, Refit, Snapshot, ReadRaises, Fit, Clear,
                  SaveModel, SaveModelRaises, detection
    <3>2. ASSUME LearnTick \/ StartWindow \/ EndWindow PROVE UNCHANGED <<learning, signalOnly>>
      BY <3>2 DEF LearnTick, StartWindow, EndWindow, detection
    <3>3. ASSUME \/ Store \/ PredictRaises \/ ReportThreat \/ ReportRaises
                 \/ \E c \in Chains : Hit(c) \/ Miss(c)
          PROVE  UNCHANGED <<learning, signalOnly>>
      BY <3>3 DEF Store, PredictRaises, ReportThreat, ReportRaises, Hit, Miss, detection
    <3>4. ASSUME DriverStep PROVE UNCHANGED <<learning, signalOnly>> \/ CompleteLearning
      BY <3>1, <3>2, <3>3, <3>4 DEF DriverStep, Threads
    <3>5. ASSUME NEW a \in Analysts, LabelStep(a) \/ \E v \in Verdict : Label(a, v)
          PROVE  UNCHANGED <<learning, signalOnly>>
      BY <3>1, <3>5 DEF LabelStep, SaveVerdict, SaveVerdictRaises, Filter, Assign, Pop, Label,
                        detection, Threads
    <3>6. ASSUME UNCHANGED vars PROVE UNCHANGED <<learning, signalOnly>>
      BY <3>6 DEF vars, detection
    <3>. QED  BY <3>4, <3>5, <3>6 DEF Next
  <2>2. CASE UNCHANGED <<learning, signalOnly>>
    BY <2>2 DEF FlagTypes
  <2>3. CASE CompleteLearning
    <3>1. learning' = FALSE /\ \E seen \in Windows : signalOnly' = (seen = <<>>)
      BY <2>3 DEF CompleteLearning
    <3>. QED  BY <3>1
  <2>4. CASE Restart
    <3>1. learning' = (modelFile'.state = "none") /\ signalOnly' = FALSE
      BY <2>4 DEF Restart
    <3>. QED  BY <3>1
  <2>. QED  BY <2>1, <2>2, <2>3, <2>4
<1>2. batch' \in SUBSET Chains
  BY DEF FlagTypes, Next, DriverStep, LearnTick, CompleteLearning, StartWindow, EndWindow, Store,
         PredictRaises, ReportThreat, ReportRaises, Hit, Miss, LabelStep, Add, Seen, Extend, Trim,
         AssignTrimmed, Refit,
         Snapshot, ReadRaises, Fit, Clear, SaveModel, SaveModelRaises, SaveVerdict,
         SaveVerdictRaises, Filter, Assign, Pop, Label, Restart, window, vars
<1>3. mixed' \in SUBSET Threads
  BY DEF FlagTypes, Next, DriverStep, LearnTick, CompleteLearning, StartWindow, EndWindow, Store,
         PredictRaises, ReportThreat, ReportRaises, Hit, Miss, LabelStep, Add, Seen, Extend, Trim,
         AssignTrimmed, Refit,
         Snapshot, ReadRaises, Fit, Clear, SaveModel, SaveModelRaises, SaveVerdict,
         SaveVerdictRaises, Filter, Assign, Pop, Label, Restart, Disturb, vars
<1>4. late' \in SUBSET (Threads \X Chains)
  <2>1. \/ late' \subseteq late
        \/ \E v \in Verdict : late' = late \cup {<<t, v.chain>> : t \in
             {u \in Threads : pc[u] = "fitting" /\ v.verdict = "malicious"}}
    BY DEF Next, DriverStep, LearnTick, CompleteLearning, StartWindow, EndWindow, Store,
           PredictRaises, ReportThreat, ReportRaises, Hit, Miss, LabelStep, Add, Seen, Extend, Trim,
           AssignTrimmed, Refit,
           Snapshot, ReadRaises, Fit, Clear, SaveModel, SaveModelRaises, SaveVerdict,
           SaveVerdictRaises, Filter, Assign, Pop, Label, Restart, vars
  <2>. QED  BY <2>1 DEF FlagTypes, Verdict
<1>. QED  BY <1>1, <1>2, <1>3, <1>4 DEF FlagTypes

\* The baseline, the vectors the threads hold, the verdicts and the model keep
\* their types, and the list of reports its limit, for any threads and chains.
THEOREM BaselineTypes == Spec => []TypeOK
<1> DEFINE Inv == CacheInv /\ ModelInv /\ ListTypes /\ CountTypes /\ FlagTypes
<1>1. Init => Inv
  BY CacheInit, ModelInit, RestInit
<1>2. Inv /\ [Next]_vars => Inv'
  <2>. SUFFICES ASSUME Inv, [Next]_vars PROVE Inv'
    OBVIOUS
  <2>1. CacheInv' /\ ModelInv'
    BY CacheStep, ModelStep
  <2>2. ListTypes' /\ CountTypes' /\ FlagTypes'
    BY ListStep, CountStep, FlagStep DEF ModelInv
  <2>. QED  BY <2>1, <2>2
<1>3. Inv => TypeOK
  BY DEF CacheInv, ModelInv, ModelTypes, ListTypes, CountTypes, FlagTypes, TypeOK
<1>. QED
  BY <1>1, <1>2, <1>3, PTL DEF Spec
=============================================================================
