------------------------- MODULE Containment_proofs -------------------------
(***************************************************************************)
(* Proofs about Containment, for any callers, actions and bounds: its type *)
(* invariant, that a dry run holds nothing, that an operation is counted   *)
(* as reversed once, and that whatever is held has a handle.               *)
(***************************************************************************)
EXTENDS Containment, FiniteSetTheorems, TLAPS

(***************************************************************************)
(* What the effects do to one target.                                      *)
(***************************************************************************)
\* Applying or undoing an action leaves a target in a state of the host.
LEMMA OutcomesAreHosts ==
  ASSUME clock \in Nat, NEW h \in Host
  PROVE  /\ \A a \in Actions : Applied(a, h) \subseteq Host /\ ApplyRaised(a, h) \subseteq Host
         /\ \A e \in Entry : Undone(e, h) \subseteq Host /\ UndoRaised(e, h) \subseteq Host
<1>1. /\ Kept(h) \in Host /\ LetGo(h) \in Host /\ Gone \in Host
      /\ [here |-> FALSE, held |-> h.held \cup {clock}] \in Host
      /\ [here |-> TRUE, held |-> h.held \cup {clock}] \in Host
      /\ [here |-> TRUE, held |-> h.held] \in Host
  BY DEF Kept, LetGo, Gone, Host
<1>2. \A e \in Entry : [here |-> TRUE, held |-> h.held \ {e.place}] \in Host
  BY DEF Host
<1>3. ASSUME NEW a \in Actions PROVE Applied(a, h) \subseteq Host /\ ApplyRaised(a, h) \subseteq Host
  BY <1>1 DEF Applied, ApplyRaised
<1>4. ASSUME NEW e \in Entry PROVE Undone(e, h) \subseteq Host /\ UndoRaised(e, h) \subseteq Host
  BY <1>1, <1>2 DEF Undone, UndoRaised
<1>. QED  BY <1>3, <1>4

\* A change of one target makes it what was chosen, and holds no other target
\* where it was not held.
LEMMA TargetChanges ==
  ASSUME host \in [Targets -> Host], NEW t \in Targets, NEW h \in Host, NEW ps
  PROVE  LET new == WithTarget(t, h, ps)
         IN  /\ new \in [Targets -> Host]
             /\ new[t] = h
             /\ \A u \in Targets \ {t} : new[u].held \subseteq host[u].held
             /\ h = host[t] /\ ps = {} => new = host
<1> DEFINE new == WithTarget(t, h, ps)
           at(u) == IF u = t THEN h
                    ELSE IF Name[u] = Name[t] THEN [host[u] EXCEPT !.held = @ \ ps]
                    ELSE host[u]
<1>1. new = [u \in Targets |-> at(u)]
  BY DEF WithTarget
<1>2. \A u \in Targets : [host[u] EXCEPT !.held = @ \ ps] \in Host
  BY DEF Host
<1>3. \A u \in Targets : at(u) \in Host /\ (u # t => at(u).held \subseteq host[u].held)
  BY <1>2 DEF Host
<1>4. at(t) = h
  OBVIOUS
<1>5. ASSUME h = host[t], ps = {} PROVE \A u \in Targets : at(u) = host[u]
  <2>1. \A u \in Targets : [host[u] EXCEPT !.held = @ \ {}] = host[u]
    BY DEF Host
  <2>. QED  BY <1>5, <2>1
<1>. HIDE DEF at, new
<1>6. new \in [Targets -> Host] /\ new[t] = h /\ \A u \in Targets \ {t} : new[u].held \subseteq host[u].held
  BY <1>1, <1>3, <1>4
<1>7. h = host[t] /\ ps = {} => new = host
  BY <1>1, <1>5
<1>. QED  BY <1>6, <1>7 DEF new

\* Undoing a handle never holds a target where it was not held.
LEMMA UndoOnlyReleases ==
  ASSUME NEW h \in Host, NEW e \in Entry, NEW g \in Undone(e, h) \cup UndoRaised(e, h)
  PROVE  g.held \subseteq h.held
BY ActionsAssumption DEF Undone, UndoRaised, LetGo, CanMoveBack, Host, Types, Entry

\* An effect holds a target at most at one new place, that of its handle, and
\* only for an action that can be undone.
LEMMA ApplyHoldsAtPlace ==
  ASSUME clock \in Nat, NEW h \in Host, NEW a \in Actions,
         NEW g \in Applied(a, h) \cup ApplyRaised(a, h), NEW p \in g.held \ h.held
  PROVE  p = Place(a) /\ Reversible(a)
BY ActionsAssumption DEF Applied, ApplyRaised, Kept, Gone, Place, Reversible, Host, Types

\* In a dry run nothing changes.
LEMMA DryRunChangesNothing ==
  ASSUME dryRun, NEW h \in Host
  PROVE  /\ \A a \in Actions : Applied(a, h) \cup ApplyRaised(a, h) \subseteq {h}
         /\ \A e \in Entry : Undone(e, h) \cup UndoRaised(e, h) \subseteq {h}
BY DEF Applied, ApplyRaised, Undone, UndoRaised, IsDry

(***************************************************************************)
(* The type invariant.                                                     *)
(***************************************************************************)
\* The places a lost handle stands for are places of its target.
LEMMA StillHeldType ==
  ASSUME NEW e, e.action \in Actions, NEW h \in Host, NEW why \in Causes
  PROVE  StillHeld(e, h, why) \subseteq Loss
BY DEF StillHeld, Loss, Host, Targets

\* Losing places keeps the record of them well typed.
LEMMA LoseType ==
  ASSUME lost \subseteq Loss, NEW ls \in SUBSET Loss, Lose(ls)
  PROVE  lost' \subseteq Loss
BY DEF Lose

\* A write to the file keeps the file and its account well typed.
LEMMA LandType ==
  ASSUME TypeOK, NEW es \in SUBSET Entry, NEW part \in Part, Land(es, part)
  PROVE  /\ file' \subseteq Entry /\ open' \in BOOLEAN /\ tail' \subseteq Entry
         /\ unsaved' \subseteq Nat /\ tears' \in Nat
<1>1. Ids(es) \subseteq Nat /\ Ids(tail) \subseteq Nat
  BY DEF Ids, Entry, TypeOK
<1>2. file' \subseteq Entry /\ open' \in BOOLEAN /\ tail' \subseteq Entry
  BY DEF Land, TypeOK
<1>3. unsaved' \subseteq Nat
  BY <1>1 DEF Land, TypeOK
<1>4. tears' \in Nat
  BY DEF Land, TypeOK
<1>. QED  BY <1>2, <1>3, <1>4

\* Going to another step with handles in hand keeps the callers well typed.
LEMMA HandlesType ==
  ASSUME TypeOK, NEW c \in Callers, NEW es \in SUBSET Entry,
         NEW step \in {"idle", "append", "persist", "undo", "remove"}, Handles(c, step, es)
  PROVE  /\ cpc' \in [Callers -> {"idle", "append", "persist", "undo", "remove"}]
         /\ work' \in [Callers -> SUBSET Entry]
BY DEF Handles, TypeOK

\* A step of a caller keeps the type invariant.
LEMMA CallerKeepsTypes ==
  ASSUME TypeOK, NEW c \in Callers, ContainmentStep(c)
  PROVE  TypeOK'
<1>. USE DEF store, tally, callers
<1>0. \A a \in Actions : a.target \in Targets /\ host[a.target] \in Host
  BY DEF TypeOK, Targets
<1>a. work[c] \subseteq Entry /\ todo[c] \subseteq Entry
  BY DEF TypeOK
<1>b. \A e \in Entry : e.action \in Actions
  BY DEF Entry
<1>1. ASSUME NEW a \in Actions, Apply(c, a) PROVE TypeOK'
  <2> DEFINE e == [id |-> lastId + 1, action |-> a, place |-> Place(a)]
  <2>1. e \in Entry
    BY DEF Entry, Place, TypeOK
  <2>2. host' \in [Targets -> Host]
    <3>1. PICK h \in Applied(a, host[a.target]) : host' = WithTarget(a.target, h, Overwritten(a.target, h))
      BY <1>1 DEF Apply
    <3>2. h \in Host
      BY <3>1, <1>0, OutcomesAreHosts DEF TypeOK
    <3>. QED  BY <3>1, <3>2, <1>0, TargetChanges DEF TypeOK
  <2>3. lost' \subseteq Loss
    BY <1>1, LoseType DEF Apply, TypeOK
  <2>4. {e} \in SUBSET Entry /\ Handles(c, "append", {e})
    BY <1>1, <2>1 DEF Apply
  <2>5. /\ cpc' \in [Callers -> {"idle", "append", "persist", "undo", "remove"}]
        /\ work' \in [Callers -> SUBSET Entry]
    <3> HIDE DEF e
    <3> QED BY <2>4, HandlesType
  <2>. QED  BY <1>1, <2>2, <2>3, <2>5 DEF Apply, TypeOK
<1>2. ASSUME NEW a \in Actions, ApplyRaises(c, a) PROVE TypeOK'
  <2> DEFINE e == [id |-> 0, action |-> a, place |-> Place(a)]
  <2>1. PICK h \in ApplyRaised(a, host[a.target]) :
          /\ host' = WithTarget(a.target, h, Overwritten(a.target, h))
          /\ Lose(IF h = host[a.target] THEN {} ELSE StillHeld(e, h, "handler raised"))
    BY <1>2 DEF ApplyRaises
  <2>2. h \in Host /\ host' \in [Targets -> Host]
    <3>1. h \in Host
      BY <2>1, <1>0, OutcomesAreHosts DEF TypeOK
    <3>. QED  BY <2>1, <3>1, <1>0, TargetChanges DEF TypeOK
  <2>3. StillHeld(e, h, "handler raised") \subseteq Loss
    <3>1. e.action \in Actions
      OBVIOUS
    <3> HIDE DEF e
    <3> QED BY <2>2, <3>1, StillHeldType DEF Causes
  <2>4. lost' \subseteq Loss
    BY <2>1, <2>3, LoseType DEF TypeOK
  <2>. QED  BY <1>2, <2>2, <2>4 DEF ApplyRaises, TypeOK
<1>3. ASSUME AppendEntry(c) PROVE TypeOK'
  <2>1. entries' \subseteq Entry
    BY <1>3, <1>a DEF AppendEntry, WithAppended, TypeOK
  <2>. QED  BY <1>3, <1>a, <2>1, HandlesType DEF AppendEntry, TypeOK
<1>4. ASSUME PersistEntry(c) PROVE TypeOK'
  <2>1. Land(work[c], "whole") /\ "whole" \in Part
    BY <1>4 DEF PersistEntry, Part
  <2>2. /\ file' \subseteq Entry /\ open' \in BOOLEAN /\ tail' \subseteq Entry
        /\ unsaved' \subseteq Nat /\ tears' \in Nat
    BY <2>1, <1>a, LandType
  <2>3. /\ cpc' \in [Callers -> {"idle", "append", "persist", "undo", "remove"}]
        /\ work' \in [Callers -> SUBSET Entry]
    BY <1>4, HandlesType DEF PersistEntry
  <2>. QED  BY <1>4, <2>2, <2>3 DEF PersistEntry, TypeOK
<1>5. ASSUME PersistRaises(c) PROVE TypeOK'
  <2>1. /\ file' \subseteq Entry /\ open' \in BOOLEAN /\ tail' \subseteq Entry
        /\ unsaved' \subseteq Nat /\ tears' \in Nat
    <3>1. CASE unsaved' = unsaved \cup Ids(work[c]) /\ UNCHANGED <<file, open, tail, tears>>
      <4>1. Ids(work[c]) \subseteq Nat
        BY <1>a DEF Ids, Entry
      <4>. QED  BY <3>1, <4>1 DEF TypeOK
    <3>2. CASE \E part \in {"fragment", "unterminated"} : Land(work[c], part)
      BY <3>2, <1>a, LandType DEF Part
    <3>. QED  BY <1>5, <3>1, <3>2 DEF PersistRaises
  <2>2. /\ cpc' \in [Callers -> {"idle", "append", "persist", "undo", "remove"}]
        /\ work' \in [Callers -> SUBSET Entry]
    BY <1>5, HandlesType DEF PersistRaises
  <2>. QED  BY <1>5, <2>1, <2>2 DEF PersistRaises, TypeOK
<1>6. ASSUME NEW r \in Reports, StartRollback(c, r) PROVE TypeOK'
  <2>1. Matching(r) \subseteq Entry
    BY DEF Matching, TypeOK
  <2>2. /\ cpc' \in [Callers -> {"idle", "append", "persist", "undo", "remove"}]
        /\ work' \in [Callers -> SUBSET Entry]
    BY <1>6, HandlesType DEF StartRollback
  <2>. QED  BY <1>6, <2>1, <2>2 DEF StartRollback, TypeOK
<1>7. ASSUME NEW e \in todo[c], Undo(c, e) PROVE TypeOK'
  <2>0. e \in Entry
    BY <1>a
  <2>1. PICK h \in Undone(e, host[e.action.target]) :
          /\ host' = WithTarget(e.action.target, h, MovedBack(e, h))
          /\ Lose(StillHeld(e, h, "undo returned"))
    BY <1>7 DEF Undo
  <2>2. h \in Host /\ host' \in [Targets -> Host]
    <3>1. h \in Host
      BY <2>0, <2>1, <1>0, <1>b, OutcomesAreHosts DEF TypeOK
    <3>. QED  BY <2>0, <2>1, <3>1, <1>0, <1>b, TargetChanges DEF TypeOK
  <2>3. lost' \subseteq Loss
    BY <2>0, <2>1, <2>2, <1>b, StillHeldType, LoseType DEF TypeOK, Causes
  <2>4. /\ cpc' \in [Callers -> {"idle", "append", "persist", "undo", "remove"}]
        /\ work' \in [Callers -> SUBSET Entry]
    BY <1>7, <2>0, HandlesType DEF Undo
  <2>. QED  BY <1>7, <2>2, <2>3, <2>4 DEF Undo, TypeOK
<1>8. ASSUME NEW e \in todo[c], UndoRaises(c, e) PROVE TypeOK'
  <2>0. e \in Entry
    BY <1>a
  <2>1. host' \in [Targets -> Host]
    <3>1. PICK h \in UndoRaised(e, host[e.action.target]) : host' = WithTarget(e.action.target, h, {})
      BY <1>8 DEF UndoRaises
    <3>2. h \in Host
      BY <3>1, <2>0, <1>0, <1>b, OutcomesAreHosts DEF TypeOK
    <3>. QED  BY <2>0, <3>1, <3>2, <1>0, <1>b, TargetChanges DEF TypeOK
  <2>2. lost' \subseteq Loss
    BY <1>8, LoseType DEF UndoRaises, TypeOK
  <2>3. /\ cpc' \in [Callers -> {"idle", "append", "persist", "undo", "remove"}]
        /\ work' \in [Callers -> SUBSET Entry]
    BY <1>8, HandlesType DEF UndoRaises, Advance
  <2>. QED  BY <1>8, <1>a, <2>1, <2>2, <2>3 DEF UndoRaises, Advance, TypeOK
<1>9. ASSUME RemoveEntry(c) PROVE TypeOK'
  <2>1. Ids(work[c]) \subseteq Nat
    BY <1>a DEF Ids, Entry
  <2>2. /\ cpc' \in [Callers -> {"idle", "append", "persist", "undo", "remove"}]
        /\ work' \in [Callers -> SUBSET Entry]
    BY <1>9, HandlesType DEF RemoveEntry, Advance
  <2>3. entries' \subseteq Entry /\ reversed' \subseteq Nat /\ reported' \in Nat
    <3>1. reported' = reported + 1 /\ reversed' = reversed \cup Ids(work[c]) /\ entries' \subseteq entries
      BY <1>9 DEF RemoveEntry
    <3>2. reported \in Nat /\ reversed \subseteq Nat /\ entries \subseteq Entry
      BY DEF TypeOK
    <3>3. reported' \in Nat
      BY <3>1, <3>2
    <3>4. reversed' \subseteq Nat /\ entries' \subseteq Entry
      BY <3>1, <3>2, <2>1
    <3>. QED  BY <3>3, <3>4
  <2>4. todo' \in [Callers -> SUBSET Entry]
    BY <1>9, <1>a DEF RemoveEntry, Advance, TypeOK
  <2>. QED  BY <1>9, <2>2, <2>3, <2>4 DEF RemoveEntry, TypeOK
<1>10. ASSUME RemoveRaises(c) PROVE TypeOK'
  <2>1. /\ cpc' \in [Callers -> {"idle", "append", "persist", "undo", "remove"}]
        /\ work' \in [Callers -> SUBSET Entry]
    BY <1>10, HandlesType DEF RemoveRaises
  <2>. QED  BY <1>10, <2>1 DEF RemoveRaises, TypeOK
<1>. QED
  BY <1>1, <1>2, <1>3, <1>4, <1>5, <1>6, <1>7, <1>8, <1>9, <1>10 DEF ContainmentStep

\* A restart keeps the type invariant.
LEMMA RestartKeepsTypes ==
  ASSUME TypeOK, Restart
  PROVE  TypeOK'
<1>1. /\ file' \subseteq Entry /\ open' \in BOOLEAN /\ tail' \subseteq Entry
      /\ unsaved' \subseteq Nat /\ tears' \in Nat
  <2>1. CASE \E c \in Callers, part \in {"fragment", "unterminated"} : Land(work[c], part)
    <3>1. PICK c \in Callers, part \in {"fragment", "unterminated"} : Land(work[c], part)
      BY <2>1
    <3>2. work[c] \in SUBSET Entry /\ part \in Part
      BY DEF TypeOK, Part
    <3>. QED  BY <3>1, <3>2, LandType
  <2>2. CASE UNCHANGED store
    BY <2>2 DEF store, TypeOK
  <2>. QED  BY <2>1, <2>2 DEF Restart
<1>2. entries' \subseteq Entry
  BY <1>1 DEF Restart, Loaded
<1>3. Alive \subseteq Entry
  BY DEF Alive, TypeOK
<1>4. \A e \in Entry : StillHeld(e, host[e.action.target], "process died") \subseteq Loss
  <2>1. ASSUME NEW e \in Entry PROVE StillHeld(e, host[e.action.target], "process died") \subseteq Loss
    <3>1. e.action \in Actions /\ e.action.target \in Targets
      BY DEF Entry, Targets
    <3>2. host[e.action.target] \in Host
      BY <3>1 DEF TypeOK
    <3>. QED  BY <3>1, <3>2, StillHeldType DEF Causes
  <2>. QED  BY <2>1
<1>5. lost' \subseteq Loss
  BY <1>3, <1>4, LoseType DEF Restart, TypeOK
<1>6. crashes' \in Nat
  <2>1. crashes \in Nat /\ crashes' = crashes + 1
    BY DEF Restart, TypeOK
  <2>. QED  BY <2>1
<1>7. /\ cpc' \in [Callers -> {"idle", "append", "persist", "undo", "remove"}]
      /\ work' \in [Callers -> SUBSET Entry] /\ todo' \in [Callers -> SUBSET Entry]
      /\ reported' \in Nat /\ reversed' \subseteq Nat
  BY DEF Restart
<1>. QED  BY <1>1, <1>2, <1>5, <1>6, <1>7 DEF Restart, TypeOK

\* What happens outside the process keeps the type invariant.
LEMMA WorldKeepsTypes ==
  ASSUME TypeOK, World
  PROVE  TypeOK'
<1>. USE DEF store, callers, tally
<1>1. ASSUME NEW t \in Targets, Vanish(t) PROVE TypeOK'
  <2>1. host' \in [Targets -> Host]
    <3>1. host[t] \in Host
      BY DEF TypeOK
    <3>2. [here |-> FALSE, held |-> host[t].held] \in Host /\ [here |-> FALSE, held |-> {}] \in Host
      BY <3>1 DEF Host
    <3>. QED  BY <1>1, <3>2 DEF Vanish, TypeOK
  <2>2. lost' \subseteq Loss
    BY <1>1, LoseType DEF Vanish, TypeOK
  <2>. QED  BY <1>1, <2>1, <2>2 DEF Vanish, TypeOK
<1>2. ASSUME NEW t \in Targets, Appear(t) PROVE TypeOK'
  <2>1. host' \in [Targets -> Host]
    BY <1>2 DEF Appear, TypeOK, Host
  <2>. QED  BY <1>2, <2>1 DEF Appear, TypeOK
<1>3. ASSUME Tick PROVE TypeOK'
  BY <1>3 DEF Tick, TypeOK
<1>. QED  BY <1>1, <1>2, <1>3 DEF World

LEMMA InitType == Init => TypeOK
<1>. SUFFICES ASSUME Init PROVE TypeOK
  OBVIOUS
<1>1. host \in [Targets -> Host]
  BY DEF Init, Host
<1>2. clock \in Nat /\ lastId \in Nat /\ reported \in Nat /\ tears \in Nat /\ crashes \in Nat
  BY DEF Init
<1>. QED  BY <1>1, <1>2 DEF Init, TypeOK

\* Every step, stuttering included, keeps the type invariant.
LEMMA NextKeepsTypes ==
  ASSUME TypeOK, [Next]_containmentVars
  PROVE  TypeOK'
<1>1. CASE World
  BY <1>1, WorldKeepsTypes
<1>2. CASE Restart
  BY <1>2, RestartKeepsTypes
<1>3. CASE \E c \in Callers : ContainmentStep(c)
  BY <1>3, CallerKeepsTypes
<1>4. CASE UNCHANGED containmentVars
  BY <1>4 DEF containmentVars, store, callers, tally, TypeOK
<1>. QED  BY <1>1, <1>2, <1>3, <1>4 DEF Next

\* Every variable keeps its type, for any callers, actions and bounds.
THEOREM TypeCorrect == Spec => []TypeOK
<1>1. Init => TypeOK
  BY InitType
<1>2. TypeOK /\ [Next]_containmentVars => TypeOK'
  BY NextKeepsTypes
<1>. QED  BY <1>1, <1>2, PTL DEF Spec

(***************************************************************************)
(* A dry run holds nothing.                                                *)
(***************************************************************************)
\* In a dry run no step holds a target anywhere, whatever state the target
\* was in when the step began.
DryInv == TypeOK /\ DryRunHoldsNothing

LEMMA DryStep ==
  ASSUME DryInv, [Next]_containmentVars
  PROVE  DryRunHoldsNothing'
<1>. USE DEF store, callers, tally, DryInv
<1>0. SUFFICES ASSUME dryRun' PROVE \A t \in Targets : host'[t].held = {}
  BY DEF DryRunHoldsNothing
<1>1. dryRun' = dryRun
  BY DEF Next, World, Vanish, Appear, Tick, Restart, ContainmentStep, Apply, ApplyRaises,
     AppendEntry, PersistEntry, PersistRaises, StartRollback, Undo, UndoRaises, RemoveEntry,
     RemoveRaises, containmentVars
<1>2. /\ dryRun
      /\ \A t \in Targets : host[t] \in Host /\ host[t].held = {}
      /\ host \in [Targets -> Host]
  BY <1>0, <1>1 DEF DryRunHoldsNothing, TypeOK
<1>3. CASE host' = host
  BY <1>2, <1>3
<1>4. ASSUME NEW c \in Callers, ContainmentStep(c) PROVE host' = host
  <2>0. /\ \A a \in Actions : a.target \in Targets
        /\ todo[c] \subseteq Entry
        /\ \A e \in Entry : e.action \in Actions
    BY DEF TypeOK, Targets, Entry
  <2>1. ASSUME NEW a \in Actions, Apply(c, a) \/ ApplyRaises(c, a) PROVE host' = host
    <3>1. host[a.target] \in Host /\ a.target \in Targets
      BY <2>0, <1>2
    <3>2. PICK h \in Applied(a, host[a.target]) \cup ApplyRaised(a, host[a.target]) :
            host' = WithTarget(a.target, h, Overwritten(a.target, h))
      BY <2>1 DEF Apply, ApplyRaises
    <3>3. h = host[a.target]
      BY <3>1, <3>2, <1>2, DryRunChangesNothing
    <3>4. Overwritten(a.target, h) = {}
      BY <3>3 DEF Overwritten
    <3>. QED  BY <3>1, <3>2, <3>3, <3>4, <1>2, TargetChanges
  <2>2. ASSUME NEW e \in todo[c], Undo(c, e) \/ UndoRaises(c, e) PROVE host' = host
    <3>1. e \in Entry /\ host[e.action.target] \in Host /\ e.action.target \in Targets
      BY <2>0, <1>2
    <3>2. PICK h \in Undone(e, host[e.action.target]) \cup UndoRaised(e, host[e.action.target]) :
            \E ps \in {MovedBack(e, h), {}} : host' = WithTarget(e.action.target, h, ps)
      BY <2>2 DEF Undo, UndoRaises
    <3>3. h = host[e.action.target]
      BY <3>1, <3>2, <1>2, DryRunChangesNothing
    <3>4. MovedBack(e, h) = {}
      BY <3>3 DEF MovedBack
    <3>. QED  BY <3>1, <3>2, <3>3, <3>4, <1>2, TargetChanges
  <2>. QED
    BY <1>4, <2>1, <2>2 DEF ContainmentStep, AppendEntry, PersistEntry, PersistRaises,
       StartRollback, RemoveEntry, RemoveRaises
<1>5. ASSUME NEW t \in Targets, Vanish(t) PROVE \A u \in Targets : host'[u].held = {}
  BY <1>2, <1>5 DEF Vanish
<1>6. ASSUME NEW t \in Targets, Appear(t) PROVE \A u \in Targets : host'[u].held = {}
  BY <1>2, <1>6 DEF Appear, Host
<1>. QED
  BY <1>3, <1>4, <1>5, <1>6 DEF Next, World, Tick, Restart, containmentVars

\* A dry run holds nothing.
THEOREM DryRunIsHarmless == Spec => []DryRunHoldsNothing
<1>1. Init => DryInv
  BY InitType DEF Init, DryInv, DryRunHoldsNothing
<1>2. DryInv /\ [Next]_containmentVars => DryInv'
  BY DryStep, NextKeepsTypes DEF DryInv
<1>3. DryInv => DryRunHoldsNothing
  BY DEF DryInv
<1>. QED  BY <1>1, <1>2, <1>3, PTL DEF Spec

(***************************************************************************)
(* What every handle satisfies: its id was given out, and it is on file,   *)
(* about to be written, or known not to be on file.                        *)
(***************************************************************************)
\* The handles in memory, on file, or in the hands of a caller.
Known(x) ==
  x \in entries \/ x \in file \/ \E c \in Callers : x \in work[c] \/ x \in todo[c]

IdsKnown == \A e \in Entry : Known(e) => e.id <= lastId

IdsUnique == \A x, y \in Entry : Known(x) /\ Known(y) /\ x.id = y.id => x = y

OnFile == \A e \in Alive : e \in file \/ e \in Unwritten \/ e.id \in unsaved

\* The sets of handles, element by element, before and after a step.
LEMMA HandleSets ==
  \A x :
    /\ x \in Alive <=> x \in entries \/ \E d \in Callers : cpc[d] = "append" /\ x \in work[d]
    /\ x \in Alive' <=> x \in entries' \/ \E d \in Callers : cpc'[d] = "append" /\ x \in work'[d]
    /\ x \in Unwritten <=> \E d \in Callers : cpc[d] \in {"append", "persist"} /\ x \in work[d]
    /\ x \in Unwritten' <=> \E d \in Callers : cpc'[d] \in {"append", "persist"} /\ x \in work'[d]
    /\ x \in Settled <=> \E d \in Callers : cpc[d] = "remove" /\ x \in work[d]
    /\ x \in Settled' <=> \E d \in Callers : cpc'[d] = "remove" /\ x \in work'[d]
BY DEF Alive, Unwritten, Settled

\* What a write does to the file and to the account of what is not on it.
LEMMA LandFiles ==
  ASSUME NEW es, NEW part, Land(es, part)
  PROVE  /\ file' \subseteq file \cup es
         /\ \A e \in file : e \in file' \/ e.id \in unsaved'
         /\ unsaved \subseteq unsaved'
         /\ \A e \in es : e.id \in unsaved' \/ e \in file'
<1>1. \A e \in tail : e.id \in Ids(tail)
  BY DEF Ids
<1>2. \A e \in es : e.id \in Ids(es)
  BY DEF Ids
<1>. QED  BY <1>1, <1>2 DEF Land

\* What going to another step does to the handles in hand.
LEMMA HandlesAt ==
  ASSUME TypeOK, NEW c \in Callers, NEW step, NEW es, Handles(c, step, es)
  PROVE  /\ cpc'[c] = step /\ work'[c] = es
         /\ \A d \in Callers \ {c} : cpc'[d] = cpc[d] /\ work'[d] = work[d]
BY DEF Handles, TypeOK

\* No step makes up a handle, except apply() with the next id.
LEMMA KnownStep ==
  ASSUME TypeOK, [Next]_containmentVars
  PROVE  \/ lastId' = lastId /\ \A x : Known(x)' => Known(x)
         \/ /\ lastId' = lastId + 1
            /\ \E e : e.id = lastId + 1 /\ \A x : Known(x)' => Known(x) \/ x = e
<1>. USE DEF store, callers, tally
<1>t. todo \in [Callers -> SUBSET Entry] /\ work \in [Callers -> SUBSET Entry]
  BY DEF TypeOK
<1>1. ASSUME NEW c \in Callers, NEW a \in Actions, Apply(c, a)
      PROVE  /\ lastId' = lastId + 1
             /\ \E e : e.id = lastId + 1 /\ \A x : Known(x)' => Known(x) \/ x = e
  <2>1. PICK e : e.id = lastId + 1 /\ Handles(c, "append", {e})
    BY <1>1 DEF Apply
  <2>2. \A d \in Callers : work'[d] \subseteq work[d] \cup {e}
    BY <2>1, HandlesAt
  <2>3. lastId' = lastId + 1 /\ UNCHANGED <<entries, file, todo>>
    BY <1>1 DEF Apply
  <2>4. \A x : Known(x)' => Known(x) \/ x = e
    BY <2>2, <2>3 DEF Known
  <2>. QED  BY <2>1, <2>3, <2>4
<1>2. ASSUME NEW c \in Callers,
             /\ entries' \subseteq entries \cup file \cup work[c]
             /\ file' \subseteq file \cup work[c]
             /\ \A d \in Callers : work'[d] \subseteq work[d] \cup todo[d]
             /\ \A d \in Callers : todo'[d] \subseteq todo[d] \cup entries,
             NEW x, Known(x)'
      PROVE  Known(x)
  BY <1>2 DEF Known
<1>3. ASSUME NEW c \in Callers, ContainmentStep(c), ~\E a \in Actions : Apply(c, a)
      PROVE  lastId' = lastId /\ \A x : Known(x)' => Known(x)
  <2>1. CASE \E a \in Actions : ApplyRaises(c, a)
    BY <1>2, <2>1 DEF ApplyRaises
  <2>2. CASE AppendEntry(c)
    BY <1>2, <2>2, HandlesAt DEF AppendEntry, WithAppended
  <2>3. CASE PersistEntry(c)
    BY <1>2, <2>3, HandlesAt, LandFiles DEF PersistEntry
  <2>4. CASE PersistRaises(c)
    BY <1>2, <2>4, HandlesAt, LandFiles DEF PersistRaises
  <2>5. CASE \E r \in Reports : StartRollback(c, r)
    BY <1>2, <1>t, <2>5, HandlesAt DEF StartRollback, Matching
  <2>6. CASE \E e \in todo[c] : Undo(c, e)
    <3>1. PICK e \in todo[c] : Undo(c, e)
      BY <2>6
    <3>2. Handles(c, "remove", {e})
      BY <3>1 DEF Undo
    <3>3. \A d \in Callers : work'[d] \subseteq work[d] \cup todo[d]
      BY <3>2, HandlesAt
    <3>4. UNCHANGED <<lastId, entries, file, todo>>
      BY <3>1 DEF Undo
    <3>. QED  BY <1>2, <3>3, <3>4
  <2>7. CASE \E e \in todo[c] : UndoRaises(c, e)
    BY <1>2, <1>t, <2>7, HandlesAt DEF UndoRaises, Advance
  <2>8. CASE RemoveEntry(c)
    BY <1>2, <1>t, <2>8, HandlesAt DEF RemoveEntry, Advance
  <2>9. CASE RemoveRaises(c)
    BY <1>2, <1>t, <2>9, HandlesAt DEF RemoveRaises
  <2>. QED  BY <1>3, <2>1, <2>2, <2>3, <2>4, <2>5, <2>6, <2>7, <2>8, <2>9 DEF ContainmentStep
<1>4. ASSUME Restart PROVE lastId' = lastId /\ \A x : Known(x)' => Known(x)
  <2>1. /\ lastId' = lastId /\ entries' = file'
        /\ \A d \in Callers : work'[d] = {} /\ todo'[d] = {}
    BY <1>4 DEF Restart, Loaded
  <2>2. CASE UNCHANGED file
    BY <2>1, <2>2 DEF Known
  <2>3. CASE \E c \in Callers, part \in {"fragment", "unterminated"} : Land(work[c], part)
    <3>1. PICK c \in Callers : file' \subseteq file \cup work[c]
      BY <2>3, LandFiles
    <3>. QED  BY <2>1, <3>1 DEF Known
  <2>. QED  BY <1>4, <2>2, <2>3 DEF Restart
<1>5. CASE World
  BY <1>5 DEF World, Vanish, Appear, Tick, Known
<1>6. CASE UNCHANGED containmentVars
  BY <1>6 DEF containmentVars, Known
<1>. QED  BY <1>1, <1>3, <1>4, <1>5, <1>6 DEF Next

\* The ids of the known handles stay given out, and different.
LEMMA IdsStep ==
  ASSUME TypeOK, IdsKnown, [Next]_containmentVars
  PROVE  IdsKnown' /\ (IdsUnique => IdsUnique')
<1>1. lastId \in Nat /\ \A x \in Entry : x.id \in Nat
  BY DEF TypeOK, Entry
<1>2. CASE lastId' = lastId /\ \A x : Known(x)' => Known(x)
  BY <1>2 DEF IdsKnown, IdsUnique
<1>3. CASE /\ lastId' = lastId + 1
           /\ \E e : e.id = lastId + 1 /\ \A x : Known(x)' => Known(x) \/ x = e
  BY <1>1, <1>3 DEF IdsKnown, IdsUnique
<1>. QED  BY <1>2, <1>3, KnownStep

\* Every handle is on file, about to be written, or known not to be on file.
LEMMA OnFileStep ==
  ASSUME TypeOK, OnFile, [Next]_containmentVars
  PROVE  OnFile'
<1>. USE DEF store, callers, tally
<1>1. ASSUME NEW c \in Callers, cpc[c] \in {"idle", "undo", "remove"},
             entries' \subseteq entries, UNCHANGED <<file, unsaved>>,
             \A d \in Callers \ {c} : cpc'[d] = cpc[d] /\ work'[d] = work[d],
             cpc'[c] # "persist"
      PROVE  OnFile'
  BY <1>1, HandleSets DEF OnFile
<1>2. ASSUME NEW c \in Callers, AppendEntry(c) PROVE OnFile'
  <2>1. Handles(c, "persist", work[c]) /\ cpc[c] = "append" /\ entries' = entries \cup work[c]
    BY <1>2 DEF AppendEntry, WithAppended
  <2>2. UNCHANGED <<file, unsaved>>
    BY <1>2 DEF AppendEntry
  <2>. QED  BY <2>1, <2>2, HandlesAt, HandleSets DEF OnFile
<1>3. ASSUME NEW c \in Callers, PersistEntry(c) \/ PersistRaises(c) PROVE OnFile'
  <2>1. /\ Handles(c, "idle", {}) /\ cpc[c] = "persist" /\ entries' = entries
    BY <1>3 DEF PersistEntry, PersistRaises
  <2>2. /\ \A e \in file : e \in file' \/ e.id \in unsaved'
        /\ unsaved \subseteq unsaved'
        /\ \A e \in work[c] : e.id \in unsaved' \/ e \in file'
    <3>1. CASE \E part \in Part : Land(work[c], part)
      BY <3>1, LandFiles
    <3>2. CASE unsaved' = unsaved \cup Ids(work[c]) /\ UNCHANGED file
      BY <3>2 DEF Ids
    <3>. QED  BY <1>3, <3>1, <3>2 DEF PersistEntry, PersistRaises, Part
  <2>. QED  BY <2>1, <2>2, HandlesAt, HandleSets DEF OnFile
<1>4. ASSUME NEW c \in Callers, ContainmentStep(c) PROVE OnFile'
  <2>1. CASE \E a \in Actions : Apply(c, a)
    BY <1>1, <2>1, HandlesAt DEF Apply
  <2>2. CASE \E a \in Actions : ApplyRaises(c, a)
    BY <1>1, <2>2 DEF ApplyRaises
  <2>3. CASE \E r \in Reports : StartRollback(c, r)
    BY <1>1, <2>3, HandlesAt DEF StartRollback
  <2>4. CASE \E e \in todo[c] : Undo(c, e) \/ UndoRaises(c, e)
    <3>1. PICK e \in todo[c] : Undo(c, e) \/ UndoRaises(c, e)
      BY <2>4
    <3>2. \E step \in {"idle", "undo", "remove"} : \E es : Handles(c, step, es)
      BY <3>1 DEF Undo, UndoRaises, Advance
    <3>3. cpc[c] = "undo" /\ UNCHANGED <<entries, file, unsaved>>
      BY <3>1 DEF Undo, UndoRaises
    <3>. QED  BY <1>1, <3>2, <3>3, HandlesAt
  <2>5. CASE RemoveEntry(c) \/ RemoveRaises(c)
    BY <1>1, <2>5, HandlesAt DEF RemoveEntry, RemoveRaises, Advance
  <2>. QED  BY <1>2, <1>3, <1>4, <2>1, <2>2, <2>3, <2>4, <2>5 DEF ContainmentStep
<1>5. ASSUME Restart PROVE OnFile'
  <2>1. entries' = file' /\ \A d \in Callers : cpc'[d] = "idle"
    BY <1>5 DEF Restart, Loaded
  <2>. QED  BY <2>1, HandleSets DEF OnFile
<1>6. CASE World
  BY <1>6, HandleSets DEF World, Vanish, Appear, Tick, OnFile
<1>7. CASE UNCHANGED containmentVars
  BY <1>7, HandleSets DEF containmentVars, OnFile
<1>. QED  BY <1>4, <1>5, <1>6, <1>7 DEF Next

(***************************************************************************)
(* Whatever is held has a handle, or is known to have lost it.             *)
(***************************************************************************)
\* A step keeps HeldHasHandle when it takes no handle of a place that stays
\* held without an entry in lost, forgets no such entry, and holds no new
\* place without a handle.
LEMMA HeldKept ==
  ASSUME TypeOK, TypeOK', HeldHasHandle, NEW ls, Lose(ls),
         \A x \in Alive \ Settled :
           \/ x \in Alive' \ Settled'
           \/ Reversible(x.action) /\ x.place \in host'[x.action.target].held
                => \E l \in ls : l.target = x.action.target /\ l.place = x.place,
         \A t \in Targets : \A p \in host'[t].held \ host[t].held :
           \/ \E x \in Alive' \ Settled' : x.action.target = t /\ x.place = p /\ Reversible(x.action)
           \/ \E l \in ls : l.target = t /\ l.place = p
  PROVE  HeldHasHandle'
<1>. SUFFICES ASSUME NEW t \in Targets, NEW p \in host'[t].held
              PROVE  \/ \E x \in Alive' \ Settled' : x.action.target = t /\ x.place = p /\ Reversible(x.action)
                     \/ \E l \in lost' : l.target = t /\ l.place = p
  BY DEF HeldHasHandle, HasHandle
<1>1. \A l \in lost \cup ls : l.target = t /\ l.place = p => l \in lost'
  BY DEF Lose
<1>2. CASE p \notin host[t].held
  BY <1>1, <1>2
<1>3. CASE p \in host[t].held
  <2>1. CASE \E l \in lost : l.target = t /\ l.place = p
    BY <1>1, <2>1
  <2>2. CASE HasHandle(t, p)
    <3>1. PICK x \in Alive \ Settled : x.action.target = t /\ x.place = p /\ Reversible(x.action)
      BY <2>2 DEF HasHandle
    <3>. QED  BY <1>1, <3>1
  <2>. QED  BY <1>3, <2>1, <2>2 DEF HeldHasHandle
<1>. QED  BY <1>2, <1>3

\* A step that leaves the host and the account of losses alone only has to
\* keep the handles that are not being removed.
LEMMA HeldUndisturbed ==
  ASSUME HeldHasHandle, UNCHANGED <<host, lost>>, Alive \ Settled \subseteq Alive' \ Settled'
  PROVE  HeldHasHandle'
BY DEF HeldHasHandle, HasHandle

HandleInv == TypeOK /\ IdsKnown /\ OnFile /\ HeldHasHandle

\* A caller's step keeps HeldHasHandle.
LEMMA HeldCallerStep ==
  ASSUME HandleInv, TypeOK', NEW c \in Callers, ContainmentStep(c)
  PROVE  HeldHasHandle'
<1>. USE DEF store, callers, tally
<1>t. /\ TypeOK /\ IdsKnown /\ OnFile /\ HeldHasHandle
      /\ clock \in Nat /\ lastId \in Nat
      /\ host \in [Targets -> Host]
      /\ \A a \in Actions : a.target \in Targets /\ host[a.target] \in Host
      /\ todo[c] \subseteq Entry
      /\ \A e \in Entry : e.action \in Actions /\ e.action.target \in Targets
  BY DEF HandleInv, TypeOK, Targets, Entry
<1>1. ASSUME NEW a \in Actions, Apply(c, a) PROVE HeldHasHandle'
  <2> DEFINE e == [id |-> lastId + 1, action |-> a, place |-> Place(a)]
  <2>1. PICK h \in Applied(a, host[a.target]) : host' = WithTarget(a.target, h, Overwritten(a.target, h))
    BY <1>1 DEF Apply
  <2>2. /\ cpc[c] = "idle" /\ Handles(c, "append", {e}) /\ Lose({}) /\ entries' = entries
    BY <1>1 DEF Apply
  <2>3. e \in Entry /\ e.id = lastId + 1
    BY <1>t DEF Entry, Place
  <2>4. e \in Alive'
    BY <2>2, <1>t, HandlesAt, HandleSets
  <2>5. e \notin Settled'
    <3>1. ASSUME e \in Settled' PROVE FALSE
      <4>1. PICK d \in Callers : cpc'[d] = "remove" /\ e \in work'[d]
        BY <3>1, HandleSets
      <4>2. d # c /\ e \in work[d]
        BY <4>1, <2>2, <1>t, HandlesAt
      <4>3. e.id <= lastId
        BY <4>2, <2>3, <1>t DEF IdsKnown, Known
      <4>. QED  BY <4>3, <2>3, <1>t
    <3>. QED  BY <3>1
  <2>6. \A x \in Alive \ Settled : x \in Alive' \ Settled'
    BY <2>2, <1>t, HandlesAt, HandleSets
  <2>7. ASSUME NEW t \in Targets, NEW p \in host'[t].held \ host[t].held
        PROVE  e.action.target = t /\ e.place = p /\ Reversible(e.action)
    <3>0. h \in Host
      BY <2>1, <1>t, OutcomesAreHosts
    <3>b. host' = WithTarget(a.target, h, Overwritten(a.target, h))
      BY <2>1
    <3>a. host'[a.target] = h /\ \A u \in Targets \ {a.target} : host'[u].held \subseteq host[u].held
      BY <3>b, <1>t, <3>0, TargetChanges
    <3>1. t = a.target /\ p \in h.held \ host[a.target].held
      BY <3>a
    <3>2. p = Place(a) /\ Reversible(a)
      BY <3>1, <1>t, ApplyHoldsAtPlace
    <3>. QED  BY <3>1, <3>2
  <2>. HIDE DEF e
  <2>. QED  BY <1>t, <2>2, <2>4, <2>5, <2>6, <2>7, HeldKept
<1>2. ASSUME NEW a \in Actions, ApplyRaises(c, a) PROVE HeldHasHandle'
  <2> DEFINE e == [id |-> 0, action |-> a, place |-> Place(a)]
  <2>1. PICK h \in ApplyRaised(a, host[a.target]) :
          /\ host' = WithTarget(a.target, h, Overwritten(a.target, h))
          /\ Lose(IF h = host[a.target] THEN {} ELSE StillHeld(e, h, "handler raised"))
    BY <1>2 DEF ApplyRaises
  <2> DEFINE ls == IF h = host[a.target] THEN {} ELSE StillHeld(e, h, "handler raised")
  <2>2. \A x \in Alive \ Settled : x \in Alive' \ Settled'
    BY <1>2, HandleSets DEF ApplyRaises
  <2>3. ASSUME NEW t \in Targets, NEW p \in host'[t].held \ host[t].held
        PROVE  \E l \in ls : l.target = t /\ l.place = p
    <3>0. h \in Host
      BY <2>1, <1>t, OutcomesAreHosts
    <3>b. host' = WithTarget(a.target, h, Overwritten(a.target, h))
      BY <2>1
    <3>a. host'[a.target] = h /\ \A u \in Targets \ {a.target} : host'[u].held \subseteq host[u].held
      BY <3>b, <1>t, <3>0, TargetChanges
    <3>1. t = a.target /\ p \in h.held \ host[a.target].held
      BY <3>a
    <3>2. p = Place(a) /\ Reversible(a)
      BY <3>1, <1>t, ApplyHoldsAtPlace
    <3>3. [target |-> a.target, place |-> p, why |-> "handler raised"] \in StillHeld(e, h, "handler raised")
      BY <3>1, <3>2 DEF StillHeld
    <3>. QED  BY <3>1, <3>3
  <2>4. Lose(ls)
    BY <2>1
  <2>. HIDE DEF ls
  <2>. QED  BY <1>t, <2>2, <2>3, <2>4, HeldKept
<1>3. ASSUME AppendEntry(c) PROVE HeldHasHandle'
  <2>1. /\ cpc[c] = "append" /\ entries' = entries \cup work[c] /\ UNCHANGED <<host, lost>>
        /\ Handles(c, "persist", work[c])
    BY <1>3 DEF AppendEntry, WithAppended
  <2>. QED  BY <2>1, <1>t, HandlesAt, HandleSets, HeldUndisturbed
<1>4. ASSUME PersistEntry(c) \/ PersistRaises(c) PROVE HeldHasHandle'
  <2>1. /\ cpc[c] = "persist" /\ entries' = entries /\ UNCHANGED <<host, lost>> /\ Handles(c, "idle", {})
    BY <1>4 DEF PersistEntry, PersistRaises
  <2>. QED  BY <2>1, <1>t, HandlesAt, HandleSets, HeldUndisturbed
<1>5. ASSUME NEW r \in Reports, StartRollback(c, r) PROVE HeldHasHandle'
  <2>1. /\ cpc[c] = "idle" /\ entries' = entries /\ UNCHANGED <<host, lost>> /\ Handles(c, "undo", {})
    BY <1>5 DEF StartRollback
  <2>. QED  BY <2>1, <1>t, HandlesAt, HandleSets, HeldUndisturbed
<1>6. ASSUME NEW e \in todo[c], Undo(c, e) PROVE HeldHasHandle'
  <2>0. e \in Entry
    BY <1>t
  <2>1. PICK h \in Undone(e, host[e.action.target]) :
          /\ host' = WithTarget(e.action.target, h, MovedBack(e, h))
          /\ Lose(StillHeld(e, h, "undo returned"))
    BY <1>6 DEF Undo
  <2>2. cpc[c] = "undo" /\ Handles(c, "remove", {e}) /\ entries' = entries
    BY <1>6 DEF Undo
  <2>3. \A x \in (Alive \ Settled) \ {e} : x \in Alive' \ Settled'
    BY <2>2, <1>t, HandlesAt, HandleSets
  <2>u. h \in Host /\ h.held \subseteq host[e.action.target].held
    BY <2>0, <2>1, <1>t, OutcomesAreHosts, UndoOnlyReleases
  <2>h. host' = WithTarget(e.action.target, h, MovedBack(e, h))
    BY <2>1
  <2>v. /\ host'[e.action.target] = h
        /\ \A u \in Targets \ {e.action.target} : host'[u].held \subseteq host[u].held
    BY <2>0, <2>h, <2>u, <1>t, TargetChanges
  <2>4. \A t \in Targets : host'[t].held \subseteq host[t].held
    BY <2>u, <2>v
  <2>5. Reversible(e.action) /\ e.place \in host'[e.action.target].held
          => \E l \in StillHeld(e, h, "undo returned") : l.target = e.action.target /\ l.place = e.place
    <3>1. ASSUME Reversible(e.action), e.place \in host'[e.action.target].held
          PROVE  [target |-> e.action.target, place |-> e.place, why |-> "undo returned"]
                   \in StillHeld(e, h, "undo returned")
      <4>1. e.place \in h.held
        BY <2>v, <3>1
      <4>. QED  BY <3>1, <4>1 DEF StillHeld
    <3>. QED  BY <3>1
  <2> DEFINE ls == StillHeld(e, h, "undo returned")
  <2>6. Lose(ls)
    BY <2>1
  <2>7. \A x \in Alive \ Settled :
           \/ x \in Alive' \ Settled'
           \/ Reversible(x.action) /\ x.place \in host'[x.action.target].held
                => \E l \in ls : l.target = x.action.target /\ l.place = x.place
    BY <2>3, <2>5
  <2>. HIDE DEF ls
  <2>. QED  BY <1>t, <2>4, <2>6, <2>7, HeldKept
<1>7. ASSUME NEW e \in todo[c], UndoRaises(c, e) PROVE HeldHasHandle'
  <2>0. e \in Entry
    BY <1>t
  <2>1. PICK h \in UndoRaised(e, host[e.action.target]) : host' = WithTarget(e.action.target, h, {})
    BY <1>7 DEF UndoRaises
  <2>u. h \in Host /\ h.held \subseteq host[e.action.target].held
    BY <2>0, <2>1, <1>t, OutcomesAreHosts, UndoOnlyReleases
  <2>h. host' = WithTarget(e.action.target, h, {})
    BY <2>1
  <2>v. /\ host'[e.action.target] = h
        /\ \A u \in Targets \ {e.action.target} : host'[u].held \subseteq host[u].held
    BY <2>0, <2>h, <2>u, <1>t, TargetChanges
  <2>2. \A t \in Targets : host'[t].held \subseteq host[t].held
    BY <2>u, <2>v
  <2>3. Lose({}) /\ cpc[c] = "undo" /\ entries' = entries
        /\ \E step \in {"idle", "undo"} : Handles(c, step, {})
    BY <1>7 DEF UndoRaises, Advance
  <2>4. \A x \in Alive \ Settled : x \in Alive' \ Settled'
    BY <2>3, <1>t, HandlesAt, HandleSets
  <2>. QED  BY <1>t, <2>2, <2>3, <2>4, HeldKept
<1>8. ASSUME RemoveEntry(c) \/ RemoveRaises(c) PROVE HeldHasHandle'
  <2>1. /\ cpc[c] = "remove" /\ entries' = entries \ work[c] /\ UNCHANGED <<host, lost>>
        /\ \E step \in {"idle", "undo"} : Handles(c, step, {})
    BY <1>8 DEF RemoveEntry, RemoveRaises, Advance
  <2>. QED  BY <2>1, <1>t, HandlesAt, HandleSets, HeldUndisturbed
<1>. QED  BY <1>1, <1>2, <1>3, <1>4, <1>5, <1>6, <1>7, <1>8 DEF ContainmentStep

\* A restart keeps HeldHasHandle: what is not on file is accounted for.
LEMMA HeldRestart ==
  ASSUME HandleInv, TypeOK', Restart
  PROVE  HeldHasHandle'
<1>. USE DEF store, callers, tally
<1>t. TypeOK /\ OnFile /\ HeldHasHandle
  BY DEF HandleInv
<1> DEFINE ls == UNION {StillHeld(e, host[e.action.target], "process died") :
                          e \in {x \in Alive : x \in Unwritten \ file' \/ x.id \in unsaved'}}
<1>1. /\ UNCHANGED host /\ Lose(ls) /\ entries' = file'
      /\ \A d \in Callers : cpc'[d] = "idle"
  BY DEF Restart, Loaded
<1>2. \A e \in file : e \in file' \/ e.id \in unsaved'
  BY LandFiles DEF Restart
<1>3. unsaved \subseteq unsaved'
  BY LandFiles DEF Restart
<1>4. ASSUME NEW x \in Alive \ Settled,
             Reversible(x.action), x.place \in host'[x.action.target].held,
             x \notin Alive' \ Settled'
      PROVE  \E l \in ls : l.target = x.action.target /\ l.place = x.place
  <2>1. x \notin file'
    BY <1>1, <1>4, HandleSets
  <2>2. x \in Unwritten \ file' \/ x.id \in unsaved'
    BY <1>t, <1>2, <1>3, <2>1 DEF OnFile
  <2>3. [target |-> x.action.target, place |-> x.place, why |-> "process died"]
          \in StillHeld(x, host[x.action.target], "process died")
    BY <1>1, <1>4 DEF StillHeld
  <2>4. StillHeld(x, host[x.action.target], "process died") \subseteq ls
    BY <2>2
  <2>5. [target |-> x.action.target, place |-> x.place, why |-> "process died"] \in ls
    BY <2>3, <2>4
  <2>. QED  BY <2>5
<1>5. \A t \in Targets : host'[t].held \ host[t].held = {}
  BY <1>1
<1>. HIDE DEF ls
<1>. QED  BY <1>t, <1>1, <1>4, <1>5, HeldKept

\* What happens outside the process keeps HeldHasHandle.
LEMMA HeldWorld ==
  ASSUME HandleInv, TypeOK', World
  PROVE  HeldHasHandle'
<1>. USE DEF store, callers, tally
<1>t. TypeOK /\ HeldHasHandle /\ host \in [Targets -> Host]
  BY DEF HandleInv, TypeOK
<1>0. \A x \in Alive \ Settled : x \in Alive' \ Settled'
  BY HandleSets DEF World, Vanish, Appear, Tick
<1>1. ASSUME NEW t \in Targets, Vanish(t) PROVE HeldHasHandle'
  <2>1. \A u \in Targets : host'[u].held \subseteq host[u].held
    BY <1>1, <1>t DEF Vanish
  <2>2. Lose({})
    BY <1>1 DEF Vanish
  <2>. QED  BY <1>t, <1>0, <2>1, <2>2, HeldKept
<1>2. ASSUME NEW t \in Targets, Appear(t) PROVE HeldHasHandle'
  <2>1. \A u \in Targets : host'[u].held = host[u].held
    BY <1>2, <1>t DEF Appear, Host
  <2>2. UNCHANGED lost
    BY <1>2 DEF Appear
  <2>. QED  BY <1>t, <1>0, <2>1, <2>2 DEF HeldHasHandle, HasHandle
<1>3. ASSUME Tick PROVE HeldHasHandle'
  <2>1. UNCHANGED <<host, lost>>
    BY <1>3 DEF Tick
  <2>. QED  BY <1>t, <1>0, <2>1, HeldUndisturbed
<1>. QED  BY <1>1, <1>2, <1>3 DEF World

\* HandleInv is inductive.
LEMMA HandleStep ==
  ASSUME HandleInv, [Next]_containmentVars
  PROVE  HandleInv'
<1>1. TypeOK' /\ IdsKnown' /\ OnFile'
  BY NextKeepsTypes, IdsStep, OnFileStep DEF HandleInv
<1>2. HeldHasHandle'
  <2>1. CASE UNCHANGED containmentVars
    BY <2>1, HandleSets DEF containmentVars, store, callers, tally, HandleInv, HeldHasHandle, HasHandle
  <2>. QED  BY <1>1, <2>1, HeldCallerStep, HeldRestart, HeldWorld DEF Next
<1>. QED  BY <1>1, <1>2 DEF HandleInv

\* The initial state satisfies HandleInv: nothing is held and nothing known.
LEMMA HandleInit == Init => HandleInv
<1>. SUFFICES ASSUME Init PROVE HandleInv
  OBVIOUS
<1>1. IdsKnown /\ OnFile
  BY HandleSets DEF Init, IdsKnown, Known, OnFile
<1>2. HeldHasHandle
  BY DEF Init, HeldHasHandle
<1>. QED  BY <1>1, <1>2, InitType DEF HandleInv

\* Whatever is held has a handle, or was seen to lose it, for any callers,
\* actions and bounds: no interleaving of requests and restarts loses one.
THEOREM HandlesAreKept == Spec => []HeldHasHandle
<1>1. Init => HandleInv
  BY HandleInit
<1>2. HandleInv /\ [Next]_containmentVars => HandleInv'
  BY HandleStep
<1>3. HandleInv => HeldHasHandle
  BY DEF HandleInv
<1>. QED  BY <1>1, <1>2, <1>3, PTL DEF Spec

(***************************************************************************)
(* An operation is counted as reversed once.                               *)
(***************************************************************************)
\* A handle that is not yet in the list is in the hands of one caller only.
HandsApart ==
  \A c \in Callers : cpc[c] = "append" =>
    \A x \in work[c] :
      /\ x \notin entries
      /\ \A d \in Callers \ {c} : x \notin work[d] /\ x \notin todo[d]

\* A caller removes one handle at a time.
OneRemoved == \A c \in Callers : cpc[c] = "remove" => \E e \in Entry : work[c] = {e}

\* What was counted is gone from memory.
CountedGone ==
  /\ IsFiniteSet(reversed)
  /\ \A i \in reversed : i <= lastId
  /\ \A x \in Alive : x.id \notin reversed

CountInv ==
  TypeOK /\ IdsKnown /\ IdsUnique /\ HandsApart /\ OneRemoved /\ CountedGone /\ CountedOnce

\* The callers' hands stay apart.
LEMMA HandsStep ==
  ASSUME CountInv, [Next]_containmentVars
  PROVE  HandsApart' /\ OneRemoved'
<1>. USE DEF store, callers, tally
<1>t. /\ TypeOK /\ IdsKnown /\ HandsApart /\ OneRemoved
      /\ lastId \in Nat /\ \A x \in Entry : x.id \in Nat
      /\ todo \in [Callers -> SUBSET Entry] /\ work \in [Callers -> SUBSET Entry]
      /\ entries \subseteq Entry
  BY DEF CountInv, TypeOK, Entry
<1>1. ASSUME NEW c \in Callers, NEW a \in Actions, Apply(c, a) PROVE HandsApart' /\ OneRemoved'
  <2>1. PICK e : e.id = lastId + 1 /\ Handles(c, "append", {e})
    BY <1>1 DEF Apply
  <2>2. UNCHANGED <<entries, todo>> /\ cpc[c] = "idle"
    BY <1>1 DEF Apply
  <2>3. e \notin entries /\ \A d \in Callers : e \notin work[d] /\ e \notin todo[d]
    BY <2>1, <1>t DEF IdsKnown, Known
  <2>. QED  BY <1>t, <2>1, <2>2, <2>3, HandlesAt DEF HandsApart, OneRemoved
<1>2. ASSUME NEW c \in Callers, NEW step \in {"idle", "persist", "undo", "remove"}, NEW es,
             Handles(c, step, es), es \subseteq work[c] \cup todo[c],
             step = "remove" => \E e \in Entry : es = {e},
             \/ entries' \subseteq entries
             \/ entries' \subseteq entries \cup work[c] /\ cpc[c] = "append",
             \A d \in Callers \ {c} : todo'[d] = todo[d],
             todo'[c] \subseteq todo[c] \cup entries
      PROVE  HandsApart' /\ OneRemoved'
  <2>1. OneRemoved'
    BY <1>2, <1>t, HandlesAt DEF OneRemoved
  <2>2. ASSUME NEW d \in Callers, cpc'[d] = "append", NEW x \in work'[d]
        PROVE  /\ x \notin entries'
               /\ \A b \in Callers \ {d} : x \notin work'[b] /\ x \notin todo'[b]
    <3>1. d # c /\ cpc[d] = "append" /\ x \in work[d]
      BY <1>2, <2>2, <1>t, HandlesAt
    <3>2. x \notin entries /\ \A b \in Callers \ {d} : x \notin work[b] /\ x \notin todo[b]
      BY <3>1, <1>t DEF HandsApart
    <3>. QED  BY <1>2, <1>t, <3>1, <3>2, HandlesAt
  <2>. QED  BY <2>1, <2>2 DEF HandsApart
<1>3. ASSUME NEW c \in Callers, ContainmentStep(c) PROVE HandsApart' /\ OneRemoved'
  <2>1. CASE \E a \in Actions : ApplyRaises(c, a)
    BY <1>t, <2>1 DEF ApplyRaises, HandsApart, OneRemoved
  <2>2. CASE AppendEntry(c)
    BY <1>2, <2>2 DEF AppendEntry, WithAppended
  <2>3. CASE PersistEntry(c) \/ PersistRaises(c)
    BY <1>2, <2>3 DEF PersistEntry, PersistRaises
  <2>4. CASE \E r \in Reports : StartRollback(c, r)
    BY <1>2, <1>t, <2>4 DEF StartRollback, Matching
  <2>5. CASE \E e \in todo[c] : Undo(c, e)
    <3>1. PICK e \in todo[c] : Undo(c, e)
      BY <2>5
    <3>2. e \in Entry /\ Handles(c, "remove", {e}) /\ UNCHANGED <<entries, todo>>
      BY <3>1, <1>t DEF Undo
    <3>. QED  BY <1>2, <3>2
  <2>6. CASE \E e \in todo[c] : UndoRaises(c, e)
    BY <1>2, <1>t, <2>6 DEF UndoRaises, Advance
  <2>7. CASE RemoveEntry(c)
    BY <1>2, <1>t, <2>7 DEF RemoveEntry, Advance
  <2>8. CASE RemoveRaises(c)
    BY <1>2, <1>t, <2>8 DEF RemoveRaises
  <2>. QED
    BY <1>1, <1>3, <2>1, <2>2, <2>3, <2>4, <2>5, <2>6, <2>7, <2>8 DEF ContainmentStep
<1>4. CASE Restart
  BY <1>4 DEF Restart, HandsApart, OneRemoved
<1>5. CASE World
  BY <1>5, <1>t DEF World, Vanish, Appear, Tick, HandsApart, OneRemoved
<1>6. CASE UNCHANGED containmentVars
  BY <1>6, <1>t DEF containmentVars, HandsApart, OneRemoved
<1>. QED  BY <1>3, <1>4, <1>5, <1>6 DEF Next

\* No id is counted twice.
LEMMA CountStep ==
  ASSUME CountInv, [Next]_containmentVars
  PROVE  CountedGone' /\ CountedOnce'
<1>. USE DEF store, callers, tally
<1>t. /\ TypeOK /\ IdsKnown /\ IdsUnique /\ HandsApart /\ OneRemoved /\ CountedGone /\ CountedOnce
      /\ lastId \in Nat /\ reversed \subseteq Nat /\ entries \subseteq Entry
      /\ \A x \in Entry : x.id \in Nat
      /\ \A d \in Callers : work[d] \subseteq Entry
  BY DEF CountInv, TypeOK, Entry
<1>1. ASSUME UNCHANGED tally, UNCHANGED lastId, Alive' \subseteq Alive
      PROVE  CountedGone' /\ CountedOnce'
  BY <1>1, <1>t DEF CountedGone, CountedOnce
<1>2. ASSUME NEW c \in Callers, NEW a \in Actions, Apply(c, a) PROVE CountedGone' /\ CountedOnce'
  <2>1. PICK e : e.id = lastId + 1 /\ Handles(c, "append", {e})
    BY <1>2 DEF Apply
  <2>2. UNCHANGED tally /\ lastId' = lastId + 1 /\ entries' = entries
    BY <1>2 DEF Apply
  <2>3. Alive' \subseteq Alive \cup {e}
    BY <2>1, <2>2, <1>t, HandlesAt, HandleSets
  <2>4. \A i \in reversed : i \in Nat /\ i <= lastId
    BY <1>t DEF CountedGone
  <2>5. e.id \notin reversed
    BY <2>1, <2>4, <1>t
  <2>. QED  BY <1>t, <2>2, <2>3, <2>4, <2>5 DEF CountedGone, CountedOnce
<1>3. ASSUME NEW c \in Callers, RemoveEntry(c) PROVE CountedGone' /\ CountedOnce'
  <2>1. PICK e \in Entry : work[c] = {e}
    BY <1>3, <1>t DEF RemoveEntry, OneRemoved
  <2>2. /\ e \in entries /\ entries' = entries \ {e} /\ cpc[c] = "remove"
        /\ reported' = reported + 1 /\ reversed' = reversed \cup {e.id} /\ lastId' = lastId
        /\ \E step \in {"idle", "undo"} : Handles(c, step, {})
    <3>1. Ids(work[c]) = {e.id}
      BY <2>1 DEF Ids
    <3>2. work[c] \subseteq entries
      BY <1>3, <2>1 DEF RemoveEntry, InList
    <3>. QED  BY <1>3, <2>1, <3>1, <3>2 DEF RemoveEntry, Advance
  <2>3. e \in Alive /\ Known(e)
    BY <2>2, HandleSets DEF Known
  <2>4. e.id \notin reversed /\ e.id <= lastId
    BY <1>t, <2>3 DEF CountedGone, IdsKnown
  <2>5. reported' = Cardinality(reversed') /\ IsFiniteSet(reversed')
    BY <1>t, <2>2, <2>4, FS_AddElement DEF CountedGone, CountedOnce
  <2>6. ASSUME NEW x \in Alive' PROVE x.id \notin reversed'
    <3>1. x \in Alive /\ x \in Entry /\ Known(x)
      BY <1>t, <2>2, HandlesAt, HandleSets DEF Known
    <3>2. x # e
      BY <1>t, <2>1, <2>2, <2>6, HandlesAt, HandleSets DEF HandsApart
    <3>3. x.id # e.id
      BY <1>t, <2>3, <3>1, <3>2 DEF IdsUnique
    <3>. QED  BY <1>t, <2>2, <3>1, <3>3 DEF CountedGone
  <2>7. \A i \in reversed' : i <= lastId'
    BY <1>t, <2>2, <2>4 DEF CountedGone
  <2>. QED  BY <2>5, <2>6, <2>7 DEF CountedGone, CountedOnce
<1>4. ASSUME NEW c \in Callers, ContainmentStep(c) PROVE CountedGone' /\ CountedOnce'
  <2>1. CASE \E a \in Actions : ApplyRaises(c, a)
    BY <1>1, <2>1, HandleSets DEF ApplyRaises
  <2>2. CASE AppendEntry(c)
    BY <1>1, <1>t, <2>2, HandlesAt, HandleSets DEF AppendEntry, WithAppended
  <2>3. CASE PersistEntry(c) \/ PersistRaises(c)
    BY <1>1, <1>t, <2>3, HandlesAt, HandleSets DEF PersistEntry, PersistRaises
  <2>4. CASE \E r \in Reports : StartRollback(c, r)
    BY <1>1, <1>t, <2>4, HandlesAt, HandleSets DEF StartRollback
  <2>5. CASE \E e \in todo[c] : Undo(c, e)
    <3>1. PICK e \in todo[c] : Undo(c, e)
      BY <2>5
    <3>2. Handles(c, "remove", {e}) /\ UNCHANGED <<entries, lastId, tally>> /\ cpc[c] = "undo"
      BY <3>1 DEF Undo
    <3>. QED  BY <1>1, <1>t, <3>2, HandlesAt, HandleSets
  <2>6. CASE \E e \in todo[c] : UndoRaises(c, e)
    BY <1>1, <1>t, <2>6, HandlesAt, HandleSets DEF UndoRaises, Advance
  <2>7. CASE RemoveRaises(c)
    BY <1>1, <1>t, <2>7, HandlesAt, HandleSets DEF RemoveRaises
  <2>. QED
    BY <1>2, <1>3, <1>4, <2>1, <2>2, <2>3, <2>4, <2>5, <2>6, <2>7 DEF ContainmentStep
<1>5. ASSUME Restart PROVE CountedGone' /\ CountedOnce'
  <2>1. reported' = 0 /\ reversed' = {}
    BY <1>5 DEF Restart
  <2>. QED  BY <2>1, FS_EmptySet DEF CountedGone, CountedOnce
<1>6. CASE World
  BY <1>1, <1>6, HandleSets DEF World, Vanish, Appear, Tick
<1>7. CASE UNCHANGED containmentVars
  BY <1>1, <1>7, HandleSets DEF containmentVars
<1>. QED  BY <1>4, <1>5, <1>6, <1>7 DEF Next

\* rollback_all() never counts one operation twice, for any number of callers
\* that roll the same reports back at the same time.
THEOREM RollbackCountsOnce == Spec => []CountedOnce
<1>1. Init => CountInv
  <2>. SUFFICES ASSUME Init PROVE CountInv
    OBVIOUS
  <2>1. IdsKnown /\ IdsUnique /\ HandsApart /\ OneRemoved
    BY DEF Init, IdsKnown, IdsUnique, Known, HandsApart, OneRemoved
  <2>2. CountedGone /\ CountedOnce
    BY FS_EmptySet DEF Init, CountedGone, CountedOnce
  <2>. QED  BY <2>1, <2>2, InitType DEF CountInv
<1>2. CountInv /\ [Next]_containmentVars => CountInv'
  <2>. SUFFICES ASSUME CountInv, [Next]_containmentVars PROVE CountInv'
    OBVIOUS
  <2>1. TypeOK' /\ IdsKnown' /\ IdsUnique'
    BY NextKeepsTypes, IdsStep DEF CountInv
  <2>. QED  BY <2>1, HandsStep, CountStep DEF CountInv
<1>3. CountInv => CountedOnce
  BY DEF CountInv
<1>. QED  BY <1>1, <1>2, <1>3, PTL DEF Spec
=============================================================================
