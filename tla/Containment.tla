---------------------------- MODULE Containment ----------------------------
(***************************************************************************)
(* backend/response/containment.py: ContainmentManager.  API workers call  *)
(* apply() and rollback_all() from a thread pool, without any lock.        *)
(* apply() performs the platform effect, then appends a rollback handle to *)
(* _entries, then appends the handle to a JSONL file; rollback_all() takes *)
(* a snapshot of the handles of one report and undoes them one by one.     *)
(* The process may die between any two of these steps; the constructor     *)
(* reloads the handles from the file, which rollback never rewrites.       *)
(*                                                                         *)
(* The platform behind SystemRunner (signals, nftables, file moves) is     *)
(* modelled by what its callers rely on: it may refuse, or time out after  *)
(* having acted, and targets come and go on their own.                     *)
(***************************************************************************)
EXTENDS Naturals, FiniteSets

CONSTANTS
  Callers,      \* threads that call the manager
  Actions,      \* actions it may be asked for: [type, target, report]
  Name,         \* Path.name of each target; targets that are no paths have none in common
  MaxEntries,   \* bound: handles created in a behaviour
  MaxSeconds,   \* bound: distinct values of int(time.time())
  MaxTears,     \* bound: file writes that die halfway
  MaxCrashes    \* bound: restarts of the process

Types == {"freeze_process", "block_ip", "quarantine_file", "kill_process"}

ASSUME ActionsAssumption == \A a \in Actions : a.type \in Types
ASSUME MaximaAssumption ==
  /\ MaxEntries \in Nat
  /\ MaxSeconds \in Nat \ {0}
  /\ MaxTears \in Nat
  /\ MaxCrashes \in Nat

VARIABLES
  dryRun,     \* config response.dry_run
  clock,      \* int(time.time())
  host,       \* per target: is it there, and where is it held
  entries,    \* ContainmentManager._entries
  file,       \* the handles that _load_entries() would read back
  open,       \* the last line of the file has no newline
  tail,       \* the readable handle on that unterminated line, if any
  cpc,        \* where each caller is
  work,       \* the handle each caller is working on
  todo,       \* rollback_all: the rest of each caller's snapshot
  lastId,     \* handles created so far
  reported,   \* operations reported as reversed since the last restart
  reversed,   \* ids of the handles they stand for
  unsaved,    \* ids of which no readable line was written, or is left
  lost,       \* places whose handle was lost, and how
  tears, crashes

store == <<file, open, tail, unsaved, tears>>
callers == <<cpc, work, todo>>
tally == <<reported, reversed>>
containmentVars == <<dryRun, clock, host, entries, store, callers, lastId, tally, lost, crashes>>

Targets == {a.target : a \in Actions}
Reports == {a.report : a \in Actions}
Entry == [id : Nat, action : Actions, place : Nat]
Host == [here : BOOLEAN, held : SUBSET Nat]
Causes == {"handler raised", "undo returned", "process died"}
Loss == [target : Targets, place : Nat, why : Causes]

Reversible(a) == a.type # "kill_process"

(***************************************************************************)
(* The effects.  A pid or address is held at place 0 (stopped, blocked); a *)
(* file at the second in the name its quarantined copy was given.  All     *)
(* copies lie in one directory, so that two paths of one name share the    *)
(* copy of a second: what is moved there last is what it holds.            *)
(***************************************************************************)
Place(a) == IF a.type = "quarantine_file" THEN clock ELSE 0

\* Mutant: the handlers do not ask for dry_run.
Bug_NoDryRun == FALSE

IsDry == dryRun

Kept(h) == [here |-> h.here, held |-> {0}]
LetGo(h) == [here |-> h.here, held |-> {}]
Gone == [here |-> FALSE, held |-> {}]

\* The copies that t as h was given, and that its namesakes had until now.
Overwritten(t, h) == h.held \ (host[t].held \cup {0})

\* The host when t becomes h and its namesakes no longer have the copies ps.
WithTarget(t, h, ps) ==
  [u \in Targets |->
     IF u = t THEN h
     ELSE IF Name[u] = Name[t] THEN [host[u] EXCEPT !.held = @ \ ps]
     ELSE host[u]]

\* What the target can be when the handler of the action returns.  A process
\* that is sent SIGTERM may end at once, later, or not at all.
Applied(a, h) ==
  IF IsDry THEN {h}
  ELSE IF a.type = "freeze_process" THEN {g \in {Kept(h)} : h.here}
  ELSE IF a.type = "kill_process" THEN {g \in {h, Gone} : h.here}
  ELSE IF a.type = "block_ip" THEN {Kept(h)}
  ELSE IF h.here THEN {[here |-> FALSE, held |-> h.held \cup {clock}]}
  ELSE {h}

\* What it can be when the handler raises: mkdir of the quarantine directory
\* runs in a dry run too; nft may time out after adding the element; a move
\* across devices copies before it deletes.
ApplyRaised(a, h) ==
  IF IsDry THEN {g \in {h} : a.type = "quarantine_file"}
  ELSE IF a.type = "block_ip" THEN {h, Kept(h)}
  ELSE IF a.type = "quarantine_file" /\ h.here
       THEN {h, [here |-> TRUE, held |-> h.held \cup {clock}]}
  ELSE {h}

\* The copy a quarantine handle names is there, whichever file it is of.
CopyExists(e) == \E u \in Targets : Name[u] = Name[e.action.target] /\ e.place \in host[u].held


\* It can be moved back only to a free path.
CanMoveBack(e, h) == e.action.type = "quarantine_file" /\ CopyExists(e) /\ ~h.here

\* What the target can be when the undo of a handle returns; the exit code of
\* nft is not looked at.
Undone(e, h) ==
  IF IsDry THEN {h}
  ELSE IF e.action.type = "freeze_process" THEN {g \in {LetGo(h)} : h.here}
  ELSE IF e.action.type = "block_ip" THEN {h, LetGo(h)}
  ELSE IF CanMoveBack(e, h) THEN {[here |-> TRUE, held |-> h.held \ {e.place}]}
  ELSE {h}

\* The copy that is gone once the target of e came back as h.
MovedBack(e, h) == IF h.here /\ ~host[e.action.target].here THEN {e.place} ELSE {}

\* What it can be when the undo raises.
UndoRaised(e, h) ==
  IF IsDry THEN {}
  ELSE IF e.action.type = "freeze_process" THEN {h}
  ELSE IF e.action.type = "block_ip" THEN {h, LetGo(h)}
  ELSE {g \in {h, [here |-> TRUE, held |-> h.held]} : CanMoveBack(e, h)}

\* The places where h is held and that a handle of e's kind stands for.
StillHeld(e, h, why) ==
  {l \in [target : {e.action.target}, place : {e.place}, why : {why}] :
     l.place \in h.held /\ Reversible(e.action)}

Init ==
  /\ dryRun \in BOOLEAN
  /\ clock = 1
  /\ host = [t \in Targets |-> [here |-> TRUE, held |-> {}]]
  /\ entries = {}
  /\ file = {}
  /\ open = FALSE
  /\ tail = {}
  /\ cpc = [c \in Callers |-> "idle"]
  /\ work = [c \in Callers |-> {}]
  /\ todo = [c \in Callers |-> {}]
  /\ lastId = 0
  /\ reported = 0
  /\ reversed = {}
  /\ unsaved = {}
  /\ lost = {}
  /\ tears = 0
  /\ crashes = 0

\* Handles are lost for the places ls; a place let go since is forgotten.
Lose(ls) == lost' = {l \in lost \cup ls : l.place \in host'[l.target].held}

Handles(c, step, es) ==
  /\ cpc' = [cpc EXCEPT ![c] = step]
  /\ work' = [work EXCEPT ![c] = es]

(***************************************************************************)
(* apply(action): the handler returns a new handle.                        *)
(***************************************************************************)
Apply(c, a) ==
  LET e == [id |-> lastId + 1, action |-> a, place |-> Place(a)]
  IN  /\ cpc[c] = "idle"
      /\ lastId < MaxEntries
      /\ lastId' = lastId + 1
      /\ \E h \in Applied(a, host[a.target]) :
           host' = WithTarget(a.target, h, Overwritten(a.target, h))
      /\ Lose({})
      /\ Handles(c, "append", {e})
      /\ UNCHANGED <<dryRun, clock, entries, store, todo, tally, crashes>>

(***************************************************************************)
(* apply(action): the handler raises; what it did to the host stays.       *)
(***************************************************************************)
ApplyRaises(c, a) ==
  LET e == [id |-> 0, action |-> a, place |-> Place(a)]
  IN  /\ cpc[c] = "idle"
      /\ \E h \in ApplyRaised(a, host[a.target]) :
           /\ host' = WithTarget(a.target, h, Overwritten(a.target, h))
           /\ Lose(IF h = host[a.target] THEN {} ELSE StillHeld(e, h, "handler raised"))
      /\ UNCHANGED <<dryRun, clock, entries, store, callers, lastId, tally, crashes>>

\* Mutant: the handle is written to the file but not kept in memory.
Bug_NoAppend(es) == entries

WithAppended(es) == entries \cup es

\* self._entries.append(entry)
AppendEntry(c) ==
  /\ cpc[c] = "append"
  /\ entries' = WithAppended(work[c])
  /\ Handles(c, "persist", work[c])
  /\ UNCHANGED <<dryRun, clock, host, store, todo, lastId, tally, lost, crashes>>

(***************************************************************************)
(* _persist_entry(): the open("a") write of one line.  A line that only    *)
(* lacks its newline is read back, until the next write is joined to it:   *)
(* then neither parses.                                                    *)
(***************************************************************************)
Part == {"nothing", "fragment", "unterminated", "whole"}

Ids(es) == {e.id : e \in es}

Land(es, part) ==
  LET readable == part \in {"unterminated", "whole"} /\ ~open
  IN  /\ file' = IF open THEN file \ tail ELSE IF readable THEN file \cup es ELSE file
      /\ open' = (part # "whole")
      /\ tail' = IF readable /\ part = "unterminated" THEN es ELSE {}
      /\ unsaved' = (unsaved \cup Ids(tail)) \cup (IF readable THEN {} ELSE Ids(es))
      /\ IF part = "whole" THEN UNCHANGED tears ELSE tears < MaxTears /\ tears' = tears + 1

PersistEntry(c) ==
  /\ cpc[c] = "persist"
  /\ Land(work[c], "whole")
  /\ Handles(c, "idle", {})
  /\ UNCHANGED <<dryRun, clock, host, entries, todo, lastId, tally, lost, crashes>>

\* mkdir, open or write raises, and so does apply(); the handle stays in memory.
PersistRaises(c) ==
  /\ cpc[c] = "persist"
  /\ \/ /\ unsaved' = unsaved \cup Ids(work[c])
        /\ UNCHANGED <<file, open, tail, tears>>
     \/ \E part \in {"fragment", "unterminated"} : Land(work[c], part)
  /\ Handles(c, "idle", {})
  /\ UNCHANGED <<dryRun, clock, host, entries, todo, lastId, tally, lost, crashes>>

(***************************************************************************)
(* rollback_all(report_id): the snapshot.  rollback() returns False for a  *)
(* kill before it does anything, so kills are left out of it.              *)
(***************************************************************************)
Matching(r) == {e \in entries : e.action.report = r /\ Reversible(e.action)}

StartRollback(c, r) ==
  /\ cpc[c] = "idle"
  /\ Matching(r) # {}
  /\ todo' = [todo EXCEPT ![c] = Matching(r)]
  /\ Handles(c, "undo", {})
  /\ UNCHANGED <<dryRun, clock, host, entries, store, lastId, tally, lost, crashes>>

\* The caller goes on to the next handle of its snapshot, or returns.
Advance(c, rest) ==
  /\ todo' = [todo EXCEPT ![c] = rest]
  /\ Handles(c, IF rest = {} THEN "idle" ELSE "undo", {})

(***************************************************************************)
(* rollback(entry): entry.undo() returns.                                  *)
(***************************************************************************)
Undo(c, e) ==
  /\ cpc[c] = "undo"
  /\ e \in todo[c]
  /\ \E h \in Undone(e, host[e.action.target]) :
       /\ host' = WithTarget(e.action.target, h, MovedBack(e, h))
       /\ Lose(StillHeld(e, h, "undo returned"))
  /\ Handles(c, "remove", {e})
  /\ UNCHANGED <<dryRun, clock, entries, store, todo, lastId, tally, crashes>>

\* rollback(entry): entry.undo() raises; rollback() returns False.
UndoRaises(c, e) ==
  /\ cpc[c] = "undo"
  /\ e \in todo[c]
  /\ \E h \in UndoRaised(e, host[e.action.target]) : host' = WithTarget(e.action.target, h, {})
  /\ Lose({})
  /\ Advance(c, todo[c] \ {e})
  /\ UNCHANGED <<dryRun, clock, entries, store, lastId, tally, crashes>>

\* Mutant: remove() tolerates a handle that is no longer in the list.
Bug_Discard(es) == TRUE

InList(es) == es \subseteq entries

(***************************************************************************)
(* rollback(entry): the handle is removed, the audit record written, True  *)
(* returned and counted.                                                   *)
(***************************************************************************)
RemoveEntry(c) ==
  /\ cpc[c] = "remove"
  /\ InList(work[c])
  /\ entries' = entries \ work[c]
  /\ reported' = reported + 1
  /\ reversed' = reversed \cup Ids(work[c])
  /\ Advance(c, todo[c] \ work[c])
  /\ UNCHANGED <<dryRun, clock, host, store, lastId, lost, crashes>>

(***************************************************************************)
(* list.remove() raises ValueError since another caller removed the handle *)
(* first, or the audit record cannot be written: rollback_all() ends with  *)
(* the error and the rest of its snapshot is left alone.                   *)
(***************************************************************************)
RemoveRaises(c) ==
  /\ cpc[c] = "remove"
  /\ entries' = entries \ work[c]
  /\ todo' = [todo EXCEPT ![c] = {}]
  /\ Handles(c, "idle", {})
  /\ UNCHANGED <<dryRun, clock, host, store, lastId, tally, lost, crashes>>

(***************************************************************************)
(* The process dies, possibly inside a write, and the constructor reloads  *)
(* the handles that the file holds, the ones rolled back before included.  *)
(***************************************************************************)
\* Handles in memory, or in the hands of a caller that has yet to add them.
Alive == entries \cup UNION {work[c] : c \in {d \in Callers : cpc[d] = "append"}}

\* Handles whose line was not yet written.
Unwritten == UNION {work[c] : c \in {d \in Callers : cpc[d] \in {"append", "persist"}}}

\* Mutant: the constructor does not load the file.
Bug_NoLoad == {}

\* Mutant: the constructor does not read what action a handle is for.
Bug_LoadNoAction == {[id |-> e.id, place |-> e.place] : e \in file'}

Loaded == file'

Restart ==
  /\ crashes < MaxCrashes
  /\ crashes' = crashes + 1
  /\ \/ \E c \in Callers, part \in {"fragment", "unterminated"} :
          cpc[c] = "persist" /\ Land(work[c], part)
     \/ UNCHANGED store
  /\ entries' = Loaded
  /\ UNCHANGED host
  /\ Lose(UNION {StillHeld(e, host[e.action.target], "process died") :
                   e \in {x \in Alive : x \in Unwritten \ file' \/ x.id \in unsaved'}})
  /\ cpc' = [c \in Callers |-> "idle"]
  /\ work' = [c \in Callers |-> {}]
  /\ todo' = [c \in Callers |-> {}]
  /\ reported' = 0
  /\ reversed' = {}
  /\ UNCHANGED <<dryRun, clock, lastId>>

(***************************************************************************)
(* The world outside: a process exits, a file is deleted; its pid is used  *)
(* again, its path written again; the second changes.                      *)
(***************************************************************************)
Vanish(t) ==
  /\ host[t].here
  /\ \E a \in Actions :
       /\ a.target = t
       /\ a.type # "block_ip"
       /\ host' = [host EXCEPT ![t] = [here |-> FALSE,
                     held |-> IF a.type = "quarantine_file" THEN @.held ELSE {}]]
  /\ Lose({})
  /\ UNCHANGED <<dryRun, clock, entries, store, callers, lastId, tally, crashes>>

Appear(t) ==
  /\ ~host[t].here
  /\ host' = [host EXCEPT ![t].here = TRUE]
  /\ UNCHANGED <<dryRun, clock, entries, store, callers, lastId, tally, lost, crashes>>

Tick ==
  /\ clock < MaxSeconds
  /\ clock' = clock + 1
  /\ UNCHANGED <<dryRun, host, entries, store, callers, lastId, tally, lost, crashes>>

World == Tick \/ \E t \in Targets : Vanish(t) \/ Appear(t)

ContainmentStep(c) ==
  \/ \E a \in Actions : Apply(c, a) \/ ApplyRaises(c, a)
  \/ AppendEntry(c) \/ PersistEntry(c) \/ PersistRaises(c)
  \/ \E r \in Reports : StartRollback(c, r)
  \/ \E e \in todo[c] : Undo(c, e) \/ UndoRaises(c, e)
  \/ RemoveEntry(c) \/ RemoveRaises(c)

Next == World \/ Restart \/ \E c \in Callers : ContainmentStep(c)

Spec == Init /\ [][Next]_containmentVars
-----------------------------------------------------------------------------
TypeOK ==
  /\ dryRun \in BOOLEAN
  /\ clock \in Nat
  /\ host \in [Targets -> Host]
  /\ entries \subseteq Entry
  /\ file \subseteq Entry
  /\ open \in BOOLEAN
  /\ tail \subseteq Entry
  /\ cpc \in [Callers -> {"idle", "append", "persist", "undo", "remove"}]
  /\ work \in [Callers -> SUBSET Entry]
  /\ todo \in [Callers -> SUBSET Entry]
  /\ lastId \in Nat
  /\ reported \in Nat
  /\ reversed \subseteq Nat
  /\ unsaved \subseteq Nat
  /\ lost \subseteq Loss
  /\ tears \in Nat
  /\ crashes \in Nat

(***************************************************************************)
(* A dry run holds nothing: whatever is approved, undone, raised or        *)
(* reloaded, no target is ever stopped, blocked or moved.                  *)
(***************************************************************************)
DryRunHoldsNothing == dryRun => \A t \in Targets : host[t].held = {}

(***************************************************************************)
(* Whatever is held can be let go: for every place where a target is held  *)
(* there is a handle that some caller has not undone yet, unless one of    *)
(* three things was seen to lose it: a handler that raised after it acted, *)
(* an undo that returned without effect, or a crash before the handle was  *)
(* on file.  No interleaving of approvals and rollbacks loses one.         *)
(***************************************************************************)
Settled == UNION {work[c] : c \in {d \in Callers : cpc[d] = "remove"}}

HasHandle(t, p) ==
  \E e \in Alive \ Settled : e.action.target = t /\ e.place = p /\ Reversible(e.action)

HeldHasHandle ==
  \A t \in Targets : \A p \in host[t].held :
    HasHandle(t, p) \/ \E l \in lost : l.target = t /\ l.place = p

(***************************************************************************)
(* rollback_all() counts an operation once: two analysts rolling the same  *)
(* report back at the same time are never both told it was reversed.       *)
(***************************************************************************)
CountedOnce == reported = Cardinality(reversed)

(***************************************************************************)
(* What the docstring of rollback() says: it "returns False if not         *)
(* possible", so an undo without effect does not pass for a success.       *)
(***************************************************************************)
UndoIsHonest == \A l \in lost : l.why # "undo returned"

(***************************************************************************)
(* The module's docstring says that quarantining is reversible.  A copy    *)
(* for which there is a handle leaves the quarantine only to where a file  *)
(* of its name was, and only while nothing new is there: whatever is       *)
(* written, deleted, undone twice or reloaded in the meantime, an undo     *)
(* destroys neither file.  One thing does: a namesake that is quarantined  *)
(* in the same second is moved over the copy (containment.py:295).         *)
(***************************************************************************)
HeldBy(x) == Reversible(x.action) /\ x.place \in host[x.action.target].held
Namesakes(t) == {u \in Targets : Name[u] = Name[t]}
=============================================================================
