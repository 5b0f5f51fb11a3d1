------------------------------ MODULE AuditLog ------------------------------
(***************************************************************************)
(* What the response layer is promised about its audit trail, with the     *)
(* file, the lock and the writing threads abstracted away: a log of the    *)
(* records a reader can get back, in the order they were written.          *)
(*                                                                         *)
(* A write that dies halfway leaves the file without its final newline     *)
(* (damaged).  The next record is glued to that fragment and cannot be     *)
(* read back, and it takes with it a record whose own text was complete    *)
(* but whose newline was missing.  Nothing else is ever lost.              *)
(***************************************************************************)
EXTENDS Naturals, Sequences

CONSTANT Ids   \* identities of records, ordered by the time of their write

VARIABLES
  log,      \* ids of the records a reader gets back, in file order
  acked,    \* ids of the records whose call returned to its caller
  damaged,  \* the file does not end in a newline
  tears     \* how many writes died halfway

vars == <<log, acked, damaged, tears>>

Init ==
  /\ log = <<>>
  /\ acked = {}
  /\ damaged = FALSE
  /\ tears = 0

IsFresh(id) == \A i \in DOMAIN log : log[i] < id

(***************************************************************************)
(* The record id is stored and its caller told so.                         *)
(***************************************************************************)
Record(id) ==
  /\ ~damaged
  /\ IsFresh(id)
  /\ log' = Append(log, id)
  /\ acked' = acked \cup {id}
  /\ UNCHANGED <<damaged, tears>>

(***************************************************************************)
(* The record is stored, but the caller gets an error or died.             *)
(***************************************************************************)
RecordUnacknowledged(id) ==
  /\ ~damaged
  /\ IsFresh(id)
  /\ log' = Append(log, id)
  /\ \/ UNCHANGED <<damaged, tears>>
     \/ damaged' = TRUE /\ tears' = tears + 1
  /\ UNCHANGED acked

(***************************************************************************)
(* Only part of the record reaches the file.                               *)
(***************************************************************************)
Tear ==
  /\ ~damaged
  /\ damaged' = TRUE
  /\ tears' = tears + 1
  /\ UNCHANGED <<log, acked>>

(***************************************************************************)
(* A record is glued to the unterminated last line: neither it nor a       *)
(* complete record on that line can be read any more.  Its caller may have *)
(* been told that it was stored.                                           *)
(***************************************************************************)
RecordGlued(id) ==
  /\ damaged
  /\ log' \in {log} \cup {SubSeq(log, 1, Len(log) - 1)}
  /\ \/ acked' = acked \cup {id} /\ damaged' = FALSE /\ UNCHANGED tears
     \/ UNCHANGED acked /\ damaged' = FALSE /\ UNCHANGED tears
     \/ UNCHANGED acked /\ damaged' = TRUE /\ tears' = tears + 1

Next ==
  \/ \E id \in Ids : Record(id) \/ RecordUnacknowledged(id) \/ RecordGlued(id)
  \/ Tear

Spec == Init /\ [][Next]_vars
=============================================================================
