----------------------------- MODULE AuditTrail -----------------------------
(***************************************************************************)
(* backend/response/audit.py: AuditTrail.  Threads call record(); each     *)
(* call takes the lock, numbers the record, hashes the last raw line of    *)
(* the JSONL file into "prev", appends the record with its newline and     *)
(* fsyncs.  Any file access may raise, a write may stop after part of the  *)
(* line, and the process may die and restart at any moment; the            *)
(* constructor then resumes the counter from the last line that parses.    *)
(*                                                                         *)
(* A line is known by its id: the number of the write that last touched    *)
(* it.  Two lines with different text have different ids, so the id stands *)
(* for the SHA-256 digest of the line (0 for the digest of an empty file). *)
(* Signatures are left out: they are a function of the record they sign.   *)
(***************************************************************************)
EXTENDS Naturals, Sequences, FiniteSets, Sublists

CONSTANTS
  Callers,    \* threads that call record(): API workers, the pipeline driver
  NoCaller,   \* what the lock holds when no thread does
  MaxCalls,   \* bound: calls of record() in a behaviour
  MaxTears    \* bound: writes that die halfway

ASSUME CallersAssumption == NoCaller \notin Callers
ASSUME BoundsAssumption == MaxCalls \in Nat /\ MaxTears \in Nat

VARIABLES
  lines,    \* the lines of the file
  open,     \* the last line has no newline yet
  seq,      \* AuditTrail._seq
  lock,     \* AuditTrail._lock
  pc,       \* where each thread is in record()
  entry,    \* the record a thread is about to write
  calls,    \* calls made so far
  writes,   \* writes tried so far
  acked,    \* ids of the records whose record() returned
  tears     \* writes that died halfway

fileVars == <<lines, open, writes, tears>>
vars == <<lines, open, seq, lock, pc, entry, calls, writes, acked, tears>>

Line == [id : Nat, ok : BOOLEAN, seq : Nat, prev : Nat]
Draft == [seq : Nat, prev : Nat]

\* How much of a record reached the file: none of it, part of its text, all
\* of its text but not the newline, or the whole line.
Part == {"nothing", "fragment", "unterminated", "whole"}

(***************************************************************************)
(* Reading the file.                                                       *)
(***************************************************************************)
\* entries(): the lines that parse, in file order.
Readable == {i \in DOMAIN lines : lines[i].ok}
Entries == At(lines, Readable)

\* _previous_digest(): the digest of the last raw line, readable or not.
PreviousDigest == IF lines = <<>> THEN 0 ELSE lines[Len(lines)].id

\* The parsed lines before line i; verify_all() compares the "prev" of line
\* i with the digest of the last of them.
ReadableBefore(i) == {j \in 1..(i - 1) : lines[j].ok}

LastOf(S) == CHOOSE j \in S : \A k \in S : k <= j

DigestBefore(i) ==
  IF ReadableBefore(i) = {} THEN 0 ELSE lines[LastOf(ReadableBefore(i))].id

\* verify_all(): the records it reports as "broken hash chain".
BrokenLinks == {i \in DOMAIN lines : lines[i].ok /\ lines[i].prev # DigestBefore(i)}

(***************************************************************************)
(* The constructor: the counter resumes from the last line that parses.    *)
(***************************************************************************)
\* Mutant: the counter resumes from the number of records.
Bug_ResumeFromCount(ls) == Cardinality({i \in DOMAIN ls : ls[i].ok})

\* Mutant: the counter resumes one too low.
Bug_ResumeOneLow(ls) ==
  IF \E i \in DOMAIN ls : ls[i].ok
  THEN ls[LastOf({i \in DOMAIN ls : ls[i].ok})].seq - 1 ELSE 0 - 1

ResumedSeq(ls) ==
  LET readable == {i \in DOMAIN ls : ls[i].ok}
  IN  IF readable = {} THEN 0 ELSE ls[LastOf(readable)].seq

Init ==
  /\ lines = <<>>
  /\ open = FALSE
  /\ seq = ResumedSeq(<<>>)
  /\ lock = NoCaller
  /\ pc = [c \in Callers |-> "idle"]
  /\ entry = [c \in Callers |-> [seq |-> 0, prev |-> 0]]
  /\ calls = 0
  /\ writes = 0
  /\ acked = {}
  /\ tears = 0

(***************************************************************************)
(* record(event, ...): the call, up to "with self._lock".                  *)
(***************************************************************************)
Call(c) ==
  /\ pc[c] = "idle"
  /\ calls < MaxCalls
  /\ calls' = calls + 1
  /\ pc' = [pc EXCEPT ![c] = "waiting"]
  /\ UNCHANGED <<lock, seq, entry, acked, fileVars>>

\* Mutant: record() without the lock.
Bug_NoLock == TRUE

LockIsFree == lock = NoCaller

(***************************************************************************)
(* The lock is taken, the counter advanced, the last line hashed.          *)
(***************************************************************************)
Begin(c) ==
  /\ pc[c] = "waiting"
  /\ LockIsFree
  /\ lock' = c
  /\ seq' = seq + 1
  /\ entry' = [entry EXCEPT ![c] = [seq |-> seq + 1, prev |-> PreviousDigest]]
  /\ pc' = [pc EXCEPT ![c] = "writing"]
  /\ UNCHANGED <<calls, acked, fileVars>>

(***************************************************************************)
(* Reading the file for _previous_digest() raises: the number is used up   *)
(* and the lock is released on the way out.                                *)
(***************************************************************************)
BeginRaises(c) ==
  /\ pc[c] = "waiting"
  /\ LockIsFree
  /\ seq' = seq + 1
  /\ pc' = [pc EXCEPT ![c] = "idle"]
  /\ UNCHANGED <<lock, entry, calls, acked, fileVars>>

(***************************************************************************)
(* The open("a") write of one draft, of which part reaches the file.  Text *)
(* that follows an unterminated line becomes part of that line, which then *)
(* parses no more.                                                         *)
(***************************************************************************)
NewLine(draft, part) ==
  [id |-> writes + 1, ok |-> part # "fragment", seq |-> draft.seq, prev |-> draft.prev]

GluedLine == [id |-> writes + 1, ok |-> FALSE, seq |-> 0, prev |-> 0]

\* Mutant: the file is opened for writing instead of appending.
Bug_Truncate(draft, part) == <<NewLine(draft, part)>>

Appended(draft, part) ==
  IF open THEN [lines EXCEPT ![Len(lines)] = GluedLine]
  ELSE Append(lines, NewLine(draft, part))

\* Mutant: records are written without their newline.
Bug_NoNewline(part) == TRUE

LeavesOpen(part) == part # "whole"

Land(draft, part) ==
  /\ writes' = writes + 1
  /\ IF part = "nothing" THEN UNCHANGED <<lines, open>>
     ELSE lines' = Appended(draft, part) /\ open' = LeavesOpen(part)
  /\ IF part \in {"fragment", "unterminated"}
     THEN tears < MaxTears /\ tears' = tears + 1
     ELSE UNCHANGED tears

\* Mutant: an error path that leaves the lock held.
Bug_KeepLock(c) ==
  /\ pc' = [pc EXCEPT ![c] = "idle"]
  /\ UNCHANGED lock

\* Leaving "with self._lock", by return or by exception.
Release(c) ==
  /\ lock' = NoCaller
  /\ pc' = [pc EXCEPT ![c] = "idle"]

(***************************************************************************)
(* write, flush and fsync succeed; record() returns the entry.             *)
(***************************************************************************)
Write(c) ==
  /\ pc[c] = "writing"
  /\ Land(entry[c], "whole")
  /\ acked' = acked \cup {writes + 1}
  /\ Release(c)
  /\ UNCHANGED <<seq, entry, calls>>

(***************************************************************************)
(* open, write, flush or fsync raises; the lock is released and the caller *)
(* gets the error, whatever reached the file.                              *)
(***************************************************************************)
WriteRaises(c) ==
  /\ pc[c] = "writing"
  /\ \E part \in Part : Land(entry[c], part)
  /\ Release(c)
  /\ UNCHANGED <<seq, entry, calls, acked>>

(***************************************************************************)
(* The process dies, possibly inside a write, and starts again.            *)
(***************************************************************************)
Restart ==
  /\ \/ \E c \in Callers, part \in Part : pc[c] = "writing" /\ Land(entry[c], part)
     \/ UNCHANGED fileVars
  /\ seq' = ResumedSeq(lines')
  /\ lock' = NoCaller
  /\ pc' = [c \in Callers |-> "idle"]
  /\ UNCHANGED <<entry, calls, acked>>

Next ==
  \/ \E c \in Callers : Call(c) \/ Begin(c) \/ BeginRaises(c) \/ Write(c) \/ WriteRaises(c)
  \/ Restart

(***************************************************************************)
(* A thread inside record() keeps running, and the lock is not kept from   *)
(* one waiting thread for ever.  Nothing makes a thread call record().     *)
(***************************************************************************)
Fairness ==
  \A c \in Callers : /\ SF_vars(Begin(c) \/ BeginRaises(c))
                     /\ WF_vars(Write(c) \/ WriteRaises(c))

Spec == Init /\ [][Next]_vars

FairSpec == Spec /\ Fairness
-----------------------------------------------------------------------------
TypeOK ==
  /\ lines \in Seq(Line)
  /\ open \in BOOLEAN
  /\ seq \in Nat
  /\ lock \in Callers \cup {NoCaller}
  /\ pc \in [Callers -> {"idle", "waiting", "writing"}]
  /\ entry \in [Callers -> Draft]
  /\ calls \in Nat
  /\ writes \in Nat
  /\ acked \subseteq Nat
  /\ tears \in Nat

(***************************************************************************)
(* As long as no write died halfway, verify_all() finds the chain intact   *)
(* and every record written readable: with any number of threads, failed   *)
(* calls and restarts, no two records are given the same predecessor.      *)
(***************************************************************************)
ChainIntact ==
  tears = 0 => BrokenLinks = {} /\ \A i \in DOMAIN lines : lines[i].ok

(***************************************************************************)
(* The numbers of the records a reader gets back strictly increase in file *)
(* order, although failed calls leave gaps and a restart can number again  *)
(* from an earlier record.                                                 *)
(***************************************************************************)
SeqIncreasing ==
  \A i, j \in DOMAIN lines :
    i < j /\ lines[i].ok /\ lines[j].ok => lines[i].seq < lines[j].seq

(***************************************************************************)
(* The damage a torn write does is bounded: each costs at most one record  *)
(* whose caller was told it is stored, and at most one "broken hash chain" *)
(* report of verify_all().                                                 *)
(***************************************************************************)
ReadableIds == {lines[i].id : i \in Readable}

DamageBounded ==
  /\ Cardinality(acked \ ReadableIds) <= tears
  /\ Cardinality(BrokenLinks) <= tears

(***************************************************************************)
(* A thread that called record() gets an answer: no error path leaves the  *)
(* lock held.                                                              *)
(***************************************************************************)
EveryCallReturns == \A c \in Callers : pc[c] # "idle" ~> pc[c] = "idle"

(***************************************************************************)
(* The file, read back, is the log that AuditLog promises.                 *)
(***************************************************************************)
ReadBack == [i \in 1..Len(Entries) |-> Entries[i].id]

Log == INSTANCE AuditLog WITH
         Ids <- 1..MaxCalls, log <- ReadBack, damaged <- open

ImplementsAuditLog == Log!Spec
=============================================================================
