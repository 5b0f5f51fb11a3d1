------------------------- MODULE AuditTrail_proofs --------------------------
(***************************************************************************)
(* Proofs about AuditTrail for any set of calling threads and any bounds:  *)
(* its types, the exclusion the lock gives, the hash chain of an           *)
(* undamaged file, the order of the record numbers, that the file          *)
(* implements the abstract log, and what torn writes can damage.           *)
(***************************************************************************)
EXTENDS AuditTrail, Sublists_proofs

-----------------------------------------------------------------------------
(* Facts about the helper operators. *)

\* LastOf returns the greatest element of a nonempty set of line numbers.
LEMMA LastOfIsMax ==
  ASSUME NEW n \in Nat, NEW S \in SUBSET (1..n), S # {}
  PROVE  /\ LastOf(S) \in S
         /\ \A k \in S : k <= LastOf(S)
<1> DEFINE D == {n - j : j \in S}
<1>1. D \in SUBSET Nat
  OBVIOUS
<1>2. D # {}
  OBVIOUS
<1>3. PICK d \in D : \A e \in D : d <= e
  <2> HIDE DEF D
  <2> QED BY <1>1, <1>2, LeastNatural
<1>4. PICK j \in S : d = n - j
  OBVIOUS
<1>5. \A k \in S : k <= j
  <2> SUFFICES ASSUME NEW k \in S PROVE k <= j
    OBVIOUS
  <2>1. n - k \in D
    OBVIOUS
  <2>2. n - j <= n - k
    BY <2>1, <1>3, <1>4
  <2>3. j \in 1..n /\ k \in 1..n
    OBVIOUS
  <2> QED BY <2>2, <2>3
<1>6. \E i \in S : \A k \in S : k <= i
  BY <1>5
<1> QED BY <1>6 DEF LastOf

\* Replacing an element of a sequence keeps it a sequence of the same length.
LEMMA ExceptIsSeq ==
  ASSUME NEW S, NEW s \in Seq(S), NEW i, NEW e \in S
  PROVE  /\ [s EXCEPT ![i] = e] \in Seq(S)
         /\ Len([s EXCEPT ![i] = e]) = Len(s)
         /\ \A j \in 1..Len(s) : [s EXCEPT ![i] = e][j] = IF j = i THEN e ELSE s[j]
<1> DEFINE t == [s EXCEPT ![i] = e]
<1>1. s \in [1..Len(s) -> S] /\ Len(s) \in Nat
  BY LenProperties
<1>2. t \in [1..Len(s) -> S]
  BY <1>1
<1>3. t \in Seq(S)
  <2> HIDE DEF t
  <2> QED BY <1>1, <1>2, IsASeq
<1>4. Len(t) = Len(s)
  <2>1. DOMAIN t = 1..Len(s)
    BY <1>1
  <2> HIDE DEF t
  <2> QED BY <1>1, <1>3, <2>1, LenProperties
<1>5. \A j \in 1..Len(s) : t[j] = IF j = i THEN e ELSE s[j]
  BY <1>1
<1> QED BY <1>3, <1>4, <1>5

\* The three things a write does to the file: nothing, a new last line, or
\* the loss of an unterminated last line.
LEMMA LandCases ==
  ASSUME TypeOK, NEW draft \in Draft, NEW part \in Part, Land(draft, part)
  PROVE  /\ writes' = writes + 1
         /\ tears' \in Nat /\ tears <= tears'
         /\ \/ lines' = lines /\ open' = open
            \/ /\ ~open
               /\ lines' = Append(lines, NewLine(draft, part))
               /\ tears' = 0 => part = "whole" /\ ~open'
            \/ open /\ lines' = [lines EXCEPT ![Len(lines)] = GluedLine]
         /\ open' \in BOOLEAN
<1>1. writes' = writes + 1
  BY DEF Land
<1>2. tears' \in Nat /\ tears <= tears'
  <2>1. tears \in Nat
    BY DEF TypeOK
  <2>2. tears' = tears \/ tears' = tears + 1
    BY DEF Land
  <2> QED BY <2>1, <2>2
<1>3. CASE part = "nothing"
  <2>1. lines' = lines /\ open' = open
    BY <1>3 DEF Land
  <2> QED BY <1>1, <1>2, <2>1 DEF TypeOK
<1>4. CASE part # "nothing"
  <2>1. lines' = Appended(draft, part) /\ open' = LeavesOpen(part)
    BY <1>4 DEF Land
  <2>2. tears' = 0 => part = "whole"
    <3>1. part # "whole" => tears' = tears + 1
      BY <1>4 DEF Land, Part
    <3> QED BY <3>1 DEF TypeOK
  <2>3. open \in BOOLEAN
    BY DEF TypeOK
  <2>4. open' \in BOOLEAN /\ (part = "whole" => ~open')
    BY <2>1, Zenon DEF LeavesOpen
  <2>5. CASE open
    BY <1>1, <1>2, <2>1, <2>4, <2>5 DEF Appended
  <2>6. CASE ~open
    <3>1. lines' = Append(lines, NewLine(draft, part))
      BY <2>1, <2>6 DEF Appended
    <3>2. tears' = 0 => part = "whole" /\ ~open'
      BY <2>2, <2>4
    <3> QED BY <1>1, <1>2, <2>4, <2>6, <3>1, <3>2
  <2> QED BY <2>5, <2>6
<1> QED BY <1>3, <1>4

LEMMA LineTypes ==
  ASSUME writes \in Nat, NEW draft \in Draft, NEW part
  PROVE  NewLine(draft, part) \in Line /\ GluedLine \in Line
BY DEF NewLine, GluedLine, Line, Draft

LEMMA LandType ==
  ASSUME TypeOK, NEW draft \in Draft, NEW part \in Part, Land(draft, part)
  PROVE  lines' \in Seq(Line)
<1>1. lines \in Seq(Line) /\ writes \in Nat
  BY DEF TypeOK
<1>2. Append(lines, NewLine(draft, part)) \in Seq(Line)
  BY <1>1, LineTypes, AppendProperties
<1>3. [lines EXCEPT ![Len(lines)] = GluedLine] \in Seq(Line)
  BY <1>1, LineTypes, ExceptIsSeq
<1> QED BY <1>1, <1>2, <1>3, LandCases

\* The counter after a restart is a number.
LEMMA ResumedSeqType ==
  ASSUME NEW ls \in Seq(Line)
  PROVE  ResumedSeq(ls) \in Nat
<1> DEFINE readable == {i \in DOMAIN ls : ls[i].ok}
<1>1. CASE readable = {}
  BY <1>1 DEF ResumedSeq
<1>2. CASE readable # {}
  <2>1. Len(ls) \in Nat /\ DOMAIN ls = 1..Len(ls)
    BY LenProperties
  <2>2. LastOf(readable) \in readable
    <3>1. readable \in SUBSET (1..Len(ls))
      BY <2>1
    <3> HIDE DEF readable
    <3> QED BY <1>2, <2>1, <3>1, LastOfIsMax
  <2>3. ls[LastOf(readable)] \in Line
    BY <2>1, <2>2, ElementOfSeq
  <2> QED BY <1>2, <2>3 DEF ResumedSeq, Line
<1> QED BY <1>1, <1>2

LEMMA PreviousDigestType ==
  ASSUME lines \in Seq(Line)
  PROVE  PreviousDigest \in Nat
<1>1. lines # <<>> => lines[Len(lines)] \in Line
  <2>1. lines # <<>> => Len(lines) \in 1..Len(lines)
    BY LenProperties, EmptySeq
  <2> QED BY <2>1, ElementOfSeq
<1> QED BY <1>1 DEF PreviousDigest, Line
-----------------------------------------------------------------------------
(***************************************************************************)
(* The type invariant.                                                     *)
(***************************************************************************)
LEMMA InitType == Init => TypeOK
<1> SUFFICES ASSUME Init PROVE TypeOK
  OBVIOUS
<1>1. lines \in Seq(Line)
  BY DEF Init
<1>2. seq \in Nat
  BY <1>1, ResumedSeqType DEF Init
<1> QED BY <1>1, <1>2 DEF Init, TypeOK, Draft

LEMMA NextType == TypeOK /\ [Next]_vars => TypeOK'
<1> SUFFICES ASSUME TypeOK, [Next]_vars PROVE TypeOK'
  OBVIOUS
<1>1. ASSUME NEW c \in Callers, Call(c) PROVE TypeOK'
  BY <1>1 DEF Call, TypeOK, fileVars
<1>2. ASSUME NEW c \in Callers, Begin(c) PROVE TypeOK'
  <2>1. [seq |-> seq + 1, prev |-> PreviousDigest] \in Draft
    BY PreviousDigestType DEF TypeOK, Draft
  <2>2. entry' \in [Callers -> Draft]
    BY <1>2, <2>1 DEF Begin, TypeOK
  <2> QED BY <1>2, <2>2 DEF Begin, TypeOK, fileVars
<1>3. ASSUME NEW c \in Callers, BeginRaises(c) PROVE TypeOK'
  BY <1>3 DEF BeginRaises, TypeOK, fileVars
<1>4. ASSUME NEW c \in Callers, Write(c) PROVE TypeOK'
  <2>1. entry[c] \in Draft /\ "whole" \in Part /\ Land(entry[c], "whole")
    BY <1>4 DEF Write, TypeOK, Part
  <2>2. lines' \in Seq(Line) /\ writes' \in Nat /\ tears' \in Nat /\ open' \in BOOLEAN
    BY <2>1, LandType, LandCases DEF TypeOK
  <2> QED BY <1>4, <2>2 DEF Write, Release, TypeOK
<1>5. ASSUME NEW c \in Callers, WriteRaises(c) PROVE TypeOK'
  <2>1. PICK part \in Part : Land(entry[c], part)
    BY <1>5 DEF WriteRaises
  <2>2. entry[c] \in Draft
    BY DEF TypeOK
  <2>3. lines' \in Seq(Line) /\ writes' \in Nat /\ tears' \in Nat /\ open' \in BOOLEAN
    BY <2>1, <2>2, LandType, LandCases DEF TypeOK
  <2> QED BY <1>5, <2>3 DEF WriteRaises, Release, TypeOK
<1>6. CASE Restart
  <2>1. lines' \in Seq(Line) /\ writes' \in Nat /\ tears' \in Nat /\ open' \in BOOLEAN
    <3>1. CASE UNCHANGED fileVars
      BY <3>1 DEF fileVars, TypeOK
    <3>2. ASSUME NEW c \in Callers, NEW part \in Part, Land(entry[c], part)
          PROVE  lines' \in Seq(Line) /\ writes' \in Nat /\ tears' \in Nat /\ open' \in BOOLEAN
      <4>1. entry[c] \in Draft
        BY DEF TypeOK
      <4> QED BY <3>2, <4>1, LandType, LandCases DEF TypeOK
    <3> QED BY <1>6, <3>1, <3>2 DEF Restart
  <2>2. seq' \in Nat
    BY <1>6, <2>1, ResumedSeqType DEF Restart
  <2> QED BY <1>6, <2>1, <2>2 DEF Restart, TypeOK
<1>7. CASE UNCHANGED vars
  BY <1>7 DEF vars, TypeOK
<1> QED BY <1>1, <1>2, <1>3, <1>4, <1>5, <1>6, <1>7 DEF Next

\* Every variable of AuditTrail keeps its type.
THEOREM TypeCorrect == Spec => []TypeOK
<1>1. Init => TypeOK
  BY InitType
<1>2. TypeOK /\ [Next]_vars => TypeOK'
  BY NextType
<1> QED BY <1>1, <1>2, PTL DEF Spec
-----------------------------------------------------------------------------
(***************************************************************************)
(* Mutual exclusion: only the holder of the lock is inside record().       *)
(***************************************************************************)
LockInv == \A c \in Callers : pc[c] = "writing" => lock = c

LEMMA LockStep == TypeOK /\ LockInv /\ [Next]_vars => LockInv'
<1> SUFFICES ASSUME TypeOK, LockInv, [Next]_vars PROVE LockInv'
  OBVIOUS
<1> USE DEF TypeOK, LockInv
<1>1. ASSUME NEW c \in Callers, Call(c) PROVE LockInv'
  BY <1>1 DEF Call
<1>2. ASSUME NEW c \in Callers, Begin(c) PROVE LockInv'
  <2>1. \A d \in Callers : pc[d] # "writing"
    BY <1>2, CallersAssumption DEF Begin, LockIsFree
  <2> QED BY <1>2, <2>1 DEF Begin
<1>3. ASSUME NEW c \in Callers, BeginRaises(c) PROVE LockInv'
  BY <1>3 DEF BeginRaises
<1>4. ASSUME NEW c \in Callers, Write(c) PROVE LockInv'
  BY <1>4, CallersAssumption DEF Write, Release
<1>5. ASSUME NEW c \in Callers, WriteRaises(c) PROVE LockInv'
  BY <1>5, CallersAssumption DEF WriteRaises, Release
<1>6. CASE Restart
  BY <1>6 DEF Restart
<1>7. CASE UNCHANGED vars
  BY <1>7 DEF vars
<1> QED BY <1>1, <1>2, <1>3, <1>4, <1>5, <1>6, <1>7 DEF Next

-----------------------------------------------------------------------------
(***************************************************************************)
(* The hash chain.  While no write has died halfway, every line links to   *)
(* the line before it, and the thread inside record() has hashed the line  *)
(* that is still the last one when it writes.                              *)
(***************************************************************************)
Linked ==
  \A i \in 1..Len(lines) :
    lines[i].ok /\ lines[i].prev = IF i = 1 THEN 0 ELSE lines[i - 1].id

ChainInv ==
  tears = 0 =>
    /\ ~open
    /\ Linked
    /\ \A c \in Callers : pc[c] = "writing" => entry[c].prev = PreviousDigest

\* A write by the thread that hashed the last line extends the chain.
LEMMA LandKeepsChain ==
  ASSUME TypeOK, ChainInv, NEW c \in Callers, pc[c] = "writing",
         NEW part \in Part, Land(entry[c], part), tears' = 0
  PROVE  ~open' /\ Linked'
<1>1. tears = 0
  <2>1. tears \in Nat /\ tears' \in Nat /\ tears <= tears'
    BY LandCases DEF TypeOK
  <2> QED BY <2>1
<1>2. ~open /\ Linked /\ entry[c].prev = PreviousDigest
  BY <1>1 DEF ChainInv
<1>3. entry[c] \in Draft /\ lines \in Seq(Line) /\ writes \in Nat
  BY DEF TypeOK
<1>4. CASE lines' = lines /\ open' = open
  BY <1>2, <1>4 DEF Linked
<1>5. CASE lines' = Append(lines, NewLine(entry[c], part)) /\ part = "whole" /\ ~open'
  <2> DEFINE n == Len(lines)  l == NewLine(entry[c], part)
  <2>1. l \in Line /\ l.ok /\ l.prev = PreviousDigest
    BY <1>2, <1>3, <1>5, LineTypes DEF NewLine
  <2>2. /\ n \in Nat
        /\ Len(lines') = n + 1
        /\ \A i \in 1..n : lines'[i] = lines[i]
        /\ lines'[n + 1] = l
    <3> HIDE DEF l
    <3> QED BY <1>3, <1>5, <2>1, AppendProperties, LenProperties DEF l
  <2>3. PreviousDigest = IF n = 0 THEN 0 ELSE lines[n].id
    BY <1>3, EmptySeq DEF PreviousDigest
  <2>4. ASSUME NEW i \in 1..(n + 1)
        PROVE  lines'[i].ok /\ lines'[i].prev = IF i = 1 THEN 0 ELSE lines'[i - 1].id
    <3>1. CASE i = n + 1
      <4> HIDE DEF l
      <4>1. n # 0 => lines'[n] = lines[n]
        BY <2>2
      <4> QED BY <2>1, <2>2, <2>3, <3>1, <4>1
    <3>2. CASE i \in 1..n
      <4> HIDE DEF l
      <4>1. lines'[i] = lines[i] /\ (i # 1 => lines'[i - 1] = lines[i - 1])
        BY <2>2, <3>2
      <4> QED BY <1>2, <3>2, <4>1 DEF Linked
    <3> QED BY <2>2, <3>1, <3>2
  <2> HIDE DEF l
  <2> QED BY <1>5, <2>2, <2>4 DEF Linked
<1> QED BY <1>2, <1>3, <1>4, <1>5, LandCases

LEMMA ChainStep == TypeOK /\ LockInv /\ ChainInv /\ [Next]_vars => ChainInv'
<1> SUFFICES ASSUME TypeOK, LockInv, ChainInv, [Next]_vars PROVE ChainInv'
  OBVIOUS
<1>1. ASSUME NEW c \in Callers, Call(c) PROVE ChainInv'
  BY <1>1 DEF Call, ChainInv, Linked, PreviousDigest, fileVars, TypeOK
<1>2. ASSUME NEW c \in Callers, Begin(c) PROVE ChainInv'
  <2>1. UNCHANGED <<lines, open, tears>> /\ PreviousDigest' = PreviousDigest
    BY <1>2 DEF Begin, fileVars, PreviousDigest
  <2>2. \A d \in Callers : pc'[d] = "writing" => d = c \/ pc[d] = "writing"
    BY <1>2 DEF Begin, TypeOK
  <2>3. entry'[c].prev = PreviousDigest /\ \A d \in Callers : d # c => entry'[d] = entry[d]
    BY <1>2 DEF Begin, TypeOK
  <2> QED BY <2>1, <2>2, <2>3 DEF ChainInv, Linked
<1>3. ASSUME NEW c \in Callers, BeginRaises(c) PROVE ChainInv'
  BY <1>3 DEF BeginRaises, ChainInv, Linked, PreviousDigest, fileVars, TypeOK
<1>4. ASSUME NEW c \in Callers, NEW part \in Part, pc[c] = "writing", Land(entry[c], part),
             Release(c)
      PROVE  ChainInv'
  <2>1. \A d \in Callers : pc'[d] # "writing"
    BY <1>4 DEF Release, TypeOK, LockInv
  <2> QED BY <1>4, <2>1, LandKeepsChain DEF ChainInv
<1>5. ASSUME NEW c \in Callers, Write(c) PROVE ChainInv'
  <2>1. "whole" \in Part
    BY DEF Part
  <2> QED BY <1>4, <1>5, <2>1 DEF Write
<1>6. ASSUME NEW c \in Callers, WriteRaises(c) PROVE ChainInv'
  BY <1>4, <1>6 DEF WriteRaises
<1>7. CASE Restart
  <2>1. \A d \in Callers : pc'[d] # "writing"
    BY <1>7 DEF Restart
  <2>2. tears' = 0 => ~open' /\ Linked'
    <3>1. CASE UNCHANGED fileVars
      BY <3>1 DEF fileVars, ChainInv, Linked
    <3>2. ASSUME NEW c \in Callers, NEW part \in Part, pc[c] = "writing", Land(entry[c], part)
          PROVE  tears' = 0 => ~open' /\ Linked'
      BY <3>2, LandKeepsChain
    <3> QED BY <1>7, <3>1, <3>2 DEF Restart
  <2> QED BY <2>1, <2>2 DEF ChainInv
<1>8. CASE UNCHANGED vars
  BY <1>8 DEF vars, ChainInv, Linked, PreviousDigest
<1> QED BY <1>1, <1>2, <1>3, <1>5, <1>6, <1>7, <1>8 DEF Next

\* A chain whose every line links to the line before it has no broken link.
LEMMA LinkedIsIntact ==
  ASSUME lines \in Seq(Line), Linked
  PROVE  BrokenLinks = {} /\ \A i \in DOMAIN lines : lines[i].ok
<1>1. DOMAIN lines = 1..Len(lines) /\ Len(lines) \in Nat
  BY LenProperties
<1>2. ASSUME NEW i \in 1..Len(lines)
      PROVE  DigestBefore(i) = IF i = 1 THEN 0 ELSE lines[i - 1].id
  <2>1. ReadableBefore(i) = 1..(i - 1)
    BY <1>1 DEF ReadableBefore, Linked
  <2>2. CASE i = 1
    BY <2>1, <2>2 DEF DigestBefore
  <2>3. CASE i # 1
    <3>1. i - 1 \in Nat /\ 1..(i - 1) # {}
      BY <2>3
    <3>2. LastOf(1..(i - 1)) \in 1..(i - 1) /\ \A k \in 1..(i - 1) : k <= LastOf(1..(i - 1))
      BY <3>1, LastOfIsMax
    <3>3. LastOf(1..(i - 1)) = i - 1
      BY <3>1, <3>2
    <3> QED BY <2>1, <2>3, <3>1, <3>3 DEF DigestBefore
  <2> QED BY <2>2, <2>3
<1>3. BrokenLinks = {}
  BY <1>1, <1>2 DEF BrokenLinks, Linked
<1> QED BY <1>1, <1>3 DEF Linked

\* With any number of threads, restarts and failed calls, a file in which
\* no write died halfway passes verify_all() and loses no line.
THEOREM ChainStaysIntact == Spec => []ChainIntact
<1>1. Init => TypeOK /\ LockInv /\ ChainInv
  <2> SUFFICES ASSUME Init PROVE TypeOK /\ LockInv /\ ChainInv
    OBVIOUS
  <2>1. LockInv
    BY DEF Init, LockInv
  <2>2. ChainInv
    <3>1. Linked
      BY DEF Init, Linked
    <3> QED BY <3>1 DEF Init, ChainInv
  <2> QED BY <2>1, <2>2, InitType
<1>2. TypeOK /\ LockInv /\ ChainInv /\ [Next]_vars => (TypeOK /\ LockInv /\ ChainInv)'
  BY NextType, LockStep, ChainStep
<1>3. TypeOK /\ ChainInv => ChainIntact
  BY LinkedIsIntact DEF TypeOK, ChainInv, ChainIntact
<1> QED BY <1>1, <1>2, <1>3, PTL DEF Spec
-----------------------------------------------------------------------------
(* What a step does to the file, and what that means for the lines.        *)

\* The thread c writes a part of its draft, and is answered only if all of
\* it reached the file.
Lands(c, part) ==
  /\ pc[c] = "writing"
  /\ Land(entry[c], part)
  /\ \/ UNCHANGED acked
     \/ part = "whole" /\ acked' = acked \cup {writes + 1}

\* No step touches the file or the answers but a write by the thread inside.
LEMMA StepLands ==
  ASSUME [Next]_vars
  PROVE  UNCHANGED <<fileVars, acked>> \/ \E c \in Callers, part \in Part : Lands(c, part)
<1>1. ASSUME NEW c \in Callers, Call(c) \/ Begin(c) \/ BeginRaises(c) PROVE UNCHANGED <<fileVars, acked>>
  BY <1>1 DEF Call, Begin, BeginRaises, fileVars
<1>2. ASSUME NEW c \in Callers, Write(c) PROVE Lands(c, "whole") /\ "whole" \in Part
  BY <1>2 DEF Write, Lands, Part
<1>3. ASSUME NEW c \in Callers, WriteRaises(c) PROVE \E part \in Part : Lands(c, part)
  BY <1>3 DEF WriteRaises, Lands
<1>4. CASE Restart
  BY <1>4 DEF Restart, Lands
<1>5. CASE UNCHANGED vars
  BY <1>5 DEF vars, fileVars
<1> QED BY <1>1, <1>2, <1>3, <1>4, <1>5 DEF Next

\* What each part of a line leaves behind.
LEMMA LandOutcome ==
  ASSUME open \in BOOLEAN, NEW draft, NEW part \in Part, Land(draft, part)
  PROVE  /\ writes' = writes + 1
         /\ \/ part = "nothing" /\ UNCHANGED <<lines, open, tears>>
            \/ /\ part # "nothing"
               /\ open' = (part # "whole")
               /\ tears' = IF part = "whole" THEN tears ELSE tears + 1
               /\ IF open THEN lines' = [lines EXCEPT ![Len(lines)] = GluedLine]
                  ELSE lines' = Append(lines, NewLine(draft, part))
<1>1. writes' = writes + 1
  BY DEF Land
<1>2. CASE part = "nothing"
  BY <1>1, <1>2 DEF Land
<1>3. CASE part # "nothing"
  <2>1. lines' = Appended(draft, part) /\ open' = LeavesOpen(part)
    BY <1>3 DEF Land
  <2>2. tears' = IF part = "whole" THEN tears ELSE tears + 1
    BY <1>3 DEF Land, Part
  <2>3. open' = (part # "whole")
    BY <2>1 DEF LeavesOpen
  <2>4. IF open THEN lines' = [lines EXCEPT ![Len(lines)] = GluedLine]
        ELSE lines' = Append(lines, NewLine(draft, part))
    BY <2>1 DEF Appended
  <2> QED BY <1>1, <1>3, <2>2, <2>3, <2>4
<1> QED BY <1>2, <1>3

\* A new last line changes no other, and is read back if it parses.
LEMMA AppendedLines ==
  ASSUME lines \in Seq(Line), NEW l \in Line, lines' = Append(lines, l)
  PROVE  /\ DOMAIN lines = 1 .. Len(lines) /\ Len(lines) \in Nat
         /\ DOMAIN lines' = 1 .. Len(lines) + 1 /\ Len(lines') = Len(lines) + 1
         /\ \A i \in DOMAIN lines : lines'[i] = lines[i]
         /\ lines'[Len(lines) + 1] = l
         /\ Readable' = IF l.ok THEN Readable \cup {Len(lines) + 1} ELSE Readable
<1>1. /\ DOMAIN lines = 1 .. Len(lines) /\ Len(lines) \in Nat
      /\ DOMAIN lines' = 1 .. Len(lines) + 1 /\ Len(lines') = Len(lines) + 1
      /\ lines'[Len(lines) + 1] = l
  BY LenProperties, AppendProperties
<1>2. \A i \in DOMAIN lines : lines'[i] = lines[i]
  BY <1>1, AppendProperties
<1>3. Readable' = {i \in 1 .. Len(lines) + 1 : lines'[i].ok}
  BY <1>1 DEF Readable
<1>4. 1 .. Len(lines) + 1 = (1 .. Len(lines)) \cup {Len(lines) + 1}
  BY <1>1
<1>5. {i \in DOMAIN lines : lines'[i].ok} = Readable
  BY <1>2 DEF Readable
<1>6. l.ok \in BOOLEAN
  BY DEF Line
<1>7. Readable' = IF l.ok THEN Readable \cup {Len(lines) + 1} ELSE Readable
  BY <1>1, <1>3, <1>4, <1>5, <1>6
<1> QED BY <1>1, <1>2, <1>7

\* Gluing text to the last line makes that one unreadable and no other.
LEMMA GluedLines ==
  ASSUME lines \in Seq(Line), writes \in Nat, lines' = [lines EXCEPT ![Len(lines)] = GluedLine]
  PROVE  /\ DOMAIN lines = 1 .. Len(lines) /\ Len(lines) \in Nat
         /\ DOMAIN lines' = DOMAIN lines /\ Len(lines') = Len(lines)
         /\ \A i \in DOMAIN lines : lines'[i] = IF i = Len(lines) THEN GluedLine ELSE lines[i]
         /\ Readable' = Readable \ {Len(lines)}
<1>1. /\ DOMAIN lines = 1 .. Len(lines) /\ Len(lines) \in Nat
      /\ DOMAIN lines' = DOMAIN lines
      /\ \A i \in DOMAIN lines : lines'[i] = IF i = Len(lines) THEN GluedLine ELSE lines[i]
  BY LenProperties
<1>2. GluedLine \in Line /\ ~GluedLine.ok
  BY LineTypes DEF GluedLine, Line
<1>3. Len(lines') = Len(lines)
  BY <1>2, ExceptIsSeq
<1>4. Readable' = Readable \ {Len(lines)}
  <2>1. Readable' = {i \in DOMAIN lines : lines'[i].ok}
    BY <1>1 DEF Readable
  <2>2. \A i \in DOMAIN lines : lines'[i].ok <=> lines[i].ok /\ i # Len(lines)
    BY <1>1, <1>2
  <2> QED BY <2>1, <2>2 DEF Readable
<1> QED BY <1>1, <1>3, <1>4

\* A new line has the number and the link of its draft.
LEMMA NewLineFields ==
  ASSUME writes \in Nat, NEW draft \in Draft, NEW part
  PROVE  LET l == NewLine(draft, part)
         IN  /\ l \in Line
             /\ l.id = writes + 1 /\ l.ok = (part # "fragment")
             /\ l.seq = draft.seq /\ l.prev = draft.prev
BY LineTypes DEF NewLine

-----------------------------------------------------------------------------
(***************************************************************************)
(* The order of the numbers.  The counter is at least the number of every  *)
(* record that can be read back, and the thread inside record() holds a    *)
(* greater one than any in the file; it still holds the digest of the last *)
(* line, as nobody else writes.                                            *)
(***************************************************************************)
HandInv ==
  \A c \in Callers : pc[c] = "writing" =>
    /\ entry[c].prev = PreviousDigest
    /\ entry[c].seq <= seq
    /\ \A i \in Readable : lines[i].seq < entry[c].seq

NumberInv == SeqIncreasing /\ \A i \in Readable : lines[i].seq <= seq

\* The fields of the lines of the file.
LEMMA LineFields ==
  ASSUME NEW ls \in Seq(Line), NEW i \in DOMAIN ls
  PROVE  /\ i \in 1 .. Len(ls) /\ Len(ls) \in Nat
         /\ ls[i].id \in Nat /\ ls[i].ok \in BOOLEAN /\ ls[i].seq \in Nat /\ ls[i].prev \in Nat
<1>1. DOMAIN ls = 1 .. Len(ls) /\ Len(ls) \in Nat
  BY LenProperties
<1>2. ls[i] \in Line
  BY <1>1, ElementOfSeq
<1> QED BY <1>1, <1>2 DEF Line

\* The counter that a restart takes from the file is not too low.
LEMMA ResumedIsLast ==
  ASSUME NEW ls \in Seq(Line),
         \A i, j \in DOMAIN ls : i < j /\ ls[i].ok /\ ls[j].ok => ls[i].seq < ls[j].seq,
         NEW k \in DOMAIN ls, ls[k].ok
  PROVE  ls[k].seq <= ResumedSeq(ls)
<1> DEFINE readable == {i \in DOMAIN ls : ls[i].ok}  last == LastOf(readable)
<1>1. last \in readable /\ k <= last
  <2>1. readable \in SUBSET (1 .. Len(ls)) /\ k \in readable /\ Len(ls) \in Nat
    BY LineFields
  <2> HIDE DEF readable
  <2> QED BY <2>1, LastOfIsMax
<1>2. ResumedSeq(ls) = ls[last].seq
  BY <1>1 DEF ResumedSeq
<1>3. last \in DOMAIN ls /\ ls[last].ok
  BY <1>1
<1> HIDE DEF last, readable
<1>4. ls[k].seq \in Nat /\ ls[last].seq \in Nat /\ k \in Nat /\ last \in Nat
  BY <1>3, LineFields
<1>5. CASE k = last
  BY <1>2, <1>4, <1>5
<1>6. CASE k < last
  BY <1>2, <1>3, <1>4, <1>6
<1> QED BY <1>1, <1>4, <1>5, <1>6

\* A write keeps the order, and the counter above the file.
LEMMA LandKeepsNumbers ==
  ASSUME TypeOK, HandInv, NumberInv, NEW c \in Callers, NEW part \in Part, Lands(c, part)
  PROVE  SeqIncreasing' /\ \A i \in Readable' : lines'[i].seq <= seq
<1>t. lines \in Seq(Line) /\ writes \in Nat /\ open \in BOOLEAN /\ entry[c] \in Draft /\ seq \in Nat
  BY DEF TypeOK
<1>h. entry[c].seq <= seq /\ \A i \in Readable : lines[i].seq < entry[c].seq
  BY DEF HandInv, Lands
<1>s. \A i, j \in Readable : i < j => lines[i].seq < lines[j].seq
  BY DEF NumberInv, SeqIncreasing, Readable
<1>m. \A i \in Readable : lines[i].seq <= seq
  BY DEF NumberInv
<1>g. (\A i, j \in Readable' : i < j => lines'[i].seq < lines'[j].seq) => SeqIncreasing'
  BY DEF SeqIncreasing, Readable
<1>1. CASE UNCHANGED lines
  BY <1>1, <1>m DEF NumberInv, SeqIncreasing, Readable
<1>2. CASE lines' = Append(lines, NewLine(entry[c], part))
  <2> DEFINE l == NewLine(entry[c], part)  n == Len(lines)
  <2>1. l \in Line /\ l.seq = entry[c].seq
    BY <1>t, NewLineFields
  <2>2. /\ DOMAIN lines = 1 .. n /\ n \in Nat
        /\ \A i \in DOMAIN lines : lines'[i] = lines[i]
        /\ lines'[n + 1] = l
        /\ Readable' \subseteq Readable \cup {n + 1}
    <3> HIDE DEF l
    <3> QED BY <1>t, <1>2, <2>1, AppendedLines DEF l
  <2>3. \A i \in Readable : i \in 1 .. n /\ lines'[i] = lines[i]
    BY <2>2 DEF Readable
  <2> HIDE DEF l, n
  <2>4. ASSUME NEW i \in Readable', NEW j \in Readable', i < j PROVE lines'[i].seq < lines'[j].seq
    <3>1. i \in Readable
      <4> SUFFICES ASSUME i = n + 1 PROVE FALSE
        BY <2>2
      <4>1. j \in 1 .. n \/ j = n + 1
        BY <2>2, <2>3
      <4> QED BY <2>2, <2>4, <4>1
    <3>2. CASE j \in Readable
      BY <1>s, <2>3, <2>4, <3>1, <3>2
    <3>3. CASE j = n + 1
      BY <1>h, <2>1, <2>2, <2>3, <3>1, <3>3
    <3> QED BY <2>2, <3>2, <3>3
  <2>5. \A i \in Readable' : lines'[i].seq <= seq
    BY <1>h, <1>m, <2>1, <2>2, <2>3
  <2> QED BY <1>g, <2>4, <2>5
<1>3. CASE lines' = [lines EXCEPT ![Len(lines)] = GluedLine]
  <2>1. /\ Readable' = Readable \ {Len(lines)}
        /\ \A i \in DOMAIN lines : lines'[i] = IF i = Len(lines) THEN GluedLine ELSE lines[i]
    BY <1>t, <1>3, GluedLines
  <2>2. \A i \in Readable' : i \in Readable /\ lines'[i] = lines[i]
    BY <2>1 DEF Readable
  <2> QED BY <1>g, <1>m, <1>s, <2>2
<1>4. Land(entry[c], part)
  BY DEF Lands
<1> QED BY <1>t, <1>1, <1>2, <1>3, <1>4, LandOutcome

LEMMA NumberStep ==
  TypeOK /\ LockInv /\ HandInv /\ NumberInv /\ [Next]_vars => (HandInv /\ NumberInv)'
<1> SUFFICES ASSUME TypeOK, LockInv, HandInv, NumberInv, [Next]_vars PROVE (HandInv /\ NumberInv)'
  OBVIOUS
<1>t. seq \in Nat /\ lines' \in Seq(Line) /\ entry \in [Callers -> Draft]
  BY NextType DEF TypeOK
<1>0. ASSUME UNCHANGED lines
      PROVE  /\ UNCHANGED <<PreviousDigest, Readable>>
             /\ SeqIncreasing'
             /\ \A i \in Readable' : lines'[i].seq <= seq
  BY <1>0 DEF PreviousDigest, Readable, NumberInv, SeqIncreasing
<1>1. ASSUME NEW c \in Callers, Call(c) PROVE (HandInv /\ NumberInv)'
  <2>1. UNCHANGED <<lines, seq, entry>> /\ \A d \in Callers : pc'[d] = "writing" => pc[d] = "writing"
    BY <1>1 DEF Call, fileVars, TypeOK
  <2> QED BY <1>0, <2>1 DEF HandInv, NumberInv
<1>2. ASSUME NEW c \in Callers, Begin(c) PROVE (HandInv /\ NumberInv)'
  <2>1. UNCHANGED lines /\ seq' = seq + 1
    BY <1>2 DEF Begin, fileVars
  <2>2. \A d \in Callers : pc'[d] = "writing" => d = c
    BY <1>2, CallersAssumption DEF Begin, LockIsFree, LockInv, TypeOK
  <2>3. entry'[c] = [seq |-> seq + 1, prev |-> PreviousDigest]
    BY <1>2, <1>t DEF Begin
  <2>4. \A i \in Readable : lines[i].seq \in Nat
    BY LineFields DEF TypeOK, Readable
  <2>5. \A i \in Readable : lines[i].seq <= seq
    BY DEF NumberInv
  <2>6. HandInv'
    BY <1>0, <1>t, <2>1, <2>2, <2>3, <2>4, <2>5 DEF HandInv
  <2>7. NumberInv'
    BY <1>0, <1>t, <2>1, <2>4, <2>5 DEF NumberInv
  <2> QED BY <2>6, <2>7
<1>3. ASSUME NEW c \in Callers, BeginRaises(c) PROVE (HandInv /\ NumberInv)'
  <2>1. UNCHANGED <<lines, entry>> /\ seq' = seq + 1 /\ \A d \in Callers : pc'[d] = "writing" => pc[d] = "writing"
    BY <1>3 DEF BeginRaises, fileVars, TypeOK
  <2>2. \A i \in Readable : lines[i].seq \in Nat /\ lines[i].seq <= seq
    BY LineFields DEF TypeOK, Readable, NumberInv
  <2>3. \A d \in Callers : entry[d].seq \in Nat
    BY DEF TypeOK, Draft
  <2> QED BY <1>0, <1>t, <2>1, <2>2, <2>3 DEF HandInv, NumberInv
<1>4. ASSUME NEW c \in Callers, Write(c) \/ WriteRaises(c) PROVE (HandInv /\ NumberInv)'
  <2>1. UNCHANGED seq /\ \A d \in Callers : pc'[d] # "writing"
    BY <1>4 DEF Write, WriteRaises, Release, LockInv, TypeOK
  <2>2. \E part \in Part : Lands(c, part)
    BY <1>4 DEF Write, WriteRaises, Lands, Part
  <2> QED BY <2>1, <2>2, LandKeepsNumbers DEF HandInv, NumberInv
<1>5. CASE Restart
  <2>1. \A d \in Callers : pc'[d] # "writing"
    BY <1>5 DEF Restart
  <2>2. SeqIncreasing'
    <3>1. CASE UNCHANGED fileVars
      BY <1>0, <3>1 DEF fileVars
    <3>2. ASSUME NEW c \in Callers, NEW part \in Part, pc[c] = "writing", Land(entry[c], part)
          PROVE  SeqIncreasing'
      <4>1. Lands(c, part)
        BY <1>5, <3>2 DEF Lands, Restart
      <4> QED BY <4>1, LandKeepsNumbers
    <3> QED BY <1>5, <3>1, <3>2 DEF Restart
  <2>3. \A i \in DOMAIN lines' : lines'[i].ok => lines'[i].seq <= ResumedSeq(lines')
    <3>1. \A i, j \in DOMAIN lines' : i < j /\ lines'[i].ok /\ lines'[j].ok => lines'[i].seq < lines'[j].seq
      BY <2>2 DEF SeqIncreasing
    <3> QED BY <1>t, <3>1, ResumedIsLast
  <2>4. seq' = ResumedSeq(lines')
    BY <1>5 DEF Restart
  <2> QED BY <2>1, <2>2, <2>3, <2>4 DEF HandInv, NumberInv, Readable
<1>6. CASE UNCHANGED vars
  <2>1. UNCHANGED <<lines, seq, entry, pc>>
    BY <1>6 DEF vars
  <2> QED BY <1>0, <2>1 DEF HandInv, NumberInv
<1> QED BY <1>1, <1>2, <1>3, <1>4, <1>5, <1>6 DEF Next

LEMMA NumberInit == Init => LockInv /\ HandInv /\ NumberInv
<1> SUFFICES ASSUME Init PROVE LockInv /\ HandInv /\ NumberInv
  OBVIOUS
<1>1. Readable = {} /\ DOMAIN lines = {}
  BY DEF Init, Readable
<1>2. \A c \in Callers : pc[c] = "idle"
  BY DEF Init
<1> QED BY <1>1, <1>2 DEF LockInv, HandInv, NumberInv, SeqIncreasing

\* Whatever calls fail, whatever is torn and however often the process
\* restarts, the numbers of the records read back increase in file order.
THEOREM NumbersIncrease == Spec => []SeqIncreasing
<1>1. Init => TypeOK /\ LockInv /\ HandInv /\ NumberInv
  BY InitType, NumberInit
<1>2. TypeOK /\ LockInv /\ HandInv /\ NumberInv /\ [Next]_vars
        => (TypeOK /\ LockInv /\ HandInv /\ NumberInv)'
  BY NextType, LockStep, NumberStep
<1>3. NumberInv => SeqIncreasing
  BY DEF NumberInv
<1> QED BY <1>1, <1>2, <1>3, PTL DEF Spec
-----------------------------------------------------------------------------
(***************************************************************************)
(* The records read back.                                                  *)
(***************************************************************************)
\* Without a change of the file the same is read back.
LEMMA SameReadBack ==
  ASSUME UNCHANGED lines
  PROVE  UNCHANGED <<Readable, Entries, ReadBack>>
BY DEF Readable, Entries, ReadBack, At, Nth, Rank

\* What is read back are the ids of the readable lines.
LEMMA ReadBackIds ==
  ASSUME lines \in Seq(Line)
  PROVE  /\ ReadBack \in Seq(Nat)
         /\ Entries \in Seq(Line) /\ Len(ReadBack) = Len(Entries)
         /\ \A n \in 1 .. Len(Entries) : ReadBack[n] = Entries[n].id /\ \E i \in Readable : ReadBack[n] = lines[i].id
<1>1. Readable \in SUBSET (1 .. Len(lines))
  BY LenProperties DEF Readable
<1>2. /\ Entries \in Seq(Line) /\ Len(Entries) = Cardinality(Readable)
      /\ \A n \in 1 .. Cardinality(Readable) : Entries[n] = lines[Nth(Readable, n)] /\ Nth(Readable, n) \in Readable
  BY <1>1, AtProperties DEF Entries
<1>3. Len(Entries) \in Nat /\ \A n \in 1 .. Len(Entries) : Entries[n].id \in Nat
  <2>1. Len(Entries) \in Nat
    BY <1>2, LenProperties
  <2>2. ASSUME NEW n \in 1 .. Len(Entries) PROVE Entries[n].id \in Nat
    <3>1. Entries[n] \in Line
      BY <1>2, ElementOfSeq
    <3> QED BY <3>1 DEF Line
  <2> QED BY <2>1, <2>2
<1>4. ReadBack \in Seq(Nat)
  BY <1>3, IsASeq DEF ReadBack
<1>5. Len(ReadBack) = Len(Entries)
  <2>1. DOMAIN ReadBack = 1 .. Len(Entries)
    BY DEF ReadBack
  <2> QED BY <1>3, <1>4, <2>1, LenProperties
<1>6. \A n \in 1 .. Len(Entries) : ReadBack[n] = Entries[n].id
  BY DEF ReadBack
<1> QED BY <1>2, <1>4, <1>5, <1>6

\* A readable new line is read back last; an unreadable one is not.
LEMMA ReadBackAppended ==
  ASSUME lines \in Seq(Line), NEW l \in Line, lines' = Append(lines, l)
  PROVE  ReadBack' = IF l.ok THEN Append(ReadBack, l.id) ELSE ReadBack
<1>1. /\ Readable' = IF l.ok THEN Readable \cup {Len(lines) + 1} ELSE Readable
      /\ Readable \in SUBSET (1 .. Len(lines))
      /\ lines' \in Seq(Line)
  BY AppendedLines, AppendProperties DEF Readable
<1>2. CASE l.ok
  <2>1. Entries' = Append(Entries, l)
    BY <1>1, <1>2, AtAppendKept DEF Entries
  <2>2. /\ Entries \in Seq(Line) /\ ReadBack \in Seq(Nat) /\ Len(ReadBack) = Len(Entries)
        /\ \A n \in 1 .. Len(Entries) : ReadBack[n] = Entries[n].id
    BY ReadBackIds
  <2>3. ReadBack' = [n \in 1 .. Len(Entries') |-> Entries'[n].id]
    BY DEF ReadBack
  <2>4. /\ Len(Entries) \in Nat /\ Len(Append(Entries, l)) = Len(Entries) + 1
        /\ Append(Entries, l)[Len(Entries) + 1] = l
        /\ \A n \in 1 .. Len(Entries) : Append(Entries, l)[n] = Entries[n]
    BY <2>2, AppendProperties, LenProperties
  <2>5. l.id \in Nat
    BY DEF Line
  <2>6. /\ Append(ReadBack, l.id) \in Seq(Nat) /\ Len(Append(ReadBack, l.id)) = Len(Entries) + 1
        /\ Append(ReadBack, l.id)[Len(Entries) + 1] = l.id
        /\ \A n \in 1 .. Len(Entries) : Append(ReadBack, l.id)[n] = ReadBack[n]
    BY <2>2, <2>5, AppendProperties
  <2>7. DOMAIN Append(ReadBack, l.id) = 1 .. Len(Entries) + 1
    BY <2>6, LenProperties
  <2>8. \A n \in 1 .. Len(Entries) + 1 : ReadBack'[n] = Append(ReadBack, l.id)[n]
    <3> SUFFICES ASSUME NEW n \in 1 .. Len(Entries) + 1 PROVE ReadBack'[n] = Append(ReadBack, l.id)[n]
      OBVIOUS
    <3>1. ReadBack'[n] = Append(Entries, l)[n].id
      BY <2>1, <2>3, <2>4
    <3>2. CASE n = Len(Entries) + 1
      BY <2>4, <2>6, <3>1, <3>2
    <3>3. CASE n \in 1 .. Len(Entries)
      BY <2>2, <2>4, <2>6, <3>1, <3>3
    <3>4. n = Len(Entries) + 1 \/ n \in 1 .. Len(Entries)
      BY <2>4
    <3> QED BY <3>2, <3>3, <3>4
  <2>9. ReadBack' \in Seq(Nat) /\ Len(ReadBack') = Len(Entries) + 1
    <3>1. ReadBack' = [n \in 1 .. Len(Entries) + 1 |-> Append(Entries, l)[n].id]
      BY <2>1, <2>3, <2>4
    <3>2. ASSUME NEW n \in 1 .. Len(Entries) + 1 PROVE Append(Entries, l)[n].id \in Nat
      <4>1. Append(Entries, l)[n] \in Line
        BY <2>2, <2>4, AppendProperties, ElementOfSeq
      <4> QED BY <4>1 DEF Line
    <3>3. ReadBack' \in [1 .. Len(Entries) + 1 -> Nat] /\ DOMAIN ReadBack' = 1 .. Len(Entries) + 1
      BY <3>1, <3>2
    <3>4. ReadBack' \in Seq(Nat)
      BY <2>4, <3>3, IsASeq
    <3> QED BY <2>4, <3>3, <3>4, LenProperties
  <2> QED BY <1>2, <2>6, <2>8, <2>9, SeqEqual
<1>3. CASE ~l.ok
  <2>1. Entries' = Entries
    BY <1>1, <1>3, AtAppendDropped DEF Entries
  <2> QED BY <1>3, <2>1 DEF ReadBack
<1> QED BY <1>2, <1>3

\* Gluing text to the last line takes at most the last record away.
LEMMA ReadBackGlued ==
  ASSUME lines \in Seq(Line), writes \in Nat, lines' = [lines EXCEPT ![Len(lines)] = GluedLine]
  PROVE  ReadBack' \in {ReadBack, SubSeq(ReadBack, 1, Len(ReadBack) - 1)}
<1> DEFINE n == Len(lines)
<1>1. /\ Readable' = Readable \ {n} /\ Readable \in SUBSET (1 .. n)
      /\ \A i \in Readable' : lines'[i] = lines[i]
  BY GluedLines DEF Readable
<1>2. Entries' = At(lines, Readable \ {n})
  <2>1. Readable \ {n} \in SUBSET (1 .. Len(lines))
    BY <1>1
  <2>2. At(lines', Readable') = At(lines, Readable \ {n})
    BY <1>1, <2>1, AtAgrees
  <2> QED BY <2>2 DEF Entries
<1>3. CASE n \notin Readable
  <2>1. Entries' = Entries
    BY <1>1, <1>2, <1>3 DEF Entries
  <2> QED BY <2>1 DEF ReadBack
<1>4. CASE n \in Readable
  <2> DEFINE m == Len(Entries) - 1  r == SubSeq(ReadBack, 1, m)
  <2>1. Entries # <<>> /\ Entries' = SubSeq(Entries, 1, m)
    BY <1>1, <1>2, <1>4, AtWithoutLast DEF Entries
  <2>2. /\ Entries \in Seq(Line) /\ ReadBack \in Seq(Nat) /\ Len(ReadBack) = Len(Entries)
        /\ \A k \in 1 .. Len(Entries) : ReadBack[k] = Entries[k].id
    BY ReadBackIds
  <2>3. m \in Nat /\ Len(Entries) = m + 1
    BY <2>1, <2>2, EmptySeq
  <2>4. /\ Len(SubSeq(Entries, 1, m)) = m
        /\ \A k \in 1 .. m : SubSeq(Entries, 1, m)[k] = Entries[k]
    <3>1. \A k \in 1 .. m : Entries[k] \in Line
      BY <2>2, <2>3, ElementOfSeq
    <3> HIDE DEF m
    <3> QED BY <2>3, <3>1, SubSeqProperties
  <2>5. /\ r \in Seq(Nat) /\ Len(r) = m
        /\ \A k \in 1 .. m : r[k] = ReadBack[k]
    <3>1. \A k \in 1 .. m : ReadBack[k] \in Nat
      <4>1. \A k \in 1 .. m : k \in 1 .. Len(ReadBack)
        BY <2>2, <2>3
      <4> HIDE DEF m
      <4> QED BY <2>2, <4>1, ElementOfSeq
    <3> HIDE DEF m
    <3> QED BY <2>3, <3>1, SubSeqProperties
  <2>6. ReadBack' = [k \in 1 .. m |-> Entries[k].id]
    <3>1. ReadBack' = [k \in 1 .. Len(Entries') |-> Entries'[k].id]
      BY DEF ReadBack
    <3> HIDE DEF m
    <3> QED BY <2>1, <2>4, <3>1
  <2>7. r = [k \in 1 .. m |-> r[k]]
    BY <2>5, LenProperties
  <2>8. \A k \in 1 .. m : r[k] = Entries[k].id
    BY <2>2, <2>3, <2>5
  <2>9. ReadBack' = r
    <3> HIDE DEF r, m
    <3> QED BY <2>6, <2>7, <2>8
  <2> QED BY <2>2, <2>9
<1> QED BY <1>3, <1>4
-----------------------------------------------------------------------------
(***************************************************************************)
(* The file implements AuditLog.  Ids are the numbers of the writes, so a  *)
(* new record has a greater one than any before it; and no behaviour has   *)
(* more writes than calls, as a thread writes once in a call.              *)
(***************************************************************************)
IdInv ==
  /\ \A i \in DOMAIN lines : lines[i].id <= writes
  /\ \A id \in acked : id <= writes

Busy == {c \in Callers : pc[c] # "idle"}

BusyInv ==
  /\ IsFiniteSet(Busy)
  /\ writes + Cardinality(Busy) <= calls
  /\ calls <= MaxCalls

LEMMA IdStep == TypeOK /\ IdInv /\ [Next]_vars => IdInv'
<1> SUFFICES ASSUME TypeOK, IdInv, [Next]_vars PROVE IdInv'
  OBVIOUS
<1>t. lines \in Seq(Line) /\ writes \in Nat /\ open \in BOOLEAN /\ acked \subseteq Nat
  BY DEF TypeOK
<1>n. \A i \in DOMAIN lines : lines[i].id \in Nat
  BY <1>t, LineFields
<1>1. CASE UNCHANGED <<fileVars, acked>>
  BY <1>1 DEF fileVars, IdInv
<1>2. ASSUME NEW c \in Callers, NEW part \in Part, Lands(c, part) PROVE IdInv'
  <2>1. Land(entry[c], part) /\ entry[c] \in Draft /\ acked' \subseteq acked \cup {writes + 1}
    BY <1>2 DEF Lands, TypeOK
  <2>2. writes' = writes + 1
    BY <2>1 DEF Land
  <2>3. \A id \in acked' : id <= writes'
    BY <1>t, <2>1, <2>2 DEF IdInv
  <2>4. \A i \in DOMAIN lines' : lines'[i].id <= writes'
    <3>1. CASE UNCHANGED lines
      BY <1>t, <1>n, <2>2, <3>1 DEF IdInv
    <3>2. CASE lines' = Append(lines, NewLine(entry[c], part))
      <4> DEFINE l == NewLine(entry[c], part)
      <4>1. l \in Line /\ l.id = writes + 1
        BY <1>t, <2>1, NewLineFields
      <4>2. /\ DOMAIN lines' = 1 .. Len(lines) + 1 /\ DOMAIN lines = 1 .. Len(lines) /\ Len(lines) \in Nat
            /\ \A i \in DOMAIN lines : lines'[i] = lines[i]
            /\ lines'[Len(lines) + 1] = l
        <5> HIDE DEF l
        <5> QED BY <1>t, <3>2, <4>1, AppendedLines DEF l
      <4> HIDE DEF l
      <4>3. \A i \in DOMAIN lines' : i \in DOMAIN lines \/ i = Len(lines) + 1
        BY <4>2
      <4> QED BY <1>t, <1>n, <2>2, <4>1, <4>2, <4>3 DEF IdInv
    <3>3. CASE lines' = [lines EXCEPT ![Len(lines)] = GluedLine]
      <4>1. /\ DOMAIN lines' = DOMAIN lines
            /\ \A i \in DOMAIN lines : lines'[i] = IF i = Len(lines) THEN GluedLine ELSE lines[i]
        BY <1>t, <3>3, GluedLines
      <4>2. GluedLine.id = writes + 1
        BY DEF GluedLine
      <4> QED BY <1>t, <1>n, <2>2, <4>1, <4>2 DEF IdInv
    <3> QED BY <1>t, <2>1, <3>1, <3>2, <3>3, LandOutcome
  <2> QED BY <2>3, <2>4 DEF IdInv
<1> QED BY <1>1, <1>2, StepLands

\* A thread that leaves record() is one fewer inside.
LEMMA OneFewerBusy ==
  ASSUME IsFiniteSet(Busy), NEW c \in Busy
  PROVE  /\ IsFiniteSet(Busy \ {c}) /\ Cardinality(Busy \ {c}) = Cardinality(Busy) - 1
         /\ Cardinality(Busy) \in Nat /\ Cardinality(Busy) >= 1
<1>1. Cardinality(Busy) \in Nat /\ Cardinality(Busy \ {c}) \in Nat
  BY FS_CardinalityType, FS_RemoveElement
<1>2. Cardinality(Busy \ {c}) = Cardinality(Busy) - 1 /\ IsFiniteSet(Busy \ {c})
  BY FS_RemoveElement
<1> QED BY <1>1, <1>2

LEMMA BusyStep == TypeOK /\ BusyInv /\ [Next]_vars => BusyInv'
<1> SUFFICES ASSUME TypeOK, BusyInv, [Next]_vars PROVE BusyInv'
  OBVIOUS
<1>t. writes \in Nat /\ calls \in Nat /\ Cardinality(Busy) \in Nat /\ MaxCalls \in Nat
  BY BoundsAssumption, FS_CardinalityType DEF TypeOK, BusyInv
<1>0. IsFiniteSet(Busy) /\ writes + Cardinality(Busy) <= calls /\ calls <= MaxCalls
  BY DEF BusyInv
<1>1. ASSUME NEW c \in Callers, Call(c) PROVE BusyInv'
  <2>1. Busy' = Busy \cup {c} /\ c \notin Busy
    BY <1>1 DEF Call, Busy, TypeOK
  <2>2. IsFiniteSet(Busy \cup {c}) /\ Cardinality(Busy \cup {c}) = Cardinality(Busy) + 1
    BY <1>0, <2>1, FS_AddElement
  <2>3. calls < MaxCalls /\ calls' = calls + 1 /\ writes' = writes
    BY <1>1 DEF Call, fileVars
  <2> QED BY <1>t, <1>0, <2>1, <2>2, <2>3 DEF BusyInv
<1>2. ASSUME NEW c \in Callers, Begin(c) PROVE BusyInv'
  <2>1. Busy' = Busy /\ UNCHANGED <<writes, calls>>
    BY <1>2 DEF Begin, fileVars, Busy, TypeOK
  <2> QED BY <1>0, <2>1 DEF BusyInv
<1>3. ASSUME NEW c \in Callers, BeginRaises(c) PROVE BusyInv'
  <2>1. Busy' = Busy \ {c} /\ c \in Busy /\ UNCHANGED <<writes, calls>>
    BY <1>3 DEF BeginRaises, fileVars, Busy, TypeOK
  <2> QED BY <1>t, <1>0, <2>1, OneFewerBusy DEF BusyInv
<1>4. ASSUME NEW c \in Callers, Write(c) \/ WriteRaises(c) PROVE BusyInv'
  <2>1. Busy' = Busy \ {c} /\ c \in Busy
    BY <1>4 DEF Write, WriteRaises, Release, Busy, TypeOK
  <2>2. writes' = writes + 1 /\ calls' = calls
    BY <1>4 DEF Write, WriteRaises, Land
  <2> QED BY <1>t, <1>0, <2>1, <2>2, OneFewerBusy DEF BusyInv
<1>5. CASE Restart
  <2>1. Busy' = {} /\ calls' = calls
    BY <1>5 DEF Restart, Busy
  <2>2. writes' <= calls
    <3>1. CASE UNCHANGED fileVars
      BY <1>t, <1>0, <3>1 DEF fileVars
    <3>2. ASSUME NEW c \in Callers, NEW part \in Part, pc[c] = "writing", Land(entry[c], part)
          PROVE  writes' <= calls
      <4>1. c \in Busy /\ writes' = writes + 1
        BY <3>2 DEF Busy, Land
      <4>2. Cardinality(Busy) >= 1
        BY <1>0, <4>1, OneFewerBusy
      <4> QED BY <1>t, <1>0, <4>1, <4>2
    <3> QED BY <1>5, <3>1, <3>2 DEF Restart
  <2>3. writes' \in Nat
    BY NextType DEF TypeOK
  <2> QED BY <1>t, <1>0, <2>1, <2>2, <2>3, FS_EmptySet DEF BusyInv
<1>6. CASE UNCHANGED vars
  <2>1. Busy' = Busy /\ UNCHANGED <<writes, calls>>
    BY <1>6 DEF vars, Busy
  <2> QED BY <1>0, <2>1 DEF BusyInv
<1> QED BY <1>1, <1>2, <1>3, <1>4, <1>5, <1>6 DEF Next

\* The id of the next write is fresh in the log read back.
LEMMA NextIdIsFresh ==
  ASSUME TypeOK, IdInv, BusyInv, NEW c \in Callers, pc[c] = "writing"
  PROVE  writes + 1 \in 1 .. MaxCalls /\ Log!IsFresh(writes + 1)
<1>t. writes \in Nat /\ calls \in Nat /\ MaxCalls \in Nat /\ lines \in Seq(Line)
  BY BoundsAssumption DEF TypeOK
<1>1. writes + 1 \in 1 .. MaxCalls
  <2>1. c \in Busy /\ IsFiniteSet(Busy) /\ writes + Cardinality(Busy) <= calls /\ calls <= MaxCalls
    BY DEF Busy, BusyInv
  <2>2. Cardinality(Busy) \in Nat /\ Cardinality(Busy) >= 1
    BY <2>1, OneFewerBusy
  <2> QED BY <1>t, <2>1, <2>2
<1>2. \A n \in DOMAIN ReadBack : ReadBack[n] \in Nat /\ ReadBack[n] <= writes
  <2>1. ReadBack \in Seq(Nat) /\ DOMAIN ReadBack = 1 .. Len(Entries)
    BY <1>t, ReadBackIds DEF ReadBack
  <2>2. \A n \in 1 .. Len(Entries) : \E i \in Readable : ReadBack[n] = lines[i].id
    BY <1>t, ReadBackIds
  <2>3. \A i \in Readable : lines[i].id \in Nat /\ lines[i].id <= writes
    BY <1>t, LineFields DEF Readable, IdInv
  <2> QED BY <2>1, <2>2, <2>3
<1>3. \A n \in DOMAIN ReadBack : ReadBack[n] < writes + 1
  BY <1>t, <1>2
<1> QED BY <1>1, <1>3 DEF Log!IsFresh

\* Every step of the file is a step of the log, or changes nothing there.
LEMMA LogStep ==
  ASSUME TypeOK, IdInv, BusyInv, [Next]_vars
  PROVE  [Log!Next]_(Log!vars)
<1>t. lines \in Seq(Line) /\ writes \in Nat /\ open \in BOOLEAN
  BY DEF TypeOK
<1>1. CASE UNCHANGED <<fileVars, acked>>
  <2>1. UNCHANGED <<lines, open, tears, acked>>
    BY <1>1 DEF fileVars
  <2> QED BY <2>1, SameReadBack DEF Log!vars
<1>2. ASSUME NEW c \in Callers, NEW part \in Part, Lands(c, part)
      PROVE  Log!Next \/ UNCHANGED Log!vars
  <2> DEFINE id == writes + 1
  <2>1. id \in 1 .. MaxCalls /\ Log!IsFresh(id)
    BY <1>2, NextIdIsFresh DEF Lands
  <2>2. entry[c] \in Draft /\ Land(entry[c], part)
    BY <1>2 DEF TypeOK, Lands
  <2>3. UNCHANGED acked \/ (part = "whole" /\ acked' = acked \cup {id})
    BY <1>2 DEF Lands
  <2>4. CASE part = "nothing"
    <3>1. UNCHANGED <<lines, open, tears, acked>>
      BY <1>t, <2>2, <2>3, <2>4, LandOutcome
    <3> QED BY <3>1, SameReadBack DEF Log!vars
  <2>5. CASE part # "nothing" /\ ~open
    <3> DEFINE l == NewLine(entry[c], part)
    <3>1. /\ open' = (part # "whole")
          /\ tears' = IF part = "whole" THEN tears ELSE tears + 1
          /\ lines' = Append(lines, l)
      BY <1>t, <2>2, <2>5, LandOutcome
    <3>2. l \in Line /\ l.id = id /\ l.ok = (part # "fragment")
      BY <1>t, <2>2, NewLineFields
    <3>3. ReadBack' = IF part # "fragment" THEN Append(ReadBack, id) ELSE ReadBack
      <4> HIDE DEF l
      <4> QED BY <1>t, <3>1, <3>2, ReadBackAppended
    <3>w. ASSUME part = "whole" PROVE open' = open /\ tears' = tears
      <4>1. open = FALSE
        BY <1>t, <2>5, Zenon
      <4>2. open' = FALSE
        BY <3>1, <3>w, Zenon
      <4> QED BY <3>1, <3>w, <4>1, <4>2
    <3>4. CASE part = "fragment"
      <4>1. Log!Tear
        BY <2>3, <2>5, <3>1, <3>3, <3>4 DEF Log!Tear
      <4> QED BY <4>1 DEF Log!Next
    <3>5. CASE part # "fragment" /\ UNCHANGED acked
      <4>1. Log!RecordUnacknowledged(id)
        <5>1. CASE part = "whole"
          <6> HIDE DEF id
          <6> QED BY <2>1, <2>5, <3>3, <3>5, <3>w, <5>1 DEF Log!RecordUnacknowledged
        <5>2. CASE part # "whole"
          BY <2>1, <2>5, <3>1, <3>3, <3>5, <5>2 DEF Log!RecordUnacknowledged
        <5> QED BY <5>1, <5>2
      <4> QED BY <2>1, <4>1 DEF Log!Next
    <3>6. CASE part = "whole" /\ acked' = acked \cup {id}
      <4>1. open' = open /\ tears' = tears /\ ReadBack' = Append(ReadBack, id)
        <5>1. ReadBack' = Append(ReadBack, id)
          BY <3>3, <3>6
        <5> QED BY <3>6, <3>w, <5>1
      <4> HIDE DEF id
      <4>2. Log!Record(id)
        BY <2>1, <2>5, <3>6, <4>1 DEF Log!Record
      <4> QED BY <2>1, <4>2 DEF Log!Next
    <3> QED BY <2>3, <3>4, <3>5, <3>6
  <2>6. CASE part # "nothing" /\ open
    <3>1. /\ open' = (part # "whole")
          /\ tears' = IF part = "whole" THEN tears ELSE tears + 1
          /\ lines' = [lines EXCEPT ![Len(lines)] = GluedLine]
      BY <1>t, <2>2, <2>6, LandOutcome
    <3>2. ReadBack' \in {ReadBack} \cup {SubSeq(ReadBack, 1, Len(ReadBack) - 1)}
      BY <1>t, <3>1, ReadBackGlued
    <3>3. \/ acked' = acked \cup {id} /\ open' = FALSE /\ UNCHANGED tears
          \/ UNCHANGED acked /\ open' = FALSE /\ UNCHANGED tears
          \/ UNCHANGED acked /\ open' = TRUE /\ tears' = tears + 1
      BY <2>3, <3>1
    <3>4. Log!RecordGlued(id)
      BY <2>6, <3>2, <3>3 DEF Log!RecordGlued
    <3> QED BY <2>1, <3>4 DEF Log!Next
  <2> QED BY <1>t, <2>4, <2>5, <2>6
<1> QED BY <1>1, <1>2, StepLands

\* An empty file is an empty log.
LEMMA LogInit == Init => Log!Init
<1> SUFFICES ASSUME Init PROVE Log!Init
  OBVIOUS
<1>1. lines = <<>> /\ open = FALSE /\ acked = {} /\ tears = 0
  BY DEF Init
<1>2. ReadBack = <<>>
  <2>1. lines \in Seq(Line) /\ Readable = {}
    BY <1>1 DEF Readable
  <2>2. Len(Entries) = 0
    <3>1. Readable \in SUBSET (1 .. Len(lines))
      BY <2>1
    <3> QED BY <2>1, <3>1, AtProperties, FS_EmptySet DEF Entries
  <2>3. ReadBack \in Seq(Nat) /\ Len(ReadBack) = 0
    BY <2>1, <2>2, ReadBackIds
  <2> QED BY <2>3, EmptySeq
<1> QED BY <1>1, <1>2 DEF Log!Init

\* The file, written by any number of threads through failed calls, torn
\* writes and restarts, is the log that AuditLog promises: what a reader
\* gets back only grows at its end, but for the last record on an
\* unterminated line, and what it loses there is counted.
THEOREM FileImplementsLog == Spec => ImplementsAuditLog
<1>1. Init => TypeOK /\ IdInv /\ BusyInv
  <2> SUFFICES ASSUME Init PROVE IdInv /\ BusyInv
    BY InitType
  <2>1. DOMAIN lines = {} /\ acked = {} /\ Busy = {} /\ writes = 0 /\ calls = 0
    BY DEF Init, Busy
  <2> QED BY <2>1, FS_EmptySet, BoundsAssumption DEF IdInv, BusyInv
<1>2. TypeOK /\ IdInv /\ BusyInv /\ [Next]_vars => (TypeOK /\ IdInv /\ BusyInv)'
  BY NextType, IdStep, BusyStep
<1>3. TypeOK /\ IdInv /\ BusyInv /\ [Next]_vars => [Log!Next]_(Log!vars)
  BY LogStep
<1> QED BY <1>1, <1>2, <1>3, LogInit, PTL DEF Spec, ImplementsAuditLog, Log!Spec
-----------------------------------------------------------------------------
(***************************************************************************)
(* The damage.  A torn write is paid for in advance: while the file ends   *)
(* in an open line, one more answered record may be lost than has been so  *)
(* far, and while it ends in a line that is open or does not parse, one    *)
(* more link may break.  The record on an open line itself was never       *)
(* answered.                                                               *)
(***************************************************************************)
Lost == acked \ ReadableIds

AckInv ==
  /\ open => lines # <<>> /\ lines[Len(lines)].id \notin acked
  /\ Cardinality(Lost) + (IF open THEN 1 ELSE 0) <= tears

Frayed == open \/ (lines # <<>> /\ ~lines[Len(lines)].ok)

LinkInv == Cardinality(BrokenLinks) + (IF Frayed THEN 1 ELSE 0) <= tears

\* A set of numbers up to n is finite, and a subset is no larger.
LEMMA BoundedIsFinite ==
  ASSUME NEW n \in Nat, NEW S \in SUBSET (0 .. n)
  PROVE  IsFiniteSet(S) /\ Cardinality(S) \in Nat
<1>1. IsFiniteSet(0 .. n)
  BY FS_Interval
<1>2. IsFiniteSet(S)
  BY <1>1, FS_Subset
<1> QED BY <1>2, FS_CardinalityType

LEMMA LostIsFinite ==
  ASSUME TypeOK, IdInv
  PROVE  IsFiniteSet(Lost) /\ Cardinality(Lost) \in Nat
<1>1. writes \in Nat /\ Lost \subseteq Nat /\ \A id \in Lost : id <= writes
  BY DEF TypeOK, IdInv, Lost
<1>2. Lost \in SUBSET (0 .. writes)
  BY <1>1
<1> QED BY <1>1, <1>2, BoundedIsFinite

LEMMA BrokenIsFinite ==
  ASSUME TypeOK
  PROVE  IsFiniteSet(BrokenLinks) /\ Cardinality(BrokenLinks) \in Nat
<1>1. Len(lines) \in Nat /\ DOMAIN lines = 1 .. Len(lines)
  BY LenProperties DEF TypeOK
<1>2. BrokenLinks \in SUBSET (0 .. Len(lines))
  BY <1>1 DEF BrokenLinks
<1> QED BY <1>1, <1>2, BoundedIsFinite

\* What the predecessor of a line is depends on the lines before it only.
LEMMA DigestAgrees ==
  ASSUME NEW i \in Nat, \A j \in 1 .. (i - 1) : lines'[j] = lines[j]
  PROVE  DigestBefore(i)' = DigestBefore(i)
<1>1. ReadableBefore(i)' = ReadableBefore(i)
  BY DEF ReadableBefore
<1>2. CASE ReadableBefore(i) = {}
  BY <1>1, <1>2 DEF DigestBefore
<1>3. CASE ReadableBefore(i) # {}
  <2>1. LastOf(ReadableBefore(i)) \in ReadableBefore(i)
    <3>1. CASE i = 0
      BY <1>3, <3>1 DEF ReadableBefore
    <3>2. CASE i # 0
      <4>1. i - 1 \in Nat /\ ReadableBefore(i) \in SUBSET (1 .. (i - 1))
        BY <3>2 DEF ReadableBefore
      <4> QED BY <1>3, <4>1, LastOfIsMax
    <3> QED BY <3>1, <3>2
  <2>2. lines'[LastOf(ReadableBefore(i))] = lines[LastOf(ReadableBefore(i))]
    BY <2>1 DEF ReadableBefore
  <2> QED BY <1>1, <1>3, <2>2 DEF DigestBefore
<1> QED BY <1>2, <1>3

\* After a readable last line, its digest is that of the line to link to.
LEMMA DigestOfLast ==
  ASSUME lines \in Seq(Line), ~Frayed
  PROVE  DigestBefore(Len(lines) + 1) = PreviousDigest
<1> DEFINE n == Len(lines)
<1>1. n \in Nat /\ n + 1 - 1 = n
  BY LenProperties
<1>2. ReadableBefore(n + 1) = {j \in 1 .. n : lines[j].ok}
  BY <1>1 DEF ReadableBefore
<1>3. CASE lines = <<>>
  <2>1. n = 0
    BY <1>3
  <2>2. ReadableBefore(n + 1) = {}
    BY <1>2, <2>1
  <2> QED BY <1>3, <2>2 DEF DigestBefore, PreviousDigest
<1>4. CASE lines # <<>>
  <2>1. n \in 1 .. n
    BY <1>1, <1>4, EmptySeq
  <2>2. n \in ReadableBefore(n + 1)
    BY <1>2, <1>4, <2>1 DEF Frayed
  <2>3. LastOf(ReadableBefore(n + 1)) = n
    <3>1. ReadableBefore(n + 1) \in SUBSET (1 .. n)
      BY <1>2
    <3>2. LastOf(ReadableBefore(n + 1)) \in 1 .. n /\ n <= LastOf(ReadableBefore(n + 1))
      <4> HIDE DEF n
      <4> QED BY <1>1, <2>2, <3>1, LastOfIsMax
    <3> QED BY <1>1, <3>2
  <2> QED BY <1>4, <2>2, <2>3 DEF DigestBefore, PreviousDigest
<1> QED BY <1>3, <1>4

\* A write adds to the lost records, or to the broken links, at most what
\* the open or unreadable last line allows for.
LEMMA LandKeepsAcks ==
  ASSUME TypeOK, IdInv, AckInv, NEW c \in Callers, NEW part \in Part, Lands(c, part)
  PROVE  AckInv'
<1> DEFINE id == writes + 1
<1>t. lines \in Seq(Line) /\ writes \in Nat /\ open \in BOOLEAN /\ tears \in Nat /\ acked \subseteq Nat
  BY DEF TypeOK
<1>l. IsFiniteSet(Lost) /\ Cardinality(Lost) \in Nat
  BY LostIsFinite
<1>d. entry[c] \in Draft /\ Land(entry[c], part)
  BY DEF TypeOK, Lands
<1>k. UNCHANGED acked \/ (part = "whole" /\ acked' = acked \cup {id})
  BY DEF Lands
<1>a. /\ open => lines # <<>> /\ lines[Len(lines)].id \notin acked
      /\ Cardinality(Lost) + (IF open THEN 1 ELSE 0) <= tears
  BY DEF AckInv
<1>i. id \notin acked
  BY <1>t DEF IdInv
<1>s. ASSUME NEW S \in SUBSET Lost PROVE Cardinality(S) \in Nat /\ Cardinality(S) <= Cardinality(Lost)
  BY <1>l, FS_Subset, FS_CardinalityType
<1>1. CASE part = "nothing"
  <2>1. UNCHANGED <<lines, open, tears, acked>>
    BY <1>1, <1>t, <1>d, <1>k, LandOutcome
  <2> QED BY <2>1, <1>a DEF AckInv, Lost, ReadableIds, Readable
<1>2. CASE part # "nothing" /\ ~open
  <2> DEFINE l == NewLine(entry[c], part)
  <2>1. /\ open' = (part # "whole")
        /\ tears' = IF part = "whole" THEN tears ELSE tears + 1
        /\ lines' = Append(lines, l)
    BY <1>t, <1>d, <1>2, LandOutcome
  <2>2. l \in Line /\ l.id = id /\ l.ok = (part # "fragment")
    BY <1>t, <1>d, NewLineFields
  <2>3. /\ Len(lines) \in Nat /\ Len(lines') = Len(lines) + 1
        /\ \A i \in DOMAIN lines : lines'[i] = lines[i]
        /\ lines'[Len(lines) + 1] = l
        /\ Readable' = IF l.ok THEN Readable \cup {Len(lines) + 1} ELSE Readable
    <3> HIDE DEF l
    <3> QED BY <1>t, <2>1, <2>2, AppendedLines
  <2> HIDE DEF l
  <2>4. Lost' \subseteq Lost
    <3>1. \A i \in Readable : i \in Readable' /\ lines'[i].id = lines[i].id
      BY <2>3 DEF Readable
    <3>2. ReadableIds \subseteq ReadableIds'
      BY <3>1 DEF ReadableIds
    <3>3. part = "whole" => id \in ReadableIds'
      <4>1. part = "whole" => Len(lines) + 1 \in Readable'
        BY <2>2, <2>3
      <4> QED BY <2>2, <2>3, <4>1 DEF ReadableIds
    <3> QED BY <1>k, <3>2, <3>3 DEF Lost
  <2>5. open' => lines' # <<>> /\ lines'[Len(lines')].id \notin acked'
    <3>1. open' => UNCHANGED acked
      BY <1>k, <2>1
    <3>2. lines'[Len(lines')].id = id
      BY <2>2, <2>3
    <3>3. lines' # <<>>
      BY <2>3
    <3> QED BY <1>i, <3>1, <3>2, <3>3
  <2>6. Cardinality(Lost') \in Nat /\ Cardinality(Lost') <= Cardinality(Lost)
    BY <2>4, <1>s
  <2>7. Cardinality(Lost)' + (IF open' THEN 1 ELSE 0) <= tears'
    BY <1>t, <1>l, <1>a, <1>2, <2>1, <2>6
  <2> QED BY <2>5, <2>7 DEF AckInv
<1>3. CASE part # "nothing" /\ open
  <2> DEFINE n == Len(lines)
  <2>1. /\ open' = (part # "whole")
        /\ tears' = IF part = "whole" THEN tears ELSE tears + 1
        /\ lines' = [lines EXCEPT ![n] = GluedLine]
    BY <1>t, <1>d, <1>3, LandOutcome
  <2>2. /\ n \in Nat /\ Len(lines') = n /\ DOMAIN lines = 1 .. n
        /\ \A i \in DOMAIN lines : lines'[i] = IF i = n THEN GluedLine ELSE lines[i]
        /\ Readable' = Readable \ {n}
    BY <1>t, <2>1, GluedLines
  <2>3. lines # <<>> /\ n \in DOMAIN lines /\ lines[n].id \notin acked
    BY <1>t, <1>a, <1>3, <2>2, EmptySeq
  <2> HIDE DEF n
  <2>4. Lost' \subseteq Lost \cup (acked' \ acked)
    <3>1. ASSUME NEW a \in acked, a \in ReadableIds PROVE a \in ReadableIds'
      <4>1. PICK i \in Readable : a = lines[i].id
        BY <3>1 DEF ReadableIds
      <4>2. i \in Readable' /\ lines'[i] = lines[i]
        BY <2>2, <2>3, <4>1 DEF Readable
      <4> QED BY <4>1, <4>2 DEF ReadableIds
    <3> QED BY <3>1 DEF Lost
  <2>5. open' => lines' # <<>> /\ lines'[Len(lines')].id \notin acked'
    <3>1. open' => UNCHANGED acked
      BY <1>k, <2>1
    <3>2. lines'[Len(lines')].id = id
      BY <2>2, <2>3 DEF GluedLine
    <3>3. lines' # <<>>
      BY <2>2, <2>3
    <3> QED BY <1>i, <3>1, <3>2, <3>3
  <2>6. CASE UNCHANGED acked
    <3>1. Lost' \subseteq Lost
      BY <2>4, <2>6
    <3>2. Cardinality(Lost') \in Nat /\ Cardinality(Lost') <= Cardinality(Lost)
      BY <3>1, <1>s
    <3>3. Cardinality(Lost)' + (IF open' THEN 1 ELSE 0) <= tears'
      BY <1>t, <1>l, <1>a, <1>3, <2>1, <3>2
    <3> QED BY <2>5, <3>3 DEF AckInv
  <2>7. CASE part = "whole" /\ acked' = acked \cup {id}
    <3>1. Lost' \subseteq Lost \cup {id}
      BY <2>4, <2>7
    <3>2. id \notin Lost
      BY <1>i DEF Lost
    <3>3. IsFiniteSet(Lost \cup {id}) /\ Cardinality(Lost \cup {id}) = Cardinality(Lost) + 1
      BY <1>l, <3>2, FS_AddElement
    <3>4. Cardinality(Lost') \in Nat /\ Cardinality(Lost') <= Cardinality(Lost) + 1
      BY <3>1, <3>3, FS_Subset, FS_CardinalityType
    <3>5. ~open'
      BY <2>1, <2>7
    <3>6. Cardinality(Lost)' + (IF open' THEN 1 ELSE 0) <= tears'
      BY <1>t, <1>l, <1>a, <1>3, <2>1, <2>7, <3>4, <3>5
    <3> QED BY <2>5, <3>6 DEF AckInv
  <2> QED BY <1>k, <2>6, <2>7
<1> QED BY <1>t, <1>1, <1>2, <1>3

LEMMA LandKeepsLinks ==
  ASSUME TypeOK, HandInv, LinkInv, NEW c \in Callers, NEW part \in Part, Lands(c, part)
  PROVE  LinkInv'
<1> DEFINE n == Len(lines)
<1>t. lines \in Seq(Line) /\ writes \in Nat /\ open \in BOOLEAN /\ tears \in Nat
  BY DEF TypeOK
<1>b. IsFiniteSet(BrokenLinks) /\ Cardinality(BrokenLinks) \in Nat
  BY BrokenIsFinite
<1>d. entry[c] \in Draft /\ Land(entry[c], part) /\ entry[c].prev = PreviousDigest
  BY DEF TypeOK, Lands, HandInv
<1>i. Cardinality(BrokenLinks) + (IF Frayed THEN 1 ELSE 0) <= tears
  BY DEF LinkInv
<1>s. ASSUME NEW S \in SUBSET BrokenLinks
      PROVE  Cardinality(S) \in Nat /\ Cardinality(S) <= Cardinality(BrokenLinks)
  BY <1>b, FS_Subset, FS_CardinalityType
<1>1. CASE part = "nothing"
  <2>1. UNCHANGED <<lines, open, tears>>
    BY <1>1, <1>t, <1>d, LandOutcome
  <2> QED BY <2>1, <1>i DEF LinkInv, BrokenLinks, Frayed, DigestBefore, ReadableBefore
<1>2. CASE part # "nothing" /\ ~open
  <2> DEFINE l == NewLine(entry[c], part)
  <2>1. /\ open' = (part # "whole")
        /\ tears' = IF part = "whole" THEN tears ELSE tears + 1
        /\ lines' = Append(lines, l)
    BY <1>t, <1>d, <1>2, LandOutcome
  <2>2. l \in Line /\ l.ok = (part # "fragment") /\ l.prev = PreviousDigest
    BY <1>t, <1>d, NewLineFields
  <2>3. /\ n \in Nat /\ Len(lines') = n + 1 /\ DOMAIN lines = 1 .. n /\ DOMAIN lines' = 1 .. n + 1
        /\ \A i \in DOMAIN lines : lines'[i] = lines[i]
        /\ lines'[n + 1] = l
    <3> HIDE DEF l
    <3> QED BY <1>t, <2>1, <2>2, AppendedLines
  <2> HIDE DEF l
  <2>4. \A i \in 1 .. n + 1 : DigestBefore(i)' = DigestBefore(i)
    <3> SUFFICES ASSUME NEW i \in 1 .. n + 1 PROVE DigestBefore(i)' = DigestBefore(i)
      OBVIOUS
    <3>1. i \in Nat /\ \A j \in 1 .. (i - 1) : lines'[j] = lines[j]
      BY <2>3
    <3> QED BY <3>1, DigestAgrees
  <2>5. BrokenLinks' \subseteq BrokenLinks \cup {n + 1}
    BY <2>3, <2>4 DEF BrokenLinks
  <2>6. ~Frayed => n + 1 \notin BrokenLinks'
    <3> SUFFICES ASSUME NEW k \in 1 .. n + 1, k = n + 1, ~Frayed, k \in BrokenLinks' PROVE FALSE
      BY <2>3
    <3>1. DigestBefore(k) = PreviousDigest
      BY <1>t, DigestOfLast
    <3>2. lines'[k].prev # DigestBefore(k)'
      BY DEF BrokenLinks
    <3> QED BY <2>2, <2>3, <2>4, <3>1, <3>2
  <2>7. Frayed' => part # "whole"
    <3>1. CASE part = "whole"
      <4>1. l.ok /\ ~open'
        BY <2>1, <2>2, <3>1
      <4> QED BY <2>3, <4>1 DEF Frayed
    <3> QED BY <3>1
  <2>8. CASE Frayed
    <3>1. n + 1 \notin BrokenLinks
      BY <2>3 DEF BrokenLinks
    <3>2. IsFiniteSet(BrokenLinks \cup {n + 1}) /\ Cardinality(BrokenLinks \cup {n + 1}) = Cardinality(BrokenLinks) + 1
      BY <1>b, <3>1, FS_AddElement
    <3>3. Cardinality(BrokenLinks') \in Nat /\ Cardinality(BrokenLinks') <= Cardinality(BrokenLinks) + 1
      BY <2>5, <3>2, FS_Subset, FS_CardinalityType
    <3>4. Cardinality(BrokenLinks)' + (IF Frayed' THEN 1 ELSE 0) <= tears'
      BY <1>t, <1>b, <1>i, <2>1, <2>7, <2>8, <3>3
    <3> QED BY <3>4 DEF LinkInv
  <2>9. CASE ~Frayed
    <3>1. Cardinality(BrokenLinks') \in Nat /\ Cardinality(BrokenLinks') <= Cardinality(BrokenLinks)
      BY <1>s, <2>5, <2>6, <2>9
    <3>2. Cardinality(BrokenLinks)' + (IF Frayed' THEN 1 ELSE 0) <= tears'
      BY <1>t, <1>b, <1>i, <2>1, <2>7, <2>9, <3>1
    <3> QED BY <3>2 DEF LinkInv
  <2> QED BY <2>8, <2>9
<1>3. CASE part # "nothing" /\ open
  <2>1. /\ tears' = IF part = "whole" THEN tears ELSE tears + 1
        /\ lines' = [lines EXCEPT ![n] = GluedLine]
    BY <1>t, <1>d, <1>3, LandOutcome
  <2>2. /\ n \in Nat /\ DOMAIN lines' = DOMAIN lines /\ DOMAIN lines = 1 .. n
        /\ \A i \in DOMAIN lines : lines'[i] = IF i = n THEN GluedLine ELSE lines[i]
    BY <1>t, <2>1, GluedLines
  <2> HIDE DEF n
  <2>3. \A i \in 1 .. n : DigestBefore(i)' = DigestBefore(i)
    <3> SUFFICES ASSUME NEW i \in 1 .. n PROVE DigestBefore(i)' = DigestBefore(i)
      OBVIOUS
    <3>1. i \in Nat /\ \A j \in 1 .. (i - 1) : lines'[j] = lines[j]
      BY <2>2
    <3> QED BY <3>1, DigestAgrees
  <2>4. ~GluedLine.ok
    BY DEF GluedLine
  <2>5. BrokenLinks' \subseteq BrokenLinks
    BY <2>2, <2>3, <2>4 DEF BrokenLinks
  <2>6. Cardinality(BrokenLinks') \in Nat /\ Cardinality(BrokenLinks') <= Cardinality(BrokenLinks)
    BY <1>s, <2>5
  <2>7. Frayed
    BY <1>3 DEF Frayed
  <2>8. Cardinality(BrokenLinks)' + (IF Frayed' THEN 1 ELSE 0) <= tears'
    BY <1>t, <1>b, <1>i, <2>1, <2>6, <2>7
  <2> QED BY <2>8 DEF LinkInv
<1> QED BY <1>t, <1>1, <1>2, <1>3

LEMMA DamageStep ==
  TypeOK /\ HandInv /\ IdInv /\ AckInv /\ LinkInv /\ [Next]_vars => (AckInv /\ LinkInv)'
<1> SUFFICES ASSUME TypeOK, HandInv, IdInv, AckInv, LinkInv, [Next]_vars PROVE (AckInv /\ LinkInv)'
  OBVIOUS
<1>1. CASE UNCHANGED <<fileVars, acked>>
  <2>1. UNCHANGED <<lines, open, tears, acked>>
    BY <1>1 DEF fileVars
  <2>2. AckInv'
    BY <2>1 DEF AckInv, Lost, ReadableIds, Readable
  <2>3. LinkInv'
    BY <2>1 DEF LinkInv, BrokenLinks, Frayed, DigestBefore, ReadableBefore
  <2> QED BY <2>2, <2>3
<1>2. ASSUME NEW c \in Callers, NEW part \in Part, Lands(c, part) PROVE (AckInv /\ LinkInv)'
  BY <1>2, LandKeepsAcks, LandKeepsLinks
<1> QED BY <1>1, <1>2, StepLands

\* However many calls fail and however often the process dies, verify_all()
\* reports at most one broken link for each write that was cut short, and no
\* more answered records than that are missing from entries().
THEOREM DamageStaysBounded == Spec => []DamageBounded
<1> DEFINE Inv == TypeOK /\ LockInv /\ HandInv /\ NumberInv /\ IdInv /\ AckInv /\ LinkInv
<1>1. Init => Inv
  <2> SUFFICES ASSUME Init PROVE IdInv /\ AckInv /\ LinkInv
    BY InitType, NumberInit
  <2>1. DOMAIN lines = {} /\ acked = {} /\ ~open /\ tears = 0 /\ lines = <<>>
    BY DEF Init
  <2>2. Lost = {} /\ BrokenLinks = {} /\ ~Frayed
    BY <2>1 DEF Lost, BrokenLinks, Frayed
  <2> QED BY <2>1, <2>2, FS_EmptySet DEF IdInv, AckInv, LinkInv
<1>2. Inv /\ [Next]_vars => Inv'
  BY NextType, LockStep, NumberStep, IdStep, DamageStep
<1>3. Inv => DamageBounded
  <2> SUFFICES ASSUME Inv PROVE DamageBounded
    OBVIOUS
  <2>1. Cardinality(Lost) \in Nat /\ Cardinality(BrokenLinks) \in Nat /\ tears \in Nat
    BY LostIsFinite, BrokenIsFinite DEF TypeOK
  <2> QED BY <2>1 DEF AckInv, LinkInv, DamageBounded, Lost
<1> QED BY <1>1, <1>2, <1>3, PTL DEF Spec
=============================================================================
