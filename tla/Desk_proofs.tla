---------------------------- MODULE Desk_proofs ----------------------------
(***************************************************************************)
(* What holds of the desk for any reports, events, pages and requests: the *)
(* types of its state, with a list that names each report once; what a     *)
(* click does, namely act on the report the analyst looked at and disable  *)
(* its row until that request, and no other, has come back; and what the   *)
(* pages show of one list: the chart counts each report once, the pages    *)
(* agree on a process and lead to the report they name, and the alarm is   *)
(* up exactly while the Response page has something to decide.             *)
(***************************************************************************)
EXTENDS Desk, Sublists_proofs

-----------------------------------------------------------------------------
\* Rows and the requests of their instances.

Matched(b, q) ==
  /\ \A k \in Requests : q[k].mounted => q[k].row \in b
  /\ \A row \in b : \E k \in Requests : q[k].mounted /\ q[k].row = row
  /\ \A j \in Requests, k \in Requests :
       q[j].mounted /\ q[k].mounted /\ q[j].row = q[k].row => j = k

\* A request is a record of which only the mark "mounted" is ever changed.
IsRequest(r) ==
  \E i, row, m : m \in BOOLEAN /\ r = [id |-> i, row |-> row, mounted |-> m]
AreRequests(q) ==
  /\ q = [k \in Requests |-> q[k]]
  /\ \A k \in Requests : IsRequest(q[k])

BusyInv ==
  /\ AreRequests(requests)
  /\ busy \subseteq Mounted(Shown)
  /\ Matched(busy, requests)

\* Rendering keeps the rows that stay mounted together with their requests.
LEMMA RenderedMatches ==
  ASSUME NEW b, NEW q, AreRequests(q), Matched(b, q), Rendered(b, q), info' = info
  PROVE  BusyInv'
<1> DEFINE kept == IF page' = page THEN Mounted(Shown) \cap Mounted(Shown') ELSE {}
<1>1. /\ busy' = b \cap kept
      /\ requests' = [k \in Requests |->
                        [id |-> q[k].id, row |-> q[k].row,
                         mounted |-> q[k].mounted /\ q[k].row \in kept]]
  BY DEF Rendered, Kept
<1>2. kept \subseteq Mounted(Shown')
  OBVIOUS
<1> HIDE DEF kept
<1>3. ASSUME NEW k \in Requests
      PROVE  /\ IsRequest(requests'[k])
             /\ requests'[k].row = q[k].row
             /\ requests'[k].mounted <=> q[k].mounted /\ q[k].row \in kept
  <2> DEFINE m == q[k].mounted /\ q[k].row \in kept
  <2>1. requests'[k] = [id |-> q[k].id, row |-> q[k].row, mounted |-> m]
    BY <1>1
  <2>2. m \in BOOLEAN
    OBVIOUS
  <2> HIDE DEF m
  <2>3. IsRequest(requests'[k])
    BY <2>1, <2>2 DEF IsRequest
  <2>4. requests'[k].row = q[k].row /\ requests'[k].mounted = m
    BY <2>1
  <2> QED
    BY <2>3, <2>4 DEF m
<1>4. AreRequests(requests')
  BY <1>1, <1>3 DEF AreRequests
<1>5. Matched(busy', requests')
  <2>1. \A k \in Requests : requests'[k].mounted => requests'[k].row \in busy'
    BY <1>1, <1>3 DEF Matched
  <2>2. ASSUME NEW row \in busy'
        PROVE  \E k \in Requests : requests'[k].mounted /\ requests'[k].row = row
    <3>1. row \in b /\ row \in kept
      BY <1>1
    <3>2. PICK k \in Requests : q[k].mounted /\ q[k].row = row
      BY <3>1 DEF Matched
    <3> QED
      BY <1>3, <3>1, <3>2
  <2>3. \A j \in Requests, k \in Requests :
          requests'[j].mounted /\ requests'[k].mounted
            /\ requests'[j].row = requests'[k].row => j = k
    BY <1>3 DEF Matched
  <2> QED
    BY <2>1, <2>2, <2>3 DEF Matched
<1>6. Mounted(Shown)' = Mounted(Shown')
  BY DEF Mounted, RowNumbers
<1> QED
  BY <1>1, <1>2, <1>4, <1>5, <1>6 DEF BusyInv

LEMMA FreeShape == IsRequest(Free) /\ Free.mounted = FALSE
BY DEF Free, IsRequest

LEMMA BusyInit == Init => BusyInv
<1> SUFFICES ASSUME Init PROVE BusyInv
  OBVIOUS
<1>1. busy = {} /\ requests = [k \in Requests |-> Free]
  BY DEF Init
<1> QED
  BY <1>1, FreeShape DEF BusyInv, Matched, AreRequests

\* The answer of a request frees its slot, and its row if that still is there.
LEMMA AnswerMatches ==
  ASSUME BusyInv, NEW k \in Requests
  PROVE  /\ AreRequests([requests EXCEPT ![k] = Free])
         /\ Matched(NotBusyAfter(k), [requests EXCEPT ![k] = Free])
<1> DEFINE q == [requests EXCEPT ![k] = Free]
<1>2. q[k] = Free /\ ~q[k].mounted
  BY FreeShape DEF BusyInv, AreRequests
<1>3. \A j \in Requests : j # k => q[j] = requests[j]
  BY DEF BusyInv, AreRequests
<1>1. AreRequests(q)
  <2>1. q = [j \in Requests |-> q[j]]
    BY DEF BusyInv, AreRequests
  <2>2. \A j \in Requests : IsRequest(q[j])
    BY <1>2, <1>3, FreeShape DEF BusyInv, AreRequests
  <2> QED
    BY <2>1, <2>2 DEF AreRequests
<1> HIDE DEF q
<1>4. CASE requests[k].mounted
  <2>1. NotBusyAfter(k) = busy \ {requests[k].row}
    BY <1>4 DEF NotBusyAfter
  <2>2. ASSUME NEW j \in Requests, q[j].mounted
        PROVE  q[j].row \in NotBusyAfter(k)
    BY <1>2, <1>3, <1>4, <2>1, <2>2 DEF BusyInv, Matched
  <2>3. ASSUME NEW row \in NotBusyAfter(k)
        PROVE  \E j \in Requests : q[j].mounted /\ q[j].row = row
    <3>1. PICK j \in Requests : requests[j].mounted /\ requests[j].row = row
      BY <2>1 DEF BusyInv, Matched
    <3> QED
      BY <1>3, <2>1, <3>1
  <2>4. \A i \in Requests, j \in Requests :
          q[i].mounted /\ q[j].mounted /\ q[i].row = q[j].row => i = j
    BY <1>2, <1>3 DEF BusyInv, Matched
  <2> QED
    BY <1>1, <2>2, <2>3, <2>4 DEF Matched, q
<1>5. CASE ~requests[k].mounted
  <2>1. NotBusyAfter(k) = busy
    BY <1>5 DEF NotBusyAfter
  <2>2. \A j \in Requests : q[j].mounted => j # k
    BY <1>2
  <2>3. ASSUME NEW row \in busy
        PROVE  \E j \in Requests : q[j].mounted /\ q[j].row = row
    <3>1. PICK j \in Requests : requests[j].mounted /\ requests[j].row = row
      BY <2>3 DEF BusyInv, Matched
    <3> QED
      BY <1>3, <1>5, <3>1
  <2>4. Matched(busy, q)
    BY <1>3, <2>2, <2>3 DEF BusyInv, Matched
  <2> QED
    BY <1>1, <2>1, <2>4 DEF q
<1> QED
  BY <1>4, <1>5

\* What is shown, and which rows are mounted, only depends on these.
LEMMA SameShown ==
  ASSUME UNCHANGED <<info, threats, nav>>
  PROVE  Shown' = Shown /\ Mounted(Shown)' = Mounted(Shown)
BY DEF Shown, nav, ThreatSelected, Analysed, HasId, Mounted, RowNumbers

LEMMA ClickBusy ==
  ASSUME BusyInv, NEW k \in Requests, NEW row, Click(k, row)
  PROVE  BusyInv'
<1> DEFINE new == [id |-> Shown, row |-> row, mounted |-> TRUE]
<1>1. /\ row \in Mounted(Shown) /\ row \notin busy
      /\ busy' = busy \cup {row}
      /\ requests' = [requests EXCEPT ![k] = new]
      /\ UNCHANGED <<info, threats, nav>>
  BY DEF Click
<1>2. requests[k] = Free /\ ~requests[k].mounted
  BY FreeShape DEF Click
<1>3. IsRequest(new) /\ new.row = row /\ new.mounted
  BY DEF IsRequest
<1> HIDE DEF new
<1>4. /\ requests'[k] = new
      /\ \A j \in Requests : j # k => requests'[j] = requests[j]
  BY <1>1 DEF BusyInv, AreRequests
<1>5. AreRequests(requests')
  <2>1. requests' = [j \in Requests |-> requests'[j]]
    BY <1>1 DEF BusyInv, AreRequests
  <2>2. \A j \in Requests : IsRequest(requests'[j])
    BY <1>3, <1>4 DEF BusyInv, AreRequests
  <2> QED
    BY <2>1, <2>2 DEF AreRequests
<1>6. Matched(busy', requests')
  <2>1. \A j \in Requests : requests'[j].mounted => requests'[j].row \in busy'
    BY <1>1, <1>3, <1>4 DEF BusyInv, Matched
  <2>2. ASSUME NEW r \in busy'
        PROVE  \E j \in Requests : requests'[j].mounted /\ requests'[j].row = r
    <3>1. CASE r = row
      BY <1>3, <1>4, <3>1
    <3>2. CASE r # row
      <4>1. PICK j \in Requests : requests[j].mounted /\ requests[j].row = r
        BY <1>1, <3>2 DEF BusyInv, Matched
      <4> QED
        BY <1>2, <1>4, <4>1
    <3> QED
      BY <3>1, <3>2
  <2>3. ASSUME NEW i \in Requests, NEW j \in Requests, requests'[i].mounted,
               requests'[j].mounted, requests'[i].row = requests'[j].row
        PROVE  i = j
    <3>1. CASE i # k /\ j # k
      BY <1>4, <2>3, <3>1 DEF BusyInv, Matched
    <3>2. ASSUME NEW m \in Requests, m # k, requests'[m].mounted
          PROVE  requests'[m].row # row
      BY <1>1, <1>4, <3>2 DEF BusyInv, Matched
    <3> QED
      BY <1>3, <1>4, <2>3, <3>1, <3>2
  <2> QED
    BY <2>1, <2>2, <2>3 DEF Matched
<1>7. busy' \subseteq Mounted(Shown)'
  BY <1>1, SameShown DEF BusyInv
<1> QED
  BY <1>5, <1>6, <1>7 DEF BusyInv

\* The other steps leave the rows alone, or render the page.
LEMMA BusyNext == BusyInv /\ [Next]_vars => BusyInv'
<1> SUFFICES ASSUME BusyInv, [Next]_vars PROVE BusyInv'
  OBVIOUS
<1>1. ASSUME UNCHANGED <<info, threats, nav, busy, requests>> PROVE BusyInv'
  <2>1. Mounted(Shown)' = Mounted(Shown) /\ busy' = busy /\ requests' = requests
    BY <1>1, SameShown
  <2> QED
    BY <2>1 DEF BusyInv
<1>2. ASSUME Rendered(busy, requests), info' = info PROVE BusyInv'
  BY <1>2, RenderedMatches DEF BusyInv
<1>3. ASSUME NEW k \in Requests, info' = info,
             Rendered(NotBusyAfter(k), [requests EXCEPT ![k] = Free])
      PROVE  BusyInv'
  BY <1>3, RenderedMatches, AnswerMatches
<1>4. ASSUME NEW p \in Pages, NEW r \in Ids \cup {None}, Go(p, r) PROVE BusyInv'
  BY <1>2, <1>4 DEF Go
<1>5. ASSUME NEW i \in Ids, Select(i) PROVE BusyInv'
  BY <1>2, <1>5 DEF Select
<1>6. ASSUME NEW i \in Ids, Decide(i) \/ ApproveRaises(i) PROVE BusyInv'
  BY <1>1, <1>6 DEF Decide, ApproveRaises
<1>7. ASSUME NEW i \in Ids, Frame(i) PROVE BusyInv'
  BY <1>2, <1>7 DEF Frame
<1>8. ASSUME NEW k \in Requests, Settle(k) PROVE BusyInv'
  BY <1>3, <1>8 DEF Settle
<1>9. ASSUME NEW k \in Requests, Fail(k) PROVE BusyInv'
  BY <1>3, <1>9 DEF Fail
<1>10. ASSUME NEW k \in Requests, NEW row, Click(k, row) PROVE BusyInv'
  BY <1>10, ClickBusy
<1>11. CASE Look
  BY <1>1, <1>11 DEF Look
<1>12. CASE Detect
  BY <1>1, <1>12 DEF Detect
<1>13. CASE Evict
  BY <1>1, <1>13 DEF Evict
<1>14. CASE Fetch
  BY <1>2, <1>14 DEF Fetch
<1>15. CASE UNCHANGED vars
  BY <1>1, <1>15 DEF vars
<1> QED
  BY <1>4, <1>5, <1>6, <1>7, <1>8, <1>9, <1>10, <1>11, <1>12, <1>13, <1>14, <1>15 DEF Next

(***************************************************************************)
(* A row of ThreatDetail is disabled exactly as long as one request that   *)
(* its instance made is under way (ThreatDetail.tsx:25-32, 81-88), however *)
(* the list, the report and the page change in the meantime.               *)
(***************************************************************************)
THEOREM RowsComeBack == Spec => []BusyIffRequest
<1>1. ASSUME BusyInv PROVE BusyIffRequest
  <2>1. ASSUME NEW row \in busy PROVE Cardinality(Own(row)) = 1
    <3>1. PICK k \in Requests : requests[k].mounted /\ requests[k].row = row
      BY <1>1 DEF BusyInv, Matched
    <3>2. Own(row) = {k}
      BY <1>1, <3>1 DEF BusyInv, Matched, Own
    <3> QED
      BY <3>2, FS_Singleton
  <2>2. ASSUME NEW row, row \notin busy PROVE Cardinality(Own(row)) = 0
    <3>1. Own(row) = {}
      BY <1>1, <2>2 DEF BusyInv, Matched, Own
    <3> QED
      BY <3>1, FS_EmptySet
  <2>3. \A k \in Requests : requests[k].mounted => requests[k].row \in Mounted(Shown)
    BY <1>1 DEF BusyInv, Matched
  <2> QED
    BY <2>1, <2>2, <2>3 DEF BusyIffRequest
<1> QED
  BY <1>1, BusyInit, BusyNext, PTL DEF Spec

-----------------------------------------------------------------------------
\* What the analyst has looked at on Threats is the report of the address.
AimInv ==
  /\ page = "threats" => aim \in {None, reportId}
  /\ AreRequests(requests)

LEMMA AimNext == AimInv /\ BusyInv' /\ [Next]_vars => AimInv'
<1> SUFFICES ASSUME AimInv, BusyInv', [Next]_vars PROVE AimInv'
  OBVIOUS
<1>1. AreRequests(requests)'
  BY DEF BusyInv
<1>2. ASSUME NEW p \in Pages, NEW r \in Ids \cup {None}, Go(p, r) PROVE AimInv'
  BY <1>1, <1>2 DEF Go, AimInv
<1>3. ASSUME NEW i \in Ids, Select(i) PROVE AimInv'
  BY <1>1, <1>3 DEF Select, AimInv
<1>4. CASE Look
  BY <1>1, <1>4 DEF Look, AimInv, nav, Shown, ThreatSelected
<1>5. ASSUME UNCHANGED <<nav, aim>> PROVE AimInv'
  BY <1>1, <1>5 DEF AimInv, nav
<1>6. ASSUME NEW i \in Ids, Decide(i) \/ ApproveRaises(i) \/ Frame(i) PROVE AimInv'
  BY <1>5, <1>6 DEF Decide, ApproveRaises, Frame
<1>7. ASSUME NEW k \in Requests, Settle(k) \/ Fail(k) PROVE AimInv'
  BY <1>5, <1>7 DEF Settle, Fail
<1>8. ASSUME NEW k \in Requests, NEW row, Click(k, row) PROVE AimInv'
  BY <1>5, <1>8 DEF Click
<1>9. CASE Detect \/ Evict \/ Fetch
  BY <1>5, <1>9 DEF Detect, Evict, Fetch
<1>10. CASE UNCHANGED vars
  BY <1>5, <1>10 DEF vars
<1> QED
  BY <1>2, <1>3, <1>4, <1>6, <1>7, <1>8, <1>9, <1>10 DEF Next

\* No step but a click puts a request in a free slot.
LEMMA FreeStays ==
  ASSUME NEW b, NEW q, Rendered(b, q), NEW k \in Requests, q[k] = Free
  PROVE  requests'[k] = Free
<1>1. requests'[k] = [id |-> q[k].id, row |-> q[k].row,
                      mounted |-> q[k].mounted /\ q[k].row \in Kept]
  BY DEF Rendered
<1>2. q[k].id = 0 /\ q[k].row = 0 /\ (q[k].mounted /\ q[k].row \in Kept) = FALSE
  BY DEF Free
<1> HIDE DEF Kept
<1> QED
  BY <1>1, <1>2 DEF Free

LEMMA ClickAims ==
  ASSUME AimInv, BusyInv, NEW k \in Requests, NEW row, Click(k, row)
  PROVE  ClickHits
<1>1. /\ requests' = [requests EXCEPT ![k] = [id |-> Shown, row |-> row, mounted |-> TRUE]]
      /\ aim # None /\ Shown # None
  BY DEF Click
<1>2. /\ requests'[k].id = Shown
      /\ \A j \in Requests : j # k => requests'[j] = requests[j]
  BY <1>1 DEF AimInv, AreRequests
<1>3. CASE page = "threats"
  <2>1. Shown = reportId
    BY <1>1, <1>3 DEF Shown, ThreatSelected
  <2>2. aim = reportId
    BY <1>1, <1>3 DEF AimInv
  <2> QED
    BY <1>2, <2>1, <2>2 DEF ClickHits
<1>4. CASE page = "analysis" /\ aim = selectedId /\ HasId(threats, selectedId)
  <2>1. Shown = selectedId
    BY <1>4 DEF Shown, Analysed
  <2> QED
    BY <1>2, <1>4, <2>1 DEF ClickHits
<1>5. CASE FollowsNewest
  BY <1>5 DEF ClickHits
<1>6. page \in {"threats", "analysis"}
  BY <1>1 DEF Shown
<1> QED
  BY <1>3, <1>4, <1>5, <1>6 DEF FollowsNewest

LEMMA StepAims == AimInv /\ BusyInv /\ [Next]_vars => [ClickHits]_vars
<1> SUFFICES ASSUME AimInv, BusyInv, Next PROVE ClickHits
  OBVIOUS
<1>1. ASSUME requests' = requests PROVE ClickHits
  BY <1>1 DEF ClickHits
<1>2. ASSUME Rendered(busy, requests) PROVE ClickHits
  BY <1>2, FreeStays DEF ClickHits
<1>3. ASSUME NEW k \in Requests, Rendered(NotBusyAfter(k), [requests EXCEPT ![k] = Free])
      PROVE  ClickHits
  <2> DEFINE q == [requests EXCEPT ![k] = Free]
  <2>1. \A j \in Requests : requests[j] = Free => q[j] = Free
    BY DEF BusyInv, AreRequests
  <2> HIDE DEF q
  <2>2. Rendered(NotBusyAfter(k), q)
    BY <1>3 DEF q
  <2> QED
    BY <2>1, <2>2, FreeStays DEF ClickHits
<1>4. ASSUME NEW p \in Pages, NEW r \in Ids \cup {None}, Go(p, r) PROVE ClickHits
  BY <1>2, <1>4 DEF Go
<1>5. ASSUME NEW i \in Ids, Select(i) \/ Frame(i) PROVE ClickHits
  BY <1>2, <1>5 DEF Select, Frame
<1>6. ASSUME NEW i \in Ids, Decide(i) \/ ApproveRaises(i) PROVE ClickHits
  BY <1>1, <1>6 DEF Decide, ApproveRaises
<1>7. ASSUME NEW k \in Requests, Settle(k) \/ Fail(k) PROVE ClickHits
  BY <1>3, <1>7 DEF Settle, Fail
<1>8. ASSUME NEW k \in Requests, NEW row, Click(k, row) PROVE ClickHits
  BY <1>8, ClickAims
<1>9. CASE Look \/ Detect \/ Evict
  BY <1>1, <1>9 DEF Look, Detect, Evict
<1>10. CASE Fetch
  BY <1>2, <1>10 DEF Fetch
<1> QED
  BY <1>4, <1>5, <1>6, <1>7, <1>8, <1>9, <1>10 DEF Next

(***************************************************************************)
(* A click on Threats acts on the report that was looked at, and so does   *)
(* one on AI Analysis when the report was chosen from its list and is      *)
(* still there, whatever frames, listings and answers came in between.     *)
(***************************************************************************)
THEOREM ClicksHitTheAim == Spec => HitsTheAim
<1>1. Init => AimInv
  BY BusyInit DEF Init, AimInv, BusyInv
<1> QED
  BY <1>1, BusyInit, BusyNext, AimNext, StepAims, PTL DEF Spec, HitsTheAim

-----------------------------------------------------------------------------
(* What the lists hold. *)

\* A list of reports names each at most once.
Once(list) == \A m, n \in 1 .. Len(list) : list[m].id = list[n].id => m = n

LEMMA ItemTypes ==
  ASSUME NEW list \in Seq(Item)
  PROVE  /\ Len(list) \in Nat /\ DOMAIN list = 1 .. Len(list)
         /\ \A n \in 1 .. Len(list) : list[n] \in Item
BY LenProperties, ElementOfSeq

\* Found under its number is the report itself.
LEMMA FoundById ==
  ASSUME NEW list \in Seq(Item), Once(list), NEW n \in 1 .. Len(list)
  PROVE  HasId(list, list[n].id) /\ FindById(list, list[n].id) = list[n]
<1>1. DOMAIN list = 1 .. Len(list)
  BY ItemTypes
<1>2. \A m \in DOMAIN list : list[m].id = list[n].id => m = n
  BY <1>1 DEF Once
<1>3. (CHOOSE m \in DOMAIN list : list[m].id = list[n].id) = n
  BY <1>1, <1>2
<1> QED BY <1>1, <1>3 DEF HasId, FindById

\* A report put in a list replaces the one with its number.
LEMMA UpsertKeeps ==
  ASSUME NEW list \in Seq(Item), NEW r \in Item, Once(list)
  PROVE  LET u == upsertThreat(list, r)
         IN  /\ u \in Seq(Item) /\ Once(u)
             /\ \A n \in 1 .. Len(u) :
                  u[n].id = r.id \/ \E m \in 1 .. Len(list) : u[n].id = list[m].id
<1> DEFINE P == {n \in DOMAIN list : list[n].id # r.id}
           u == upsertThreat(list, r)  c == Cardinality(P)
<1>1. Len(list) \in Nat /\ DOMAIN list = 1 .. Len(list)
  BY ItemTypes
<1>2. P \in SUBSET (1 .. Len(list)) /\ \A i \in P : list[i].id # r.id
  BY <1>1
<1>3. c \in Nat
  <2> HIDE DEF P
  <2> QED BY <1>1, <1>2, PositionsFinite
<1>4. /\ u \in Seq(Item) /\ Len(u) = c + 1 /\ u[1] = r
      /\ \A n \in 2 .. c + 1 :
           n - 1 \in 1 .. c /\ Nth(P, n - 1) \in P /\ u[n] = list[Nth(P, n - 1)]
  <2>1. u = <<r>> \o At(list, P)
    BY DEF upsertThreat
  <2> HIDE DEF P, u
  <2> QED BY <1>2, <2>1, PutFirst DEF c
<1>5. \A j, k \in 1 .. c : Nth(P, j) = Nth(P, k) => j = k
  <2> HIDE DEF P
  <2>1. \A k \in 1 .. c : Rank(P, Nth(P, k)) = k
    BY <1>1, <1>2, NthHasRank DEF c
  <2> QED BY <2>1
<1> HIDE DEF P, u, c
<1>6. \A n \in 2 .. c + 1 : u[n].id # r.id
  BY <1>2, <1>4
<1>7. ASSUME NEW m \in 1 .. Len(u), NEW n \in 1 .. Len(u), u[m].id = u[n].id
      PROVE  m = n
  <2>1. m \in 1 .. c + 1 /\ n \in 1 .. c + 1
    BY <1>4
  <2>2. CASE m = 1 \/ n = 1
    <3>1. \A k \in 1 .. c + 1 : k = 1 \/ k \in 2 .. c + 1
      BY <1>3
    <3> QED BY <1>4, <1>6, <1>7, <2>1, <2>2, <3>1
  <2>3. CASE m # 1 /\ n # 1
    <3> DEFINE i == Nth(P, m - 1)  j == Nth(P, n - 1)
    <3>1. m \in 2 .. c + 1 /\ n \in 2 .. c + 1
      BY <1>3, <2>1, <2>3
    <3>2. /\ m - 1 \in 1 .. c /\ n - 1 \in 1 .. c
          /\ i \in P /\ j \in P /\ u[m] = list[i] /\ u[n] = list[j]
      BY <1>4, <3>1
    <3>3. i = j
      <4> HIDE DEF i, j
      <4>1. i \in 1 .. Len(list) /\ j \in 1 .. Len(list) /\ list[i].id = list[j].id
        BY <1>2, <1>7, <3>2
      <4> QED BY <4>1 DEF Once
    <3>4. m - 1 = n - 1
      BY <1>5, <3>2, <3>3
    <3> QED BY <1>3, <3>1, <3>4
  <2> QED BY <2>2, <2>3
<1>8. ASSUME NEW n \in 1 .. Len(u)
      PROVE  u[n].id = r.id \/ \E m \in 1 .. Len(list) : u[n].id = list[m].id
  <2>1. n = 1 \/ n \in 2 .. c + 1
    BY <1>3, <1>4
  <2> QED BY <1>2, <1>4, <2>1
<1>9. Once(u)
  BY <1>7 DEF Once
<1> QED BY <1>4, <1>8, <1>9 DEF u

\* The first of the newest reports.
LEMMA SomeNewest ==
  ASSUME NEW list \in Seq(Item), list # <<>>
  PROVE  \E n \in 1 .. Len(list) : \A m \in 1 .. Len(list) :
           \/ list[m].ts < list[n].ts
           \/ list[m].ts = list[n].ts /\ n <= m
<1> DEFINE L == Len(list)
           Top(k, n) == \A m \in 1 .. k : \/ list[m].ts < list[n].ts
                                          \/ list[m].ts = list[n].ts /\ n <= m
           Bad == {k \in 1 .. L : ~ \E n \in 1 .. k : Top(k, n)}
<1>1. L \in Nat /\ L >= 1 /\ \A n \in 1 .. L : list[n].ts \in Nat
  <2>1. L \in Nat /\ L # 0
    BY LenProperties, EmptySeq
  <2>2. \A n \in 1 .. L : list[n] \in Item
    BY ItemTypes
  <2> QED BY <2>1, <2>2 DEF Item
<1>2. ASSUME Bad # {} PROVE FALSE
  <2>1. Bad \in SUBSET Nat
    OBVIOUS
  <2>2. PICK b \in Bad : \A y \in Bad : b <= y
    <3> HIDE DEF Bad
    <3> QED BY <1>2, <2>1, LeastNatural
  <2>3. b \in 1 .. L /\ ~ \E n \in 1 .. b : Top(b, n)
    OBVIOUS
  <2>4. b # 1
    <3>1. Top(1, 1)
      OBVIOUS
    <3> HIDE DEF Top
    <3> QED BY <2>3, <3>1
  <2>5. b - 1 \in 1 .. L /\ ~ (b <= b - 1)
    BY <1>1, <2>3, <2>4
  <2>6. PICK n \in 1 .. b - 1 : Top(b - 1, n)
    <3>1. b - 1 \notin Bad
      BY <2>2, <2>5
    <3> QED BY <2>5, <3>1
  <2>7. /\ n \in 1 .. b /\ n < b /\ b \in 1 .. b /\ n \in 1 .. L
        /\ \A m \in 1 .. b : m = b \/ m \in 1 .. b - 1
    <3> HIDE DEF Bad, Top, L
    <3> QED BY <1>1, <2>3, <2>5
  <2>8. list[b].ts \in Nat /\ list[n].ts \in Nat /\ \A m \in 1 .. b - 1 : list[m].ts \in Nat
    BY <1>1, <2>3, <2>7
  <2>9. CASE list[b].ts > list[n].ts
    <3>1. ASSUME NEW m \in 1 .. b - 1 PROVE list[m].ts < list[b].ts
      <4>1. list[m].ts < list[n].ts \/ list[m].ts = list[n].ts
        BY <2>6
      <4>2. list[m].ts \in Nat /\ list[n].ts \in Nat /\ list[b].ts \in Nat
        BY <2>8
      <4> HIDE DEF Bad, Top
      <4> QED BY <2>9, <4>1, <4>2
    <3>2. Top(b, b)
      <4> HIDE DEF Bad, L
      <4>1. b <= b
        BY <2>1
      <4> QED BY <2>7, <3>1, <4>1
    <3> HIDE DEF Top
    <3> QED BY <2>3, <2>7, <3>2
  <2>10. CASE ~ (list[b].ts > list[n].ts)
    <3>1. list[b].ts < list[n].ts \/ (list[b].ts = list[n].ts /\ n <= b)
      <4>1. list[b].ts \in Nat /\ list[n].ts \in Nat
        BY <2>8
      <4>2. list[b].ts < list[n].ts \/ list[b].ts = list[n].ts
        <5> HIDE DEF Bad, Top
        <5> QED BY <2>10, <4>1
      <4>3. n <= b
        BY <1>1, <2>3, <2>7
      <4> QED BY <4>2, <4>3
    <3>2. Top(b, n)
      BY <2>6, <2>7, <3>1
    <3> HIDE DEF Top
    <3> QED BY <2>3, <2>7, <3>2
  <2> QED BY <2>9, <2>10
<1>3. L \in 1 .. L /\ L \notin Bad
  <2> HIDE DEF Bad, L
  <2> QED BY <1>1, <1>2
<1>4. \E n \in 1 .. L : Top(L, n)
  <2> HIDE DEF Top
  <2> QED BY <1>3
<1> QED BY <1>4

\* The report at the top of AI Analysis is one of the list.
LEMMA NewestIsListed ==
  ASSUME NEW list \in Seq(Item), list # <<>>
  PROVE  \E n \in 1 .. Len(list) : NewestFirst(list)[1] = list[n]
<1>1. PICK n \in 1 .. Len(list) : \A m \in 1 .. Len(list) :
        list[m].ts < list[n].ts \/ (list[m].ts = list[n].ts /\ n <= m)
  BY SomeNewest
<1>2. Len(list) \in Nat /\ DOMAIN list = 1 .. Len(list)
  BY ItemTypes
<1>3. \A m \in 1 .. Len(list) : list[m].ts \in Nat
  BY ItemTypes DEF Item
<1>4. {m \in DOMAIN list : \/ list[m].ts > list[n].ts
                           \/ list[m].ts = list[n].ts /\ m <= n} = {n}
  <2>1. ASSUME NEW m \in 1 .. Len(list),
               list[m].ts > list[n].ts \/ (list[m].ts = list[n].ts /\ m <= n)
        PROVE  m = n
    BY <1>1, <1>3, <2>1
  <2> QED BY <1>2, <2>1
<1>5. RankOf(list, n) = 1
  BY <1>4, FS_Singleton DEF RankOf
<1>6. \E m \in DOMAIN list : RankOf(list, m) = 1
  BY <1>2, <1>5
<1>7. 1 \in DOMAIN list
  BY <1>2
<1>8. NewestFirst(list)[1] = list[CHOOSE m \in DOMAIN list : RankOf(list, m) = 1]
  BY <1>7 DEF NewestFirst
<1> QED BY <1>2, <1>6, <1>8

-----------------------------------------------------------------------------
(* The types of the state. *)

\* The parts of TypeOK.
ServerTypes ==
  /\ created \in 0 .. MaxReports
  /\ listed \in Seq(1 .. created) /\ Len(listed) <= created
  /\ DOMAIN status = Ids
  /\ \A i \in Ids : status[i] \in Seq(Served) /\ Len(status[i]) = Len(info[i].actions)
ThreatTypes ==
  /\ threats \in Seq(Item) /\ Once(threats)
  /\ \A n \in 1 .. Len(threats) : threats[n].id \in 1 .. created
NavTypes ==
  /\ page \in Pages
  /\ reportId \in Ids \cup {None} /\ selectedId \in Ids \cup {None}
  /\ reportId # None => page = "threats"
  /\ selectedId # None => page = "analysis"
  /\ aim \in Ids \cup {None}
RowTypes(b, q) ==
  /\ b \subseteq Nat
  /\ \A k \in Requests :
       q[k] # Free => q[k].id \in Ids /\ q[k].row \in RowNumbers(q[k].id)

LEMMA TypeParts ==
  TypeOK <=> info \in Infos /\ ServerTypes /\ ThreatTypes /\ NavTypes /\ RowTypes(busy, requests)
<1>1. ASSUME threats \in Seq(Item)
      PROVE  /\ IsInjective([n \in DOMAIN threats |-> threats[n].id]) <=> Once(threats)
             /\ DOMAIN threats = 1 .. Len(threats)
  <2>1. DOMAIN threats = 1 .. Len(threats)
    BY <1>1, ItemTypes
  <2> QED BY <2>1 DEF IsInjective, Once
<1> QED BY <1>1 DEF TypeOK, ServerTypes, ThreatTypes, NavTypes, RowTypes

\* A report as it is sent.
LEMMA ReportTypes ==
  ASSUME info \in Infos, NEW i \in Ids
  PROVE  /\ \A a \in Seq(Served) : Report(i, a) \in Item /\ Report(i, a).id = i
         /\ info[i].actions \in Seq(Served) /\ Len(info[i].actions) \in Nat
<1>1. info[i].ts \in Nat /\ info[i].pid \in Nat /\ info[i].severity \in Severities
  BY InfosAssumption
<1>2. info[i].actions \in Seq({"pending_approval", "approved"})
  BY InfosAssumption
<1>3. {"pending_approval", "approved"} \subseteq Served
  BY DEF Served, Statuses
<1>4. info[i].actions \in Seq(Served)
  BY <1>2, <1>3, SeqMonotonic
<1>5. Len(info[i].actions) \in Nat
  BY <1>4, LenProperties
<1> QED BY <1>1, <1>4, <1>5 DEF Report, Item

\* What a page shows in detail is a report of the provider's list.
LEMMA ShownIsListed ==
  ASSUME TypeOK, Shown # None
  PROVE  /\ \E n \in 1 .. Len(threats) : Shown = threats[n].id
         /\ Shown \in 1 .. created /\ Shown \in Ids
<1>1. /\ threats \in Seq(Item) /\ Once(threats) /\ created \in 0 .. MaxReports
      /\ \A n \in 1 .. Len(threats) : threats[n].id \in 1 .. created
  BY TypeParts DEF ThreatTypes, ServerTypes
<1>2. DOMAIN threats = 1 .. Len(threats)
  BY <1>1, ItemTypes
<1>3. \E n \in 1 .. Len(threats) : Shown = threats[n].id
  <2>1. CASE page = "threats"
    <3>1. Shown = reportId /\ HasId(threats, reportId)
      BY <2>1 DEF Shown, ThreatSelected
    <3> QED BY <1>2, <3>1 DEF HasId
  <2>2. CASE page = "analysis"
    <3>1. Shown = Analysed(threats, selectedId)
      BY <2>2 DEF Shown
    <3>2. CASE HasId(threats, selectedId)
      BY <1>2, <3>1, <3>2 DEF HasId, Analysed
    <3>3. CASE ~ HasId(threats, selectedId)
      <4>1. threats # <<>> /\ Shown = NewestFirst(threats)[1].id
        BY <3>1, <3>3 DEF Analysed
      <4> QED BY <1>1, <4>1, NewestIsListed
    <3> QED BY <3>2, <3>3
  <2> QED BY <2>1, <2>2 DEF Shown
<1>4. 1 .. created \subseteq Ids
  BY <1>1, BoundAssumption DEF Ids
<1> QED BY <1>1, <1>3, <1>4

\* An answer of GET /api/threats, whenever it was made.
LEMMA ListingTypes ==
  ASSUME TypeOK, NEW last \in 0 .. created, NEW first \in 1 .. last + 1,
         NEW p \in Pasts(first, last)
  PROVE  LET list == Listing(first, last, p)
         IN  /\ list \in Seq(Item) /\ Once(list)
             /\ \A n \in 1 .. Len(list) : list[n].id \in 1 .. created
<1> DEFINE list == Listing(first, last, p)
           L == last - first + 1
<1>1. created \in Nat /\ last \in Nat /\ first \in Nat /\ L \in Nat /\ 1 .. created \subseteq Ids
  BY BoundAssumption DEF TypeOK, Ids
<1>2. list = [n \in 1 .. L |-> Report(last - n + 1, p[last - n + 1])]
  BY DEF Listing
<1>3. ASSUME NEW i \in Ids, NEW a \in Past(i) PROVE a \in Seq(Served)
  <2>1. status[i] \in Seq(Served) /\ info[i].actions \in Seq(Served)
        /\ Len(status[i]) = Len(info[i].actions)
    BY ReportTypes DEF TypeOK
  <2>2. DOMAIN status[i] = 1 .. Len(status[i]) /\ Len(status[i]) \in Nat
    BY <2>1, LenProperties
  <2>3. \A n \in DOMAIN status[i] : status[i][n] \in Served /\ info[i].actions[n] \in Served
    BY <2>1, <2>2, ElementOfSeq
  <2>4. \A n \in DOMAIN status[i] : Shows(i, n) \subseteq Served
    BY <2>3 DEF Shows, Served, Statuses
  <2>5. a \in [1 .. Len(status[i]) -> Served]
    BY <2>2, <2>4 DEF Past
  <2> QED BY <2>2, <2>5, SeqDef
<1>4. ASSUME NEW n \in 1 .. L
      PROVE  list[n] \in Item /\ list[n].id = last - n + 1 /\ list[n].id \in 1 .. created
  <2> DEFINE i == last - n + 1
  <2>1. i \in first .. last /\ i \in 1 .. created /\ i \in Ids
    BY <1>1
  <2>2. p[i] \in Past(i)
    BY <2>1 DEF Pasts
  <2>3. list[n] = Report(i, p[i])
    BY <1>2
  <2>4. p[i] \in Seq(Served) /\ info \in Infos
    BY <1>3, <2>1, <2>2 DEF TypeOK
  <2> HIDE DEF i
  <2>5. Report(i, p[i]) \in Item /\ Report(i, p[i]).id = i
    BY <2>1, <2>4, ReportTypes
  <2> QED BY <2>1, <2>3, <2>5 DEF i
<1> HIDE DEF list
<1>5. Len(list) = L /\ list \in Seq(Item)
  <2> HIDE DEF L
  <2>1. list \in [1 .. L -> Item] /\ DOMAIN list = 1 .. L
    BY <1>2, <1>4
  <2>2. list \in Seq(Item)
    BY <1>1, <2>1, SeqDef
  <2> QED BY <1>1, <2>1, <2>2, LenProperties
<1>6. ASSUME NEW m \in 1 .. L, NEW n \in 1 .. L, list[m].id = list[n].id
      PROVE  m = n
  BY <1>1, <1>4, <1>6
<1> QED BY <1>4, <1>5, <1>6 DEF Once, list

\* Rendering leaves the requests what they were, and adds no busy row.
LEMMA RenderedTypes ==
  ASSUME NEW b, NEW q, RowTypes(b, q), Rendered(b, q), info' = info
  PROVE  RowTypes(busy, requests)'
<1> DEFINE kept == Kept
<1>1. /\ busy' = b \cap kept
      /\ requests' = [k \in Requests |->
                        [id |-> q[k].id, row |-> q[k].row,
                         mounted |-> q[k].mounted /\ q[k].row \in kept]]
  BY DEF Rendered
<1> HIDE DEF kept
<1>2. busy' \subseteq Nat
  BY <1>1 DEF RowTypes
<1>3. ASSUME NEW k \in Requests, requests'[k] # Free
      PROVE  requests'[k].id \in Ids /\ requests'[k].row \in RowNumbers(requests'[k].id)
  <2>1. q[k] # Free
    BY <1>3, FreeStays
  <2>2. requests'[k].id = q[k].id /\ requests'[k].row = q[k].row
    BY <1>1
  <2> QED BY <2>1, <2>2 DEF RowTypes
<1>4. \A i : RowNumbers(i)' = RowNumbers(i)
  BY DEF RowNumbers
<1> QED BY <1>2, <1>3, <1>4 DEF RowTypes

LEMMA AnswerTypes ==
  ASSUME RowTypes(busy, requests), AreRequests(requests), NEW k \in Requests
  PROVE  RowTypes(NotBusyAfter(k), [requests EXCEPT ![k] = Free])
<1> DEFINE q == [requests EXCEPT ![k] = Free]
<1>1. q[k] = Free /\ \A j \in Requests : j # k => q[j] = requests[j]
  BY DEF AreRequests
<1>2. NotBusyAfter(k) \subseteq Nat
  BY DEF NotBusyAfter, RowTypes
<1> HIDE DEF q
<1>3. \A j \in Requests :
        q[j] # Free => q[j].id \in Ids /\ q[j].row \in RowNumbers(q[j].id)
  BY <1>1 DEF RowTypes
<1> QED BY <1>2, <1>3 DEF RowTypes, q

LEMMA ClickTypes ==
  ASSUME TypeOK, BusyInv, NEW k \in Requests, NEW row, Click(k, row)
  PROVE  RowTypes(busy, requests)'
<1> DEFINE new == [id |-> Shown, row |-> row, mounted |-> TRUE]
<1>1. /\ row \in RowNumbers(Shown) /\ Shown # None
      /\ busy' = busy \cup {row}
      /\ requests' = [requests EXCEPT ![k] = new]
      /\ info' = info
  BY DEF Click, Mounted
<1>2. Shown \in Ids
  BY <1>1, ShownIsListed
<1>3. RowTypes(busy, requests)
  BY TypeParts
<1>4. row \in Nat
  BY <1>1 DEF RowNumbers
<1>5. new.id = Shown /\ new.row = row
  OBVIOUS
<1> HIDE DEF new
<1>6. requests'[k] = new /\ \A j \in Requests : j # k => requests'[j] = requests[j]
  BY <1>1 DEF BusyInv, AreRequests
<1>7. \A j \in Requests : requests'[j] # Free =>
        requests'[j].id \in Ids /\ requests'[j].row \in RowNumbers(requests'[j].id)
  BY <1>1, <1>2, <1>3, <1>5, <1>6 DEF RowTypes
<1>8. busy' \subseteq Nat
  BY <1>1, <1>3, <1>4 DEF RowTypes
<1>9. \A i : RowNumbers(i)' = RowNumbers(i)
  BY <1>1 DEF RowNumbers
<1> QED BY <1>7, <1>8, <1>9 DEF RowTypes

\* An action is given a status that the server can send.
LEMMA StatusTypes ==
  ASSUME TypeOK, NEW i \in Ids, NEW n \in DOMAIN status[i], NEW st \in Served,
         status' = [status EXCEPT ![i][n] = st], UNCHANGED <<info, created, listed>>
  PROVE  ServerTypes'
<1>1. /\ DOMAIN status = Ids
      /\ \A j \in Ids : status[j] \in Seq(Served) /\ Len(status[j]) = Len(info[j].actions)
  BY DEF TypeOK
<1>2. /\ DOMAIN status' = Ids
      /\ status'[i] = [status[i] EXCEPT ![n] = st]
      /\ \A j \in Ids : j # i => status'[j] = status[j]
  BY <1>1
<1>3. n \in 1 .. Len(status[i])
  BY <1>1, LenProperties
<1>4. status'[i] \in Seq(Served) /\ Len(status'[i]) = Len(status[i])
  BY <1>1, <1>2, <1>3, ExceptSeq
<1>5. ASSUME NEW j \in Ids
      PROVE  status'[j] \in Seq(Served) /\ Len(status'[j]) = Len(info[j].actions)
  BY <1>1, <1>2, <1>4
<1>6. ServerTypes
  BY TypeParts
<1> QED BY <1>2, <1>5, <1>6 DEF ServerTypes

\* So it is by a decision.
LEMMA DecidedTypes ==
  ASSUME TypeOK, NEW i \in Ids, NEW n, status' \in Decided(i, n),
         UNCHANGED <<info, created, listed>>
  PROVE  ServerTypes'
<1>1. CASE n \in DOMAIN status[i]
  <2>1. status[i][n] \in Served
    BY <1>1, LenProperties, ElementOfSeq DEF TypeOK
  <2>2. Outcomes(status[i][n]) \subseteq Served
    BY <2>1 DEF Outcomes, Served, Statuses
  <2>3. PICK st \in Served : status' = [status EXCEPT ![i][n] = st]
    BY <1>1, <2>2 DEF Decided
  <2> QED BY <1>1, <2>3, StatusTypes
<1>2. CASE n \notin DOMAIN status[i]
  <2>1. status' = status
    BY <1>2 DEF Decided
  <2> QED BY <2>1 DEF TypeOK, ServerTypes
<1> QED BY <1>1, <1>2

\* The list after a report has come, by frame or answer.
LEMMA UpsertTypes ==
  ASSUME TypeOK, NEW i \in 1 .. created, NEW r \in Item, r.id = i,
         threats' = upsertThreat(threats, r), created' = created
  PROVE  ThreatTypes'
<1> DEFINE u == upsertThreat(threats, r)
<1>1. ThreatTypes
  BY TypeParts
<1>2. /\ u \in Seq(Item) /\ Once(u)
      /\ \A n \in 1 .. Len(u) : u[n].id = i \/ \E m \in 1 .. Len(threats) : u[n].id = threats[m].id
  BY <1>1, UpsertKeeps DEF ThreatTypes
<1> HIDE DEF u
<1>3. \A n \in 1 .. Len(u) : u[n].id \in 1 .. created
  BY <1>1, <1>2 DEF ThreatTypes
<1> QED BY <1>2, <1>3 DEF ThreatTypes, Once, u

LEMMA TypeInit == Init => TypeOK
<1> SUFFICES ASSUME Init PROVE TypeOK
  OBVIOUS
<1>1. /\ info \in Infos /\ created = 0 /\ listed = <<>> /\ threats = <<>>
      /\ status = [i \in Ids |-> info[i].actions]
      /\ page \in Pages /\ reportId = None /\ selectedId = None /\ aim = None
      /\ busy = {} /\ requests = [k \in Requests |-> Free]
  BY DEF Init
<1>2. ServerTypes
  <2>1. \A i \in Ids : status[i] = info[i].actions /\ info[i].actions \in Seq(Served)
    BY <1>1, ReportTypes
  <2>2. listed \in Seq(1 .. created) /\ Len(listed) = 0
    BY <1>1
  <2>3. created \in 0 .. MaxReports /\ DOMAIN status = Ids
    BY <1>1, BoundAssumption
  <2> QED BY <1>1, <2>1, <2>2, <2>3 DEF ServerTypes
<1>3. ThreatTypes
  BY <1>1 DEF ThreatTypes, Once
<1>4. NavTypes
  BY <1>1 DEF NavTypes
<1>5. RowTypes(busy, requests)
  BY <1>1 DEF RowTypes
<1> QED BY <1>1, <1>2, <1>3, <1>4, <1>5, TypeParts

LEMMA TypeNext == TypeOK /\ BusyInv /\ [Next]_vars => TypeOK'
<1> SUFFICES ASSUME TypeOK, BusyInv, [Next]_vars PROVE TypeOK'
  OBVIOUS
<1>1. info \in Infos /\ ServerTypes /\ ThreatTypes /\ NavTypes /\ RowTypes(busy, requests)
  BY TypeParts
<1>2. info' \in Infos /\ info' = info
  BY <1>1 DEF Next, Go, Select, Look, Click, Settle, Fail, Detect, Evict,
              Decide, ApproveRaises, Frame, Fetch, vars
<1>3. ServerTypes'
  <2>1. ASSUME UNCHANGED serverVars PROVE ServerTypes'
    BY <1>1, <1>2, <2>1 DEF ServerTypes, serverVars
  <2>2. CASE Detect
    <3>1. created \in Nat /\ created + 1 \in 0 .. MaxReports
      BY <1>1, <2>2, BoundAssumption DEF Detect, ServerTypes
    <3>2. listed \in Seq(1 .. created + 1) /\ created + 1 \in 1 .. created + 1
      <4>1. 1 .. created \subseteq 1 .. created + 1
        BY <3>1
      <4>2. listed \in Seq(1 .. created)
        BY <1>1 DEF ServerTypes
      <4> QED BY <3>1, <4>1, <4>2, SeqMonotonic
    <3>3. /\ Append(listed, created + 1) \in Seq(1 .. created + 1)
          /\ Len(Append(listed, created + 1)) = Len(listed) + 1
      BY <3>2, AppendProperties
    <3>4. Len(listed) \in Nat /\ Len(listed) <= created
      BY <1>1, <3>2, LenProperties DEF ServerTypes
    <3>5. Len(listed) + 1 <= created + 1
      BY <3>1, <3>4
    <3>6. created' = created + 1 /\ listed' = Append(listed, created + 1) /\ status' = status
      BY <2>2 DEF Detect
    <3> QED BY <1>1, <1>2, <3>1, <3>3, <3>5, <3>6 DEF ServerTypes
  <2>3. CASE Evict
    <3>1. /\ listed # <<>> /\ listed' = Tail(listed) /\ created' = created /\ status' = status
          /\ listed \in Seq(1 .. created) /\ Len(listed) <= created /\ created \in Nat
      BY <1>1, <2>3, BoundAssumption DEF Evict, ServerTypes
    <3>2. listed' \in Seq(1 .. created) /\ Len(listed') = Len(listed) - 1 /\ Len(listed) \in Nat
      BY <3>1, HeadTailProperties, LenProperties
    <3>3. Len(listed') <= created
      BY <3>1, <3>2
    <3> QED BY <1>1, <1>2, <3>1, <3>2, <3>3 DEF ServerTypes
  <2>4. ASSUME NEW i \in Ids, Decide(i) PROVE ServerTypes'
    <3>1. \E n \in DOMAIN status[i] : status' \in Decided(i, n)
      BY <2>4 DEF Decide
    <3>2. UNCHANGED <<info, created, listed>>
      BY <2>4 DEF Decide
    <3> QED BY <3>1, <3>2, DecidedTypes
  <2>5. ASSUME NEW k \in Requests, Settle(k) PROVE ServerTypes'
    <3>1. /\ requests[k].id \in Ids
          /\ status' \in Decided(requests[k].id, requests[k].row)
          /\ UNCHANGED <<info, created, listed>>
      BY <1>1, <2>5 DEF Settle, RowTypes
    <3> QED BY <3>1, DecidedTypes
  <2>6. ASSUME NEW p \in Pages, NEW r \in Ids \cup {None}, Go(p, r) PROVE ServerTypes'
    BY <2>1, <2>6 DEF Go
  <2>7. ASSUME NEW i \in Ids, Select(i) \/ Frame(i) PROVE ServerTypes'
    BY <2>1, <2>7 DEF Select, Frame
  <2>8. ASSUME NEW k \in Requests, NEW row, Fail(k) \/ Click(k, row) PROVE ServerTypes'
    BY <2>1, <2>8 DEF Fail, Click
  <2>9. CASE Look \/ Fetch \/ UNCHANGED vars
    BY <2>1, <2>9 DEF Look, Fetch, vars
  <2>10. ASSUME NEW i \in Ids, ApproveRaises(i) PROVE ServerTypes'
    <3>1. \E n \in DOMAIN status[i] : status' = [status EXCEPT ![i][n] = "approved"]
      BY <2>10 DEF ApproveRaises
    <3>2. UNCHANGED <<info, created, listed>> /\ "approved" \in Served
      BY <2>10 DEF ApproveRaises, Served, Statuses
    <3> QED BY <3>1, <3>2, StatusTypes
  <2> QED BY <2>2, <2>3, <2>4, <2>5, <2>6, <2>7, <2>8, <2>9, <2>10 DEF Next
<1>4. ThreatTypes'
  <2>1. ASSUME UNCHANGED <<created, threats>> PROVE ThreatTypes'
    BY <1>1, <2>1 DEF ThreatTypes, Once
  <2>2. CASE Detect
    <3>1. created \in Nat /\ created' = created + 1 /\ threats' = threats
      BY <1>1, <2>2, BoundAssumption DEF Detect, ServerTypes
    <3>2. 1 .. created \subseteq 1 .. created + 1
      BY <3>1
    <3> QED BY <1>1, <3>1, <3>2 DEF ThreatTypes, Once
  <2>3. ASSUME NEW k \in Requests, Settle(k) PROVE ThreatTypes'
    <3> DEFINE i == requests[k].id
    <3>1. /\ i \in ToSet(listed)
          /\ threats' = upsertThreat(threats, Report(i, status'[i]))
          /\ created' = created /\ info' = info
      BY <2>3 DEF Settle
    <3>2. i \in 1 .. created /\ i \in Ids
      <4>1. \A n \in DOMAIN listed : listed[n] \in 1 .. created
        BY <1>1, ElementOfSeq, LenProperties DEF ServerTypes
      <4>2. i \in 1 .. created
        BY <3>1, <4>1 DEF ToSet
      <4> QED BY <1>1, <2>3, <4>2 DEF Settle, RowTypes
    <3>3. status'[i] \in Seq(Served)
      BY <1>3, <3>2 DEF ServerTypes
    <3> HIDE DEF i
    <3>4. Report(i, status'[i]) \in Item /\ Report(i, status'[i]).id = i
      BY <1>1, <3>2, <3>3, ReportTypes
    <3> QED BY <3>1, <3>2, <3>4, UpsertTypes
  <2>4. ASSUME NEW i \in Ids, Frame(i) PROVE ThreatTypes'
    <3>1. /\ i \in 1 .. created /\ created' = created
          /\ \E r \in {Logged(i), Now(i)} : threats' = upsertThreat(threats, r)
      BY <2>4 DEF Frame, serverVars
    <3>2. \A r \in {Logged(i), Now(i)} : r \in Item /\ r.id = i
      BY <1>1, ReportTypes DEF Logged, Now, ServerTypes
    <3> QED BY <3>1, <3>2, UpsertTypes
  <2>5. CASE Fetch
    <3>1. PICK last \in 0 .. created :
            \E first \in 1 .. last + 1 : \E p \in Pasts(first, last) :
              threats' = Listing(first, last, p)
      BY <2>5 DEF Fetch
    <3>2. PICK first \in 1 .. last + 1 :
            \E p \in Pasts(first, last) : threats' = Listing(first, last, p)
      BY <3>1
    <3>3. PICK p \in Pasts(first, last) : threats' = Listing(first, last, p)
      BY <3>2
    <3>4. created' = created
      BY <2>5 DEF Fetch, serverVars
    <3> QED BY <3>3, <3>4, ListingTypes DEF ThreatTypes, Once
  <2>6. ASSUME NEW p \in Pages, NEW r \in Ids \cup {None}, Go(p, r) PROVE ThreatTypes'
    BY <2>1, <2>6 DEF Go, serverVars
  <2>7. ASSUME NEW i \in Ids, Select(i) \/ Decide(i) \/ ApproveRaises(i) PROVE ThreatTypes'
    BY <2>1, <2>7 DEF Select, Decide, ApproveRaises, serverVars
  <2>8. ASSUME NEW k \in Requests, NEW row, Fail(k) \/ Click(k, row) PROVE ThreatTypes'
    BY <2>1, <2>8 DEF Fail, Click, serverVars
  <2>9. CASE Look \/ Evict \/ UNCHANGED vars
    BY <2>1, <2>9 DEF Look, Evict, vars, serverVars
  <2> QED BY <2>2, <2>3, <2>4, <2>5, <2>6, <2>7, <2>8, <2>9 DEF Next
<1>5. NavTypes'
  <2>1. ASSUME UNCHANGED <<nav, aim>> PROVE NavTypes'
    BY <1>1, <2>1 DEF NavTypes, nav
  <2>2. ASSUME NEW p \in Pages, NEW r \in Ids \cup {None}, Go(p, r) PROVE NavTypes'
    BY <1>1, <2>2 DEF Go, NavTypes
  <2>3. ASSUME NEW i \in Ids, Select(i) PROVE NavTypes'
    <3>1. reportId = None \/ page = "threats"
      BY <1>1 DEF NavTypes
    <3> QED BY <1>1, <2>3, <3>1 DEF Select, NavTypes
  <2>4. CASE Look
    <3>1. aim' \in Ids /\ UNCHANGED nav
      BY <2>4, ShownIsListed DEF Look
    <3> QED BY <1>1, <3>1 DEF NavTypes, nav
  <2>5. ASSUME NEW i \in Ids, Decide(i) \/ ApproveRaises(i) \/ Frame(i) PROVE NavTypes'
    BY <2>1, <2>5 DEF Decide, ApproveRaises, Frame
  <2>6. ASSUME NEW k \in Requests, NEW row, Settle(k) \/ Fail(k) \/ Click(k, row) PROVE NavTypes'
    BY <2>1, <2>6 DEF Settle, Fail, Click
  <2>7. CASE Detect \/ Evict \/ Fetch \/ UNCHANGED vars
    BY <2>1, <2>7 DEF Detect, Evict, Fetch, vars
  <2> QED BY <2>2, <2>3, <2>4, <2>5, <2>6, <2>7 DEF Next
<1>6. RowTypes(busy, requests)'
  <2>1. ASSUME UNCHANGED <<busy, requests>> PROVE RowTypes(busy, requests)'
    BY <1>1, <1>2, <2>1 DEF RowTypes, RowNumbers
  <2>2. ASSUME Rendered(busy, requests) PROVE RowTypes(busy, requests)'
    BY <1>1, <1>2, <2>2, RenderedTypes
  <2>3. ASSUME NEW k \in Requests, Rendered(NotBusyAfter(k), [requests EXCEPT ![k] = Free])
        PROVE  RowTypes(busy, requests)'
    BY <1>1, <1>2, <2>3, RenderedTypes, AnswerTypes DEF BusyInv
  <2>4. ASSUME NEW p \in Pages, NEW r \in Ids \cup {None}, Go(p, r)
        PROVE  RowTypes(busy, requests)'
    BY <2>2, <2>4 DEF Go
  <2>5. ASSUME NEW i \in Ids, Select(i) \/ Frame(i) PROVE RowTypes(busy, requests)'
    BY <2>2, <2>5 DEF Select, Frame
  <2>6. ASSUME NEW i \in Ids, Decide(i) \/ ApproveRaises(i) PROVE RowTypes(busy, requests)'
    BY <2>1, <2>6 DEF Decide, ApproveRaises
  <2>7. ASSUME NEW k \in Requests, Settle(k) \/ Fail(k) PROVE RowTypes(busy, requests)'
    BY <2>3, <2>7 DEF Settle, Fail
  <2>8. ASSUME NEW k \in Requests, NEW row, Click(k, row) PROVE RowTypes(busy, requests)'
    BY <2>8, ClickTypes
  <2>9. CASE Fetch
    BY <2>2, <2>9 DEF Fetch
  <2>10. CASE Look \/ Detect \/ Evict \/ UNCHANGED vars
    BY <2>1, <2>10 DEF Look, Detect, Evict, vars
  <2> QED BY <2>4, <2>5, <2>6, <2>7, <2>8, <2>9, <2>10 DEF Next
<1>7. TypeOK' <=> (info \in Infos /\ ServerTypes /\ ThreatTypes /\ NavTypes
                   /\ RowTypes(busy, requests))'
  BY TypeParts, PTL
<1> QED BY <1>2, <1>3, <1>4, <1>5, <1>6, <1>7

(***************************************************************************)
(* Whatever frames, listings, decisions and answers come, each report is   *)
(* in the provider's list at most once, under a number that was detected   *)
(* and with statuses the server can send; the address and the selection    *)
(* belong to their pages; and a request is for a row its report has.       *)
(***************************************************************************)
THEOREM DeskTypes == Spec => []TypeOK
BY TypeInit, TypeNext, BusyInit, BusyNext, PTL DEF Spec


-----------------------------------------------------------------------------
(* The posture, and the rows of Response. *)

\* The rows that Response shows under a filter.
LEMMA RowsShown ==
  ASSUME TypeOK, NEW f
  PROVE  /\ \A r \in Response(threats, f).rows :
              \E m \in 1 .. Len(threats) : \E n \in DOMAIN threats[m].actions :
                r = ResponseRow(threats[m], n) /\ (f = "all" \/ r.status = f)
         /\ \A m \in 1 .. Len(threats) : \A n \in DOMAIN threats[m].actions :
              f = "all" \/ threats[m].actions[n] = f
                => ResponseRow(threats[m], n) \in Response(threats, f).rows
<1> DEFINE row(a) == ResponseRow(threats[a[1]], a[2])
           shown == {a \in ActionsOf(threats) : f = "all" \/ row(a).status = f}
<1>1. DOMAIN threats = 1 .. Len(threats)
  BY ItemTypes DEF TypeOK
<1>2. Response(threats, f).rows = {row(a) : a \in shown}
  BY DEF Response
<1>3. ASSUME NEW r \in Response(threats, f).rows
      PROVE  \E m \in 1 .. Len(threats) : \E n \in DOMAIN threats[m].actions :
               r = ResponseRow(threats[m], n) /\ (f = "all" \/ r.status = f)
  <2>1. PICK a \in ActionsOf(threats) : r = row(a) /\ (f = "all" \/ row(a).status = f)
    BY <1>2
  <2>2. PICK m \in 1 .. Len(threats) : \E n \in DOMAIN threats[m].actions : a = <<m, n>>
    BY <1>1, <2>1 DEF ActionsOf
  <2>3. PICK n \in DOMAIN threats[m].actions : a = <<m, n>>
    BY <2>2
  <2>4. r = ResponseRow(threats[m], n)
    BY <2>1, <2>3
  <2> QED BY <2>1, <2>4
<1>4. ASSUME NEW m \in 1 .. Len(threats), NEW n \in DOMAIN threats[m].actions,
             f = "all" \/ threats[m].actions[n] = f
      PROVE  ResponseRow(threats[m], n) \in Response(threats, f).rows
  <2>1. <<m, n>> \in ActionsOf(threats)
    BY <1>1 DEF ActionsOf
  <2>2. row(<<m, n>>) = ResponseRow(threats[m], n)
    OBVIOUS
  <2>3. ResponseRow(threats[m], n).status = threats[m].actions[n]
    BY DEF ResponseRow
  <2>4. <<m, n>> \in shown
    BY <1>4, <2>1, <2>2, <2>3
  <2> HIDE DEF shown, row
  <2> QED BY <1>2, <2>2, <2>4
<1> QED BY <1>3, <1>4

LEMMA RowFields ==
  ASSUME NEW t, NEW n
  PROVE  /\ ResponseRow(t, n).link = t.id /\ ResponseRow(t, n).index = n
         /\ ResponseRow(t, n).status = t.actions[n]
BY DEF ResponseRow

\* An alarm is an open action of a report that is not "info".
LEMMA AlarmIsOpen ==
  ASSUME TypeOK
  PROVE  OnOverview.status \in {"THREAT ACTIVE", "ELEVATED"}
           <=> \E m \in 1 .. Len(threats) : IsOpen(threats[m]) /\ threats[m].severity # "info"
<1> DEFINE open == {threats[m].severity : m \in {n \in DOMAIN threats : IsOpen(threats[n])}}
<1>1. /\ DOMAIN threats = 1 .. Len(threats)
      /\ \A m \in 1 .. Len(threats) : threats[m].severity \in Severities
  BY ItemTypes DEF TypeOK, Item
<1>2. Learning(Health(FALSE, TRUE)) = FALSE
  <2>1. Len(listed) \in 0 .. MaxReports
    <3>1. Len(listed) \in Nat /\ Len(listed) <= created /\ created \in 0 .. MaxReports
      BY LenProperties DEF TypeOK
    <3> QED BY <3>1, BoundAssumption
  <2>2. None # Health(FALSE, TRUE)
    BY <2>1, NoneAssumption DEF Health
  <2>3. Health(FALSE, TRUE).learning = FALSE
    BY DEF Health, HealthRecord
  <2> QED BY <2>2, <2>3 DEF Learning
<1>3. OnOverview.status = threatLevel(threats, FALSE)
  BY <1>2 DEF OnOverview, Overview
<1>4. OnOverview.status \in {"THREAT ACTIVE", "ELEVATED"}
        <=> open \cap {"critical", "high", "medium", "low"} # {}
  <2>1. threatLevel(threats, FALSE) =
          CASE FALSE -> "LEARNING"
            [] ~FALSE /\ open \cap {"critical", "high"} # {} -> "THREAT ACTIVE"
            [] ~FALSE /\ open \cap {"critical", "high"} = {}
                 /\ open \cap {"medium", "low"} # {} -> "ELEVATED"
            [] OTHER -> "PROTECTED"
    BY DEF threatLevel
  <2> HIDE DEF open
  <2>2. CASE open \cap {"critical", "high"} # {}
    BY <1>3, <2>1, <2>2
  <2>3. CASE open \cap {"critical", "high"} = {} /\ open \cap {"medium", "low"} # {}
    BY <1>3, <2>1, <2>3
  <2>4. CASE open \cap {"critical", "high"} = {} /\ open \cap {"medium", "low"} = {}
    BY <1>3, <2>1, <2>4
  <2> QED BY <2>2, <2>3, <2>4
<1>5. open \cap {"critical", "high", "medium", "low"} # {}
        <=> \E m \in 1 .. Len(threats) : IsOpen(threats[m]) /\ threats[m].severity # "info"
  BY <1>1 DEF Severities
<1> QED BY <1>4, <1>5

LEMMA AlarmsMatch == TypeOK => AlarmMatchesResponse
<1> SUFFICES ASSUME TypeOK PROVE AlarmMatchesResponse
  OBVIOUS
<1> DEFINE waiting == Response(threats, "pending_approval").rows
<1>1. /\ threats \in Seq(Item) /\ Once(threats) /\ DOMAIN threats = 1 .. Len(threats)
      /\ \A m \in 1 .. Len(threats) :
           \A n \in DOMAIN threats[m].actions : threats[m].actions[n] \in Served
  <2>1. threats \in Seq(Item) /\ Once(threats) /\ DOMAIN threats = 1 .. Len(threats)
    BY TypeParts, ItemTypes DEF ThreatTypes
  <2>2. \A m \in 1 .. Len(threats) : threats[m].actions \in Seq(Served)
    BY <2>1, ItemTypes DEF Item
  <2> QED BY <2>1, <2>2, LenProperties, ElementOfSeq
<1>2. ASSUME NEW m \in 1 .. Len(threats), NEW n \in DOMAIN threats[m].actions
      PROVE  ResponseRow(threats[m], n) \in waiting \cup Unfiltered
               <=> threats[m].actions[n] \in OpenStatuses
  <2> DEFINE r == ResponseRow(threats[m], n)  st == threats[m].actions[n]
  <2>1. st \in Served /\ r.status = st
    BY <1>1, RowFields
  <2>2. \A f : r \in Response(threats, f).rows <=> f = "all" \/ f = st
    <3> SUFFICES ASSUME NEW f PROVE r \in Response(threats, f).rows <=> f = "all" \/ f = st
      OBVIOUS
    <3>1. ASSUME r \in Response(threats, f).rows PROVE f = "all" \/ f = st
      <4>1. f = "all" \/ r.status = f
        BY <3>1, RowsShown
      <4> QED BY <2>1, <4>1
    <3>2. ASSUME f = "all" \/ f = st PROVE r \in Response(threats, f).rows
      BY <3>2, RowsShown
    <3> QED BY <3>1, <3>2
  <2> HIDE DEF r, st
  <2>3. r \in waiting <=> st = "pending_approval"
    BY <2>2
  <2>4. r \in Unfiltered <=> st \notin ResponseFilters \ {"all"}
    <3>1. r \in Unfiltered <=> \A f \in ResponseFilters \ {"all"} : r \notin Response(threats, f).rows
      BY <2>2 DEF Unfiltered
    <3> QED BY <2>2, <3>1
  <2> HIDE DEF waiting
  <2>5. r \in waiting \cup Unfiltered <=> st \in OpenStatuses
    BY <2>1, <2>3, <2>4 DEF Served, Statuses, OpenStatuses, ResponseFilters
  <2> QED BY <2>5 DEF r, st
<1>3. ASSUME NEW r \in waiting \cup Unfiltered
      PROVE  \E m \in 1 .. Len(threats) : \E n \in DOMAIN threats[m].actions :
               r = ResponseRow(threats[m], n)
  <2>1. r \in waiting \/ r \in Response(threats, "all").rows
    BY DEF Unfiltered
  <2>2. \E f : r \in Response(threats, f).rows
    BY <2>1
  <2> QED BY <2>2, RowsShown
<1>4. \A m \in 1 .. Len(threats) : FindById(threats, threats[m].id) = threats[m]
  BY <1>1, FoundById
<1>5. ASSUME NEW m \in 1 .. Len(threats), IsOpen(threats[m]), threats[m].severity # "info"
      PROVE  Alarms(waiting \cup Unfiltered)
  <2>1. PICK n \in DOMAIN threats[m].actions : threats[m].actions[n] \in OpenStatuses
    BY <1>5 DEF IsOpen
  <2>2. ResponseRow(threats[m], n) \in waiting \cup Unfiltered
    BY <1>2, <2>1
  <2>3. FindById(threats, ResponseRow(threats[m], n).link).severity # "info"
    BY <1>4, <1>5, RowFields
  <2> HIDE DEF waiting
  <2> QED BY <2>2, <2>3 DEF Alarms
<1>6. ASSUME Alarms(waiting \cup Unfiltered)
      PROVE  \E m \in 1 .. Len(threats) : IsOpen(threats[m]) /\ threats[m].severity # "info"
  <2>1. PICK r \in waiting \cup Unfiltered : FindById(threats, r.link).severity # "info"
    BY <1>6 DEF Alarms
  <2>7. PICK m \in 1 .. Len(threats) :
          \E n \in DOMAIN threats[m].actions : r = ResponseRow(threats[m], n)
    BY <1>3
  <2>2. PICK n \in DOMAIN threats[m].actions : r = ResponseRow(threats[m], n)
    BY <2>7
  <2>3. r.link = threats[m].id
    BY <2>2, RowFields
  <2>4. threats[m].severity # "info"
    BY <1>4, <2>1, <2>3
  <2>5. threats[m].actions[n] \in OpenStatuses
    BY <1>2, <2>2
  <2> QED BY <2>4, <2>5 DEF IsOpen
<1> HIDE DEF waiting
<1>7. Alarms(waiting \cup Unfiltered)
        <=> \E m \in 1 .. Len(threats) : IsOpen(threats[m]) /\ threats[m].severity # "info"
  BY <1>5, <1>6
<1> QED BY <1>7, AlarmIsOpen DEF AlarmMatchesResponse, waiting

(***************************************************************************)
(* The header shows an alarm exactly while Response lists, for a report    *)
(* that is not "info", an action waiting for a decision, or an approved    *)
(* one, which no filter but "all" shows and no button ends                 *)
(* (lib/format.ts:60-73, Response.tsx:16-23).                              *)
(***************************************************************************)
THEOREM AlarmsAreListed == Spec => []AlarmMatchesResponse
BY DeskTypes, AlarmsMatch, PTL


-----------------------------------------------------------------------------
(* The timeline. *)

LEMMA MinMaxIs ==
  /\ \A S : \A x \in S : (\A y \in S : x <= y) /\ S \subseteq Int => Min(S) = x
  /\ \A S : \A x \in S : (\A y \in S : x >= y) /\ S \subseteq Int => Max(S) = x
<1>1. ASSUME NEW S \in SUBSET Int, NEW x \in S, \A y \in S : x <= y PROVE Min(S) = x
  <2>1. \A z \in S : (\A y \in S : z <= y) => z = x
    BY <1>1
  <2> QED BY <1>1, <2>1 DEF Min
<1>2. ASSUME NEW S \in SUBSET Int, NEW x \in S, \A y \in S : x >= y PROVE Max(S) = x
  <2>1. \A z \in S : (\A y \in S : z >= y) => z = x
    BY <1>2
  <2> QED BY <1>2, <2>1 DEF Max
<1> QED BY <1>1, <1>2

LEMMA MinMaxOfTwo ==
  ASSUME NEW x \in Int, NEW y \in Int
  PROVE  /\ Min({x, y}) = IF x <= y THEN x ELSE y
         /\ Max({x, y}) = IF x >= y THEN x ELSE y
<1>1. {x, y} \subseteq Int
  OBVIOUS
<1>2. CASE x <= y
  <2>1. \A z \in {x, y} : x <= z /\ y >= z
    BY <1>2
  <2>2. Min({x, y}) = x /\ Max({x, y}) = y
    BY <1>1, <2>1, MinMaxIs
  <2> QED BY <1>2, <2>2
<1>3. CASE ~ (x <= y)
  <2>1. \A z \in {x, y} : y <= z /\ x >= z
    BY <1>3
  <2>2. Min({x, y}) = y /\ Max({x, y}) = x
    BY <1>1, <2>1, MinMaxIs
  <2> QED BY <1>3, <2>2
<1> QED BY <1>2, <1>3

\* A sum is what grows by each term.
LEMMA TotalIs ==
  ASSUME NEW n \in Nat, NEW f, NEW h,
         h = [c \in 0 .. n |-> IF c = 0 THEN 0 ELSE h[c - 1] + f[c - 1]]
  PROVE  Total(f, n) = h[n]
<1> DEFINE From(g, c) == IF c = 0 THEN 0 ELSE g[c - 1] + f[c - 1]
           UpTo(g) == g = [c \in 0 .. n |-> From(g, c)]
           g == CHOOSE u : UpTo(u)
           Bad == {c \in 0 .. n : g[c] # h[c]}
<1>1. Total(f, n) = g[n]
  BY DEF Total
<1>2. UpTo(g)
  <2>1. UpTo(h)
    OBVIOUS
  <2> HIDE DEF UpTo
  <2> QED BY <2>1
<1> HIDE DEF g
<1>3. \A c \in 0 .. n : g[c] = From(g, c) /\ h[c] = From(h, c)
  BY <1>2
<1>4. ASSUME Bad # {} PROVE FALSE
  <2>1. Bad \in SUBSET Nat
    OBVIOUS
  <2>2. PICK b \in Bad : \A y \in Bad : b <= y
    <3> HIDE DEF Bad
    <3> QED BY <1>4, <2>1, LeastNatural
  <2>3. b \in 0 .. n /\ g[b] # h[b]
    OBVIOUS
  <2>4. b # 0
    BY <1>3, <2>3
  <2>5. b - 1 \in 0 .. n /\ ~ (b <= b - 1)
    BY <2>3, <2>4
  <2>6. g[b - 1] = h[b - 1]
    BY <2>2, <2>5
  <2> QED BY <1>3, <2>3, <2>4, <2>6
<1>5. g[n] = h[n]
  BY <1>4
<1> QED BY <1>1, <1>5

LEMMA SixtyDivides ==
  ASSUME NEW x \in Nat
  PROVE  /\ x \div 60 \in Nat
         /\ 60 * (x \div 60) <= x
         /\ x <= 60 * (x \div 60) + 59
OBVIOUS

\* The chart reaches from minute a to minute b, and the times from lo to hi.
Spans(list, a, b, lo, hi) ==
  /\ FirstMinute(list) = 60 * a /\ LastMinute(list) = 60 * b
  /\ 60 * a <= list[lo].ts /\ list[lo].ts <= 60 * a + 59
  /\ list[hi].ts <= 60 * b /\ 60 * b <= list[hi].ts + 59
  /\ \A n \in 1 .. Len(list) :
       list[n].ts \in Nat /\ list[lo].ts <= list[n].ts /\ list[n].ts <= list[hi].ts

\* The earliest and the latest report, and whole minutes around them.
LEMMA TimesSpan ==
  ASSUME NEW list \in Seq(Item), list # <<>>
  PROVE  \E a, b \in Nat, lo, hi \in 1 .. Len(list) : Spans(list, a, b, lo, hi)
<1> DEFINE T == Times(list)
<1>1. /\ DOMAIN list = 1 .. Len(list) /\ \A n \in 1 .. Len(list) : list[n].ts \in Nat
  BY ItemTypes DEF Item
<1>2. T = {list[n].ts : n \in 1 .. Len(list)} /\ T \in SUBSET Nat /\ T \subseteq Int
  BY <1>1 DEF Times
<1>3. PICK hi \in 1 .. Len(list) : \A m \in 1 .. Len(list) :
        list[m].ts < list[hi].ts \/ (list[m].ts = list[hi].ts /\ hi <= m)
  BY SomeNewest
<1>4. \A m \in 1 .. Len(list) : list[m].ts <= list[hi].ts
  <2> SUFFICES ASSUME NEW m \in 1 .. Len(list) PROVE list[m].ts <= list[hi].ts
    OBVIOUS
  <2>1. list[m].ts \in Nat /\ list[hi].ts \in Nat
    BY <1>1
  <2>2. list[m].ts < list[hi].ts \/ list[m].ts = list[hi].ts
    BY <1>3
  <2> QED BY <2>1, <2>2
<1>5. list[hi].ts \in T
  BY <1>2
<1>6. PICK x \in T : \A y \in T : x <= y
  <2> HIDE DEF T
  <2> QED BY <1>2, <1>5, LeastNatural
<1>7. PICK lo \in 1 .. Len(list) : x = list[lo].ts
  BY <1>2
<1>8. \A n \in 1 .. Len(list) : list[lo].ts <= list[n].ts
  BY <1>2, <1>6, <1>7
<1>9. Min(T) = list[lo].ts /\ Max(T) = list[hi].ts
  <2>1. \A y \in T : list[hi].ts >= y
    <3> SUFFICES ASSUME NEW y \in T PROVE list[hi].ts >= y
      OBVIOUS
    <3>1. PICK m \in 1 .. Len(list) : y = list[m].ts
      BY <1>2
    <3> QED BY <1>1, <1>4, <3>1
  <2> HIDE DEF T
  <2> QED BY <1>2, <1>5, <1>6, <1>7, <2>1, MinMaxIs
<1> DEFINE a == list[lo].ts \div 60  b == (list[hi].ts + 59) \div 60
<1>10. FirstMinute(list) = a * 60 /\ LastMinute(list) = b * 60
  BY <1>9 DEF FirstMinute, LastMinute
<1>11. list[lo].ts \in Nat /\ list[hi].ts \in Nat /\ list[hi].ts + 59 \in Nat
  BY <1>1
<1>12. a \in Nat /\ 60 * a <= list[lo].ts /\ list[lo].ts <= 60 * a + 59
  BY <1>11, SixtyDivides
<1>13. b \in Nat /\ 60 * b <= list[hi].ts + 59 /\ list[hi].ts + 59 <= 60 * b + 59
  BY <1>11, SixtyDivides
<1> HIDE DEF a, b
<1>14. FirstMinute(list) = 60 * a /\ LastMinute(list) = 60 * b /\ list[hi].ts <= 60 * b
  BY <1>10, <1>11, <1>12, <1>13
<1>15. Spans(list, a, b, lo, hi)
  BY <1>1, <1>4, <1>8, <1>12, <1>13, <1>14 DEF Spans
<1> QED BY <1>12, <1>13, <1>15

\* The column of a report, and the minute it stands for.
InColumn(a, b, t, columns, column) ==
  /\ columns \in Nat /\ column \in 0 .. columns - 1
  /\ \/ t \in 60 * a + 60 * column .. 60 * a + 60 * column + 59
     \/ t = 60 * a + 60 * column + 60 /\ t = 60 * b

LEMMA ColumnIs ==
  ASSUME NEW a \in Nat, NEW b \in Nat, NEW t \in Nat, 60 * a <= t, t <= 60 * b,
         NEW columns, columns = Max({1, (60 * b - 60 * a) \div 60}),
         NEW column, column = Min({columns - 1, (t - 60 * a) \div 60})
  PROVE  InColumn(a, b, t, columns, column)
<1> DEFINE w == (60 * b - 60 * a) \div 60
           d == (t - 60 * a) \div 60
<1>9. columns = Max({1, w}) /\ column = Min({columns - 1, d})
  OBVIOUS
<1>1. 60 * b - 60 * a \in Nat /\ t - 60 * a \in Nat
  OBVIOUS
<1>2. w \in Nat /\ 60 * w <= 60 * b - 60 * a /\ 60 * b - 60 * a <= 60 * w + 59
  BY <1>1, SixtyDivides
<1>3. d \in Nat /\ 60 * d <= t - 60 * a /\ t - 60 * a <= 60 * d + 59
  BY <1>1, SixtyDivides
<1> HIDE DEF w, d
<1>4. columns = IF 1 >= w THEN 1 ELSE w
  <2>1. Max({1, w}) = IF 1 >= w THEN 1 ELSE w
    BY <1>2, 1 \in Int, w \in Int, MinMaxOfTwo
  <2> QED BY <1>9, <2>1
<1>5. columns \in Nat /\ columns >= 1 /\ columns >= w
  BY <1>2, <1>4
<1>6. column = IF columns - 1 <= d THEN columns - 1 ELSE d
  <2>1. columns - 1 \in Int /\ d \in Int
    BY <1>3, <1>5
  <2>2. Min({columns - 1, d}) = IF columns - 1 <= d THEN columns - 1 ELSE d
    BY <2>1, MinMaxOfTwo
  <2> QED BY <1>9, <2>2
<1>7. column \in 0 .. columns - 1
  BY <1>3, <1>5, <1>6
<1>8. \/ t \in 60 * a + 60 * column .. 60 * a + 60 * column + 59
      \/ t = 60 * a + 60 * column + 60 /\ t = 60 * b
  <2>1. CASE d <= columns - 1
    <3>1. column = d
      BY <1>3, <1>5, <1>6, <2>1
    <3> QED BY <1>3, <3>1
  <2>2. CASE ~ (d <= columns - 1)
    <3>1. column = columns - 1 /\ d >= columns
      BY <1>3, <1>5, <1>6, <2>2
    <3>2. b - a = w
      BY <1>2
    <3>3. d <= b - a
      BY <1>3
    <3>4. d = columns /\ columns = w /\ t - 60 * a >= 60 * w
      BY <1>2, <1>3, <1>5, <3>1, <3>2, <3>3
    <3> QED BY <1>2, <3>1, <3>2, <3>4
  <2> QED BY <2>1, <2>2
<1> QED BY <1>5, <1>7, <1>8 DEF InColumn

LEMMA ChartsRight == TypeOK => ChartIsRight
<1> SUFFICES ASSUME TypeOK, threats # <<>>
             PROVE  /\ \A s \in Charted :
                         Total(OnOverview.timeline[s], Columns(threats)) = OnOverview.footer[s]
                    /\ \A n \in DOMAIN threats : InItsMinute(threats[n])
  BY DEF ChartIsRight
<1>1. threats \in Seq(Item) /\ DOMAIN threats = 1 .. Len(threats) /\ Len(threats) \in Nat
  BY ItemTypes DEF TypeOK
<1>6. PICK a \in Nat, b \in Nat, lo \in 1 .. Len(threats), hi \in 1 .. Len(threats) :
           Spans(threats, a, b, lo, hi)
  BY <1>1, TimesSpan
<1>2. /\ FirstMinute(threats) = 60 * a /\ LastMinute(threats) = 60 * b
      /\ 60 * a <= threats[lo].ts /\ threats[hi].ts <= 60 * b
      /\ \A n \in 1 .. Len(threats) :
           /\ threats[n].ts \in Nat
           /\ threats[lo].ts <= threats[n].ts /\ threats[n].ts <= threats[hi].ts
  BY <1>6 DEF Spans
<1> DEFINE N == Columns(threats)
<1>3. ASSUME NEW n \in 1 .. Len(threats)
      PROVE  /\ N \in Nat /\ ColumnOf(threats, threats[n]) \in 0 .. N - 1
             /\ InItsMinute(threats[n])
  <2> DEFINE t == threats[n].ts  c == ColumnOf(threats, threats[n])
  <2>1. t \in Nat /\ 60 * a <= t /\ t <= 60 * b
    <3>1. t \in Nat /\ threats[lo].ts \in Nat /\ threats[hi].ts \in Nat
      BY <1>2
    <3>2. threats[lo].ts <= t /\ t <= threats[hi].ts
      BY <1>2
    <3> HIDE DEF t
    <3> QED BY <1>2, <3>1, <3>2
  <2>2. N = Max({1, (60 * b - 60 * a) \div 60})
    BY <1>2 DEF Columns
  <2>3. c = Min({N - 1, (t - 60 * a) \div 60})
    BY <1>2 DEF ColumnOf
  <2> HIDE DEF t, c, N
  <2>4. /\ N \in Nat /\ c \in 0 .. N - 1
        /\ \/ t \in 60 * a + 60 * c .. 60 * a + 60 * c + 59
           \/ t = 60 * a + 60 * c + 60 /\ t = 60 * b
    <3>1. InColumn(a, b, t, N, c)
      BY <2>1, <2>2, <2>3, ColumnIs
    <3> QED BY <3>1 DEF InColumn
  <2>5. Starts(threats[n]) = 60 * a + 60 * c
    BY <1>2 DEF Starts, c
  <2>6. InItsMinute(threats[n])
    BY <1>2, <2>4, <2>5 DEF InItsMinute, t
  <2> QED BY <2>4, <2>6 DEF c
<1>4. N \in Nat
  BY <1>2, <1>3
<1> HIDE DEF N
<1>5. ASSUME NEW s \in Charted
      PROVE  Total(OnOverview.timeline[s], N) = OnOverview.footer[s]
  <2> DEFINE f == EventChart(threats)[s]
             own == {n \in DOMAIN threats : threats[n].severity = s}
             In(c) == {n \in DOMAIN threats :
                         threats[n].severity = s /\ ColumnOf(threats, threats[n]) = c}
             Before(c) == {n \in own : ColumnOf(threats, threats[n]) < c}
             h == [c \in 0 .. N |-> Cardinality(Before(c))]
  <2>1. OnOverview.timeline = EventChart(threats)
    BY DEF OnOverview, Overview, Timeline
  <2>2. OnOverview.footer[s] = Cardinality(own)
    BY DEF OnOverview, Overview, Footer, severityCounts, Charted, Severities
  <2>3. \A c \in 0 .. N - 1 : f[c] = Cardinality(In(c))
    BY DEF EventChart, N
  <2>4. \A c : Before(c) \in SUBSET (1 .. Len(threats)) /\ In(c) \in SUBSET (1 .. Len(threats))
    BY <1>1
  <2>5. h[0] = 0
    <3>1. Before(0) = {}
      BY <1>1, <1>3
    <3>2. h[0] = Cardinality(Before(0))
      BY <1>4
    <3> QED BY <3>1, <3>2, FS_EmptySet
  <2>6. ASSUME NEW c \in 1 .. N PROVE h[c] = h[c - 1] + f[c - 1]
    <3>1. c - 1 \in 0 .. N - 1 /\ c - 1 \in 0 .. N /\ c \in 0 .. N
      BY <1>4
    <3>2. Before(c) = Before(c - 1) \cup In(c - 1) /\ Before(c - 1) \cap In(c - 1) = {}
      <4>1. \A n \in DOMAIN threats : ColumnOf(threats, threats[n]) \in Int
        BY <1>1, <1>3, <1>4
      <4>2. ASSUME NEW n \in DOMAIN threats
            PROVE  /\ ColumnOf(threats, threats[n]) < c <=>
                        \/ ColumnOf(threats, threats[n]) < c - 1
                        \/ ColumnOf(threats, threats[n]) = c - 1
                   /\ ~ (/\ ColumnOf(threats, threats[n]) < c - 1
                         /\ ColumnOf(threats, threats[n]) = c - 1)
        BY <4>1, <3>1
      <4> QED BY <4>2
    <3> HIDE DEF Before, In
    <3>3. IsFiniteSet(Before(c - 1)) /\ IsFiniteSet(In(c - 1))
      BY <1>1, <2>4, PositionsFinite
    <3>4. Cardinality(Before(c - 1)) \in Nat /\ Cardinality(In(c - 1)) \in Nat
      BY <3>3, FS_CardinalityType
    <3>5. Cardinality(Before(c)) = Cardinality(Before(c - 1)) + Cardinality(In(c - 1)) - 0
      BY <3>2, <3>3, FS_Union, FS_EmptySet
    <3>6. h[c] = Cardinality(Before(c)) /\ h[c - 1] = Cardinality(Before(c - 1))
      BY <3>1
    <3>7. f[c - 1] = Cardinality(In(c - 1))
      BY <2>3, <3>1
    <3> QED BY <3>4, <3>5, <3>6, <3>7
  <2>7. Before(N) = own
    BY <1>1, <1>3
  <2>8. h[N] = Cardinality(own)
    <3>1. h[N] = Cardinality(Before(N))
      BY <1>4
    <3> QED BY <2>7, <3>1
  <2>9. h = [c \in 0 .. N |-> IF c = 0 THEN 0 ELSE h[c - 1] + f[c - 1]]
    <3>1. h = [c \in 0 .. N |-> h[c]]
      OBVIOUS
    <3>2. \A c \in 0 .. N : h[c] = IF c = 0 THEN 0 ELSE h[c - 1] + f[c - 1]
      <4>1. \A c \in 0 .. N : c = 0 \/ c \in 1 .. N
        BY <1>4
      <4> HIDE DEF h, f
      <4> QED BY <2>5, <2>6, <4>1
    <3> HIDE DEF h, f
    <3> QED BY <3>1, <3>2
  <2>10. Total(f, N) = h[N]
    <3> HIDE DEF h, f
    <3> QED BY <1>4, <2>9, TotalIs
  <2> HIDE DEF h, f
  <2>11. f = OnOverview.timeline[s]
    BY <2>1 DEF f
  <2> QED BY <2>2, <2>8, <2>10, <2>11
<1> QED BY <1>1, <1>3, <1>5 DEF N

(***************************************************************************)
(* The timeline of Overview counts every report that is not "info" once,   *)
(* in the column of its minute, except that one on the last boundary is a  *)
(* column early (EventChart.tsx:16-31).                                    *)
(***************************************************************************)
THEOREM ChartCounts == Spec => []ChartIsRight
BY DeskTypes, ChartsRight, PTL


-----------------------------------------------------------------------------
(* What the pages say of one another. *)

LEMMA MaxIsLast ==
  ASSUME NEW l \in Nat, NEW S \in SUBSET (1 .. l), S # {}
  PROVE  Max(S) \in S
<1> DEFINE T == {l - n : n \in S}
<1>1. T \in SUBSET Nat /\ T # {}
  <2>1. \A n \in S : n \in 1 .. l /\ l - n \in Nat
    OBVIOUS
  <2>2. PICK n \in S : TRUE
    OBVIOUS
  <2>3. l - n \in T
    OBVIOUS
  <2> QED BY <2>1, <2>3
<1>2. PICK x \in T : \A y \in T : x <= y
  <2> HIDE DEF T
  <2> QED BY <1>1, LeastNatural
<1>3. PICK m \in S : x = l - m
  OBVIOUS
<1>4. ASSUME NEW n \in S PROVE m >= n
  <2>1. l - n \in T
    OBVIOUS
  <2>2. l - m <= l - n
    BY <1>2, <1>3, <2>1
  <2> QED BY <2>2
<1>5. S \subseteq Int
  OBVIOUS
<1>6. Max(S) = m
  BY <1>4, <1>5, MinMaxIs
<1> QED BY <1>6

\* The row of a pid on Processes: its last report, if there is one.
ReportsOf(p) == {n \in DOMAIN threats : threats[n].pid = p}

LEMMA RowOfPid ==
  ASSUME TypeOK, NEW p
  PROVE  LET row == ProcRow(Events, threats, p)
         IN  /\ row.count = Cardinality({n \in DOMAIN Events : Events[n].pid = p})
             /\ ReportsOf(p) = {} => row.severity = None
             /\ ReportsOf(p) # {} =>
                  /\ Max(ReportsOf(p)) \in 1 .. Len(threats) /\ threats[Max(ReportsOf(p))].pid = p
                  /\ row.severity = threats[Max(ReportsOf(p))].severity
                  /\ row.severity \in Severities /\ row.severity # None
                  /\ row.link = threats[Max(ReportsOf(p))].id
<1> DEFINE row == ProcRow(Events, threats, p)  ev == EventRow(Events, p)
<1>1. /\ DOMAIN threats = 1 .. Len(threats) /\ Len(threats) \in Nat
      /\ \A n \in 1 .. Len(threats) : threats[n].severity \in Severities
  BY ItemTypes DEF TypeOK, Item
<1>2. /\ ev.count = Cardinality({n \in DOMAIN Events : Events[n].pid = p})
      /\ ev.severity = None
      /\ DOMAIN ev = {"count", "ts", "severity", "link", "kinds"}
  BY DEF EventRow, NoRow
<1>3. CASE ReportsOf(p) = {}
  <2>1. row = ev
    BY <1>3 DEF ProcRow, ReportsOf
  <2> QED BY <1>2, <1>3, <2>1
<1>4. CASE ReportsOf(p) # {}
  <2> DEFINE x == Max(ReportsOf(p))
  <2>1. ReportsOf(p) \in SUBSET (1 .. Len(threats)) /\ \A n \in ReportsOf(p) : threats[n].pid = p
    BY <1>1 DEF ReportsOf
  <2>2. x \in ReportsOf(p)
    BY <1>1, <1>4, <2>1, MaxIsLast
  <2>3. row = [ev EXCEPT !.severity = threats[x].severity, !.link = threats[x].id,
                         !.ts = Max({@} \cup {threats[n].ts : n \in ReportsOf(p)})]
    BY <1>4 DEF ProcRow, ReportsOf
  <2> HIDE DEF x, row, ev
  <2>4. row.count = ev.count /\ row.severity = threats[x].severity /\ row.link = threats[x].id
    BY <1>2, <2>3
  <2>5. threats[x].severity \in Severities
    BY <1>1, <2>1, <2>2
  <2>6. threats[x].severity # None
    BY <2>5, NoneAssumption
  <2> QED BY <1>2, <1>4, <2>1, <2>2, <2>4, <2>5, <2>6 DEF x, row
<1> QED BY <1>3, <1>4

LEMMA ListedPids ==
  ASSUME TypeOK, NEW p
  PROVE  p \in Pids(threats) <=> ReportsOf(p) # {}
BY DEF Pids, ReportsOf

\* "suspicious only" leaves the pids that have a report, one row each.
LEMMA SuspiciousRows ==
  ASSUME TypeOK
  PROVE  LET s == Processes(Events, threats, TRUE)
             row(p) == ProcRow(Events, threats, p)
         IN  /\ s.count = Cardinality(Pids(threats))
             /\ \A r \in s.rows : \E p \in Pids(threats) :
                  r.pid = p /\ r.status = row(p).severity /\ r.link = row(p).link
             /\ \A p \in Pids(threats) : \E r \in s.rows :
                  r.pid = p /\ r.status = row(p).severity
<1> DEFINE row(p) == ProcRow(Events, threats, p)
           S == Pids(threats)
           R == Rows(Events, threats, TRUE)
           view(r) == [pid |-> r.pid, events |-> r.row.count, kinds |-> r.row.kinds,
                       status |-> IF r.row.severity = None THEN "normal" ELSE r.row.severity,
                       link |-> r.row.link]
           s == Processes(Events, threats, TRUE)
<1>1. /\ DOMAIN threats = 1 .. Len(threats) /\ Len(threats) \in Nat
  BY ItemTypes DEF TypeOK
<1>2. \A p : row(p).severity # None <=> p \in S
  <2> SUFFICES ASSUME NEW p PROVE row(p).severity # None <=> p \in S
    OBVIOUS
  <2>1. ReportsOf(p) = {} => row(p).severity = None
    BY RowOfPid
  <2>2. ReportsOf(p) # {} => row(p).severity # None
    BY RowOfPid
  <2> HIDE DEF row, S
  <2>3. p \in S <=> ReportsOf(p) # {}
    BY ListedPids DEF S
  <2> QED BY <2>1, <2>2, <2>3
<1>3. R = {[pid |-> p, row |-> row(p)] : p \in S}
  <2>1. R = {[pid |-> p, row |-> row(p)] :
               p \in {p \in Pids(Events) \cup Pids(threats) : TRUE => row(p).severity # None}}
    BY DEF Rows
  <2>2. {p \in Pids(Events) \cup Pids(threats) : TRUE => row(p).severity # None} = S
    <3> HIDE DEF row
    <3> QED BY <1>2
  <2> HIDE DEF row, R, S
  <2> QED BY <2>1, <2>2
<1>4. s.count = Cardinality(R) /\ s.rows = {view(r) : r \in R}
  BY DEF Processes
<1> HIDE DEF row, S, R, s
<1>5. Cardinality(R) = Cardinality(S)
  <2> DEFINE f == [p \in S |-> [pid |-> p, row |-> row(p)]]
             g == [n \in 1 .. Len(threats) |-> threats[n].pid]
  <2>1. f \in Bijection(S, R)
    <3>1. f \in [S -> R]
      BY <1>3
    <3>2. \A x, y \in S : f[x] = f[y] => x = y
      OBVIOUS
    <3>3. \A z \in R : \E x \in S : f[x] = z
      BY <1>3
    <3> HIDE DEF f
    <3> QED BY <3>1, <3>2, <3>3 DEF Bijection, Injection, Surjection, IsInjective
  <2>2. IsFiniteSet(S)
    <3>1. g \in Surjection(1 .. Len(threats), S)
      <4>1. g \in [1 .. Len(threats) -> S] /\ \A z \in S : \E n \in 1 .. Len(threats) : g[n] = z
        BY <1>1 DEF S, Pids
      <4> HIDE DEF g
      <4> QED BY <4>1 DEF Surjection
    <3>2. IsFiniteSet(1 .. Len(threats))
      BY <1>1, FS_Interval
    <3> HIDE DEF g
    <3> QED BY <3>1, <3>2, FS_Surjection
  <2>3. ExistsBijection(S, R)
    <3> HIDE DEF f
    <3> QED BY <2>1 DEF ExistsBijection
  <2> QED BY <2>2, <2>3, FS_Bijection
<1>6. ASSUME NEW p \in S
      PROVE  LET v == view([pid |-> p, row |-> row(p)])
             IN  v.pid = p /\ v.status = row(p).severity /\ v.link = row(p).link
  <2>1. row(p).severity # None
    BY <1>2
  <2> QED BY <2>1
<1>7. ASSUME NEW r \in s.rows
      PROVE  \E p \in S : r.pid = p /\ r.status = row(p).severity /\ r.link = row(p).link
  <2>1. PICK q \in R : r = view(q)
    BY <1>4
  <2>2. PICK p \in S : q = [pid |-> p, row |-> row(p)]
    BY <1>3
  <2> HIDE DEF view
  <2> QED BY <1>6, <2>1, <2>2
<1>8. ASSUME NEW p \in S
      PROVE  \E r \in s.rows : r.pid = p /\ r.status = row(p).severity
  <2> DEFINE v == view([pid |-> p, row |-> row(p)])
  <2>1. v \in s.rows
    <3> HIDE DEF view
    <3> QED BY <1>3, <1>4
  <2>2. v.pid = p /\ v.status = row(p).severity
    BY <1>6
  <2> HIDE DEF v
  <2> QED BY <2>1, <2>2
<1> QED BY <1>4, <1>5, <1>7, <1>8 DEF row, S, s


\* Overview shows the first report of each pid, up to eight.
LEMMA OverviewRows ==
  ASSUME TypeOK
  PROVE  LET first == OnOverview.processes
         IN  /\ Len(first) = Min({ShownRows, Cardinality(Pids(threats))})
             /\ DOMAIN first = 1 .. Len(first)
             /\ \A n \in 1 .. Len(first) : \E m \in 1 .. Len(threats) :
                  first[n].pid = threats[m].pid /\ first[n].severity = threats[m].severity
             /\ \A m, n \in 1 .. Len(first) : first[m].pid = first[n].pid => m = n
<1> DEFINE F == FirstOfPid(threats)
           S == Pids(threats)
           c == Cardinality(F)
           kept == At(threats, F)
           entry(n) == [pid |-> kept[n].pid, severity |-> kept[n].severity, ts |-> kept[n].ts]
           list == [n \in DOMAIN kept |-> entry(n)]
           first == OnOverview.processes
           L == Len(threats)
<1>1. threats \in Seq(Item) /\ DOMAIN threats = 1 .. L /\ L \in Nat
  BY ItemTypes DEF TypeOK
<1>2. first = AtMost(list, ShownRows)
  BY DEF OnOverview, Overview, suspiciousProcesses
<1>3. /\ F \in SUBSET (1 .. L)
      /\ \A n \in F : \A m \in 1 .. n - 1 : threats[m].pid # threats[n].pid
  BY <1>1 DEF FirstOfPid
<1>4. \A n \in 1 .. L : (\A m \in 1 .. n - 1 : threats[m].pid # threats[n].pid) => n \in F
  BY <1>1 DEF FirstOfPid
<1> HIDE DEF F, L
<1>5. \A m, n \in F : threats[m].pid = threats[n].pid => m = n
  <2> SUFFICES ASSUME NEW m \in F, NEW n \in F, threats[m].pid = threats[n].pid PROVE m = n
    OBVIOUS
  <2>1. m \in 1 .. L /\ n \in 1 .. L
    BY <1>3
  <2>2. ~ (m \in 1 .. n - 1) /\ ~ (n \in 1 .. m - 1)
    BY <1>3
  <2> QED BY <1>1, <2>1, <2>2
<1>6. \A p \in S : \E n \in F : threats[n].pid = p
  <2> SUFFICES ASSUME NEW p \in S PROVE \E n \in F : threats[n].pid = p
    OBVIOUS
  <2> DEFINE T == {n \in 1 .. L : threats[n].pid = p}
  <2>1. T \in SUBSET Nat /\ T # {}
    BY <1>1 DEF Pids
  <2>2. PICK x \in T : \A y \in T : x <= y
    <3> HIDE DEF T
    <3> QED BY <2>1, LeastNatural
  <2>3. x \in 1 .. L /\ threats[x].pid = p
    OBVIOUS
  <2>4. ASSUME NEW m \in 1 .. x - 1 PROVE threats[m].pid # threats[x].pid
    <3>1. m \in 1 .. L /\ ~ (x <= m)
      BY <1>1, <2>3
    <3>2. m \notin T
      BY <2>2, <3>1
    <3> QED BY <2>3, <3>1, <3>2
  <2> QED BY <1>4, <2>3, <2>4
<1>7. Cardinality(F) = Cardinality(S) /\ c \in Nat
  <2> DEFINE f == [n \in F |-> threats[n].pid]
  <2>1. f \in [F -> S]
    BY <1>1, <1>3 DEF Pids
  <2>2. \A x, y \in F : f[x] = f[y] => x = y
    BY <1>5
  <2>3. \A z \in S : \E x \in F : f[x] = z
    <3> HIDE DEF S
    <3> QED BY <1>6
  <2> HIDE DEF f, S
  <2>4. ExistsBijection(F, S)
    <3>1. f \in Bijection(F, S)
      BY <2>1, <2>2, <2>3 DEF Bijection, Injection, Surjection, IsInjective
    <3> QED BY <3>1 DEF ExistsBijection
  <2>5. IsFiniteSet(F) /\ Cardinality(F) \in Nat
    BY <1>1, <1>3, PositionsFinite
  <2> QED BY <2>4, <2>5, FS_Bijection
<1>8. /\ DOMAIN kept = 1 .. c
      /\ \A n \in 1 .. c : kept[n] = threats[Nth(F, n)] /\ Nth(F, n) \in F
      /\ \A m, n \in 1 .. c : Nth(F, m) = Nth(F, n) => m = n
  <2>1. /\ kept \in Seq(Item) /\ Len(kept) = c
        /\ \A n \in 1 .. c : kept[n] = threats[Nth(F, n)] /\ Nth(F, n) \in F
    BY <1>1, <1>3, AtProperties DEF L
  <2>2. \A n \in 1 .. c : Rank(F, Nth(F, n)) = n
    BY <1>1, <1>3, NthHasRank
  <2>3. DOMAIN kept = 1 .. c
    <3> HIDE DEF kept
    <3> QED BY <2>1, LenProperties
  <2>4. \A m, n \in 1 .. c : Nth(F, m) = Nth(F, n) => m = n
    BY <2>2
  <2> QED BY <2>1, <2>3, <2>4
<1> HIDE DEF c, kept, S
<1>9. /\ DOMAIN list = 1 .. c /\ Len(list) = c
      /\ \A n \in 1 .. c : list[n] = entry(n)
  <2> HIDE DEF entry
  <2>1. DOMAIN list = 1 .. c
    BY <1>8
  <2>2. \A n \in 1 .. c : list[n] = entry(n)
    BY <1>8
  <2> HIDE DEF list
  <2> QED BY <1>7, <2>1, <2>2, LenProperties
<1>10. /\ DOMAIN first = 1 .. Len(first)
       /\ Len(first) = IF ShownRows <= c THEN ShownRows ELSE c
       /\ Len(first) \in 0 .. c
       /\ \A n \in 1 .. Len(first) : first[n] = list[n]
  <2> HIDE DEF entry, list, first
  <2>1. CASE c > 8
    <3>1. first = SubSeq(list, 1, 8)
      BY <1>2, <1>9, <2>1 DEF AtMost, ShownRows
    <3>2. first = [i \in 1 .. 8 |-> list[i]]
      <4>1. SubSeq(list, 1, 8) = [i \in 1 .. (1 + 8 - 1) |-> list[1 + i - 1]]
        OBVIOUS
      <4> QED BY <3>1, <4>1
    <3>3. Len(first) = 8 /\ DOMAIN first = 1 .. 8 /\ \A n \in 1 .. 8 : first[n] = list[n]
      BY <3>2
    <3> QED BY <1>7, <2>1, <3>3 DEF ShownRows
  <2>2. CASE ~ (c > 8)
    <3>1. first = list
      BY <1>2, <1>9, <2>2 DEF AtMost, ShownRows
    <3>2. Len(first) = c
      BY <1>9, <3>1
    <3>3. Len(first) = IF ShownRows <= c THEN ShownRows ELSE c
      BY <1>7, <2>2, <3>2 DEF ShownRows
    <3> QED BY <1>7, <1>9, <3>1, <3>2, <3>3
  <2> QED BY <2>1, <2>2
<1> HIDE DEF list, first
<1>11. ASSUME NEW n \in 1 .. Len(first)
       PROVE  /\ n \in 1 .. c /\ Nth(F, n) \in F
              /\ first[n].pid = threats[Nth(F, n)].pid
              /\ first[n].severity = threats[Nth(F, n)].severity
  <2>1. n \in 1 .. c
    BY <1>7, <1>10
  <2>2. first[n] = entry(n) /\ kept[n] = threats[Nth(F, n)] /\ Nth(F, n) \in F
    BY <1>8, <1>9, <1>10, <2>1
  <2> QED BY <2>1, <2>2
<1>12. ASSUME NEW m \in 1 .. Len(first), NEW n \in 1 .. Len(first), first[m].pid = first[n].pid
       PROVE  m = n
  <2>1. Nth(F, m) = Nth(F, n)
    BY <1>5, <1>11, <1>12
  <2> QED BY <1>8, <1>11, <2>1
<1>13. Len(first) = Min({ShownRows, Cardinality(S)})
  <2>1. ShownRows \in Int /\ c \in Int
    BY <1>7 DEF ShownRows
  <2> QED BY <1>7, <1>10, <2>1, MinMaxOfTwo DEF c
<1>14. \A n \in 1 .. Len(first) : \E m \in 1 .. Len(threats) :
         first[n].pid = threats[m].pid /\ first[n].severity = threats[m].severity
  BY <1>3, <1>11 DEF L
<1> QED BY <1>10, <1>12, <1>13, <1>14 DEF first, S


\* A link leads to the report it names.
LEMMA DetailIs ==
  ASSUME TypeOK, NEW m \in 1 .. Len(threats)
  PROVE  DetailOf(threats[m].id) = ThreatDetail(threats[m])
<1>1. threats \in Seq(Item) /\ Once(threats)
  BY TypeParts DEF ThreatTypes
<1>2. HasId(threats, threats[m].id) /\ FindById(threats, threats[m].id) = threats[m]
  BY <1>1, FoundById
<1>3. Threats(threats, "all", threats[m].id).detail = threats[m].id
  BY <1>2 DEF Threats, ThreatSelected
<1> QED BY <1>2, <1>3 DEF DetailOf

LEMMA PagesMatch == TypeOK => PagesAgree
<1> SUFFICES ASSUME TypeOK PROVE PagesAgree
  OBVIOUS
<1> DEFINE first == OnOverview.processes
           suspicious == Processes(Events, threats, TRUE)
           row(p) == ProcRow(Events, threats, p)
<1>1. DOMAIN threats = 1 .. Len(threats) /\ Len(threats) \in Nat
  BY ItemTypes DEF TypeOK
<1>2. /\ Len(first) = Min({ShownRows, suspicious.count})
      /\ DOMAIN first = 1 .. Len(first)
      /\ \A n \in 1 .. Len(first) : \E m \in 1 .. Len(threats) :
           first[n].pid = threats[m].pid /\ first[n].severity = threats[m].severity
      /\ \A m, n \in DOMAIN first : first[m].pid = first[n].pid => m = n
  BY OverviewRows, SuspiciousRows
<1>3. ASSUME NEW n \in DOMAIN first
      PROVE  \E r \in suspicious.rows :
               r.pid = first[n].pid /\ (Single(r.pid) => r.status = first[n].severity)
  <2>1. PICK m \in 1 .. Len(threats) :
          first[n].pid = threats[m].pid /\ first[n].severity = threats[m].severity
    BY <1>2
  <2> DEFINE p == threats[m].pid
  <2>2. p \in Pids(threats) /\ m \in ReportsOf(p)
    BY <1>1 DEF Pids, ReportsOf
  <2>3. PICK r \in suspicious.rows : r.pid = p /\ r.status = row(p).severity
    BY <2>2, SuspiciousRows
  <2>4. ASSUME Single(p) PROVE r.status = threats[m].severity
    <3>1. ReportsOf(p) \in SUBSET (1 .. Len(threats))
      BY <1>1 DEF ReportsOf
    <3>2. PICK x : ReportsOf(p) = {x}
      <4>1. IsFiniteSet(ReportsOf(p)) /\ Cardinality(ReportsOf(p)) = 1
        BY <1>1, <2>4, <3>1, PositionsFinite DEF Single, ReportsOf
      <4> QED BY <4>1, FS_Singleton
    <3>3. Max(ReportsOf(p)) = m
      <4>1. Max(ReportsOf(p)) \in ReportsOf(p)
        BY <1>1, <3>1, <3>2, MaxIsLast
      <4> QED BY <2>2, <3>2, <4>1
    <3>4. row(p).severity = threats[Max(ReportsOf(p))].severity
      BY <2>2, RowOfPid
    <3> QED BY <2>3, <3>3, <3>4
  <2> HIDE DEF p, row, first, suspicious
  <2> QED BY <2>1, <2>3, <2>4 DEF p
<1>4. ASSUME NEW r \in suspicious.rows PROVE DetailOf(r.link).severity = r.status
  <2>1. PICK p \in Pids(threats) :
          r.pid = p /\ r.status = row(p).severity /\ r.link = row(p).link
    BY SuspiciousRows
  <2>2. ReportsOf(p) # {}
    BY <2>1, ListedPids
  <2> DEFINE x == Max(ReportsOf(p))
  <2>3. x \in 1 .. Len(threats) /\ row(p).severity = threats[x].severity /\ row(p).link = threats[x].id
    BY <2>2, RowOfPid
  <2> HIDE DEF x, row
  <2>4. DetailOf(threats[x].id) = ThreatDetail(threats[x])
    BY <2>3, DetailIs
  <2> QED BY <2>1, <2>3, <2>4 DEF ThreatDetail
<1>5. ASSUME NEW r \in Processes(Events, threats, FALSE).rows
      PROVE  KernelActivity(Events, "all", r.pid).shown >= r.events
  <2> DEFINE own(p) == {n \in DOMAIN Events : Events[n].pid = p}
             shown(p) == {n \in DOMAIN Events :
                            /\ "all" = "all" \/ Events[n].kind = "all"
                            /\ p = None \/ TextIncludes(Events[n].pid, p)}
  <2>1. PICK p : r.pid = p /\ r.events = row(p).count
    <3> DEFINE view(q) == [pid |-> q.pid, events |-> q.row.count, kinds |-> q.row.kinds,
                           status |-> IF q.row.severity = None THEN "normal"
                                      ELSE q.row.severity,
                           link |-> q.row.link]
    <3>1. \A q \in Rows(Events, threats, FALSE) : \E p : q = [pid |-> p, row |-> row(p)]
      BY DEF Rows
    <3>2. PICK z \in Rows(Events, threats, FALSE) : r = view(z)
      BY DEF Processes
    <3>3. PICK p : z = [pid |-> p, row |-> row(p)]
      BY <3>1, <3>2
    <3>4. z.pid = p /\ z.row = row(p)
      BY <3>3
    <3>5. r.pid = z.pid /\ r.events = z.row.count
      BY <3>2
    <3> HIDE DEF row, view
    <3> QED BY <3>4, <3>5
  <2>2. r.events = Cardinality(own(p))
    <3>1. row(p).count = Cardinality(own(p))
      BY RowOfPid
    <3> HIDE DEF row, own
    <3> QED BY <2>1, <3>1
  <2>3. DOMAIN Events = 1 .. Len(Events) /\ Len(Events) \in Nat
    BY EventsAssumption, LenProperties
  <2>4. own(p) \subseteq shown(p) /\ shown(p) \in SUBSET (1 .. Len(Events))
    BY <2>3 DEF TextIncludes
  <2>5. KernelActivity(Events, "all", p).shown = Len(At(Events, shown(p)))
    BY DEF KernelActivity, Filtered
  <2> HIDE DEF shown, own
  <2>6. Len(At(Events, shown(p))) = Cardinality(shown(p))
    BY <2>4, EventsAssumption, AtProperties
  <2>7. IsFiniteSet(shown(p)) /\ Cardinality(shown(p)) \in Nat
    BY <2>3, <2>4, PositionsFinite
  <2>8. Cardinality(own(p)) <= Cardinality(shown(p)) /\ Cardinality(own(p)) \in Nat
    BY <2>4, <2>7, FS_Subset, FS_CardinalityType
  <2> QED BY <2>1, <2>2, <2>5, <2>6, <2>7, <2>8
<1>6. ASSUME NEW f, f # "all", NEW r \in Response(threats, f).rows
      PROVE  \E m \in 1 .. Len(threats) :
               /\ DetailOf(r.link) = ThreatDetail(threats[m])
               /\ r.index \in DOMAIN threats[m].actions
               /\ threats[m].actions[r.index] = f
  <2>1. PICK m \in 1 .. Len(threats) : \E n \in DOMAIN threats[m].actions :
          r = ResponseRow(threats[m], n) /\ (f = "all" \/ r.status = f)
    BY RowsShown
  <2>2. PICK n \in DOMAIN threats[m].actions :
          r = ResponseRow(threats[m], n) /\ (f = "all" \/ r.status = f)
    BY <2>1
  <2>3. r.link = threats[m].id /\ r.index = n /\ threats[m].actions[n] = f
    BY <1>6, <2>2, RowFields
  <2> QED BY <2>3, DetailIs
<1>7. ASSUME NEW r \in Response(threats, "pending_approval").rows
      PROVE  DetailOf(r.link).rows[r.index].actionable
  <2>1. PICK m \in 1 .. Len(threats) :
          /\ DetailOf(r.link) = ThreatDetail(threats[m])
          /\ r.index \in DOMAIN threats[m].actions
          /\ threats[m].actions[r.index] = "pending_approval"
    BY <1>6
  <2>2. ThreatDetail(threats[m]).rows[r.index] = ActionRow(threats[m], r.index)
    BY <2>1 DEF ThreatDetail
  <2>3. ActionRow(threats[m], r.index).actionable
          = ("pending_approval" \in {"recommended", "pending_approval"})
    BY <2>1 DEF ActionRow
  <2>4. ("pending_approval" \in {"recommended", "pending_approval"}) = TRUE
    OBVIOUS
  <2>5. ActionRow(threats[m], r.index).actionable = TRUE
    BY <2>3, <2>4, Zenon
  <2> QED BY <2>1, <2>2, <2>5
<1>8. ASSUME NEW r \in Response(threats, "executed").rows
      PROVE  DetailOf(r.link).rollback
  <2>1. PICK m \in 1 .. Len(threats) :
          /\ DetailOf(r.link) = ThreatDetail(threats[m])
          /\ r.index \in DOMAIN threats[m].actions
          /\ threats[m].actions[r.index] = "executed"
    BY <1>6
  <2>2. "executed" \in ToSet(threats[m].actions)
    BY <2>1 DEF ToSet
  <2>3. ThreatDetail(threats[m]).rollback = ("executed" \in ToSet(threats[m].actions))
    BY DEF ThreatDetail
  <2>4. ThreatDetail(threats[m]).rollback
    BY <2>2, <2>3, Zenon
  <2> QED BY <2>1, <2>4, Zenon
<1>9. ASSUME NEW h \in Healths
      PROVE  AppHeader(threats, h).level = "LEARNING" <=>
               (h = None \/ SystemHealth(h).learning = "baseline")
  <2>1. AppHeader(threats, h).level = threatLevel(threats, Learning(h))
    BY DEF AppHeader
  <2>2. Learning(h) \in BOOLEAN /\ (h # None => (Learning(h) <=> h.learning))
    <3>1. h # None => h.learning \in BOOLEAN
      BY DEF Healths, Health, HealthRecord
    <3> QED BY <3>1 DEF Learning
  <2>3. \A l \in BOOLEAN : threatLevel(threats, l) = "LEARNING" <=> l
    <3> SUFFICES ASSUME NEW l \in BOOLEAN PROVE threatLevel(threats, l) = "LEARNING" <=> l
      OBVIOUS
    <3> DEFINE open == {threats[n].severity : n \in {m \in DOMAIN threats : IsOpen(threats[m])}}
    <3>1. threatLevel(threats, l) =
            CASE l -> "LEARNING"
              [] ~l /\ open \cap {"critical", "high"} # {} -> "THREAT ACTIVE"
              [] ~l /\ open \cap {"critical", "high"} = {}
                   /\ open \cap {"medium", "low"} # {} -> "ELEVATED"
              [] OTHER -> "PROTECTED"
      BY DEF threatLevel
    <3> HIDE DEF open
    <3>2. CASE l
      BY <3>1, <3>2
    <3>3. CASE ~l /\ open \cap {"critical", "high"} # {}
      BY <3>1, <3>3
    <3>4. CASE ~l /\ open \cap {"critical", "high"} = {} /\ open \cap {"medium", "low"} # {}
      BY <3>1, <3>4
    <3>5. CASE ~l /\ open \cap {"critical", "high"} = {} /\ open \cap {"medium", "low"} = {}
      BY <3>1, <3>5
    <3> QED BY <3>2, <3>3, <3>4, <3>5
  <2>4. h # None => (SystemHealth(h).learning = "baseline" <=> h.learning)
    <3>1. h # None => SystemHealth(h).learning = IF h.learning THEN "baseline" ELSE "detecting"
      BY DEF SystemHealth
    <3> QED BY <3>1
  <2>5. h = None => Learning(h)
    BY DEF Learning
  <2> QED BY <2>1, <2>2, <2>3, <2>4, <2>5
<1> HIDE DEF first, suspicious
<1> QED BY <1>2, <1>3, <1>4, <1>5, <1>7, <1>8, <1>9 DEF PagesAgree, first, suspicious

(***************************************************************************)
(* Whatever the provider holds, the pages say the same of a process, and a *)
(* link from a row leads to the report, its buttons and its rollback       *)
(* (Overview.tsx:50-63, Processes.tsx:25-59, Response.tsx:29-46,           *)
(* ThreatDetail.tsx).                                                      *)
(***************************************************************************)
THEOREM PagesMatchEachOther == Spec => []PagesAgree
BY DeskTypes, PagesMatch, PTL
=============================================================================
