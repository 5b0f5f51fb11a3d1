------------------------- MODULE ReportStream_proofs -------------------------
(***************************************************************************)
(* Proofs about ReportStream for any bounds and any number of overlapping  *)
(* requests: its types with the limits of its lists, and that the          *)
(* dashboard shows no report twice.                                        *)
(***************************************************************************)
EXTENDS ReportStream, Sublists_proofs

-----------------------------------------------------------------------------
(* Facts about the helper operators. *)

\* What is kept of a list is all of it, or the given number of elements.
LEMMA KeptProperties ==
  ASSUME NEW T, NEW s \in Seq(T), NEW n \in Nat
  PROVE  /\ Kept(s, n) \in Seq(T)
         /\ Len(Kept(s, n)) <= n
         /\ Len(s) <= n => Kept(s, n) = s
         /\ Len(s) > n =>
              /\ Len(Kept(s, n)) = n
              /\ \A i \in 1 .. n : i + (Len(s) - n) \in 1 .. Len(s)
                                   /\ Kept(s, n)[i] = s[i + (Len(s) - n)]
<1>1. CASE Len(s) <= n
  <2>1. Kept(s, n) = s
    BY <1>1, LenProperties DEF Kept
  <2> QED BY <1>1, <2>1, LenProperties
<1>2. CASE Len(s) > n
  <2> DEFINE d == Len(s) - n
  <2>1. Kept(s, n) = SubSeq(s, d + 1, Len(s))
    BY <1>2 DEF Kept
  <2>2. d \in Nat /\ Len(s) \in Nat
    BY <1>2, LenProperties
  <2>3. \A i \in d + 1 .. Len(s) : s[i] \in T
    BY <2>2, ElementOfSeq
  <2>4. /\ SubSeq(s, d + 1, Len(s)) \in Seq(T)
        /\ Len(SubSeq(s, d + 1, Len(s))) = IF d + 1 <= Len(s) THEN Len(s) - (d + 1) + 1 ELSE 0
        /\ \A i \in 1 .. Len(s) - (d + 1) + 1 : SubSeq(s, d + 1, Len(s))[i] = s[d + 1 + i - 1]
    <3> HIDE DEF d
    <3> QED BY <2>2, <2>3, SubSeqProperties
  <2>5. Len(Kept(s, n)) = n
    BY <2>1, <2>2, <2>4
  <2>6. \A i \in 1 .. n : i + d \in 1 .. Len(s) /\ Kept(s, n)[i] = s[i + d]
    BY <2>1, <2>2, <2>4
  <2>7. Kept(s, n) \in Seq(T) /\ Len(s) \in Nat
    BY <2>1, <2>2, <2>4
  <2>9. Len(Kept(s, n)) <= n /\ ~ (Len(s) <= n)
    BY <1>2, <2>5, <2>7
  <2> QED BY <2>5, <2>6, <2>7, <2>9
<1> QED BY <1>1, <1>2, LenProperties

\* Either way it is the end of the list.
LEMMA KeptIsEnd ==
  ASSUME NEW T, NEW s \in Seq(T), NEW n \in Nat
  PROVE  \E d \in Nat : \A i \in 1 .. Len(Kept(s, n)) :
           i + d \in 1 .. Len(s) /\ Kept(s, n)[i] = s[i + d]
<1> DEFINE k == Kept(s, n)
<1>1. Len(s) \in Nat
  BY LenProperties
<1>2. CASE Len(s) <= n
  <2>1. k = s
    BY <1>2, KeptProperties
  <2>2. \A i \in 1 .. Len(k) : i + 0 \in 1 .. Len(s) /\ k[i] = s[i + 0]
    BY <1>1, <2>1
  <2> QED BY <2>2
<1>3. CASE Len(s) > n
  <2> DEFINE d == Len(s) - n
  <2>1. Len(k) = n /\ \A i \in 1 .. n : i + d \in 1 .. Len(s) /\ k[i] = s[i + d]
    BY <1>3, KeptProperties
  <2>2. d \in Nat
    BY <1>1, <1>3
  <2> HIDE DEF d, k
  <2> QED BY <2>1, <2>2 DEF k
<1> QED BY <1>1, <1>2, <1>3

\* A copy of a detected report, of the version it has now.
LEMMA CopyType ==
  ASSUME ver \in [Ids -> 1 .. MaxVersion], NEW i \in Ids
  PROVE  Copy(i) \in Copies
BY DEF Copy, Copies

\* The answer of GET /api/threats: copies of listed reports.
LEMMA ListingType ==
  ASSUME TypeOK
  PROVE  /\ Listing \in Seq(Copies)
         /\ \E d \in Nat : \A n \in 1 .. Len(Listing) :
              d - n \in 1 .. Len(reports) /\ Listing[n].id = reports[d - n]
<1> DEFINE k == Kept(reports, Limit)
<1>1. reports \in Seq(1 .. created) /\ Limit \in Nat /\ 1 .. created \subseteq Ids
      /\ ver \in [Ids -> 1 .. MaxVersion]
  BY BoundsAssumption DEF TypeOK, Ids
<1>2. k \in Seq(1 .. created) /\ Len(k) \in Nat
  BY <1>1, KeptProperties, LenProperties
<1>0. reports \in Seq(1 .. created) /\ Limit \in Nat
  BY <1>1
<1>3. PICK d \in Nat : \A i \in 1 .. Len(k) :
        i + d \in 1 .. Len(reports) /\ k[i] = reports[i + d]
  BY <1>0, KeptIsEnd
<1>4. Listing = [n \in 1 .. Len(k) |-> Copy(k[Len(k) - n + 1])]
  BY DEF Listing, Reverse
<1> HIDE DEF k
<1>5. \A n \in 1 .. Len(k) : Len(k) - n + 1 \in 1 .. Len(k)
  BY <1>2
<1>6. \A n \in 1 .. Len(k) : k[Len(k) - n + 1] \in Ids
  BY <1>1, <1>2, <1>5, ElementOfSeq
<1>7. \A n \in 1 .. Len(k) : Copy(k[Len(k) - n + 1]) \in Copies
  BY <1>1, <1>6, CopyType
<1>8. Listing \in Seq(Copies) /\ Len(Listing) = Len(k)
  BY <1>2, <1>4, <1>7
<1>9. \A n \in 1 .. Len(k) : Listing[n].id = k[Len(k) - n + 1]
  BY <1>4 DEF Copy
<1>10. \A n \in 1 .. Len(k) :
         /\ (Len(k) + 1 + d) - n \in 1 .. Len(reports)
         /\ Listing[n].id = reports[(Len(k) + 1 + d) - n]
  <2> SUFFICES ASSUME NEW n \in 1 .. Len(k)
               PROVE  /\ (Len(k) + 1 + d) - n \in 1 .. Len(reports)
                      /\ Listing[n].id = reports[(Len(k) + 1 + d) - n]
    OBVIOUS
  <2>1. (Len(k) - n + 1) + d = (Len(k) + 1 + d) - n
    BY <1>2
  <2> QED BY <1>3, <1>5, <1>9, <2>1
<1>11. Len(k) + 1 + d \in Nat
  BY <1>2
<1> QED BY <1>8, <1>10, <1>11

-----------------------------------------------------------------------------
(* The list of threats. *)

\* No report is twice in the list.
Unique(list) == \A m, n \in DOMAIN list : list[m].id = list[n].id => m = n

\* A list without repetitions has as many reports as it is long.
LEMMA UniqueIsCounted ==
  ASSUME NEW list \in Seq(Copies), Unique(list)
  PROVE  Cardinality(IdsOf(list)) = Len(list)
<1> DEFINE D == 1 .. Len(list)  f == [n \in D |-> list[n].id]
<1>1. Len(list) \in Nat /\ DOMAIN list = D
  BY LenProperties
<1>2. f \in Bijection(D, IdsOf(list))
  <2>1. f \in Injection(D, IdsOf(list))
    BY <1>1 DEF Injection, IsInjective, IdsOf, Unique
  <2>2. f \in Surjection(D, IdsOf(list))
    BY <1>1 DEF Surjection, IdsOf
  <2> QED BY <2>1, <2>2 DEF Bijection
<1>3. IsFiniteSet(D) /\ Cardinality(D) = Len(list)
  BY <1>1, FS_Interval
<1> QED BY <1>2, <1>3, FS_Bijection DEF ExistsBijection

\* A report put in front replaces the copy that was there, and no other.
LEMMA UpsertKeepsUnique ==
  ASSUME NEW list \in Seq(Copies), NEW c \in Copies
  PROVE  /\ upsertThreat(list, c) \in Seq(Copies)
         /\ Unique(list) => Unique(upsertThreat(list, c))
<1> DEFINE P == {n \in DOMAIN list : list[n].id # c.id}
           a == At(list, P)
           u == upsertThreat(list, c)
<1>1. Len(list) \in Nat /\ DOMAIN list = 1 .. Len(list)
  BY LenProperties
<1>2. P \in SUBSET (1 .. Len(list))
  BY <1>1
<1>3. /\ a \in Seq(Copies)
      /\ Len(a) = Cardinality(P)
      /\ \A n \in 1 .. Cardinality(P) : a[n] = list[Nth(P, n)] /\ Nth(P, n) \in P
  <2> HIDE DEF P
  <2> QED BY <1>2, AtProperties
<1>4. Len(a) \in Nat
  BY <1>3, LenProperties
<1>5. u = <<c>> \o a
  BY DEF upsertThreat
<1>6. <<c>> \in Seq(Copies) /\ Len(<<c>>) = 1 /\ <<c>>[1] = c
  OBVIOUS
<1>7. /\ u \in Seq(Copies)
      /\ Len(u) = Len(a) + 1
      /\ u[1] = c
      /\ \A n \in 2 .. Len(u) : n - 1 \in 1 .. Len(a) /\ u[n] = a[n - 1]
  <2> HIDE DEF a, u
  <2>1. /\ <<c>> \o a \in Seq(Copies)
        /\ Len(<<c>> \o a) = Len(<<c>>) + Len(a)
        /\ \A i \in 1 .. Len(<<c>>) + Len(a) :
             (<<c>> \o a)[i] = IF i <= Len(<<c>>) THEN <<c>>[i] ELSE a[i - Len(<<c>>)]
    BY <1>3, <1>6, ConcatProperties
  <2>2. u \in Seq(Copies) /\ Len(u) = Len(a) + 1
    BY <1>4, <1>5, <1>6, <2>1
  <2>3. \A i \in 1 .. Len(a) + 1 : u[i] = IF i <= 1 THEN <<c>>[i] ELSE a[i - 1]
    BY <1>5, <1>6, <2>1
  <2> QED BY <1>4, <1>6, <2>2, <2>3
<1>8. ASSUME Unique(list) PROVE Unique(u)
  <2>1. DOMAIN u = 1 .. Len(u)
    BY <1>7, LenProperties
  <2>2. \A n \in 2 .. Len(u) : u[n].id # c.id
    <3>1. \A i \in P : list[i].id # c.id
      OBVIOUS
    <3> HIDE DEF a, u, P
    <3> QED BY <1>3, <1>7, <3>1
  <2>3. ASSUME NEW m \in 2 .. Len(u), NEW n \in 2 .. Len(u), u[m].id = u[n].id, m < n
        PROVE  FALSE
    <3> DEFINE i == Nth(P, m - 1)  j == Nth(P, n - 1)
    <3>1. m - 1 \in 1 .. Cardinality(P) /\ n - 1 \in 1 .. Cardinality(P) /\ m - 1 < n - 1
      <4> HIDE DEF a, u, P
      <4> QED BY <1>3, <1>7, <2>3
    <3>2. i < j
      <4> HIDE DEF P
      <4> QED BY <1>1, <1>2, <3>1, NthGrows
    <3>3. i \in P /\ j \in P /\ u[m] = list[i] /\ u[n] = list[j]
      <4> HIDE DEF a, u, P
      <4> QED BY <1>3, <1>7, <3>1
    <3>4. i \in DOMAIN list /\ j \in DOMAIN list /\ list[i].id = list[j].id
      BY <2>3, <3>3
    <3>5. i = j
      BY <1>8, <3>4 DEF Unique
    <3>6. i \in Int /\ j \in Int
      BY <1>1, <3>4
    <3> HIDE DEF i, j
    <3> QED BY <3>2, <3>5, <3>6
  <2>4. ASSUME NEW m \in 1 .. Len(u), NEW n \in 1 .. Len(u), u[m].id = u[n].id
        PROVE  m = n
    <3> HIDE DEF u, a, P
    <3>1. CASE m = 1 \/ n = 1
      BY <1>7, <2>2, <2>4, <3>1
    <3>2. CASE m # 1 /\ n # 1
      BY <2>3, <2>4, <3>2
    <3> QED BY <3>1, <3>2
  <2> HIDE DEF u
  <2> QED BY <2>1, <2>4 DEF Unique
<1> QED BY <1>7, <1>8

\* An item that is not a report is not shown.
LEMMA OnItemKeepsUnique ==
  ASSUME NEW list \in Seq(Copies), NEW item \in Item
  PROVE  /\ OnItem(list, item) \in Seq(Copies)
         /\ Unique(list) => Unique(OnItem(list, item))
<1>1. IsReport(item) => item.report \in Copies
  BY DEF IsReport, Item, HealthItem
<1> QED BY <1>1, UpsertKeepsUnique DEF OnItem

\* So for the items of a frame, one after the other.
LEMMA FrameKeepsUnique ==
  ASSUME NEW items \in Seq(Item), threats \in Seq(Copies)
  PROVE  /\ OnReports(items) \in Seq(Copies)
         /\ Unique(threats) => Unique(OnReports(items))
<1> DEFINE
      From(g, n) == IF n = 0 THEN threats ELSE OnItem(g[n - 1], items[n])
      UpTo(g, k) == g = [n \in 0 .. k |-> From(g, n)]
      Good(g, k) == \A n \in 0 .. k :
                      g[n] \in Seq(Copies) /\ (Unique(threats) => Unique(g[n]))
      L == Len(items)
<1>1. L \in Nat /\ \A n \in 1 .. L : items[n] \in Item
  BY LenProperties, ElementOfSeq
<1> HIDE DEF L
\* The recursion defines the lists, and each is good.
<1>2. \A g : \A k \in 0 .. L : UpTo(g, k) => Good(g, k)
  <2> SUFFICES ASSUME NEW g, NEW k \in 0 .. L, UpTo(g, k) PROVE Good(g, k)
    OBVIOUS
  <2> DEFINE Ok(n) == g[n] \in Seq(Copies) /\ (Unique(threats) => Unique(g[n]))
             Bad == {n \in 0 .. k : ~ Ok(n)}
  <2>1. \A n \in 0 .. k : g[n] = From(g, n)
    OBVIOUS
  <2>2. ASSUME Bad # {} PROVE FALSE
    <3>1. Bad \in SUBSET Nat
      OBVIOUS
    <3>2. PICK b \in Bad : \A y \in Bad : b <= y
      <4> HIDE DEF Bad
      <4> QED BY <2>2, <3>1, LeastNatural
    <3>3. b \in 0 .. k /\ ~ Ok(b)
      OBVIOUS
    <3>4. b # 0
      BY <2>1, <3>3
    <3>5. b \in 1 .. L /\ b - 1 \in 0 .. k /\ b - 1 < b
      BY <1>1, <3>3, <3>4
    <3>6. Ok(b - 1)
      BY <3>2, <3>5
    <3>7. g[b] = OnItem(g[b - 1], items[b]) /\ items[b] \in Item
      BY <1>1, <2>1, <3>3, <3>4, <3>5
    <3>8. Ok(b)
      BY <3>6, <3>7, OnItemKeepsUnique
    <3> QED BY <3>3, <3>8
  <2> QED BY <2>2
<1>3. \A k \in 0 .. L : \E g : UpTo(g, k)
  <2> DEFINE Bad == {k \in 0 .. L : ~ \E g : UpTo(g, k)}
  <2>1. ASSUME Bad # {} PROVE FALSE
    <3>1. Bad \in SUBSET Nat
      OBVIOUS
    <3>2. PICK b \in Bad : \A y \in Bad : b <= y
      <4> HIDE DEF Bad
      <4> QED BY <2>1, <3>1, LeastNatural
    <3>3. b \in 0 .. L /\ ~ \E g : UpTo(g, b)
      OBVIOUS
    <3>4. CASE b = 0
      <4>1. UpTo([n \in 0 .. 0 |-> threats], 0)
        OBVIOUS
      <4> HIDE DEF UpTo
      <4> QED BY <3>3, <3>4, <4>1
    <3>5. CASE b # 0
      <4>1. b - 1 \in 0 .. L /\ b - 1 < b /\ b \in 1 .. L
        BY <1>1, <3>3, <3>5
      <4>2. b - 1 \notin Bad
        BY <3>2, <4>1
      <4>3. PICK g : UpTo(g, b - 1)
        BY <4>1, <4>2
      <4> DEFINE h == [n \in 0 .. b |-> IF n = b THEN OnItem(g[b - 1], items[b]) ELSE g[n]]
      <4>4. \A n \in 0 .. b - 1 : g[n] = From(g, n)
        BY <4>3
      <4>5. ASSUME NEW n \in 0 .. b PROVE h[n] = From(h, n)
        <5>1. CASE n = b
          BY <3>5, <4>1, <5>1
        <5>2. CASE n # b
          <6>1. n \in 0 .. b - 1 /\ h[n] = g[n]
            BY <4>1, <5>2
          <6>2. n # 0 => h[n - 1] = g[n - 1]
            BY <4>1, <6>1
          <6> QED BY <4>4, <6>1, <6>2
        <5> QED BY <5>1, <5>2
      <4>6. UpTo(h, b)
        BY <4>5
      <4> HIDE DEF UpTo, h
      <4> QED BY <3>3, <4>6
    <3> QED BY <3>4, <3>5
  <2> QED BY <2>1
<1> DEFINE c == CHOOSE g : UpTo(g, L)
<1>4. UpTo(c, L)
  <2>1. \E g : UpTo(g, L)
    BY <1>1, <1>3
  <2> HIDE DEF UpTo
  <2> QED BY <2>1
<1>5. OnReports(items) = c[L]
  BY DEF OnReports, L
<1>6. Good(c, L)
  <2> HIDE DEF UpTo, Good, c
  <2> QED BY <1>1, <1>2, <1>4
<1> QED
  <2> HIDE DEF c
  <2> QED BY <1>1, <1>5, <1>6

-----------------------------------------------------------------------------
(* Types. *)

\* A list and an element typed for fewer reports are typed for more of them.
LEMMA MoreReports ==
  ASSUME NEW s \in Seq(1 .. created), created \in Nat
  PROVE  s \in Seq(1 .. created + 1)
<1>1. 1 .. created \subseteq 1 .. created + 1
  OBVIOUS
<1> QED BY <1>1, SeqMonotonic

\* The reports named in what is lost are detected ones.
LEMMA NamesReports ==
  /\ \A s \in Seq(1 .. created) : created \in 0 .. MaxReports => ToSet(s) \subseteq Ids
  /\ \A items \in Seq(Item) : IdsIn(items) \subseteq Ids
<1>1. ASSUME NEW s \in Seq(1 .. created), created \in 0 .. MaxReports
      PROVE  ToSet(s) \subseteq Ids
  <2>1. \A n \in DOMAIN s : s[n] \in 1 .. created
    BY LenProperties, ElementOfSeq
  <2>2. 1 .. created \subseteq Ids
    BY <1>1, BoundsAssumption DEF Ids
  <2> QED BY <2>1, <2>2 DEF ToSet
<1>2. ASSUME NEW items \in Seq(Item)
      PROVE  IdsIn(items) \subseteq Ids
  <2>1. \A n \in DOMAIN items : items[n] \in Item
    BY LenProperties, ElementOfSeq
  <2>2. \A item \in Item : IsReport(item) => item.report.id \in Ids
    BY DEF Item, IsReport, HealthItem, Copies
  <2> QED BY <2>1, <2>2 DEF IdsIn
<1> QED BY <1>1, <1>2

\* Recording an item keeps the log, what was sent of it and what is lost typed.
LEMMA RecordType ==
  ASSUME TypeOK, NEW item \in Item, Record(item)
  PROVE  /\ log' \in Seq(Item) /\ Len(log') <= LogCap
         /\ sent' \in 0 .. Len(log')
         /\ ~link => sent' = 0
         /\ lost' \subseteq Ids
<1>1. /\ log \in Seq(Item) /\ Len(log) <= LogCap /\ sent \in 0 .. Len(log)
      /\ lost \subseteq Ids /\ (~link => sent = 0)
      /\ LogCap \in Nat \ {0} /\ Len(log) \in Nat
  BY BoundsAssumption, LenProperties DEF TypeOK
<1>2. /\ Append(log, item) \in Seq(Item) /\ Len(Append(log, item)) = Len(log) + 1
  BY <1>1, AppendProperties
<1>3. log' = Kept(Append(log, item), LogCap)
  BY DEF Record
<1>4. /\ log' \in Seq(Item)
      /\ Len(log') <= LogCap
      /\ Len(log) < LogCap => Len(log') = Len(log) + 1
      /\ Len(log) = LogCap => Len(log') = LogCap
  <2> DEFINE a == Append(log, item)
  <2>1. a \in Seq(Item) /\ Len(a) = Len(log) + 1 /\ log' = Kept(a, LogCap)
    BY <1>2, <1>3
  <2> HIDE DEF a
  <2>2. /\ log' \in Seq(Item) /\ Len(log') <= LogCap
        /\ Len(a) <= LogCap => log' = a
        /\ Len(a) > LogCap => Len(log') = LogCap
    BY <1>1, <2>1, KeptProperties
  <2> QED BY <1>1, <2>1, <2>2
<1>5. sent' \in 0 .. Len(log') /\ (~link => sent' = 0)
  <2>1. sent' = IF Len(log) = LogCap /\ sent > 0 THEN sent - 1 ELSE sent
    BY DEF Record
  <2> QED BY <1>1, <1>4, <2>1
<1>6. lost' \subseteq Ids
  <2>1. CASE Len(log) = LogCap /\ (~link \/ sent = 0) /\ IsReport(Head(log))
    <3>1. log # <<>>
      BY <1>1, <2>1
    <3>2. Head(log) \in Item
      BY <1>1, <3>1, HeadTailProperties
    <3>3. Head(log).report.id \in Ids
      BY <2>1, <3>2 DEF Item, IsReport, HealthItem, Copies
    <3> QED BY <1>1, <2>1, <3>3 DEF Record
  <2>2. CASE ~ (Len(log) = LogCap /\ (~link \/ sent = 0) /\ IsReport(Head(log)))
    BY <1>1, <2>2 DEF Record
  <2> QED BY <2>1, <2>2
<1> QED BY <1>4, <1>5, <1>6

LEMMA TypeInit == Init => TypeOK
<1> SUFFICES ASSUME Init PROVE TypeOK
  OBVIOUS
<1>1. /\ 0 \in 0 .. MaxReports /\ 1 \in 1 .. MaxVersion /\ 0 \in 0 .. MaxRestarts
      /\ 0 <= ReportCap /\ 0 <= LogCap /\ 0 <= FrameCap
  BY BoundsAssumption
<1>2. \A S : <<>> \in Seq(S) /\ Len(<<>>) = 0
  BY EmptySeq
<1>3. fetch \in [Slots -> Calls(Seq(Copies))] /\ mutation \in Calls(Copies)
  BY DEF Init, Calls
<1>4. /\ reports \in Seq(1 .. created) /\ Len(reports) <= ReportCap
      /\ new \in Seq(1 .. created)
      /\ pending \in Seq(Copies)
      /\ threats \in Seq(Copies)
  BY <1>1, <1>2 DEF Init
<1>5. /\ log \in Seq(Item) /\ Len(log) <= LogCap
      /\ sent \in 0 .. Len(log)
      /\ frames \in Seq(Seq(Item)) /\ Len(frames) <= FrameCap
  BY <1>1, <1>2 DEF Init
<1>6. /\ created \in 0 .. MaxReports /\ restarts \in 0 .. MaxRestarts
      /\ ver \in [Ids -> 1 .. MaxVersion]
  BY <1>1 DEF Init
<1>7. /\ pc \in {"tick", "record"} /\ link \in BOOLEAN /\ lost \subseteq Ids
      /\ sent = 0 /\ frames = <<>>
  BY DEF Init
<1> QED BY <1>3, <1>4, <1>5, <1>6, <1>7 DEF TypeOK

\* A step of the driver keeps the types.
LEMMA DriverType == TypeOK /\ Driver => TypeOK'
<1> SUFFICES ASSUME TypeOK, Driver PROVE TypeOK'
  OBVIOUS
<1>1. CASE Detect
  <2>1. created' \in 0 .. MaxReports /\ created \in Nat /\ ReportCap \in Nat
    BY <1>1, BoundsAssumption DEF Detect, TypeOK
  <2>2. reports \in Seq(1 .. created') /\ new \in Seq(1 .. created')
    BY <1>1, <2>1, MoreReports DEF Detect, TypeOK
  <2>3. created + 1 \in 1 .. created'
    BY <1>1, <2>1 DEF Detect
  <2>4. Append(reports, created + 1) \in Seq(1 .. created')
        /\ new' \in Seq(1 .. created')
    BY <1>1, <2>2, <2>3, AppendProperties DEF Detect
  <2>5. reports' \in Seq(1 .. created') /\ Len(reports') <= ReportCap
    BY <1>1, <2>1, <2>4, KeptProperties DEF Detect
  <2> QED BY <1>1, <2>1, <2>4, <2>5 DEF Detect, TypeOK, conn, calls
<1>2. CASE TickReturns
  BY <1>2 DEF TickReturns, TypeOK, conn, calls
<1>3. CASE TickRaises
  <2>1. new' \in Seq(1 .. created) /\ pc' \in {"tick", "record"}
    BY <1>3, EmptySeq DEF TickRaises, AfterRaise
  <2>2. lost' \subseteq Ids
    BY <1>3, NamesReports DEF TickRaises, TypeOK
  <2> QED BY <1>3, <2>1, <2>2 DEF TickRaises, TypeOK, conn, calls
<1>4. CASE CopyReport
  <2>1. Head(new) \in 1 .. created /\ Tail(new) \in Seq(1 .. created)
    BY <1>4, HeadTailProperties DEF CopyReport, TypeOK
  <2>2. Head(new) \in Ids
    BY <2>1, BoundsAssumption DEF TypeOK, Ids
  <2>3. pending' \in Seq(Copies) /\ new' \in Seq(1 .. created)
    BY <1>4, <2>1, <2>2, CopyType, AppendProperties DEF CopyReport, TypeOK
  <2> QED BY <1>4, <2>3 DEF CopyReport, TypeOK, conn, calls
<1>5. CASE RecordReport
  <2>1. Head(pending) \in Copies /\ Tail(pending) \in Seq(Copies)
    BY <1>5, HeadTailProperties DEF RecordReport, TypeOK
  <2>2. ReportItem(Head(pending)) \in Item
    BY <2>1 DEF ReportItem, Item
  <2>3. /\ log' \in Seq(Item) /\ Len(log') <= LogCap
        /\ sent' \in 0 .. Len(log') /\ (~link => sent' = 0)
        /\ lost' \subseteq Ids
    BY <1>5, <2>2, RecordType DEF RecordReport
  <2> QED BY <1>5, <2>1, <2>3 DEF RecordReport, TypeOK, calls
<1>6. CASE RecordHealth
  <2>1. HealthItem \in Item
    BY DEF Item
  <2>2. /\ log' \in Seq(Item) /\ Len(log') <= LogCap
        /\ sent' \in 0 .. Len(log') /\ (~link => sent' = 0)
        /\ lost' \subseteq Ids
    BY <1>6, <2>1, RecordType DEF RecordHealth
  <2> QED BY <1>6, <2>2 DEF RecordHealth, TypeOK, calls
<1>7. CASE HealthRaises
  BY <1>7 DEF HealthRaises, TypeOK, conn, calls
<1> QED BY <1>1, <1>2, <1>3, <1>4, <1>5, <1>6, <1>7 DEF Driver

\* So does a step of the connection, or a restart.
LEMMA ConnectionType == TypeOK /\ (Connect \/ Drop \/ SendFrame \/ Restart) => TypeOK'
<1> SUFFICES ASSUME TypeOK, Connect \/ Drop \/ SendFrame \/ Restart PROVE TypeOK'
  OBVIOUS
<1>1. Len(log) \in Nat /\ FrameCap \in Nat
  BY BoundsAssumption, LenProperties DEF TypeOK
<1>2. CASE Connect
  BY <1>1, <1>2 DEF Connect, FromStart, TypeOK, server, calls
<1>3. CASE Drop
  <2>1. \A n \in DOMAIN frames : IdsIn(frames[n]) \subseteq Ids
    BY LenProperties, ElementOfSeq, NamesReports DEF TypeOK
  <2>2. lost' \subseteq Ids
    BY <1>3, <2>1 DEF Drop, TypeOK
  <2>3. frames' \in Seq(Seq(Item)) /\ Len(frames') <= FrameCap
    BY <1>1, <1>3, EmptySeq DEF Drop
  <2>4. link' = FALSE /\ sent' = 0 /\ frames' = <<>>
    BY <1>3 DEF Drop
  <2>5. 0 \in 0 .. Len(log)
    BY <1>1
  <2>6. UNCHANGED <<server, threats, calls>>
    BY <1>3 DEF Drop
  <2> QED BY <2>2, <2>3, <2>4, <2>5, <2>6 DEF TypeOK, server, calls
<1>4. CASE SendFrame
  <2>1. \A i \in sent + 1 .. Len(log) : log[i] \in Item
    BY <1>1, ElementOfSeq DEF TypeOK
  <2>2. SubSeq(log, sent + 1, Len(log)) \in Seq(Item)
    BY <1>1, <2>1, SubSeqProperties DEF TypeOK
  <2>3. frames' \in Seq(Seq(Item)) /\ Len(frames') <= FrameCap
    <3>1. frames \in Seq(Seq(Item)) /\ Len(frames) \in Nat /\ Len(frames) < FrameCap
      BY <1>4, LenProperties DEF SendFrame, TypeOK
    <3>2. Len(frames') = Len(frames) + 1 /\ frames' \in Seq(Seq(Item))
      BY <1>4, <2>2, <3>1, AppendProperties DEF SendFrame
    <3> QED BY <1>1, <3>1, <3>2
  <2>4. link /\ sent' = Len(log)
    BY <1>4 DEF SendFrame
  <2> QED BY <1>1, <1>4, <2>3, <2>4 DEF SendFrame, TypeOK, server, calls
<1>5. CASE Restart
  <2>1. restarts' \in 0 .. MaxRestarts
    BY <1>5, BoundsAssumption DEF Restart, TypeOK
  <2>2. lost' \subseteq Ids
    BY <1>5, BoundsAssumption DEF Restart, TypeOK, Ids
  <2>3. \A S : <<>> \in Seq(S) /\ Len(<<>>) = 0
    BY EmptySeq
  <2>4. 0 <= ReportCap /\ 0 <= LogCap /\ 0 <= FrameCap
    BY BoundsAssumption
  <2>5. /\ reports' \in Seq(1 .. created) /\ Len(reports') <= ReportCap
        /\ new' \in Seq(1 .. created)
        /\ pending' \in Seq(Copies)
    BY <1>5, <2>3, <2>4 DEF Restart
  <2>6. /\ log' \in Seq(Item) /\ Len(log') <= LogCap
        /\ sent' \in 0 .. Len(log')
        /\ frames' \in Seq(Seq(Item)) /\ Len(frames') <= FrameCap
    BY <1>5, <2>3, <2>4 DEF Restart
  <2>7. /\ pc' \in {"tick", "record"} /\ link' \in BOOLEAN
        /\ sent' = 0 /\ frames' = <<>>
        /\ UNCHANGED <<created, ver, threats, calls>>
    BY <1>5 DEF Restart
  <2> QED BY <2>1, <2>2, <2>5, <2>6, <2>7 DEF TypeOK, calls
<1> QED BY <1>2, <1>3, <1>4, <1>5

\* So does what the provider does, and another analyst.
LEMMA BrowserType == TypeOK /\ (Browser \/ \E i \in Ids : Decide(i)) => TypeOK'
<1> SUFFICES ASSUME TypeOK, Browser \/ \E i \in Ids : Decide(i) PROVE TypeOK'
  OBVIOUS
<1>1. CASE Frame
  <2>1. Head(frames) \in Seq(Item) /\ Tail(frames) \in Seq(Seq(Item))
        /\ Len(Tail(frames)) = Len(frames) - 1 /\ Len(frames) \in Nat
    BY <1>1, HeadTailProperties, LenProperties DEF Frame, TypeOK
  <2>2. threats' \in Seq(Copies)
    BY <1>1, <2>1, FrameKeepsUnique DEF Frame, TypeOK
  <2>3. Len(frames') <= FrameCap
    BY <1>1, <2>1, BoundsAssumption DEF Frame, TypeOK
  <2> QED BY <1>1, <2>1, <2>2, <2>3 DEF Frame, TypeOK, server, calls
<1>2. ASSUME NEW s \in Slots, Refresh(s) PROVE TypeOK'
  <2>1. Answered(Listing) \in Calls(Seq(Copies))
    BY ListingType DEF Calls, Answered
  <2>2. fetch' \in [Slots -> Calls(Seq(Copies))]
    BY <1>2, <2>1 DEF Refresh, TypeOK
  <2> QED BY <1>2, <2>2 DEF Refresh, TypeOK, server, conn
<1>3. ASSUME NEW s \in Slots, SettleFetch(s) PROVE TypeOK'
  <2>1. fetch[s].data \in Seq(Copies) /\ Free \in Calls(Seq(Copies))
    BY <1>3 DEF SettleFetch, TypeOK, Calls
  <2>2. fetch' \in [Slots -> Calls(Seq(Copies))] /\ threats' \in Seq(Copies)
    BY <1>3, <2>1 DEF SettleFetch, Fetched, TypeOK
  <2> QED BY <1>3, <2>2 DEF SettleFetch, TypeOK, server, conn
<1>4. ASSUME NEW i \in Ids, Mutate(i) PROVE TypeOK'
  <2>1. ver' \in [Ids -> 1 .. MaxVersion]
    <3>1. ver \in [Ids -> 1 .. MaxVersion] /\ MaxVersion \in Nat
      BY BoundsAssumption DEF TypeOK
    <3> QED BY <1>4, <3>1 DEF Mutate
  <2>2. [id |-> i, ver |-> ver'[i]] \in Copies
    BY <2>1 DEF Copies
  <2>3. mutation' \in Calls(Copies)
    BY <1>4, <2>2 DEF Mutate, Calls, Answered
  <2> QED BY <1>4, <2>1, <2>3 DEF Mutate, TypeOK, conn
<1>5. CASE SettleMutation
  <2>1. mutation.data \in Copies /\ Free \in Calls(Copies)
    BY <1>5 DEF SettleMutation, TypeOK, Calls
  <2>2. threats' \in Seq(Copies) /\ mutation' \in Calls(Copies)
    BY <1>5, <2>1, UpsertKeepsUnique DEF SettleMutation, TypeOK
  <2> QED BY <1>5, <2>2 DEF SettleMutation, TypeOK, server, conn
<1>6. ASSUME NEW i \in Ids, Decide(i) PROVE TypeOK'
  <2>1. ver' \in [Ids -> 1 .. MaxVersion]
    <3>1. ver \in [Ids -> 1 .. MaxVersion] /\ MaxVersion \in Nat
      BY BoundsAssumption DEF TypeOK
    <3> QED BY <1>6, <3>1 DEF Decide
  <2> QED BY <1>6, <2>1 DEF Decide, TypeOK, conn, calls
<1> QED BY <1>1, <1>2, <1>3, <1>4, <1>5, <1>6 DEF Browser

LEMMA TypeStep == TypeOK /\ [Next]_vars => TypeOK'
<1> SUFFICES ASSUME TypeOK, [Next]_vars PROVE TypeOK'
  OBVIOUS
<1>1. CASE UNCHANGED vars
  BY <1>1 DEF vars, server, conn, calls, TypeOK
<1> QED BY <1>1, DriverType, ConnectionType, BrowserType DEF Next, Server

\* The lists of the driver and of the provider hold reports that were detected,
\* and stay within their limits.
THEOREM StreamTypes == Spec => []TypeOK
<1> QED BY TypeInit, TypeStep, PTL DEF Spec

-----------------------------------------------------------------------------
(* No report is shown twice.  The list of threats may be replaced by the   *)
(* answer of a request, which was a listing when it was given: so it takes *)
(* that the server's list names each report once, which is because it is   *)
(* in the order of detection, and that the answers under way do.           *)

\* pipeline.reports is in the order of detection.
Ordered == \A m, n \in DOMAIN reports : m < n => reports[m] < reports[n]

\* The listings on their way to the dashboard name each report once.
AnswersUnique == \A s \in Slots : fetch[s] # Free => Unique(fetch[s].data)

ListInv == TypeOK /\ Ordered /\ AnswersUnique /\ Unique(threats)

\* A listing names each report once.
LEMMA ListingUnique == TypeOK /\ Ordered => Unique(Listing)
<1> SUFFICES ASSUME TypeOK, Ordered PROVE Unique(Listing)
  OBVIOUS
<1>1. /\ reports \in Seq(1 .. created) /\ DOMAIN reports = 1 .. Len(reports)
      /\ \A i \in 1 .. Len(reports) : reports[i] \in Int
  BY LenProperties, ElementOfSeq DEF TypeOK
<1>2. DOMAIN Listing = 1 .. Len(Listing) /\ Len(Listing) \in Nat
  BY ListingType, LenProperties
<1>3. PICK d \in Nat : \A n \in 1 .. Len(Listing) :
        d - n \in 1 .. Len(reports) /\ Listing[n].id = reports[d - n]
  BY ListingType
<1>4. ASSUME NEW m \in 1 .. Len(Listing), NEW n \in 1 .. Len(Listing), m < n
      PROVE  Listing[m].id # Listing[n].id
  <2>1. d - n < d - m
    BY <1>2, <1>4
  <2>2. reports[d - n] < reports[d - m]
    BY <1>1, <1>3, <2>1 DEF Ordered
  <2>3. reports[d - n] \in Int /\ reports[d - m] \in Int
    BY <1>1, <1>3
  <2>4. Listing[n].id = reports[d - n] /\ Listing[m].id = reports[d - m]
    BY <1>3
  <2> QED BY <2>2, <2>3, <2>4
<1>5. ASSUME NEW m \in 1 .. Len(Listing), NEW n \in 1 .. Len(Listing),
             Listing[m].id = Listing[n].id
      PROVE  m = n
  BY <1>4, <1>5
<1> QED BY <1>2, <1>5 DEF Unique

\* In order still is what is kept of a list with a greater number after it.
LEMMA KeptInOrder ==
  ASSUME NEW c \in Nat, NEW s \in Seq(1 .. c), NEW k \in Nat,
         \A m, n \in DOMAIN s : m < n => s[m] < s[n]
  PROVE  LET r == Kept(Append(s, c + 1), k)
         IN  \A m, n \in DOMAIN r : m < n => r[m] < r[n]
<1> DEFINE L == Len(s)  a == Append(s, c + 1)  r == Kept(a, k)
<1>1. L \in Nat /\ DOMAIN s = 1 .. L /\ \A i \in 1 .. L : s[i] \in 1 .. c
  BY LenProperties, ElementOfSeq
<1>2. s \in Seq(1 .. c + 1) /\ c + 1 \in 1 .. c + 1
  <2>1. 1 .. c \subseteq 1 .. c + 1
    OBVIOUS
  <2> QED BY <2>1, SeqMonotonic
<1>3. /\ a \in Seq(1 .. c + 1) /\ Len(a) = L + 1
      /\ \A i \in 1 .. L : a[i] = s[i]
      /\ a[L + 1] = c + 1
  BY <1>2, AppendProperties
<1> HIDE DEF L, a
<1>4. ASSUME NEW m \in 1 .. L + 1, NEW n \in 1 .. L + 1, m < n
      PROVE  a[m] < a[n]
  <2>1. m \in 1 .. L /\ a[m] = s[m] /\ s[m] \in 1 .. c
    BY <1>1, <1>3, <1>4
  <2>2. CASE n = L + 1
    BY <1>3, <2>1, <2>2
  <2>3. CASE n # L + 1
    <3>1. n \in 1 .. L /\ a[n] = s[n]
      BY <1>1, <1>3, <2>3
    <3> QED BY <1>1, <1>4, <2>1, <3>1
  <2> QED BY <2>2, <2>3
<1>5. a \in Seq(Nat) /\ r \in Seq(Nat)
  <2>1. 1 .. c + 1 \subseteq Nat
    OBVIOUS
  <2>2. a \in Seq(Nat)
    BY <1>3, <2>1, SeqMonotonic
  <2> QED BY <2>2, KeptProperties
<1>6. PICK d \in Nat : \A i \in 1 .. Len(r) : i + d \in 1 .. Len(a) /\ r[i] = a[i + d]
  <2>1. a \in Seq(Nat) /\ k \in Nat
    BY <1>5
  <2> QED BY <2>1, KeptIsEnd
<1> HIDE DEF r
<1>7. DOMAIN r = 1 .. Len(r) /\ Len(r) \in Nat
  BY <1>5, LenProperties
<1>8. ASSUME NEW m \in 1 .. Len(r), NEW n \in 1 .. Len(r), m < n
      PROVE  r[m] < r[n]
  <2>1. m + d < n + d /\ m + d \in 1 .. L + 1 /\ n + d \in 1 .. L + 1
    BY <1>3, <1>6, <1>7, <1>8
  <2> QED BY <1>4, <1>6, <2>1
<1> QED BY <1>7, <1>8 DEF r, a

\* A new report comes after all the others, and old ones only leave.
LEMMA StaysOrdered == TypeOK /\ Ordered /\ [Next]_vars => Ordered'
<1> SUFFICES ASSUME TypeOK, Ordered, [Next]_vars PROVE Ordered'
  OBVIOUS
<1>1. CASE Detect
  <2>1. created \in Nat /\ reports \in Seq(1 .. created) /\ ReportCap \in Nat
    BY BoundsAssumption DEF TypeOK
  <2>2. reports' = Kept(Append(reports, created + 1), ReportCap)
    BY <1>1 DEF Detect
  <2> QED BY <2>1, <2>2, KeptInOrder DEF Ordered
<1>2. CASE Restart
  BY <1>2 DEF Restart, Ordered
<1>3. CASE UNCHANGED reports
  BY <1>3 DEF Ordered
<1>4. Detect \/ Restart \/ UNCHANGED reports
  BY DEF Next, Browser, Server, Driver, vars, server, TickReturns, TickRaises, CopyReport,
         RecordReport, RecordHealth, HealthRaises, Decide, Connect, Drop, SendFrame,
         Frame, Refresh, SettleFetch, Mutate, SettleMutation
<1> QED BY <1>1, <1>2, <1>3, <1>4

LEMMA ListInit == Init => ListInv
<1> SUFFICES ASSUME Init PROVE ListInv
  OBVIOUS
<1>1. Ordered /\ Unique(threats)
  BY DEF Init, Ordered, Unique
<1>2. AnswersUnique
  BY DEF Init, AnswersUnique
<1> QED BY <1>1, <1>2, TypeInit DEF ListInv

LEMMA ListStep == ListInv /\ [Next]_vars => ListInv'
<1> SUFFICES ASSUME ListInv, [Next]_vars PROVE ListInv'
  OBVIOUS
<1>1. TypeOK /\ Ordered /\ AnswersUnique /\ Unique(threats)
  BY DEF ListInv
<1>2. TypeOK' /\ Ordered'
  BY <1>1, TypeStep, StaysOrdered
<1> SUFFICES AnswersUnique' /\ Unique(threats)'
  BY <1>2 DEF ListInv
<1>3. CASE Frame
  <2>1. Head(frames) \in Seq(Item) /\ threats \in Seq(Copies)
    BY <1>1, <1>3, HeadTailProperties DEF Frame, TypeOK
  <2>2. Unique(OnReports(Head(frames)))
    BY <1>1, <2>1, FrameKeepsUnique
  <2>3. threats' = OnReports(Head(frames)) /\ fetch' = fetch
    BY <1>3 DEF Frame, calls
  <2>4. Unique(threats)'
    BY <2>2, <2>3 DEF Unique
  <2> QED BY <1>1, <2>3, <2>4 DEF AnswersUnique
<1>4. ASSUME NEW s \in Slots, Refresh(s) PROVE AnswersUnique' /\ Unique(threats)'
  <2>1. Unique(Answered(Listing).data)
    <3>1. Answered(Listing).data = Listing
      BY DEF Answered
    <3> QED BY <1>1, <3>1, ListingUnique
  <2>2. /\ fetch' = [fetch EXCEPT ![s] = Answered(Listing)]
        /\ threats' = threats
        /\ fetch \in [Slots -> Calls(Seq(Copies))]
    BY <1>1, <1>4 DEF Refresh, TypeOK
  <2>3. ASSUME NEW t \in Slots, fetch'[t] # Free PROVE Unique(fetch'[t].data)
    <3>1. CASE t = s
      <4>1. fetch'[t] = Answered(Listing)
        BY <2>2, <3>1
      <4> QED BY <2>1, <4>1
    <3>2. CASE t # s
      <4>1. fetch'[t] = fetch[t]
        BY <2>2, <3>2
      <4> QED BY <1>1, <2>3, <4>1 DEF AnswersUnique
    <3> QED BY <3>1, <3>2
  <2> QED BY <1>1, <2>2, <2>3 DEF AnswersUnique, Unique
<1>5. ASSUME NEW s \in Slots, SettleFetch(s) PROVE AnswersUnique' /\ Unique(threats)'
  <2>1. /\ fetch' = [fetch EXCEPT ![s] = Free]
        /\ threats' = fetch[s].data /\ fetch[s] # Free
        /\ fetch \in [Slots -> Calls(Seq(Copies))]
    BY <1>1, <1>5 DEF SettleFetch, Fetched, TypeOK
  <2>2. Unique(threats')
    BY <1>1, <2>1 DEF AnswersUnique
  <2>3. ASSUME NEW t \in Slots, fetch'[t] # Free PROVE Unique(fetch'[t].data)
    <3>1. fetch'[t] = fetch[t]
      BY <2>1, <2>3
    <3> QED BY <1>1, <2>3, <3>1 DEF AnswersUnique
  <2> QED BY <2>2, <2>3 DEF AnswersUnique, Unique
<1>6. CASE SettleMutation
  <2>1. mutation.data \in Copies /\ threats \in Seq(Copies)
    BY <1>1, <1>6 DEF SettleMutation, TypeOK, Calls
  <2>2. Unique(upsertThreat(threats, mutation.data))
    BY <1>1, <2>1, UpsertKeepsUnique
  <2>3. threats' = upsertThreat(threats, mutation.data) /\ fetch' = fetch
    BY <1>6 DEF SettleMutation
  <2>4. Unique(threats)'
    BY <2>2, <2>3 DEF Unique
  <2> QED BY <1>1, <2>3, <2>4 DEF AnswersUnique
<1>7. CASE UNCHANGED <<threats, fetch>>
  BY <1>1, <1>7 DEF AnswersUnique, Unique
<1>8. \/ Frame \/ SettleMutation \/ (\E s \in Slots : Refresh(s) \/ SettleFetch(s))
      \/ UNCHANGED <<threats, fetch>>
  BY DEF Next, Browser, Server, Driver, vars, server, calls, Detect, TickReturns, TickRaises,
         CopyReport, RecordReport, RecordHealth, HealthRaises, Decide, Connect, Drop,
         SendFrame, Restart, Mutate
<1> QED BY <1>3, <1>4, <1>5, <1>6, <1>7, <1>8

\* Whatever replayed frames, listings and answers made the list, no report is
\* in it twice.
THEOREM NothingShownTwice == Spec => []NoDuplicates
<1>1. ListInv => NoDuplicates
  BY UniqueIsCounted DEF ListInv, TypeOK, NoDuplicates
<1> QED BY <1>1, ListInit, ListStep, PTL DEF Spec
=============================================================================
