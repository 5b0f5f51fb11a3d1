--------------------------- MODULE Sublists_proofs ---------------------------
(***************************************************************************)
(* What a filtered list is: its elements and their order, and how it       *)
(* changes with the list and with the positions that are kept.             *)
(***************************************************************************)
EXTENDS Sublists, FiniteSetTheorems, SequenceTheorems, WellFoundedInduction, TLAPS

-----------------------------------------------------------------------------
\* A nonempty set of natural numbers has a least element.
LEMMA LeastNatural ==
  ASSUME NEW T \in SUBSET Nat, T # {}
  PROVE  \E x \in T : \A y \in T : x <= y
<1> DEFINE R == {ss \in Nat \X Nat : ss[1] < ss[2]}
<1>1. IsWellFoundedOn(R, Nat)
  BY NatLessThanWellFounded DEF OpToRel
<1>2. \E x \in T : \A y \in T : ~ (<<y, x>> \in R)
  <2> HIDE DEF R
  <2> QED BY <1>1, WFMin, Zenon
<1>3. PICK x \in T : \A y \in T : ~ (<<y, x>> \in R)
  BY <1>2
<1>4. \A y \in T : ~ (y < x)
  BY <1>3
<1>5. \A y \in T : x <= y
  <2> SUFFICES ASSUME NEW y \in T PROVE x <= y
    OBVIOUS
  <2>1. x \in Nat /\ y \in Nat /\ ~ (y < x)
    BY <1>4
  <2> QED BY <2>1
<1> QED BY <1>5

-----------------------------------------------------------------------------
(* Ranks. *)

\* The positions of a list, and every part of them, are finite.
LEMMA PositionsFinite ==
  ASSUME NEW n \in Nat, NEW P \in SUBSET (1 .. n)
  PROVE  /\ IsFiniteSet(P)
         /\ Cardinality(P) \in Nat
         /\ \A i \in P : IsFiniteSet({j \in P : j <= i}) /\ Rank(P, i) \in 1 .. Cardinality(P)
<1>1. IsFiniteSet(1 .. n)
  BY FS_Interval
<1>2. IsFiniteSet(P) /\ Cardinality(P) \in Nat
  BY <1>1, FS_Subset, FS_CardinalityType
<1>3. ASSUME NEW i \in P
      PROVE  IsFiniteSet({j \in P : j <= i}) /\ Rank(P, i) \in 1 .. Cardinality(P)
  <2> DEFINE Q == {j \in P : j <= i}
  <2>1. Q \in SUBSET P /\ i \in Q
    OBVIOUS
  <2>2. IsFiniteSet(Q) /\ Cardinality(Q) <= Cardinality(P) /\ Cardinality(Q) \in Nat
    BY <1>2, <2>1, FS_Subset, FS_CardinalityType
  <2>3. Cardinality(Q) # 0
    BY <2>1, <2>2, FS_EmptySet
  <2> QED BY <1>2, <2>2, <2>3 DEF Rank
<1> QED BY <1>2, <1>3

\* A later position has a higher rank.
LEMMA RankGrows ==
  ASSUME NEW n \in Nat, NEW P \in SUBSET (1 .. n), NEW i \in P, NEW k \in P, i < k
  PROVE  Rank(P, i) < Rank(P, k)
<1> DEFINE Q == {j \in P : j <= i}  R == {j \in P : j <= k}
<1>1. IsFiniteSet(R) /\ IsFiniteSet(Q) /\ Cardinality(Q) \in Nat /\ Cardinality(R) \in Nat
  BY PositionsFinite, FS_CardinalityType
<1>2. Q \in SUBSET R /\ k \in R /\ k \notin Q
  <2>1. \A j \in P : j \in Int
    OBVIOUS
  <2>2. \A j \in P : j <= i => j <= k
    BY <2>1
  <2>3. Q \subseteq R
    BY <2>2
  <2>4. k \in R /\ k \notin Q
    BY <2>1
  <2> QED BY <2>3, <2>4
<1>3. Cardinality(Q) <= Cardinality(R) /\ Cardinality(R) # Cardinality(Q)
  <2> HIDE DEF Q, R
  <2> QED BY <1>1, <1>2, FS_Subset
<1> QED BY <1>1, <1>3 DEF Rank

\* Each rank up to the number of positions is the rank of exactly one.
LEMMA NthHasRank ==
  ASSUME NEW n \in Nat, NEW P \in SUBSET (1 .. n)
  PROVE  /\ \A k \in 1 .. Cardinality(P) : Nth(P, k) \in P /\ Rank(P, Nth(P, k)) = k
         /\ \A i \in P : Nth(P, Rank(P, i)) = i
<1> DEFINE K == 1 .. Cardinality(P)  f == [i \in P |-> Rank(P, i)]
<1>1. /\ IsFiniteSet(P) /\ Cardinality(P) \in Nat
      /\ \A i \in P : Rank(P, i) \in K
  BY PositionsFinite
<1>2. \A i, k \in P : Rank(P, i) = Rank(P, k) => i = k
  <2> SUFFICES ASSUME NEW i \in P, NEW k \in P, Rank(P, i) = Rank(P, k), i # k PROVE FALSE
    OBVIOUS
  <2>1. i < k \/ k < i
    OBVIOUS
  <2>2. Rank(P, i) \in Nat /\ Rank(P, k) \in Nat
    BY <1>1
  <2> QED BY <2>1, <2>2, RankGrows
<1>3. f \in Injection(P, K)
  BY <1>1, <1>2 DEF Injection, IsInjective
<1>4. IsFiniteSet(K) /\ Cardinality(K) = Cardinality(P)
  BY <1>1, FS_Interval
<1>5. f \in Surjection(P, K)
  <2> HIDE DEF f, K
  <2> QED BY <1>3, <1>4, FS_Injection
<1>6. \A k \in K : \E i \in P : Rank(P, i) = k
  BY <1>5 DEF Surjection
<1>7. ASSUME NEW k \in K PROVE Nth(P, k) \in P /\ Rank(P, Nth(P, k)) = k
  BY <1>6 DEF Nth
<1>8. ASSUME NEW i \in P PROVE Nth(P, Rank(P, i)) = i
  <2>1. Nth(P, Rank(P, i)) \in P /\ Rank(P, Nth(P, Rank(P, i))) = Rank(P, i)
    BY <1>1, <1>7
  <2> QED BY <2>1, <1>2
<1> QED BY <1>7, <1>8

\* The n-th positions are in order.
LEMMA NthGrows ==
  ASSUME NEW n \in Nat, NEW P \in SUBSET (1 .. n),
         NEW k \in 1 .. Cardinality(P), NEW l \in 1 .. Cardinality(P), k < l
  PROVE  Nth(P, k) < Nth(P, l)
<1>1. Nth(P, k) \in P /\ Nth(P, l) \in P /\ Rank(P, Nth(P, k)) = k /\ Rank(P, Nth(P, l)) = l
  BY NthHasRank
<1>2. Cardinality(P) \in Nat
  BY PositionsFinite
<1>3. ~ (Nth(P, l) < Nth(P, k))
  <2> SUFFICES ASSUME Nth(P, l) < Nth(P, k) PROVE FALSE
    OBVIOUS
  <2>1. l < k
    BY <1>1, RankGrows
  <2> QED BY <2>1, <1>2
<1>4. Nth(P, k) # Nth(P, l)
  BY <1>1, <1>2
<1>5. Nth(P, k) \in Int /\ Nth(P, l) \in Int
  <2>1. \A i \in P : i \in Int
    OBVIOUS
  <2> QED BY <1>1, <2>1
<1> QED BY <1>3, <1>4, <1>5
-----------------------------------------------------------------------------
(* Filtered lists. *)

\* A filtered list has the elements kept, each where its rank says.
LEMMA AtProperties ==
  ASSUME NEW T, NEW s \in Seq(T), NEW P \in SUBSET (1 .. Len(s))
  PROVE  /\ At(s, P) \in Seq(T)
         /\ Len(At(s, P)) = Cardinality(P)
         /\ \A n \in 1 .. Cardinality(P) : At(s, P)[n] = s[Nth(P, n)] /\ Nth(P, n) \in P
         /\ \A i \in P : Rank(P, i) \in 1 .. Cardinality(P) /\ At(s, P)[Rank(P, i)] = s[i]
<1>1. Len(s) \in Nat /\ s \in [1 .. Len(s) -> T]
  BY LenProperties
<1>2. Cardinality(P) \in Nat /\ \A i \in P : Rank(P, i) \in 1 .. Cardinality(P)
  BY <1>1, PositionsFinite
<1>3. /\ \A n \in 1 .. Cardinality(P) : Nth(P, n) \in P
      /\ \A i \in P : Nth(P, Rank(P, i)) = i
  BY <1>1, NthHasRank
<1>4. At(s, P) \in [1 .. Cardinality(P) -> T]
  BY <1>1, <1>3 DEF At
<1>5. At(s, P) \in Seq(T)
  BY <1>2, <1>4, IsASeq
<1>6. Len(At(s, P)) = Cardinality(P)
  <2>1. DOMAIN At(s, P) = 1 .. Cardinality(P)
    BY DEF At
  <2> QED BY <1>2, <1>5, <2>1, LenProperties
<1>7. \A n \in 1 .. Cardinality(P) : At(s, P)[n] = s[Nth(P, n)]
  BY DEF At
<1> QED BY <1>2, <1>3, <1>5, <1>6, <1>7

\* Two lists that agree on the positions kept are filtered to the same.
LEMMA AtAgrees ==
  ASSUME NEW T, NEW s \in Seq(T), NEW t, NEW P \in SUBSET (1 .. Len(s)),
         \A i \in P : t[i] = s[i]
  PROVE  At(t, P) = At(s, P)
<1>1. \A n \in 1 .. Cardinality(P) : Nth(P, n) \in P
  BY NthHasRank, LenProperties
<1> QED BY <1>1 DEF At

\* A position after all the others comes last, and moves none of them.
LEMMA NthOfLast ==
  ASSUME NEW n \in Nat, NEW P \in SUBSET (1 .. n), NEW m \in Nat, m > n
  PROVE  /\ Cardinality(P \cup {m}) = Cardinality(P) + 1
         /\ \A k \in 1 .. Cardinality(P) : Nth(P \cup {m}, k) = Nth(P, k)
         /\ Nth(P \cup {m}, Cardinality(P) + 1) = m
<1> DEFINE Q == P \cup {m}
<1>0. \A i \in P : i \in Nat /\ 1 <= i /\ i <= n /\ i < m
  OBVIOUS
<1>1. Q \subseteq 1 .. m /\ m \notin P /\ IsFiniteSet(P) /\ Cardinality(P) \in Nat
  <2>1. m \in 1 .. m
    OBVIOUS
  <2>2. \A i \in P : i \in 1 .. m
    BY <1>0
  <2>3. m \notin P
    BY <1>0
  <2>4. Q \subseteq 1 .. m
    BY <2>1, <2>2
  <2> QED BY <2>3, <2>4, PositionsFinite
<1>2. Cardinality(Q) = Cardinality(P) + 1
  BY <1>1, FS_AddElement
<1>3. \A i \in P : Rank(Q, i) = Rank(P, i)
  <2> SUFFICES ASSUME NEW i \in P PROVE Rank(Q, i) = Rank(P, i)
    OBVIOUS
  <2>1. ~ (m <= i)
    OBVIOUS
  <2>2. {j \in Q : j <= i} = {j \in P : j <= i}
    BY <2>1
  <2> QED BY <2>2 DEF Rank
<1>4. Rank(Q, m) = Cardinality(P) + 1
  <2>1. \A j \in Q : j <= m
    BY <1>0
  <2>2. {j \in Q : j <= m} = Q
    <3> HIDE DEF Q
    <3> QED BY <2>1
  <2> QED BY <2>2, <1>2 DEF Rank
<1>5. \A i \in Q : Nth(Q, Rank(Q, i)) = i
  <2> HIDE DEF Q
  <2> QED BY <1>1, NthHasRank
<1>6. \A k \in 1 .. Cardinality(P) : Nth(Q, k) = Nth(P, k)
  <2> SUFFICES ASSUME NEW k \in 1 .. Cardinality(P) PROVE Nth(Q, k) = Nth(P, k)
    OBVIOUS
  <2>1. Nth(P, k) \in P /\ Rank(P, Nth(P, k)) = k
    BY NthHasRank
  <2> QED BY <2>1, <1>3, <1>5
<1>7. Nth(Q, Cardinality(P) + 1) = m
  <2>1. m \in Q
    OBVIOUS
  <2> QED BY <2>1, <1>4, <1>5
<1> QED BY <1>2, <1>6, <1>7

\* An element added to the list and kept is added to what is kept.
LEMMA AtAppendKept ==
  ASSUME NEW T, NEW s \in Seq(T), NEW e \in T, NEW P \in SUBSET (1 .. Len(s))
  PROVE  At(Append(s, e), P \cup {Len(s) + 1}) = Append(At(s, P), e)
<1> DEFINE n == Len(s)  Q == P \cup {n + 1}  t == Append(s, e)
           l == At(t, Q)  r == Append(At(s, P), e)  c == Cardinality(P)
<1>1. n \in Nat /\ t \in Seq(T) /\ Len(t) = n + 1 /\ t[n + 1] = e /\ \A i \in 1 .. n : t[i] = s[i]
  BY LenProperties, AppendProperties
<1>2. /\ Q \in SUBSET (1 .. n + 1) /\ Cardinality(Q) = c + 1 /\ c \in Nat
      /\ \A k \in 1 .. c : Nth(Q, k) = Nth(P, k)
      /\ Nth(Q, c + 1) = n + 1
  <2>1. n + 1 \in Nat /\ n + 1 > n /\ n + 1 \in 1 .. n + 1 /\ 1 .. n \subseteq 1 .. n + 1
    BY <1>1
  <2>2. c \in Nat
    BY <1>1, PositionsFinite
  <2>3. P \in SUBSET (1 .. n)
    OBVIOUS
  <2>4. Q \in SUBSET (1 .. n + 1)
    BY <2>1, <2>3
  <2>5. n \in Nat /\ n + 1 \in Nat /\ n + 1 > n
    BY <1>1, <2>1
  <2> HIDE DEF n
  <2>6. /\ Cardinality(Q) = c + 1
        /\ \A k \in 1 .. c : Nth(Q, k) = Nth(P, k)
        /\ Nth(Q, c + 1) = n + 1
    BY <2>3, <2>5, NthOfLast
  <2> QED BY <2>2, <2>4, <2>6
<1>3. /\ l \in Seq(T) /\ Len(l) = c + 1
      /\ \A k \in 1 .. c + 1 : l[k] = t[Nth(Q, k)]
  <2>1. t \in Seq(T) /\ Q \in SUBSET (1 .. Len(t)) /\ Cardinality(Q) = c + 1
    BY <1>1, <1>2
  <2> HIDE DEF n, Q, t, c
  <2>2. /\ At(t, Q) \in Seq(T) /\ Len(At(t, Q)) = Cardinality(Q)
        /\ \A k \in 1 .. Cardinality(Q) : At(t, Q)[k] = t[Nth(Q, k)]
    BY <2>1, AtProperties
  <2> QED BY <2>1, <2>2
<1>4. /\ At(s, P) \in Seq(T) /\ Len(At(s, P)) = c
      /\ \A k \in 1 .. c : At(s, P)[k] = s[Nth(P, k)] /\ Nth(P, k) \in P
  BY AtProperties
<1>5. /\ r \in Seq(T) /\ Len(r) = c + 1 /\ r[c + 1] = e
      /\ \A k \in 1 .. c : r[k] = At(s, P)[k]
  <2> HIDE DEF c
  <2> QED BY <1>4, AppendProperties
<1>6. \A k \in 1 .. c + 1 : l[k] = r[k]
  <2> SUFFICES ASSUME NEW k \in 1 .. c + 1 PROVE l[k] = r[k]
    OBVIOUS
  <2>1. CASE k = c + 1
    <3> HIDE DEF l, r, Q, t, c
    <3> QED BY <2>1, <1>1, <1>2, <1>3, <1>5
  <2>2. CASE k \in 1 .. c
    <3>1. s[Nth(P, k)] = t[Nth(P, k)]
      BY <2>2, <1>1, <1>4
    <3> HIDE DEF l, r, Q, t, c
    <3> QED BY <2>2, <3>1, <1>2, <1>3, <1>4, <1>5
  <2> HIDE DEF l, r, Q, t, c
  <2> QED BY <2>1, <2>2, <1>2
<1> HIDE DEF l, r, c
<1> QED BY <1>3, <1>5, <1>6, SeqEqual DEF l, r

\* An element added to the list and not kept changes nothing.
LEMMA AtAppendDropped ==
  ASSUME NEW T, NEW s \in Seq(T), NEW e \in T, NEW P \in SUBSET (1 .. Len(s))
  PROVE  At(Append(s, e), P) = At(s, P)
<1>1. \A i \in P : Append(s, e)[i] = s[i]
  BY AppendProperties
<1> QED BY <1>1, AtAgrees

\* Without its last position, what is kept loses its last element.
LEMMA AtWithoutLast ==
  ASSUME NEW T, NEW s \in Seq(T), NEW P \in SUBSET (1 .. Len(s)), Len(s) \in P
  PROVE  /\ At(s, P) # <<>>
         /\ At(s, P \ {Len(s)}) = SubSeq(At(s, P), 1, Len(At(s, P)) - 1)
<1> DEFINE n == Len(s)  Q == P \ {n}  q == Cardinality(Q)  l == At(s, Q)  a == At(s, P)
           r == SubSeq(a, 1, Len(a) - 1)
<1>1. n \in Nat /\ n >= 1 /\ Q \in SUBSET (1 .. n - 1) /\ Q \cup {n} = P
  <2>1. n \in Nat /\ n \in 1 .. n
    BY LenProperties
  <2>2. \A i \in Q : i \in 1 .. n - 1
    BY <2>1
  <2>3. Q \subseteq 1 .. n - 1
    BY <2>2
  <2>4. Q \cup {n} = P
    OBVIOUS
  <2>5. n >= 1
    BY <2>1
  <2> QED BY <2>1, <2>3, <2>4, <2>5
<1>2. q \in Nat /\ Cardinality(P) = q + 1 /\ \A k \in 1 .. q : Nth(P, k) = Nth(Q, k)
  <2>1. n - 1 \in Nat /\ n > n - 1
    BY <1>1
  <2>2. /\ Cardinality(Q \cup {n}) = Cardinality(Q) + 1
        /\ \A k \in 1 .. Cardinality(Q) : Nth(Q \cup {n}, k) = Nth(Q, k)
    <3>1. n - 1 \in Nat /\ n \in Nat /\ n > n - 1 /\ Q \in SUBSET (1 .. n - 1)
      BY <1>1, <2>1
    <3> HIDE DEF n, Q
    <3> QED BY <3>1, NthOfLast
  <2>3. Cardinality(Q) \in Nat
    <3> HIDE DEF Q
    <3> QED BY <1>1, <2>1, PositionsFinite
  <2> HIDE DEF Q
  <2> QED BY <1>1, <2>2, <2>3
<1>3. a \in Seq(T) /\ Len(a) = q + 1 /\ \A k \in 1 .. q + 1 : a[k] = s[Nth(P, k)]
  <2> HIDE DEF q
  <2> QED BY <1>2, AtProperties
<1>4. l \in Seq(T) /\ Len(l) = q /\ \A k \in 1 .. q : l[k] = s[Nth(Q, k)]
  <2>1. Q \in SUBSET (1 .. Len(s))
    OBVIOUS
  <2> HIDE DEF Q
  <2> QED BY <2>1, AtProperties
<1>5. r \in Seq(T) /\ Len(r) = q /\ \A k \in 1 .. q : r[k] = a[k]
  <2> HIDE DEF a, q
  <2>1. \A i \in 1 .. Len(a) - 1 : a[i] \in T
    BY <1>2, <1>3, ElementOfSeq
  <2> QED BY <1>2, <1>3, <2>1, SubSeqProperties
<1>6. l = r
  <2> HIDE DEF l, r, a, q, Q
  <2>1. \A k \in 1 .. q : l[k] = r[k]
    <3> SUFFICES ASSUME NEW k \in 1 .. q PROVE l[k] = r[k]
      OBVIOUS
    <3>1. k \in 1 .. q + 1
      BY <1>2
    <3> QED BY <3>1, <1>2, <1>3, <1>4, <1>5
  <2> QED BY <1>4, <1>5, <2>1, SeqEqual
<1>7. a # <<>>
  <2> HIDE DEF a, q
  <2> QED BY <1>2, <1>3, EmptySeq
<1> QED BY <1>6, <1>7

\* An element put before what is kept.
LEMMA PutFirst ==
  ASSUME NEW T, NEW s \in Seq(T), NEW e \in T, NEW P \in SUBSET (1 .. Len(s))
  PROVE  /\ <<e>> \o At(s, P) \in Seq(T)
         /\ Len(<<e>> \o At(s, P)) = Cardinality(P) + 1
         /\ (<<e>> \o At(s, P))[1] = e
         /\ \A n \in 2 .. Cardinality(P) + 1 :
              /\ n - 1 \in 1 .. Cardinality(P) /\ Nth(P, n - 1) \in P
              /\ (<<e>> \o At(s, P))[n] = s[Nth(P, n - 1)]
<1> DEFINE a == At(s, P)  c == Cardinality(P)
<1>1. /\ a \in Seq(T) /\ Len(a) = c
      /\ \A n \in 1 .. c : a[n] = s[Nth(P, n)] /\ Nth(P, n) \in P
  BY AtProperties
<1>2. c \in Nat
  BY <1>1, LenProperties
<1>3. <<e>> \in Seq(T) /\ Len(<<e>>) = 1 /\ <<e>>[1] = e
  OBVIOUS
<1> HIDE DEF a, c
<1>4. /\ <<e>> \o a \in Seq(T)
      /\ Len(<<e>> \o a) = Len(<<e>>) + Len(a)
      /\ \A i \in 1 .. Len(<<e>>) + Len(a) :
           (<<e>> \o a)[i] = IF i <= Len(<<e>>) THEN <<e>>[i] ELSE a[i - Len(<<e>>)]
  BY <1>1, <1>3, ConcatProperties
<1>5. \A i \in 1 .. c + 1 : (<<e>> \o a)[i] = IF i <= 1 THEN <<e>>[i] ELSE a[i - 1]
  BY <1>1, <1>2, <1>3, <1>4
<1>6. ASSUME NEW n \in 2 .. c + 1
      PROVE  n - 1 \in 1 .. c /\ Nth(P, n - 1) \in P /\ (<<e>> \o a)[n] = s[Nth(P, n - 1)]
  <2>1. n - 1 \in 1 .. c /\ n \in 1 .. c + 1 /\ ~ (n <= 1)
    BY <1>2, <1>6
  <2> QED BY <1>1, <1>5, <2>1
<1>7. (<<e>> \o a)[1] = e
  BY <1>2, <1>3, <1>5
<1>8. Len(<<e>> \o a) = c + 1
  BY <1>1, <1>2, <1>3, <1>4
<1> QED BY <1>4, <1>6, <1>7, <1>8 DEF a, c
=============================================================================
