------------------------------ MODULE WallProofs ------------------------------
(***************************************************************************)
(* WallInv is inductive, and what it implies: the wall of a tribe has no    *)
(* hole, no double, its order, and nothing that was removed, for any number *)
(* of posts, any size of a page and of a delta, and any number of polls.    *)
(***************************************************************************)
EXTENDS WallInvariant, FunctionTheorems, FiniteSetTheorems, SequenceTheorems, TLAPS

-----------------------------------------------------------------------------
(* The order of a set of posts                                             *)

\* How many are older grows with the post, and stays below their number.
LEMMA OlderCount ==
    ASSUME NEW S \in SUBSET Nat, IsFiniteSet(S)
    PROVE  /\ \A p \in S : Cardinality({q \in S : q < p}) \in 0 .. (Cardinality(S) - 1)
           /\ \A p, q \in S : p < q =>
                Cardinality({x \in S : x < p}) < Cardinality({x \in S : x < q})
<1> DEFINE older(p) == {x \in S : x < p}
<1>1. \A p \in S : IsFiniteSet(older(p)) /\ Cardinality(older(p)) \in Nat
  BY FS_Subset, FS_CardinalityType
<1>2. ASSUME NEW T, IsFiniteSet(T), NEW U \in SUBSET T, NEW p \in T, p \notin U
      PROVE  Cardinality(U) < Cardinality(T)
  <2>1. Cardinality(U) # Cardinality(T)
    BY <1>2, FS_Subset
  <2>2. Cardinality(U) <= Cardinality(T) /\ Cardinality(U) \in Nat /\ Cardinality(T) \in Nat
    BY <1>2, FS_Subset, FS_CardinalityType
  <2> QED BY <2>1, <2>2
<1>3. ASSUME NEW p \in S PROVE Cardinality(older(p)) \in 0 .. (Cardinality(S) - 1)
  <2>1. p \notin older(p) /\ older(p) \in SUBSET S
    OBVIOUS
  <2>2. Cardinality(older(p)) < Cardinality(S)
    BY <2>1, <1>2
  <2> QED BY <2>2, <1>1, FS_CardinalityType
<1>4. ASSUME NEW p \in S, NEW q \in S, p < q
      PROVE  Cardinality(older(p)) < Cardinality(older(q))
  <2>1. older(p) \in SUBSET older(q) /\ p \in older(q) /\ p \notin older(p)
    <3>1. p \in Nat /\ q \in Nat /\ \A x \in S : x \in Nat /\ (x < p => x < q)
      BY <1>4
    <3>2. \A x \in older(p) : x \in older(q)
      BY <3>1
    <3>3. p \in older(q) /\ p \notin older(p)
      BY <1>4, <3>1
    <3> HIDE DEF older
    <3> QED BY <3>2, <3>3
  <2> HIDE DEF older
  <2> QED BY <2>1, <1>1, <1>2
<1> QED BY <1>3, <1>4

\* OldestFirstSeq(S) is S, each of it once, in ascending order.
LEMMA OldestFirst ==
    ASSUME NEW S \in SUBSET Nat, IsFiniteSet(S)
    PROVE  /\ Cardinality(S) \in Nat
           /\ OldestFirstSeq(S) \in [1 .. Cardinality(S) -> S]
           /\ Ascending(OldestFirstSeq(S))
           /\ ToSet(OldestFirstSeq(S)) = S
<1> DEFINE n == Cardinality(S)
           older(p) == Cardinality({q \in S : q < p})
           f == [p \in S |-> older(p) + 1]
           kth(k) == CHOOSE p \in S : older(p) = k - 1
<1>1. n \in Nat
  BY FS_CardinalityType
<1>2. /\ \A p \in S : older(p) \in 0 .. (n - 1)
      /\ \A p, q \in S : p < q => older(p) < older(q)
  BY OlderCount
<1> HIDE DEF n, older
<1>3. \A p, q \in S : older(p) = older(q) => p = q
  <2> SUFFICES ASSUME NEW p \in S, NEW q \in S, older(p) = older(q) PROVE p = q
    OBVIOUS
  <2>1. p \in Nat /\ q \in Nat /\ older(p) \in Int /\ ~ (older(p) < older(q)) /\ ~ (older(q) < older(p))
    BY <1>2
  <2>2. ~ (p < q) /\ ~ (q < p)
    BY <2>1, <1>2
  <2> QED BY <2>1, <2>2
<1>4. f \in [S -> 1 .. n]
  BY <1>1, <1>2
<1>5. \A p, q \in S : f[p] = f[q] => p = q
  BY <1>2, <1>3
<1>6. f \in Injection(S, 1 .. n)
  BY <1>4, <1>5, Fun_IsInj
<1>7. IsFiniteSet(1 .. n) /\ Cardinality(1 .. n) = n
  BY <1>1, FS_Interval
<1>8. f \in Surjection(S, 1 .. n)
  BY <1>6, <1>7, FS_Injection DEF n
<1>9. \A k \in 1 .. n : \E p \in S : older(p) = k - 1
  <2> TAKE k \in 1 .. n
  <2> HIDE DEF f
  <2>1. PICK p \in S : f[p] = k
    BY <1>8 DEF Surjection
  <2>2. older(p) + 1 = k /\ older(p) \in Int
    BY <1>2, <2>1 DEF f
  <2> QED BY <2>2
<1>10. \A k \in 1 .. n : kth(k) \in S /\ older(kth(k)) = k - 1
  BY <1>9
<1>11. OldestFirstSeq(S) = [k \in 1 .. n |-> kth(k)]
  BY DEF OldestFirstSeq, n, older
<1> HIDE DEF f, kth
<1>12. OldestFirstSeq(S) \in [1 .. n -> S]
  BY <1>10, <1>11
<1>13. Ascending(OldestFirstSeq(S))
  <2> SUFFICES ASSUME NEW i \in 1 .. n, NEW j \in 1 .. n, i < j PROVE kth(i) < kth(j)
    BY <1>11 DEF Ascending
  <2>0. i \in Int /\ j \in Int /\ i - 1 < j - 1
    BY <1>1
  <2>1. kth(i) \in Nat /\ kth(j) \in Nat /\ older(kth(i)) < older(kth(j))
    BY <2>0, <1>10
  <2>2. ~ (kth(j) < kth(i)) /\ kth(j) # kth(i)
    BY <2>1, <1>2, <1>10
  <2> QED BY <2>1, <2>2
<1>14. ASSUME NEW p \in S PROVE \E k \in 1 .. n : kth(k) = p
  <2>1. older(p) + 1 \in 1 .. n
    BY <1>1, <1>2
  <2>2. older(kth(older(p) + 1)) = older(p) /\ kth(older(p) + 1) \in S
    BY <2>1, <1>2, <1>10
  <2>3. kth(older(p) + 1) = p
    BY <2>2, <1>3
  <2> QED BY <2>1, <2>3
<1>15. ToSet(OldestFirstSeq(S)) = S
  <2>1. ToSet(OldestFirstSeq(S)) = {kth(k) : k \in 1 .. n}
    BY <1>11 DEF ToSet
  <2> QED BY <1>10, <1>14, <2>1
<1> QED BY <1>1, <1>12, <1>13, <1>15 DEF n

\* NewestFirstSeq(S) is S, each of it once, in descending order.
LEMMA NewestFirstIs ==
    ASSUME NEW S \in SUBSET Nat, IsFiniteSet(S)
    PROVE  /\ NewestFirstSeq(S) \in [1 .. Cardinality(S) -> S]
           /\ Descending(NewestFirstSeq(S))
           /\ ToSet(NewestFirstSeq(S)) = S
<1> DEFINE n == Cardinality(S)
           s == OldestFirstSeq(S)
           r == NewestFirstSeq(S)
<1>1. n \in Nat /\ s \in [1 .. n -> S] /\ Ascending(s) /\ ToSet(s) = S
  BY OldestFirst
<1> HIDE DEF n, s
<1>2. Len(s) = n
  BY <1>1
<1>3. r = [i \in 1 .. n |-> s[(n - i) + 1]]
  BY <1>2 DEF NewestFirstSeq, Reverse, s
<1>4. \A i \in 1 .. n : (n - i) + 1 \in 1 .. n /\ (n - ((n - i) + 1)) + 1 = i
  BY <1>1
<1>5. r \in [1 .. n -> S]
  BY <1>1, <1>3, <1>4
<1>6. Descending(r)
  <2> SUFFICES ASSUME NEW i \in 1 .. n, NEW j \in 1 .. n, i < j PROVE r[i] > r[j]
    BY <1>5 DEF Descending
  <2>1. (n - j) + 1 < (n - i) + 1
    BY <1>1
  <2>2. s[(n - j) + 1] < s[(n - i) + 1]
    BY <1>1, <1>4, <2>1 DEF Ascending
  <2>3. s[(n - j) + 1] \in Nat /\ s[(n - i) + 1] \in Nat
    BY <1>1, <1>4
  <2> QED BY <1>3, <2>2, <2>3
<1>7. ToSet(r) = S
  <2>1. \A i \in 1 .. n : r[i] \in S
    BY <1>5
  <2>2. \A p \in S : \E i \in 1 .. n : s[i] = p
    BY <1>1 DEF ToSet
  <2>3. \A i \in 1 .. n : r[(n - i) + 1] = s[i]
    BY <1>3, <1>4
  <2> QED BY <1>4, <1>5, <2>1, <2>2, <2>3 DEF ToSet
<1> QED BY <1>5, <1>6, <1>7 DEF n

\* A finite set of posts that is not empty has an oldest and a newest one.
LEMMA Extremes ==
    ASSUME NEW S \in SUBSET Nat, IsFiniteSet(S), S # {}
    PROVE  /\ \E m \in S : \A p \in S : m <= p
           /\ \E m \in S : \A p \in S : p <= m
<1> DEFINE n == Cardinality(S)
           s == OldestFirstSeq(S)
<1>1. n \in Nat /\ s \in [1 .. n -> S] /\ Ascending(s) /\ ToSet(s) = S
  BY OldestFirst
<1>2. n # 0
  BY FS_EmptySet
<1> HIDE DEF n, s
<1>3. \A p \in S : \E i \in 1 .. n : s[i] = p
  BY <1>1 DEF ToSet
<1>4. \A i \in 1 .. n : s[i] \in Nat /\ s[1] <= s[i] /\ s[i] <= s[n]
  <2> TAKE i \in 1 .. n
  <2>1. 1 \in 1 .. n /\ n \in 1 .. n /\ i \in Int
    BY <1>1, <1>2
  <2>2. s[1] \in Nat /\ s[i] \in Nat /\ s[n] \in Nat
    BY <1>1, <2>1
  <2>3. s[1] <= s[i]
    <3>1. CASE i = 1 BY <2>2, <3>1
    <3>2. CASE 1 < i BY <1>1, <2>1, <2>2, <3>2 DEF Ascending
    <3> QED BY <2>1, <3>1, <3>2
  <2>4. s[i] <= s[n]
    <3>1. CASE i = n BY <2>2, <3>1
    <3>2. CASE i < n BY <1>1, <2>1, <2>2, <3>2 DEF Ascending
    <3> QED BY <1>1, <2>1, <3>1, <3>2
  <2> QED BY <2>2, <2>3, <2>4
<1>5. s[1] \in S /\ s[n] \in S
  BY <1>1, <1>2
<1> QED BY <1>3, <1>4, <1>5

-----------------------------------------------------------------------------
(* What is kept of a sequence, and the merge of two                        *)

LEMMA SetOfSeq ==
    ASSUME NEW P, NEW s \in Seq(P)
    PROVE  /\ Len(s) \in Nat /\ DOMAIN s = 1 .. Len(s) /\ s \in [1 .. Len(s) -> P]
           /\ ToSet(s) \subseteq P
           /\ \A i \in 1 .. Len(s) : s[i] \in ToSet(s)
           /\ \A p \in ToSet(s) : \E i \in 1 .. Len(s) : s[i] = p
<1>1. Len(s) \in Nat /\ DOMAIN s = 1 .. Len(s) /\ s \in [1 .. Len(s) -> P]
  BY LenProperties
<1> QED BY <1>1 DEF ToSet

\* Kept(s, K) is s at the places in K, in their order.
LEMMA KeptIs ==
    ASSUME NEW P, NEW s \in Seq(P), NEW K \in SUBSET DOMAIN s
    PROVE  /\ Kept(s, K) \in Seq(P)
           /\ ToSet(Kept(s, K)) = {s[i] : i \in K}
           /\ \A k, l \in DOMAIN Kept(s, K) : k < l =>
                \E i, j \in K : i < j /\ Kept(s, K)[k] = s[i] /\ Kept(s, K)[l] = s[j]
           /\ \A k, l, m \in DOMAIN Kept(s, K) : k < l /\ l < m =>
                \E h, i, j \in K : /\ h < i /\ i < j
                                   /\ Kept(s, K)[k] = s[h] /\ Kept(s, K)[l] = s[i]
                                   /\ Kept(s, K)[m] = s[j]
<1> DEFINE n == Cardinality(K)
           place == OldestFirstSeq(K)
           kept == Kept(s, K)
<1>1. DOMAIN s = 1 .. Len(s) /\ Len(s) \in Nat /\ \A i \in DOMAIN s : s[i] \in P
  BY SetOfSeq
<1>2. K \in SUBSET Nat /\ IsFiniteSet(K)
  <2>1. IsFiniteSet(1 .. Len(s)) /\ 1 .. Len(s) \subseteq Nat
    BY <1>1, FS_Interval
  <2> QED BY <1>1, <2>1, FS_Subset
<1>3. n \in Nat /\ place \in [1 .. n -> K] /\ Ascending(place) /\ ToSet(place) = K
  BY <1>2, OldestFirst
<1>4. kept = [k \in 1 .. n |-> s[place[k]]]
  BY <1>3 DEF Kept
<1> HIDE DEF n, place, kept
<1>5. \A k \in 1 .. n : kept[k] = s[place[k]] /\ place[k] \in K /\ kept[k] \in P
  BY <1>1, <1>3, <1>4
<1>6. kept \in Seq(P)
  <2>1. kept \in [1 .. n -> P]
    BY <1>4, <1>5
  <2> QED BY <1>3, <2>1, SeqDef
<1>7. ToSet(kept) = {s[i] : i \in K}
  <2>1. ToSet(kept) = {s[place[k]] : k \in 1 .. n}
    BY <1>4 DEF ToSet
  <2>2. \A i \in K : \E k \in 1 .. n : place[k] = i
    BY <1>3 DEF ToSet
  <2> QED BY <1>5, <2>1, <2>2
<1>8. \A k, l \in 1 .. n : k < l => place[k] < place[l]
  BY <1>3 DEF Ascending
<1>9. DOMAIN kept = 1 .. n
  BY <1>4
<1>10. \A k, l \in DOMAIN kept : k < l => \E i, j \in K : i < j /\ kept[k] = s[i] /\ kept[l] = s[j]
  BY <1>5, <1>8, <1>9
<1>11. ASSUME NEW k \in 1 .. n, NEW l \in 1 .. n, NEW m \in 1 .. n, k < l, l < m
       PROVE  \E h, i, j \in K : h < i /\ i < j /\ kept[k] = s[h] /\ kept[l] = s[i] /\ kept[m] = s[j]
  <2>1. place[k] \in K /\ place[l] \in K /\ place[m] \in K /\ place[k] < place[l] /\ place[l] < place[m]
    BY <1>5, <1>8, <1>11
  <2>2. kept[k] = s[place[k]] /\ kept[l] = s[place[l]] /\ kept[m] = s[place[m]]
    BY <1>5
  <2> QED BY <2>1, <2>2
<1> QED BY <1>6, <1>7, <1>9, <1>10, <1>11 DEF kept

\* The merge is what is there, then what is new of what comes, once and in its
\* order.
LEMMA MergeIs ==
    ASSUME NEW P, NEW e \in Seq(P), NEW s \in Seq(P)
    PROVE  LET m == MergeFeedItems(e, s) IN
           /\ m \in Seq(P)
           /\ ToSet(m) = ToSet(e) \cup ToSet(s)
           /\ Len(m) >= Len(e)
           /\ \A i \in DOMAIN m : i <= Len(e) => i \in DOMAIN e /\ m[i] = e[i]
           /\ \A i \in DOMAIN m : i > Len(e) => m[i] \in ToSet(s) \ ToSet(e)
           /\ \A i, j \in DOMAIN m : Len(e) < i /\ i < j =>
                \E a, b \in DOMAIN s : a < b /\ s[a] # s[b] /\ m[i] = s[a] /\ m[j] = s[b]
<1> DEFINE K == {i \in DOMAIN s : /\ s[i] \notin ToSet(e)
                                  /\ \A j \in 1 .. (i - 1) : s[j] # s[i]}
           t == Kept(s, K)
           m == MergeFeedItems(e, s)
<1>1. m = e \o t
  BY DEF MergeFeedItems
<1>2. DOMAIN s = 1 .. Len(s) /\ Len(s) \in Nat /\ ToSet(s) = {s[i] : i \in DOMAIN s}
  BY SetOfSeq DEF ToSet
<1>3. /\ t \in Seq(P) /\ ToSet(t) = {s[i] : i \in K}
      /\ \A k, l \in DOMAIN t : k < l => \E i, j \in K : i < j /\ t[k] = s[i] /\ t[l] = s[j]
  <2>1. K \in SUBSET DOMAIN s
    OBVIOUS
  <2> HIDE DEF K
  <2> QED BY <2>1, KeptIs
<1>4. ToSet(t) = ToSet(s) \ ToSet(e)
  <2>1. ToSet(t) \subseteq ToSet(s) \ ToSet(e)
    BY <1>2, <1>3
  <2>2. ASSUME NEW p \in ToSet(s) \ ToSet(e) PROVE p \in ToSet(t)
    <3> DEFINE I == {i \in DOMAIN s : s[i] = p}
    <3>1. I \in SUBSET Nat /\ IsFiniteSet(I) /\ I # {}
      <4>1. IsFiniteSet(DOMAIN s) /\ DOMAIN s \subseteq Nat
        BY <1>2, FS_Interval
      <4>2. I \in SUBSET DOMAIN s /\ I # {}
        BY <1>2, <2>2
      <4> HIDE DEF I
      <4> QED BY <4>1, <4>2, FS_Subset
    <3>2. PICK i \in I : \A j \in I : i <= j
      BY <3>1, Extremes
    <3>3. \A j \in 1 .. (i - 1) : j \in DOMAIN s /\ j < i
      BY <1>2, <3>2
    <3>4. \A j \in 1 .. (i - 1) : s[j] # s[i]
      BY <3>2, <3>3
    <3>5. i \in K /\ s[i] = p
      BY <2>2, <3>2, <3>4
    <3> HIDE DEF K
    <3> QED BY <1>3, <3>5
  <2> QED BY <2>1, <2>2
<1>5. \A i, j \in K : i < j => s[i] # s[j]
  BY <1>2
<1> HIDE DEF K, t, m
<1>6. /\ Len(e) \in Nat /\ DOMAIN e = 1 .. Len(e) /\ \A i \in 1 .. Len(e) : e[i] \in ToSet(e)
      /\ \A p \in ToSet(e) : \E i \in 1 .. Len(e) : e[i] = p
  BY SetOfSeq
<1>7. /\ Len(t) \in Nat /\ DOMAIN t = 1 .. Len(t) /\ \A i \in 1 .. Len(t) : t[i] \in ToSet(t)
      /\ \A p \in ToSet(t) : \E i \in 1 .. Len(t) : t[i] = p
  <2>1. t \in Seq(P)
    BY <1>3
  <2> QED BY <2>1, SetOfSeq
<1>8. /\ m \in Seq(P) /\ Len(m) = Len(e) + Len(t)
      /\ \A i \in 1 .. (Len(e) + Len(t)) : m[i] = IF i <= Len(e) THEN e[i] ELSE t[i - Len(e)]
  BY <1>1, <1>3, ConcatProperties
<1>9. DOMAIN m = 1 .. (Len(e) + Len(t))
  BY <1>8, SetOfSeq
<1>10. \A i \in DOMAIN m : i <= Len(e) => i \in DOMAIN e /\ m[i] = e[i]
  BY <1>6, <1>7, <1>8, <1>9
<1>11. \A i \in DOMAIN m : i > Len(e) => i - Len(e) \in DOMAIN t /\ m[i] = t[i - Len(e)]
  BY <1>6, <1>7, <1>8, <1>9
<1>12. ToSet(m) = ToSet(e) \cup ToSet(s)
  <2>1. ToSet(m) = {m[i] : i \in DOMAIN m}
    BY DEF ToSet
  <2>2. ASSUME NEW i \in DOMAIN m PROVE m[i] \in ToSet(e) \cup ToSet(t)
    <3>1. CASE i <= Len(e) BY <1>6, <1>10, <3>1
    <3>2. CASE i > Len(e) BY <1>7, <1>11, <3>2
    <3> QED BY <1>6, <1>7, <1>9, <3>1, <3>2
  <2>3. ASSUME NEW p \in ToSet(e) PROVE \E i \in DOMAIN m : m[i] = p
    <3>1. PICK k \in 1 .. Len(e) : e[k] = p
      BY <1>6
    <3>2. k \in DOMAIN m /\ k <= Len(e)
      BY <1>6, <1>7, <1>9
    <3> QED BY <1>10, <3>1, <3>2
  <2>4. ASSUME NEW p \in ToSet(t) PROVE \E i \in DOMAIN m : m[i] = p
    <3>1. PICK k \in 1 .. Len(t) : t[k] = p
      BY <1>7
    <3>2. k + Len(e) \in DOMAIN m /\ k + Len(e) > Len(e) /\ (k + Len(e)) - Len(e) = k
      BY <1>6, <1>7, <1>9
    <3> QED BY <1>11, <3>1, <3>2
  <2> QED BY <1>4, <2>1, <2>2, <2>3, <2>4
<1>13. \A i \in DOMAIN m : i > Len(e) => m[i] \in ToSet(s) \ ToSet(e)
  BY <1>4, <1>7, <1>11
<1>14. ASSUME NEW i \in DOMAIN m, NEW j \in DOMAIN m, Len(e) < i, i < j
       PROVE  \E a, b \in DOMAIN s : a < b /\ s[a] # s[b] /\ m[i] = s[a] /\ m[j] = s[b]
  <2>1. i - Len(e) < j - Len(e) /\ j > Len(e)
    BY <1>6, <1>7, <1>9, <1>14
  <2>2. PICK a \in K, b \in K : a < b /\ t[i - Len(e)] = s[a] /\ t[j - Len(e)] = s[b]
    BY <1>3, <1>11, <1>14, <2>1
  <2>3. a \in DOMAIN s /\ b \in DOMAIN s /\ s[a] # s[b]
    BY <1>5, <2>2 DEF K
  <2> QED BY <1>11, <1>14, <2>1, <2>2, <2>3
<1>15. Len(m) >= Len(e)
  BY <1>6, <1>7, <1>8
<1> QED BY <1>8, <1>10, <1>12, <1>13, <1>14, <1>15 DEF m

\* A sequence in strict order holds nothing twice.
LEMMA OrderedOnce ==
    ASSUME NEW P \in SUBSET Nat, NEW s \in Seq(P), Ascending(s) \/ Descending(s)
    PROVE  IsInjective(s)
<1>1. DOMAIN s = 1 .. Len(s) /\ Len(s) \in Nat /\ \A i \in DOMAIN s : s[i] \in Nat
  BY SetOfSeq
<1> SUFFICES ASSUME NEW i \in DOMAIN s, NEW j \in DOMAIN s, s[i] = s[j] PROVE i = j
  BY DEF IsInjective
<1>2. i \in Int /\ j \in Int /\ ~ (i < j) /\ ~ (j < i)
  BY <1>1 DEF Ascending, Descending
<1> QED BY <1>2

\* The reverse of a delta holds the same posts, in descending order.
LEMMA ReverseIs ==
    ASSUME NEW P \in SUBSET Nat, NEW s \in Seq(P)
    PROVE  /\ Reverse(s) \in Seq(P)
           /\ ToSet(Reverse(s)) = ToSet(s)
           /\ IsInjective(s) => IsInjective(Reverse(s))
           /\ Ascending(s) => Descending(Reverse(s))
<1> DEFINE n == Len(s)
           r == Reverse(s)
<1>1. n \in Nat /\ DOMAIN s = 1 .. n /\ (\A i \in 1 .. n : s[i] \in P /\ s[i] \in Nat)
  BY SetOfSeq
<1>2. r = [i \in 1 .. n |-> s[(n - i) + 1]]
  BY DEF Reverse
<1> HIDE DEF n, r
<1>3. \A i \in 1 .. n : (n - i) + 1 \in 1 .. n /\ (n - ((n - i) + 1)) + 1 = i
  BY <1>1
<1>4. r \in [1 .. n -> P] /\ DOMAIN r = 1 .. n
  BY <1>1, <1>2, <1>3
<1>5. \A i \in 1 .. n : r[i] = s[(n - i) + 1] /\ r[(n - i) + 1] = s[i]
  BY <1>2, <1>3
<1>6. r \in Seq(P)
  BY <1>1, <1>4, SeqDef
<1>7. ToSet(r) = ToSet(s)
  <2>1. ToSet(r) = {r[i] : i \in 1 .. n} /\ ToSet(s) = {s[i] : i \in 1 .. n}
    BY <1>1, <1>4 DEF ToSet
  <2> QED BY <1>3, <1>5, <2>1
<1>8. ASSUME IsInjective(s) PROVE IsInjective(r)
  <2> SUFFICES ASSUME NEW i \in 1 .. n, NEW j \in 1 .. n, r[i] = r[j] PROVE i = j
    BY <1>4 DEF IsInjective
  <2>1. s[(n - i) + 1] = s[(n - j) + 1]
    BY <1>5
  <2>2. (n - i) + 1 = (n - j) + 1
    BY <1>1, <1>3, <1>8, <2>1 DEF IsInjective
  <2> QED BY <1>1, <2>2
<1>9. ASSUME Ascending(s) PROVE Descending(r)
  <2> SUFFICES ASSUME NEW i \in 1 .. n, NEW j \in 1 .. n, i < j PROVE r[i] > r[j]
    BY <1>4 DEF Descending
  <2>1. (n - j) + 1 < (n - i) + 1
    BY <1>1
  <2>2. s[(n - j) + 1] < s[(n - i) + 1]
    BY <1>1, <1>3, <1>9, <2>1 DEF Ascending
  <2>3. s[(n - j) + 1] \in Nat /\ s[(n - i) + 1] \in Nat
    BY <1>1, <1>3
  <2> QED BY <1>5, <2>2, <2>3
<1> QED BY <1>6, <1>7, <1>8, <1>9 DEF r

-----------------------------------------------------------------------------
(* What the service answers                                                *)

\* LIMIT n leaves out only what comes after what it keeps, and keeps something.
LEMMA LimitIs ==
    ASSUME NEW S \in SUBSET Nat, IsFiniteSet(S), NEW n \in Nat \ {0}
    PROVE  /\ \A p \in S, q \in Newest(S, n) : p > q => p \in Newest(S, n)
           /\ \A p \in S, q \in Oldest(S, n) : p < q => p \in Oldest(S, n)
           /\ S # {} => Newest(S, n) # {}
<1> DEFINE newer(p) == {x \in S : x > p}
           older(p) == {x \in S : x < p}
<1>1. \A p \in S : /\ newer(p) \in SUBSET S /\ IsFiniteSet(newer(p)) /\ Cardinality(newer(p)) \in Nat
                   /\ older(p) \in SUBSET S /\ IsFiniteSet(older(p)) /\ Cardinality(older(p)) \in Nat
  BY FS_Subset, FS_CardinalityType
<1>2. ASSUME NEW p \in S, NEW q \in Newest(S, n), p > q PROVE p \in Newest(S, n)
  <2>1. q \in S /\ Cardinality(newer(q)) < n
    BY DEF Newest
  <2>2. newer(p) \in SUBSET newer(q)
    <3>1. p \in Nat /\ q \in Nat /\ \A x \in S : x \in Nat
      BY <2>1
    <3>2. \A x \in newer(p) : x \in newer(q)
      BY <1>2, <3>1
    <3> HIDE DEF newer
    <3> QED BY <3>2
  <2>3. Cardinality(newer(p)) <= Cardinality(newer(q))
    <3> HIDE DEF newer
    <3> QED BY <1>1, <2>1, <2>2, FS_Subset
  <2>4. Cardinality(newer(p)) < n
    <3> HIDE DEF newer
    <3>1. Cardinality(newer(p)) \in Nat /\ Cardinality(newer(q)) \in Nat /\ n \in Nat
      BY <1>1, <2>1
    <3> QED BY <2>1, <2>3, <3>1
  <2> QED BY <2>4 DEF Newest
<1>3. ASSUME NEW p \in S, NEW q \in Oldest(S, n), p < q PROVE p \in Oldest(S, n)
  <2>1. q \in S /\ Cardinality(older(q)) < n
    BY DEF Oldest
  <2>2. older(p) \in SUBSET older(q)
    <3>1. p \in Nat /\ q \in Nat /\ \A x \in S : x \in Nat
      BY <2>1
    <3>2. \A x \in older(p) : x \in older(q)
      BY <1>3, <3>1
    <3> HIDE DEF older
    <3> QED BY <3>2
  <2>3. Cardinality(older(p)) <= Cardinality(older(q))
    <3> HIDE DEF older
    <3> QED BY <1>1, <2>1, <2>2, FS_Subset
  <2>4. Cardinality(older(p)) < n
    <3> HIDE DEF older
    <3>1. Cardinality(older(p)) \in Nat /\ Cardinality(older(q)) \in Nat /\ n \in Nat
      BY <1>1, <2>1
    <3> QED BY <2>1, <2>3, <3>1
  <2> QED BY <2>4 DEF Oldest
<1>4. ASSUME S # {} PROVE Newest(S, n) # {}
  <2>1. PICK m \in S : \A p \in S : p <= m
    BY <1>4, Extremes
  <2>2. newer(m) = {}
    <3> SUFFICES ASSUME NEW p \in S, p > m PROVE FALSE
      OBVIOUS
    <3>1. m \in Nat /\ p \in Nat /\ p <= m
      BY <2>1
    <3> QED BY <3>1
  <2>3. Cardinality(newer(m)) < n
    BY <2>2, FS_EmptySet
  <2> QED BY <2>3 DEF Newest
<1> QED BY <1>2, <1>3, <1>4

\* A page holds what there is below its cursor, down to the next one.
LEMMA PageIs ==
    ASSUME NEW V \in SUBSET Posts, NEW c \in Nat
    PROVE  LET from == {p \in V : c # 0 => p < c}
               page == Newest(from, WallPageSize)
               rows == NewestFirstSeq(page)
               next == IF page # from THEN rows[Len(rows)] ELSE 0
               newest == IF rows # <<>> THEN rows[1] ELSE 0
           IN  /\ rows \in Seq(Posts) /\ Descending(rows) /\ IsInjective(rows)
               /\ ToSet(rows) \subseteq from
               /\ next \in V \cup {0} /\ newest \in V \cup {0}
               /\ \A p \in ToSet(rows) : p >= next
               /\ \A p \in from : p >= next => p \in ToSet(rows)
               /\ c = 0 => next <= newest
               /\ c # 0 => next < c
<1> DEFINE from == {p \in V : c # 0 => p < c}
           page == Newest(from, WallPageSize)
           n == Cardinality(page)
           rows == NewestFirstSeq(page)
           next == IF page # from THEN rows[Len(rows)] ELSE 0
           newest == IF rows # <<>> THEN rows[1] ELSE 0
<1>1. Posts \subseteq Nat /\ IsFiniteSet(Posts) /\ WallPageSize \in Nat \ {0}
  BY TribeWallAssumption, FS_Interval DEF Posts
<1>2. from \in SUBSET Nat /\ IsFiniteSet(from) /\ from \subseteq V
  BY <1>1, FS_Subset
<1>3. page \subseteq from
  BY DEF Newest
<1>4. page \in SUBSET Nat /\ IsFiniteSet(page)
  BY <1>2, <1>3, FS_Subset
<1>5. /\ \A p \in from, q \in page : p > q => p \in page
      /\ from # {} => page # {}
  BY <1>1, <1>2, LimitIs
<1>6. n \in Nat /\ rows \in [1 .. n -> page] /\ Descending(rows) /\ ToSet(rows) = page
  BY <1>4, NewestFirstIs, FS_CardinalityType
<1>7. \A p \in from : p \in Posts /\ p \in Nat /\ p # 0 /\ (c # 0 => p < c)
  BY <1>1 DEF Posts
<1> HIDE DEF from, page, n, rows
<1>8. rows \in Seq(page) /\ Len(rows) = n
  BY <1>6, SeqDef
<1>9. rows \in Seq(Posts)
  BY <1>3, <1>7, <1>8, SeqMonotonic
<1>10. IsInjective(rows)
  BY <1>4, <1>6, <1>8, OrderedOnce
<1>11. \A p \in page : \E i \in 1 .. n : rows[i] = p
  BY <1>6 DEF ToSet
<1>12. ASSUME page # {} PROVE n \in 1 .. n /\ 1 \in 1 .. n /\ rows # <<>>
  <2>1. PICK i \in 1 .. n : TRUE
    BY <1>11, <1>12
  <2>2. n \in 1 .. n /\ 1 \in 1 .. n
    BY <1>6, <2>1
  <2> QED BY <1>8, <2>2
<1>13. ASSUME page # {} PROVE rows[n] \in page /\ rows[1] \in page /\ \A p \in page : rows[n] <= p /\ p <= rows[1]
  <2>1. rows[n] \in page /\ rows[1] \in page
    BY <1>6, <1>12, <1>13
  <2>2. ASSUME NEW p \in page PROVE rows[n] <= p /\ p <= rows[1]
    <3>1. PICK i \in 1 .. n : rows[i] = p
      BY <1>11
    <3>2. p \in Nat /\ rows[n] \in Nat /\ rows[1] \in Nat
      BY <1>4, <2>1
    <3>3. i < n => rows[i] > rows[n]
      BY <1>6, <1>12, <1>13 DEF Descending
    <3>4. 1 < i => rows[1] > rows[i]
      BY <1>6, <1>12, <1>13 DEF Descending
    <3>5. (i = n \/ i < n) /\ (i = 1 \/ 1 < i)
      BY <1>6
    <3> QED BY <3>1, <3>2, <3>3, <3>4, <3>5
  <2> QED BY <2>1, <2>2
<1>14. page # from => page # {}
  BY <1>3, <1>5
<1>15. next \in V \cup {0} /\ newest \in V \cup {0} /\ next \in Nat /\ newest \in Nat
  <2>1. next \in page \cup {0}
    BY <1>8, <1>13, <1>14
  <2>2. newest \in page \cup {0}
    <3>1. CASE page = {} BY <1>8, <1>6, <3>1
    <3>2. CASE page # {} BY <1>13, <3>2
    <3> QED BY <3>1, <3>2
  <2>3. page \subseteq V /\ page \subseteq Nat
    BY <1>2, <1>3, <1>4
  <2> HIDE DEF next, newest
  <2> QED BY <2>1, <2>2, <2>3
<1>16. \A p \in ToSet(rows) : p >= next
  BY <1>3, <1>6, <1>7, <1>8, <1>13, <1>14
<1>17. ASSUME NEW p \in from, p >= next PROVE p \in ToSet(rows)
  <2>1. CASE page = from BY <1>6, <2>1
  <2>2. CASE page # from
    <3>1. next = rows[n] /\ next \in page
      BY <1>8, <1>13, <1>14, <2>2
    <3>2. p > next => p \in page
      BY <1>5, <3>1
    <3>3. p \in Nat /\ next \in Nat
      BY <1>4, <1>7, <3>1
    <3> QED BY <1>6, <1>17, <3>1, <3>2, <3>3
  <2> QED BY <2>1, <2>2
<1>18. next <= newest
  <2>1. CASE page = from BY <1>15, <2>1
  <2>2. CASE page # from
    <3>1. next = rows[n] /\ newest = rows[1] /\ rows[n] <= rows[1]
      BY <1>8, <1>12, <1>13, <1>14, <2>2
    <3> QED BY <3>1
  <2> QED BY <2>1, <2>2
<1>19. c # 0 => next < c
  <2>1. CASE page = from BY <2>1
  <2>2. CASE page # from
    BY <1>3, <1>7, <1>8, <1>13, <1>14, <2>2
  <2> QED BY <2>1, <2>2
<1>20. ToSet(rows) \subseteq from
  BY <1>3, <1>6
<1> HIDE DEF next, newest
<1> QED BY <1>6, <1>9, <1>10, <1>15, <1>16, <1>17, <1>18, <1>19, <1>20 DEF from, page, rows, next, newest

\* What ListPostsSince answers to the cursor c when V is visible.
NewerThan(V, c) == {p \in V : p > c}
DeltaRows(V, c) == OldestFirstSeq(Oldest(NewerThan(V, c), SinceLimit))
DeltaEnd(V, c)  == IF DeltaRows(V, c) # <<>> THEN DeltaRows(V, c)[Len(DeltaRows(V, c))] ELSE c

\* A delta holds what there is above its cursor, up to the next one.
LEMMA DeltaIs ==
    ASSUME NEW V \in SUBSET Posts, NEW c \in Nat
    PROVE  /\ DeltaRows(V, c) \in Seq(Posts)
           /\ Ascending(DeltaRows(V, c)) /\ IsInjective(DeltaRows(V, c))
           /\ ToSet(DeltaRows(V, c)) = Oldest(NewerThan(V, c), SinceLimit)
           /\ ToSet(DeltaRows(V, c)) \subseteq NewerThan(V, c)
           /\ DeltaEnd(V, c) \in V \cup {c} /\ DeltaEnd(V, c) \in Nat /\ c <= DeltaEnd(V, c)
           /\ \A p \in NewerThan(V, c) : p <= DeltaEnd(V, c) => p \in ToSet(DeltaRows(V, c))
<1> DEFINE newer == NewerThan(V, c)
           delta == Oldest(newer, SinceLimit)
           n == Cardinality(delta)
           rows == DeltaRows(V, c)
           next == DeltaEnd(V, c)
<1>0. /\ newer = {p \in V : p > c}
      /\ rows = OldestFirstSeq(delta)
      /\ next = IF rows # <<>> THEN rows[Len(rows)] ELSE c
  BY DEF NewerThan, DeltaRows, DeltaEnd
<1>1. Posts \subseteq Nat /\ IsFiniteSet(Posts) /\ SinceLimit \in Nat \ {0}
  BY TribeWallAssumption, FS_Interval DEF Posts
<1>2. newer \in SUBSET Nat /\ IsFiniteSet(newer) /\ newer \subseteq V
  BY <1>0, <1>1, FS_Subset
<1>3. delta \subseteq newer
  BY DEF Oldest
<1>4. delta \in SUBSET Nat /\ IsFiniteSet(delta)
  BY <1>2, <1>3, FS_Subset
<1>5. \A p \in newer, q \in delta : p < q => p \in delta
  BY <1>1, <1>2, LimitIs
<1>6. n \in Nat /\ rows \in [1 .. n -> delta] /\ Ascending(rows) /\ ToSet(rows) = delta
  BY <1>0, <1>4, OldestFirst
<1>7. \A p \in newer : p \in Posts /\ p \in Nat /\ c < p
  BY <1>0, <1>1
<1> HIDE DEF newer, delta, n, rows, next
<1>8. rows \in Seq(delta) /\ Len(rows) = n
  BY <1>6, SeqDef
<1>9. rows \in Seq(Posts)
  BY <1>3, <1>7, <1>8, SeqMonotonic
<1>10. IsInjective(rows)
  BY <1>4, <1>6, <1>8, OrderedOnce
<1>11. CASE n = 0
  <2>1. rows = <<>> /\ next = c
    BY <1>0, <1>8, <1>11
  <2>2. newer = {} \/ delta # {}
    <3> SUFFICES ASSUME newer # {} PROVE delta # {}
      OBVIOUS
    <3>1. PICK m \in newer : \A p \in newer : m <= p
      BY <1>2, Extremes
    <3>2. {p \in newer : p < m} = {}
      <4> SUFFICES ASSUME NEW p \in newer, p < m PROVE FALSE
        OBVIOUS
      <4>1. m \in Nat /\ p \in Nat /\ m <= p
        BY <1>7, <3>1
      <4> QED BY <4>1
    <3>3. Cardinality({p \in newer : p < m}) = 0
      BY <3>2, FS_EmptySet
    <3>4. m \in Oldest(newer, SinceLimit)
      BY <1>1, <3>3 DEF Oldest
    <3> QED BY <3>4 DEF delta
  <2>3. newer = {}
    BY <1>4, <1>11, <2>2, FS_EmptySet DEF n
  <2> QED BY <1>3, <1>6, <1>9, <1>10, <2>1, <2>3 DEF newer, delta, rows, next
<1>12. CASE n # 0
  <2>1. n \in 1 .. n /\ rows # <<>> /\ next = rows[n] /\ next \in delta
    BY <1>0, <1>6, <1>8, <1>12
  <2>2. next \in newer /\ next \in Nat /\ c < next
    BY <1>3, <1>7, <2>1
  <2>3. ASSUME NEW p \in newer, p <= next PROVE p \in ToSet(rows)
    <3>1. p \in Nat /\ (p = next \/ p < next)
      BY <1>7, <2>2, <2>3
    <3> QED BY <1>5, <1>6, <2>1, <3>1
  <2>4. next \in V \cup {c} /\ next \in Nat /\ c <= next
    BY <1>2, <2>2
  <2> QED BY <1>3, <1>6, <1>9, <1>10, <2>3, <2>4 DEF newer, delta, rows, next
<1> QED
  <2> QED BY <1>11, <1>12 DEF next, newer, delta, rows

-----------------------------------------------------------------------------
(* Every action keeps the invariant                                        *)

\* What is numbers and what is posts.
LEMMA Facts ==
    ASSUME WallInv
    PROVE  /\ \A p \in Posts : p \in Nat /\ p # 0
           /\ \A p \in committed : p \in Posts /\ p <= begun
           /\ begun \in Nat /\ writing \in Nat /\ oldest \in Nat /\ latest \in Nat
           /\ \A r \in Requests : /\ r.cursor \in Nat /\ r.next \in Nat /\ r.latest \in Nat
                                  /\ r.rows \in Seq(Posts)
           /\ \A i \in DOMAIN wall : wall[i] \in ToSet(wall) /\ wall[i] \in Posts
           /\ wall \in Seq(Posts) /\ DOMAIN wall = 1 .. Len(wall) /\ Len(wall) \in Nat
<1>1. WallTypeOK
  BY DEF WallInv
<1>2. \A r \in Requests : r \in Request
  BY <1>1 DEF WallTypeOK, Requests
<1>3. \A r \in Requests : r.cursor \in Nat /\ r.next \in Nat /\ r.latest \in Nat /\ r.rows \in Seq(Posts)
  BY <1>2, TribeWallAssumption DEF Request
<1>4. wall \in Seq(Posts) /\ DOMAIN wall = 1 .. Len(wall) /\ Len(wall) \in Nat
  BY <1>1, SetOfSeq DEF WallTypeOK
<1>5. \A i \in DOMAIN wall : wall[i] \in ToSet(wall) /\ wall[i] \in Posts
  BY <1>4, SetOfSeq
<1>6. begun \in Nat /\ writing \in Nat /\ oldest \in Nat /\ latest \in Nat
  BY <1>1, TribeWallAssumption DEF WallTypeOK
<1>7. \A p \in committed : p \in Posts /\ p <= begun
  BY <1>1, TribeWallAssumption DEF WallTypeOK, Posts
<1>8. \A p \in Posts : p \in Nat /\ p # 0
  BY DEF Posts
<1> QED BY <1>3, <1>4, <1>5, <1>6, <1>7, <1>8

LEMMA BeginPostKeeps ==
    ASSUME WallInv, BeginPost
    PROVE  WallInv'
<1>1. WallTypeOK'
  BY TribeWallAssumption DEF WallInv, WallTypeOK, Request, Posts, BeginPost, wallShown
<1>2. HoldsCommitted' /\ CursorsAgree' /\ RowsOnce' /\ TwiceAtMost'
  BY DEF WallInv, HoldsCommitted, CursorsAgree, RowsOnce, TwiceAtMost, Requests, Polling, BeginPost, wallShown
<1>3. NoHole' /\ InOrder'
  BY DEF WallInv, NoHole, Covered, InOrder, Calm, Visible, Polling, BeginPost, wallShown
<1>4. WrittenApart' /\ RemovedStaysOut'
  BY DEF WallInv, WrittenApart, RemovedStaysOut, Requests, Reading, Polling, BeginPost, wallShown
<1> QED BY <1>1, <1>2, <1>3, <1>4 DEF WallInv


LEMMA CommitPostKeeps ==
    ASSUME WallInv, NEW p \in Posts, CommitPost(p)
    PROVE  WallInv'
<1>1. WallTypeOK'
  BY TribeWallAssumption DEF WallInv, WallTypeOK, Request, Posts, CommitPost, wallShown
<1>2. HoldsCommitted' /\ CursorsAgree' /\ RowsOnce' /\ TwiceAtMost'
  BY DEF WallInv, HoldsCommitted, CursorsAgree, RowsOnce, TwiceAtMost, Requests, Polling,
         CommitPost, wallShown
<1>3. \A q \in Visible' \ late' : q \in Visible \ late \/ (q = p /\ \A c \in committed : c < p)
  <2>1. p \notin committed /\ p \in Nat /\ \A c \in committed : c \in Nat
    BY Facts DEF CommitPost
  <2>2. p \notin late' => \A c \in committed : c < p
    BY <2>1 DEF CommitPost
  <2> QED BY <2>2 DEF CommitPost, Visible
<1>4. NoHole'
  <2>1. ASSUME NEW c \in committed \cup {0}, Covered(c) PROVE Covered(c)'
    <3> SUFFICES ASSUME NEW q \in Visible' \ late', q <= c, oldest # 0 => q >= oldest
                 PROVE  q \in ToSet(wall)
      BY DEF Covered, CommitPost, wallShown
    <3>1. q \in Visible \ late
      BY <1>3, Facts
    <3> QED BY <2>1, <3>1 DEF Covered
  <2>2. /\ latest \in committed \cup {0}
        /\ \A k \in Polls : poll[k].cursor \in committed \cup {0} /\ poll[k].latest \in committed \cup {0}
        /\ wallPage.cursor \in committed \cup {0} /\ wallPage.latest \in committed \cup {0}
    BY DEF WallInv, HoldsCommitted, Requests
  <2>3. p \in Nat /\ p # 0 /\ \A c \in committed : c \in Nat
    BY Facts
  <2>4. UNCHANGED <<wall, oldest, latest, wallPage, poll>>
    BY DEF CommitPost, wallShown
  <2>5. latest' # 0 => Covered(latest)'
    BY <2>1, <2>2, <2>4 DEF WallInv, NoHole, Covered
  <2>6. ASSUME NEW k \in Polling'
        PROVE  /\ Covered(poll[k].cursor)'
               /\ poll'[k].pc = "answered" =>
                    \A q \in Visible' \ late' :
                        poll'[k].cursor < q /\ q <= poll'[k].latest => q \in ToSet(poll'[k].rows)
    <3>1. k \in Polling /\ k \in Polls /\ poll'[k] = poll[k]
      BY <2>4 DEF Polling
    <3>2. Covered(poll[k].cursor)'
      BY <2>1, <2>2, <2>4, <3>1 DEF WallInv, NoHole, Covered
    <3>3. \A q \in Visible' \ late' : q <= poll[k].latest => q \in Visible \ late
      BY <1>3, <2>2, <2>3, <3>1
    <3> QED BY <3>1, <3>2, <3>3 DEF WallInv, NoHole
  <2>7. ASSUME wallPage'.pc = "answered", NEW q \in Visible' \ late', q >= wallPage'.next,
               IF wallPage'.cursor = 0 THEN q <= wallPage'.latest ELSE q < wallPage'.cursor
        PROVE  q \in ToSet(wallPage'.rows)
    <3>1. q \in Visible \ late
      BY <1>3, <2>2, <2>3, <2>4, <2>7
    <3> QED BY <2>4, <2>7, <3>1 DEF WallInv, NoHole
  <2> QED BY <2>5, <2>6, <2>7 DEF NoHole
<1>5. WrittenApart' /\ RemovedStaysOut'
  BY DEF WallInv, WrittenApart, RemovedStaysOut, Requests, Reading, Polling, CommitPost, wallShown
<1>6. InOrder'
  <2>1. UNCHANGED <<wall, oldest, wallPage, poll, writing, overlaps, removed>>
    BY DEF CommitPost, wallShown
  <2>2. Calm' => Calm
    BY DEF Calm, CommitPost
  <2>3. \A q \in ToSet(wall) : q \in Visible' => q \in Visible
    BY DEF WallInv, HoldsCommitted, Visible, CommitPost
  <2>4. \A i \in DOMAIN wall : wall[i] \in ToSet(wall)
    BY Facts
  <2>5. Polling' = Polling
    BY <2>1 DEF Polling
  <2>6. \A i, j \in DOMAIN wall : {wall[i], wall[j]} \subseteq Visible' => {wall[i], wall[j]} \subseteq Visible
    BY <2>3, <2>4
  <2> QED BY <2>1, <2>2, <2>3, <2>5, <2>6 DEF WallInv, InOrder
<1> QED BY <1>1, <1>2, <1>4, <1>5, <1>6 DEF WallInv

LEMMA ModeratePostKeeps ==
    ASSUME WallInv, NEW p \in Posts, ModeratePost(p)
    PROVE  WallInv'
<1>1. WallTypeOK'
  BY DEF WallInv, WallTypeOK, Request, Posts, Visible, ModeratePost, wallShown
<1>2. HoldsCommitted' /\ CursorsAgree' /\ RowsOnce' /\ TwiceAtMost'
  BY DEF WallInv, HoldsCommitted, CursorsAgree, RowsOnce, TwiceAtMost, Requests, Polling,
         ModeratePost, wallShown
<1>3. NoHole'
  BY DEF WallInv, NoHole, Covered, Visible, Polling, ModeratePost, wallShown
<1>4. WrittenApart' /\ RemovedStaysOut'
  BY DEF WallInv, WrittenApart, RemovedStaysOut, Requests, Reading, Polling, ModeratePost, wallShown
<1>5. InOrder'
  BY DEF WallInv, InOrder, Calm, Visible, Polling, ModeratePost, wallShown
<1> QED BY <1>1, <1>2, <1>3, <1>4, <1>5 DEF WallInv


LEMMA ListPostsKeeps ==
    ASSUME WallInv, ListPosts
    PROVE  WallInv'
<1> DEFINE c == wallPage.cursor
           from == {p \in Visible : c # 0 => p < c}
           page == Newest(from, WallPageSize)
           rows == NewestFirstSeq(page)
           next == IF page # from THEN rows[Len(rows)] ELSE 0
           newest == IF rows # <<>> THEN rows[1] ELSE 0
<1>1. /\ wallPage.pc = "sent"
      /\ wallPage' = [pc |-> "answered", cursor |-> c, rows |-> rows, next |-> next, latest |-> newest]
      /\ UNCHANGED <<begun, committed, removed, wall, oldest, latest, poll, writing, removing,
                     late, clean, overlaps>>
  BY DEF ListPosts, WallInv, WallTypeOK, Request, wallServer, wallShown
<1>2. Visible \in SUBSET Posts /\ Visible \subseteq committed /\ c \in Nat /\ wallPage \in Requests
  BY Facts DEF Visible, Requests
<1>3. /\ rows \in Seq(Posts) /\ Descending(rows) /\ IsInjective(rows)
      /\ ToSet(rows) \subseteq from
      /\ next \in Visible \cup {0} /\ newest \in Visible \cup {0}
      /\ \A p \in ToSet(rows) : p >= next
      /\ \A p \in from : p >= next => p \in ToSet(rows)
      /\ c = 0 => next <= newest
      /\ c # 0 => next < c
  BY <1>2, PageIs
<1>4. \A p \in from : p \in Visible /\ (c # 0 => p < c)
  OBVIOUS
<1>5. \A p \in Visible : (c # 0 => p < c) => p \in from
  OBVIOUS
<1> HIDE DEF c, from, page, rows, next, newest
<1>6. /\ wallPage'.pc = "answered" /\ wallPage'.cursor = c /\ wallPage'.rows = rows
      /\ wallPage'.next = next /\ wallPage'.latest = newest
  BY <1>1
<1>7. \A r \in Requests' : r = wallPage' \/ r \in Requests
  BY <1>1 DEF Requests
<1>8. WallTypeOK'
  <2>1. c \in 0 .. MaxPosts /\ next \in 0 .. MaxPosts /\ newest \in 0 .. MaxPosts
    BY <1>2, <1>3, TribeWallAssumption DEF WallInv, WallTypeOK, Request, Posts, c
  <2>2. wallPage' \in Request
    BY <1>1, <1>3, <2>1 DEF Request
  <2> QED BY <1>1, <2>2 DEF WallInv, WallTypeOK
<1>9. HoldsCommitted'
  <2>1. ToSet(rows) \subseteq committed /\ {c, next, newest} \subseteq committed \cup {0}
    BY <1>2, <1>3, <1>4 DEF WallInv, HoldsCommitted, c
  <2> QED BY <1>1, <1>6, <1>7, <2>1 DEF WallInv, HoldsCommitted
<1>10. CursorsAgree'
  BY <1>1, <1>3, <1>6 DEF WallInv, CursorsAgree, Polling, c
<1>11. RowsOnce' /\ TwiceAtMost'
  BY <1>1, <1>3, <1>6, <1>7 DEF WallInv, RowsOnce, TwiceAtMost
<1>12. NoHole'
  <2>1. ASSUME NEW p \in Visible \ late, p >= next, IF c = 0 THEN p <= newest ELSE p < c
        PROVE  p \in ToSet(rows)
    BY <1>3, <1>5, <2>1
  <2>2. /\ latest # 0 => Covered(latest)'
        /\ \A k \in Polling : Covered(poll[k].cursor)'
    BY <1>1 DEF WallInv, NoHole, Covered, Visible
  <2>3. Visible' = Visible /\ late' = late /\ Polling' = Polling /\ poll' = poll /\ latest' = latest
    BY <1>1 DEF Visible, Polling
  <2> QED BY <1>6, <2>1, <2>2, <2>3 DEF WallInv, NoHole
<1>13. WrittenApart'
  BY <1>1, <1>6 DEF WallInv, WrittenApart, Reading, Polling
<1>14. RemovedStaysOut'
  <2>1. clean \cap ToSet(rows) = {}
    BY <1>3, <1>4 DEF WallInv, WallTypeOK, Visible
  <2> QED BY <1>1, <1>6, <1>7, <2>1 DEF WallInv, RemovedStaysOut
<1>15. InOrder'
  <2>1. \A p \in ToSet(rows) : p >= next /\ (c # 0 => p < c)
    BY <1>3, <1>4
  <2> QED BY <1>1, <1>3, <1>6, <2>1 DEF WallInv, InOrder, Calm, Polling, Visible
<1> QED BY <1>8, <1>9, <1>10, <1>11, <1>12, <1>13, <1>14, <1>15 DEF WallInv

\* A request that was filled in, field by field.
LEMMA AnswerIs ==
    ASSUME NEW r \in Request, NEW rows, NEW newest,
           NEW s, s = [r EXCEPT !.pc = "answered", !.rows = rows, !.latest = newest]
    PROVE  s = [pc |-> "answered", cursor |-> r.cursor, rows |-> rows, next |-> r.next, latest |-> newest]
BY DEF Request

LEMMA ListPostsSinceKeeps ==
    ASSUME WallInv, NEW k \in Polls, ListPostsSince(k)
    PROVE  WallInv'
<1> DEFINE c == poll[k].cursor
           newer == NewerThan(Visible, c)
           delta == Oldest(newer, SinceLimit)
           rows == DeltaRows(Visible, c)
           next == DeltaEnd(Visible, c)
           answer == [pc |-> "answered", cursor |-> c, rows |-> rows, next |-> poll[k].next, latest |-> next]
<1>1. /\ poll[k].pc = "sent"
      /\ poll' = [poll EXCEPT ![k] = answer]
      /\ overlaps' = IF delta # newer THEN overlaps \cup {"cap"} ELSE overlaps
      /\ UNCHANGED <<begun, committed, removed, wall, oldest, latest, wallPage, writing, removing,
                     late, clean>>
  <2>1. poll[k] \in Request
    BY DEF WallInv, WallTypeOK
  <2> DEFINE filled == [poll[k] EXCEPT !.pc = "answered", !.rows = rows, !.latest = next]
  <2>2. /\ poll[k].pc = "sent"
        /\ poll' = [poll EXCEPT ![k] = filled]
        /\ overlaps' = IF delta # newer THEN overlaps \cup {"cap"} ELSE overlaps
        /\ UNCHANGED <<begun, committed, removed, wall, oldest, latest, wallPage, writing, removing,
                       late, clean>>
    BY Zenon DEF ListPostsSince, wallServer, wallShown, NewerThan, DeltaRows, DeltaEnd
  <2> HIDE DEF rows, next, newer, delta
  <2>3. PICK s : s = filled
    OBVIOUS
  <2>4. s = answer
    BY <2>1, <2>3, AnswerIs
  <2> QED BY <2>2, <2>3, <2>4
<1>2. Visible \in SUBSET Posts /\ Visible \subseteq committed /\ c \in Nat /\ poll[k] \in Requests
  BY Facts DEF Visible, Requests
<1>3. /\ rows \in Seq(Posts) /\ Ascending(rows) /\ IsInjective(rows)
      /\ ToSet(rows) = delta /\ delta \subseteq newer
      /\ next \in Visible \cup {c} /\ next \in Nat /\ c <= next
      /\ \A p \in newer : p <= next => p \in ToSet(rows)
  <2> HIDE DEF c
  <2> QED BY <1>2, DeltaIs
<1>4. /\ \A p \in newer : p \in Visible /\ p > c
      /\ \A p \in Visible : p > c => p \in newer
  BY DEF NewerThan
<1> HIDE DEF c, newer, delta, rows, next
<1>5. /\ poll'[k].pc = "answered" /\ poll'[k].cursor = c /\ poll'[k].rows = rows
      /\ poll'[k].next = poll[k].next /\ poll'[k].latest = next
      /\ \A l \in Polls : l # k => poll'[l] = poll[l]
      /\ poll[k].cursor = c
  BY <1>1 DEF WallInv, WallTypeOK, c
<1>6. \A r \in Requests' : r = poll'[k] \/ r \in Requests
  BY <1>1, <1>5 DEF Requests
<1>7. Polling' = Polling /\ k \in Polling
  BY <1>1, <1>5 DEF Polling
<1>8. WallTypeOK'
  <2>1. c \in 0 .. MaxPosts /\ poll[k].next \in 0 .. MaxPosts /\ next \in 0 .. MaxPosts
    BY <1>2, <1>3, TribeWallAssumption DEF WallInv, WallTypeOK, Request, Posts, c
  <2>2. answer \in Request
    BY <1>3, <2>1 DEF Request
  <2>3. overlaps' \subseteq {"create", "polls", "cap"}
    BY <1>1 DEF WallInv, WallTypeOK
  <2> HIDE DEF answer
  <2> QED BY <1>1, <2>2, <2>3 DEF WallInv, WallTypeOK
<1>9. HoldsCommitted'
  <2>1. ToSet(rows) \subseteq committed /\ {c, poll[k].next, next} \subseteq committed \cup {0}
    <3>1. c \in committed \cup {0} /\ poll[k].next \in committed \cup {0}
      BY <1>2 DEF WallInv, HoldsCommitted, c
    <3>2. ToSet(rows) \subseteq committed
      BY <1>2, <1>3, <1>4
    <3> QED BY <1>2, <1>3, <3>1, <3>2
  <2> QED BY <1>1, <1>5, <1>6, <2>1 DEF WallInv, HoldsCommitted
<1>10. CursorsAgree'
  BY <1>1, <1>3, <1>5, <1>7 DEF WallInv, CursorsAgree, Polling
<1>11. RowsOnce' /\ TwiceAtMost'
  BY <1>1, <1>3, <1>5, <1>6 DEF WallInv, RowsOnce, TwiceAtMost
<1>12. NoHole'
  <2>1. ASSUME NEW p \in Visible \ late, c < p, p <= next PROVE p \in ToSet(rows)
    BY <1>2, <1>3, <1>4, <2>1, Facts
  <2>2. Visible' = Visible /\ UNCHANGED <<wall, oldest, latest, late, wallPage>>
    BY <1>1 DEF Visible
  <2>3. latest # 0 => Covered(latest)'
    BY <2>2 DEF WallInv, NoHole, Covered
  <2>4. ASSUME NEW l \in Polling PROVE Covered(poll[l].cursor)'
    <3>1. poll'[l].cursor = poll[l].cursor
      BY <1>5 DEF Polling
    <3> QED BY <2>2, <3>1 DEF WallInv, NoHole, Covered
  <2>5. ASSUME NEW l \in Polling, poll'[l].pc = "answered", NEW p \in Visible \ late,
               poll'[l].cursor < p, p <= poll'[l].latest
        PROVE  p \in ToSet(poll'[l].rows)
    <3>1. CASE l = k BY <1>5, <2>1, <2>5, <3>1
    <3>2. CASE l # k BY <1>5, <2>5, <3>2 DEF WallInv, NoHole, Polling
    <3> QED BY <3>1, <3>2
  <2> QED BY <1>7, <2>2, <2>3, <2>4, <2>5 DEF WallInv, NoHole
<1>13. WrittenApart'
  BY <1>1, <1>7 DEF WallInv, WrittenApart, Reading
<1>14. RemovedStaysOut'
  <2>1. clean \cap ToSet(rows) = {}
    BY <1>3, <1>4 DEF WallInv, WallTypeOK, Visible
  <2> QED BY <1>1, <1>5, <1>6, <2>1 DEF WallInv, RemovedStaysOut
<1>15. ASSUME Calm' PROVE InOrder'
  <2>1. Calm /\ delta = newer
    BY <1>1, <1>15 DEF Calm
  <2>2. Visible' = Visible
    BY <1>1 DEF Visible
  <2>3. \A p \in ToSet(rows) : p > c
    BY <1>3, <1>4
  <2>4. ASSUME NEW p \in ToSet(wall) \cap Visible PROVE p \in ToSet(rows) \/ p <= c
    <3>1. p \in Nat /\ p \in Visible
      BY <1>2, Facts
    <3>2. CASE p > c BY <1>3, <1>4, <2>1, <3>1, <3>2
    <3>3. CASE ~ (p > c) BY <1>2, <3>1, <3>3
    <3> QED BY <3>2, <3>3
  <2>5. \A l \in Polling : l = k
    BY <1>7, <2>1 DEF WallInv, InOrder
  <2> QED BY <1>1, <1>3, <1>5, <1>7, <2>1, <2>2, <2>3, <2>4, <2>5 DEF WallInv, InOrder
<1>16. InOrder'
  BY <1>15 DEF InOrder
<1> QED BY <1>8, <1>9, <1>10, <1>11, <1>12, <1>13, <1>14, <1>16 DEF WallInv


\* A request without an answer holds nothing.
LEMMA EmptyRequest ==
    ASSUME NEW c \in 0 .. MaxPosts
    PROVE  /\ Asking(c) \in Request /\ NoRequest \in Request
           /\ Asking(c).pc = "sent" /\ Asking(c).cursor = c
           /\ Asking(c).rows = <<>> /\ Asking(c).next = 0 /\ Asking(c).latest = 0
           /\ NoRequest.pc = "none" /\ NoRequest.cursor = 0
           /\ NoRequest.rows = <<>> /\ NoRequest.next = 0 /\ NoRequest.latest = 0
           /\ ToSet(<<>>) = {} /\ IsInjective(<<>>) /\ Descending(<<>>) /\ Ascending(<<>>)
<1>2. NoRequest = [pc |-> "none", cursor |-> 0, rows |-> <<>>, next |-> 0, latest |-> 0]
  BY DEF NoRequest
<1>1. Asking(c) = [pc |-> "sent", cursor |-> c, rows |-> <<>>, next |-> 0, latest |-> 0]
  <2>1. PICK s : s = Asking(c)
    OBVIOUS
  <2>2. s = [pc |-> "sent", cursor |-> c, rows |-> <<>>, next |-> 0, latest |-> 0]
    BY <1>2, <2>1 DEF Asking
  <2> QED BY <2>1, <2>2
<1>3. <<>> \in Seq(Posts) /\ 0 \in 0 .. MaxPosts
  BY TribeWallAssumption
<1>4. Asking(c) \in Request /\ NoRequest \in Request
  BY <1>1, <1>2, <1>3 DEF Request
<1>5. ToSet(<<>>) = {} /\ IsInjective(<<>>) /\ Descending(<<>>) /\ Ascending(<<>>)
  BY DEF ToSet, IsInjective, Descending, Ascending
<1> QED BY <1>1, <1>2, <1>4, <1>5

\* The page is asked for, or given up: what it held is gone.
LEMMA PageRequestKeeps ==
    ASSUME WallInv, NEW c \in 0 .. MaxPosts,
           wallPage' = Asking(c) \/ wallPage' = NoRequest,
           wallPage' = Asking(c) =>
                /\ c = 0 => wallPage.pc = "new"
                /\ c # 0 => c = oldest
                /\ writing # 0 => "create" \in overlaps',
           overlaps \subseteq overlaps', overlaps' \subseteq {"create", "polls", "cap"},
           UNCHANGED <<wallServer, wallShown, poll, writing, removing, late, clean>>
    PROVE  WallInv'
<1>1. /\ wallPage'.pc \in {"sent", "none"} /\ wallPage'.cursor \in {0, c}
      /\ wallPage'.rows = <<>> /\ wallPage'.next = 0 /\ wallPage'.latest = 0
      /\ wallPage'.pc = "sent" => wallPage' = Asking(c) /\ wallPage'.cursor = c
      /\ wallPage'.pc = "none" => wallPage'.cursor = 0
      /\ wallPage' \in Request
      /\ ToSet(<<>>) = {} /\ IsInjective(<<>>) /\ Descending(<<>>)
  BY EmptyRequest
<1>2. UNCHANGED <<begun, committed, removed, wall, oldest, latest, poll, writing, removing, late, clean>>
  BY DEF wallServer, wallShown
<1>3. \A r \in Requests' : r = wallPage' \/ r \in Requests
  BY <1>2 DEF Requests
<1>4. Polling' = Polling /\ Visible' = Visible
  BY <1>2 DEF Polling, Visible
<1>5. WallTypeOK'
  BY <1>1, <1>2 DEF WallInv, WallTypeOK
<1>6. wallPage'.cursor \in committed \cup {0}
  BY <1>1 DEF WallInv, HoldsCommitted
<1>7. HoldsCommitted'
  BY <1>1, <1>2, <1>3, <1>6 DEF WallInv, HoldsCommitted
<1>8. CursorsAgree'
  BY <1>1, <1>2, <1>4 DEF WallInv, CursorsAgree
<1>9. RowsOnce' /\ TwiceAtMost'
  BY <1>1, <1>2, <1>3 DEF WallInv, RowsOnce, TwiceAtMost
<1>10. NoHole'
  BY <1>1, <1>2, <1>4 DEF WallInv, NoHole, Covered
<1>11. WrittenApart'
  BY <1>1, <1>2, <1>4 DEF WallInv, WrittenApart, Reading
<1>12. RemovedStaysOut'
  BY <1>1, <1>2, <1>3 DEF WallInv, RemovedStaysOut
<1>13. InOrder'
  BY <1>1, <1>2, <1>4 DEF WallInv, InOrder, Calm
<1> QED BY <1>5, <1>7, <1>8, <1>9, <1>10, <1>11, <1>12, <1>13 DEF WallInv

LEMMA LoadWallKeeps ==
    ASSUME WallInv, LoadWall
    PROVE  WallInv'
<1>1. 0 \in 0 .. MaxPosts
  BY TribeWallAssumption
<1>2. /\ wallPage' = Asking(0) /\ wallPage.pc = "new"
      /\ UNCHANGED <<wallServer, wallShown, poll, writing, removing, late, clean>>
  BY DEF LoadWall
<1>3. overlaps' \subseteq {"create", "polls", "cap"} /\ overlaps \subseteq overlaps'
  BY DEF LoadWall, WallInv, WallTypeOK
<1>4. writing # 0 => "create" \in overlaps'
  BY DEF LoadWall
<1> QED BY <1>1, <1>2, <1>3, <1>4, PageRequestKeeps

LEMMA LoadOlderKeeps ==
    ASSUME WallInv, LoadOlder
    PROVE  WallInv'
<1>1. oldest \in 0 .. MaxPosts /\ oldest # 0
  BY DEF LoadOlder, WallInv, WallTypeOK
<1>2. /\ wallPage' = Asking(oldest)
      /\ UNCHANGED <<wallServer, wallShown, poll, writing, removing, late, clean>>
  BY DEF LoadOlder
<1>3. overlaps' \subseteq {"create", "polls", "cap"} /\ overlaps \subseteq overlaps'
  BY DEF LoadOlder, WallInv, WallTypeOK
<1>4. writing # 0 => "create" \in overlaps'
  BY DEF LoadOlder
<1> QED BY <1>1, <1>2, <1>3, <1>4, PageRequestKeeps

LEMMA PageFailsKeeps ==
    ASSUME WallInv, PageFails
    PROVE  WallInv'
<1>1. 0 \in 0 .. MaxPosts
  BY TribeWallAssumption
<1>2. wallPage' = NoRequest /\ NoRequest # Asking(0)
  BY <1>1, EmptyRequest DEF PageFails
<1>3. overlaps' \subseteq {"create", "polls", "cap"} /\ overlaps \subseteq overlaps'
  BY DEF PageFails, WallInv, WallTypeOK
<1>4. UNCHANGED <<wallServer, wallShown, poll, writing, removing, late, clean>>
  BY DEF PageFails
<1> QED BY <1>1, <1>2, <1>3, <1>4, PageRequestKeeps


\* A poll is asked for from the cursor of the wall.
LEMMA PollWallKeeps ==
    ASSUME WallInv, NEW k \in Polls, PollWall(k)
    PROVE  WallInv'
<1>1. /\ latest \in 0 .. MaxPosts /\ latest # 0 /\ latest \in committed \cup {0} /\ oldest <= latest
      /\ k \notin Polling
      /\ poll' = [poll EXCEPT ![k] = Asking(latest)]
      /\ UNCHANGED <<begun, committed, removed, wall, oldest, latest, wallPage, writing, removing, late, clean>>
  BY DEF PollWall, WallInv, WallTypeOK, HoldsCommitted, CursorsAgree, wallServer, wallShown, Polling
<1>2. /\ overlaps \subseteq overlaps' /\ overlaps' \subseteq {"create", "polls", "cap"}
      /\ writing # 0 => "create" \in overlaps'
      /\ Polling # {} => "polls" \in overlaps'
  BY DEF PollWall, WallInv, WallTypeOK
<1>3. /\ Asking(latest) \in Request
      /\ Asking(latest).pc = "sent" /\ Asking(latest).cursor = latest
      /\ Asking(latest).rows = <<>> /\ Asking(latest).next = 0 /\ Asking(latest).latest = 0
      /\ ToSet(<<>>) = {} /\ IsInjective(<<>>)
  BY <1>1, EmptyRequest
<1>4. poll'[k] = Asking(latest) /\ \A l \in Polls : l # k => poll'[l] = poll[l]
  BY <1>1 DEF WallInv, WallTypeOK
<1>5. Polling' = Polling \cup {k} /\ Visible' = Visible
  BY <1>1, <1>3, <1>4 DEF Polling, Visible
<1>6. \A r \in Requests' : r = Asking(latest) \/ r \in Requests
  BY <1>1, <1>4 DEF Requests
<1>7. \A l \in Polling : l \in Polls /\ poll'[l] = poll[l]
  BY <1>1, <1>4 DEF Polling
<1>8. WallTypeOK'
  BY <1>1, <1>2, <1>3 DEF WallInv, WallTypeOK
<1>9. HoldsCommitted'
  BY <1>1, <1>3, <1>6 DEF WallInv, HoldsCommitted
<1>10. CursorsAgree'
  BY <1>1, <1>3, <1>4, <1>5, <1>7 DEF WallInv, CursorsAgree
<1>11. RowsOnce' /\ TwiceAtMost'
  BY <1>1, <1>3, <1>6 DEF WallInv, RowsOnce, TwiceAtMost
<1>12. NoHole'
  <2>1. latest # 0 /\ Covered(latest) /\ UNCHANGED <<latest, late, wallPage>>
    BY <1>1 DEF WallInv, NoHole
  <2>2. \A c : Covered(c)' <=> Covered(c)
    BY <1>1, <1>5 DEF Covered
  <2>3. ASSUME NEW l \in Polling'
        PROVE  /\ Covered(poll[l].cursor)'
               /\ poll'[l].pc = "answered" =>
                    \A p \in Visible \ late :
                        poll'[l].cursor < p /\ p <= poll'[l].latest => p \in ToSet(poll'[l].rows)
    <3>1. CASE l = k BY <1>1, <1>3, <1>4, <1>5, <2>1, <3>1 DEF Covered
    <3>2. CASE l # k
      <4>1. l \in Polling /\ poll'[l] = poll[l]
        BY <1>5, <1>7, <3>2
      <4>2. Covered(poll[l].cursor)'
        BY <1>1, <1>5, <4>1 DEF WallInv, NoHole, Covered
      <4> QED BY <4>1, <4>2 DEF WallInv, NoHole
    <3> QED BY <3>1, <3>2
  <2>4. Covered(latest)'
    BY <1>1, <1>5, <2>1 DEF Covered
  <2> QED BY <1>5, <2>1, <2>3, <2>4 DEF WallInv, NoHole
<1>13. WrittenApart'
  BY <1>1, <1>2 DEF WallInv, WrittenApart
<1>14. RemovedStaysOut'
  BY <1>1, <1>3, <1>6 DEF WallInv, RemovedStaysOut
<1>15. ASSUME Calm' PROVE InOrder'
  <2>1. Calm /\ Polling = {} /\ Polling' = {k}
    BY <1>1, <1>2, <1>5, <1>15 DEF Calm
  <2> QED BY <1>1, <1>3, <1>4, <1>5, <2>1 DEF WallInv, InOrder
<1>16. InOrder'
  BY <1>15 DEF InOrder
<1> QED BY <1>8, <1>9, <1>10, <1>11, <1>12, <1>13, <1>14, <1>16 DEF WallInv

LEMMA PollFailsKeeps ==
    ASSUME WallInv, NEW k \in Polls, PollFails(k)
    PROVE  WallInv'
<1>1. /\ poll' = [poll EXCEPT ![k] = NoRequest]
      /\ UNCHANGED <<begun, committed, removed, wall, oldest, latest, wallPage, writing, removing, late, clean, overlaps>>
  BY DEF PollFails, wallServer, wallShown
<1>2. 0 \in 0 .. MaxPosts
  BY TribeWallAssumption
<1>3. /\ NoRequest \in Request
      /\ NoRequest.pc = "none" /\ NoRequest.cursor = 0
      /\ NoRequest.rows = <<>> /\ NoRequest.next = 0 /\ NoRequest.latest = 0
      /\ ToSet(<<>>) = {} /\ IsInjective(<<>>)
  BY <1>2, EmptyRequest
<1>4. poll'[k] = NoRequest /\ \A l \in Polls : l # k => poll'[l] = poll[l]
  BY <1>1 DEF WallInv, WallTypeOK
<1>5. Polling' = Polling \ {k} /\ Visible' = Visible
  BY <1>1, <1>3, <1>4 DEF Polling, Visible
<1>6. \A r \in Requests' : r = NoRequest \/ r \in Requests
  BY <1>1, <1>4 DEF Requests
<1>7. \A l \in Polling' : l \in Polling /\ poll'[l] = poll[l]
  BY <1>4, <1>5 DEF Polling
<1>8. WallTypeOK'
  BY <1>1, <1>3 DEF WallInv, WallTypeOK
<1>9. HoldsCommitted'
  BY <1>1, <1>3, <1>6 DEF WallInv, HoldsCommitted
<1>10. CursorsAgree'
  BY <1>1, <1>5, <1>7 DEF WallInv, CursorsAgree
<1>11. RowsOnce' /\ TwiceAtMost'
  BY <1>1, <1>3, <1>6 DEF WallInv, RowsOnce, TwiceAtMost
<1>12. NoHole'
  BY <1>1, <1>5, <1>7 DEF WallInv, NoHole, Covered
<1>13. WrittenApart'
  BY <1>1, <1>5 DEF WallInv, WrittenApart, Reading
<1>14. RemovedStaysOut'
  BY <1>1, <1>3, <1>6 DEF WallInv, RemovedStaysOut
<1>15. InOrder'
  BY <1>1, <1>5, <1>7 DEF WallInv, InOrder, Calm
<1> QED BY <1>8, <1>9, <1>10, <1>11, <1>12, <1>13, <1>14, <1>15 DEF WallInv

LEMMA WritePostKeeps ==
    ASSUME WallInv, WritePost
    PROVE  WallInv'
<1>1. /\ writing = 0 /\ begun < MaxPosts /\ begun' = begun + 1 /\ writing' = begun + 1
      /\ overlaps' = IF Reading THEN overlaps \cup {"create"} ELSE overlaps
      /\ UNCHANGED <<committed, removed, wall, oldest, latest, wallPage, poll, removing, late, clean>>
  BY DEF WritePost, wallShown
<1>2. \A p \in committed \cup {0} : p \in Nat /\ p < writing'
  BY <1>1, Facts
<1>3. /\ ToSet(wall) \subseteq committed /\ oldest \in committed \cup {0} /\ clean \subseteq committed
      /\ \A i \in DOMAIN wall : wall[i] \in ToSet(wall)
  BY Facts DEF WallInv, HoldsCommitted, WallTypeOK
<1>4. WallTypeOK'
  BY <1>1, TribeWallAssumption DEF WallInv, WallTypeOK, Request, Posts
<1>5. HoldsCommitted' /\ CursorsAgree' /\ RowsOnce'
  BY <1>1 DEF WallInv, HoldsCommitted, CursorsAgree, RowsOnce, Requests, Polling
<1>6. TwiceAtMost'
  BY <1>1, <1>2, <1>3 DEF WallInv, TwiceAtMost
<1>7. NoHole'
  BY <1>1 DEF WallInv, NoHole, Covered, Visible, Polling
<1>8. WrittenApart'
  BY <1>1, <1>2, <1>3 DEF WallInv, WrittenApart, Reading, Polling
<1>9. RemovedStaysOut'
  BY <1>1, <1>2, <1>3 DEF WallInv, RemovedStaysOut, Requests
<1>10. InOrder'
  BY <1>1, <1>2, <1>3 DEF WallInv, InOrder, Calm, Visible, Polling
<1> QED BY <1>4, <1>5, <1>6, <1>7, <1>8, <1>9, <1>10 DEF WallInv

LEMMA PostFailsKeeps ==
    ASSUME WallInv, PostFails
    PROVE  WallInv'
<1>1. /\ writing' = 0
      /\ UNCHANGED <<begun, committed, removed, wall, oldest, latest, wallPage, poll, removing, late, clean, overlaps>>
  BY DEF PostFails, wallServer, wallShown
<1>2. \A i \in DOMAIN wall : wall[i] # 0
  BY Facts
<1>3. 0 \notin clean
  BY Facts DEF WallInv, WallTypeOK
<1>4. WallTypeOK'
  BY <1>1, Facts DEF WallInv, WallTypeOK
<1>5. HoldsCommitted' /\ CursorsAgree' /\ RowsOnce'
  BY <1>1 DEF WallInv, HoldsCommitted, CursorsAgree, RowsOnce, Requests, Polling
<1>6. TwiceAtMost'
  BY <1>1, <1>2 DEF WallInv, TwiceAtMost
<1>7. NoHole'
  BY <1>1 DEF WallInv, NoHole, Covered, Visible, Polling
<1>8. WrittenApart' /\ RemovedStaysOut'
  BY <1>1, <1>3 DEF WallInv, WrittenApart, RemovedStaysOut, Requests
<1>9. InOrder'
  BY <1>1 DEF WallInv, InOrder, Calm, Visible, Polling
<1> QED BY <1>4, <1>5, <1>6, <1>7, <1>8, <1>9 DEF WallInv

\* A removal is asked for, or given up: what is shown does not change.
LEMMA RemovalAskedKeeps ==
    ASSUME WallInv, (\E p \in Posts : RemovePost(p)) \/ RemovalFails
    PROVE  WallInv'
<1>1. UNCHANGED <<begun, committed, removed, wall, oldest, latest, wallPage, poll, writing, late, clean, overlaps>>
  BY DEF RemovePost, RemovalFails, wallServer, wallShown
<1>2. \/ removing'.pc = "none" /\ removing' = [pc |-> "none", post |-> 0]
      \/ \E p \in Posts : p \in ToSet(wall) /\ removing' = [pc |-> "sent", post |-> p]
  BY DEF RemovePost, RemovalFails, NoRemoval
<1>3. WallTypeOK'
  <2>1. removing' \in [pc : {"none", "sent", "answered"}, post : 0 .. MaxPosts]
    BY <1>2, TribeWallAssumption DEF Posts
  <2> QED BY <1>1, <2>1 DEF WallInv, WallTypeOK
<1>4. HoldsCommitted'
  BY <1>1, <1>2 DEF WallInv, HoldsCommitted, Requests
<1>5. CursorsAgree' /\ RowsOnce' /\ TwiceAtMost'
  BY <1>1 DEF WallInv, CursorsAgree, RowsOnce, TwiceAtMost, Requests, Polling
<1>6. NoHole' /\ InOrder'
  BY <1>1 DEF WallInv, NoHole, Covered, InOrder, Calm, Visible, Polling
<1>7. WrittenApart' /\ RemovedStaysOut'
  BY <1>1 DEF WallInv, WrittenApart, RemovedStaysOut, Requests, Reading, Polling
<1> QED BY <1>3, <1>4, <1>5, <1>6, <1>7 DEF WallInv

LEMMA SoftDeletePostKeeps ==
    ASSUME WallInv, SoftDeletePost
    PROVE  WallInv'
<1>1. /\ removed' = removed \cup {removing.post} /\ removing.post \in committed
      /\ removing'.pc = "answered" /\ removing'.post = removing.post
      /\ removing' \in [pc : {"none", "sent", "answered"}, post : 0 .. MaxPosts]
      /\ UNCHANGED <<begun, committed, wall, oldest, latest, wallPage, poll, writing, late, clean, overlaps>>
  BY DEF SoftDeletePost, WallInv, WallTypeOK, HoldsCommitted, wallShown
<1>2. Visible' \subseteq Visible
  BY <1>1 DEF Visible
<1>3. WallTypeOK'
  BY <1>1 DEF WallInv, WallTypeOK
<1>4. HoldsCommitted' /\ CursorsAgree' /\ RowsOnce' /\ TwiceAtMost'
  BY <1>1 DEF WallInv, HoldsCommitted, CursorsAgree, RowsOnce, TwiceAtMost, Requests, Polling
<1>5. NoHole'
  BY <1>1, <1>2 DEF WallInv, NoHole, Covered, Polling
<1>6. WrittenApart' /\ RemovedStaysOut'
  BY <1>1 DEF WallInv, WrittenApart, RemovedStaysOut, Requests, Reading, Polling
<1>7. InOrder'
  BY <1>1, <1>2 DEF WallInv, InOrder, Calm, Polling
<1> QED BY <1>3, <1>4, <1>5, <1>6, <1>7 DEF WallInv


-----------------------------------------------------------------------------
(* The wall changes                                                        *)

\* A sequence of posts without a third copy has two of each at most.
LEMMA TwiceBound ==
    ASSUME NEW s \in Seq(Posts),
           \A i, j, k \in DOMAIN s : i < j /\ j < k => ~ (s[i] = s[j] /\ s[j] = s[k])
    PROVE  Len(s) <= 2 * MaxPosts
<1> DEFINE again == {j \in DOMAIN s : \E i \in DOMAIN s : i < j /\ s[i] = s[j]}
           first == DOMAIN s \ again
<1>1. Len(s) \in Nat /\ DOMAIN s = 1 .. Len(s) /\ (\A i \in DOMAIN s : s[i] \in Posts) /\ MaxPosts \in Nat
  BY SetOfSeq, TribeWallAssumption
<1>2. IsFiniteSet(Posts) /\ Cardinality(Posts) = MaxPosts
  BY <1>1, FS_Interval DEF Posts
<1>3. ASSUME NEW K \in SUBSET DOMAIN s, \A i, j \in K : i < j => s[i] # s[j]
      PROVE  IsFiniteSet(K) /\ Cardinality(K) \in Nat /\ Cardinality(K) <= MaxPosts
  <2> DEFINE f == [i \in K |-> s[i]]
  <2>1. f \in [K -> Posts]
    BY <1>1
  <2>2. \A i, j \in K : f[i] = f[j] => i = j
    <3> TAKE i \in K, j \in K
    <3>1. i \in Int /\ j \in Int /\ (i < j \/ j < i \/ i = j)
      BY <1>1
    <3> QED BY <1>3, <3>1
  <2>3. f \in Injection(K, Posts)
    BY <2>1, <2>2, Fun_IsInj
  <2> HIDE DEF f
  <2> QED BY <1>2, <2>3, FS_Injection, FS_CardinalityType
<1>4. \A i, j \in first : i < j => s[i] # s[j]
  OBVIOUS
<1>5. \A i, j \in again : i < j => s[i] # s[j]
  <2> SUFFICES ASSUME NEW j \in again, NEW k \in again, j < k, s[j] = s[k] PROVE FALSE
    OBVIOUS
  <2>1. PICK i \in DOMAIN s : i < j /\ s[i] = s[j]
    OBVIOUS
  <2> QED BY <2>1
<1>6. DOMAIN s = first \cup again /\ first \cap again = {} /\ first \in SUBSET DOMAIN s /\ again \in SUBSET DOMAIN s
  OBVIOUS
<1> HIDE DEF first, again
<1>7. /\ IsFiniteSet(first) /\ Cardinality(first) \in Nat /\ Cardinality(first) <= MaxPosts
      /\ IsFiniteSet(again) /\ Cardinality(again) \in Nat /\ Cardinality(again) <= MaxPosts
  BY <1>3, <1>4, <1>5, <1>6
<1>8. Cardinality(first \cup again) = Cardinality(first) + Cardinality(again)
  <2>1. Cardinality(first \cap again) = 0
    BY <1>6, FS_EmptySet
  <2>2. Cardinality(first \cup again) =
            Cardinality(first) + Cardinality(again) - Cardinality(first \cap again)
    BY <1>7, FS_Union
  <2> QED BY <1>7, <2>1, <2>2
<1>9. Cardinality(1 .. Len(s)) = Len(s)
  <2>1. \A n \in Nat : Cardinality(1 .. n) = n
    BY FS_Interval
  <2> QED BY <1>1, <2>1
<1> QED BY <1>1, <1>6, <1>7, <1>8, <1>9

\* What the merge holds twice, it held twice before.
LEMMA MergeTwice ==
    ASSUME NEW P, NEW e \in Seq(P), NEW s \in Seq(P), NEW m, m = MergeFeedItems(e, s)
    PROVE  /\ \A i, j \in DOMAIN m : i < j /\ m[i] = m[j] =>
                i \in DOMAIN e /\ j \in DOMAIN e /\ m[i] = e[i] /\ m[j] = e[j]
           /\ IsInjective(e) => IsInjective(m)
<1>1. /\ m \in Seq(P)
      /\ \A i \in DOMAIN m : i <= Len(e) => i \in DOMAIN e /\ m[i] = e[i]
      /\ \A i \in DOMAIN m : i > Len(e) => m[i] \in ToSet(s) \ ToSet(e)
      /\ \A i, j \in DOMAIN m : Len(e) < i /\ i < j =>
            \E a, b \in DOMAIN s : a < b /\ s[a] # s[b] /\ m[i] = s[a] /\ m[j] = s[b]
  BY MergeIs
<1>2. /\ DOMAIN m = 1 .. Len(m) /\ Len(m) \in Nat
      /\ DOMAIN e = 1 .. Len(e) /\ Len(e) \in Nat /\ \A i \in 1 .. Len(e) : e[i] \in ToSet(e)
  BY <1>1, SetOfSeq
<1>3. ASSUME NEW i \in DOMAIN m, NEW j \in DOMAIN m, i < j, m[i] = m[j]
      PROVE  i \in DOMAIN e /\ j \in DOMAIN e /\ m[i] = e[i] /\ m[j] = e[j]
  <2>1. j <= Len(e)
    <3> SUFFICES ASSUME j > Len(e) PROVE FALSE
      BY <1>2
    <3>1. ~ (i > Len(e))
      BY <1>1, <1>3
    <3>2. m[i] \in ToSet(e)
      BY <1>1, <1>2, <3>1
    <3> QED BY <1>1, <1>3, <3>2
  <2>2. i <= Len(e)
    BY <1>2, <1>3, <2>1
  <2> QED BY <1>1, <2>1, <2>2
<1>4. ASSUME IsInjective(e) PROVE IsInjective(m)
  <2> SUFFICES ASSUME NEW i \in DOMAIN m, NEW j \in DOMAIN m, m[i] = m[j] PROVE i = j
    BY DEF IsInjective
  <2>1. i \in Int /\ j \in Int /\ (i = j \/ i < j \/ j < i)
    BY <1>2
  <2>2. ~ (i < j)
    BY <1>3, <1>4 DEF IsInjective
  <2>3. ~ (j < i)
    BY <1>3, <1>4 DEF IsInjective
  <2> QED BY <2>1, <2>2, <2>3
<1> QED BY <1>3, <1>4


LEMMA PostArrivesKeeps ==
    ASSUME WallInv, PostArrives
    PROVE  WallInv'
<1>1. /\ writing \in committed /\ writing # 0 /\ wall' = <<writing>> \o wall /\ writing' = 0
      /\ UNCHANGED <<begun, committed, removed, oldest, latest, wallPage, poll, removing, late, clean, overlaps>>
  BY Facts DEF PostArrives, wallServer
<1>2. /\ wall \in Seq(Posts) /\ writing \in Posts /\ <<writing>> \in Seq(Posts) /\ Len(<<writing>>) = 1
      /\ DOMAIN wall = 1 .. Len(wall) /\ Len(wall) \in Nat
      /\ (\A i \in 1 .. Len(wall) : wall[i] \in ToSet(wall))
      /\ (\A p \in ToSet(wall) : \E i \in 1 .. Len(wall) : wall[i] = p)
  BY <1>1, Facts, SetOfSeq
<1>3. /\ wall' \in Seq(Posts) /\ Len(wall') = 1 + Len(wall)
      /\ \A i \in 1 .. (1 + Len(wall)) : wall'[i] = IF i <= 1 THEN <<writing>>[i] ELSE wall[i - 1]
  BY <1>1, <1>2, ConcatProperties
<1>4. DOMAIN wall' = 1 .. (1 + Len(wall)) /\ ToSet(wall') = {wall'[i] : i \in 1 .. (1 + Len(wall))}
  BY <1>3, SetOfSeq DEF ToSet
<1>5. /\ wall'[1] = writing /\ 1 \in DOMAIN wall'
      /\ \A i \in DOMAIN wall' : i # 1 => i - 1 \in DOMAIN wall /\ wall'[i] = wall[i - 1]
      /\ \A i \in DOMAIN wall : i + 1 \in DOMAIN wall' /\ wall'[i + 1] = wall[i]
  BY <1>2, <1>3, <1>4
<1>6. ToSet(wall') = ToSet(wall) \cup {writing}
  <2>1. \A i \in DOMAIN wall' : wall'[i] \in ToSet(wall) \cup {writing}
    BY <1>2, <1>5
  <2>2. \A p \in ToSet(wall) \cup {writing} : \E i \in DOMAIN wall' : wall'[i] = p
    BY <1>2, <1>5
  <2> QED BY <1>4, <2>1, <2>2
<1>7. /\ \A i \in DOMAIN wall' : i \in Nat /\ i >= 1
      /\ \A i, j \in DOMAIN wall' : i < j /\ i # 1 => i - 1 < j - 1 /\ j # 1
  BY <1>2, <1>4
<1>8. TwiceAtMost'
  <2>1. ASSUME NEW i \in DOMAIN wall', NEW j \in DOMAIN wall', NEW k \in DOMAIN wall', i < j, j < k,
               wall'[i] = wall'[j], wall'[j] = wall'[k]
        PROVE  FALSE
    <3>1. j # 1 /\ k # 1 /\ j - 1 < k - 1
      BY <1>7, <2>1
    <3>2. /\ j - 1 \in DOMAIN wall /\ k - 1 \in DOMAIN wall /\ j - 1 # k - 1
          /\ wall[j - 1] = wall[k - 1] /\ wall'[j] = wall[j - 1]
      BY <1>5, <1>7, <2>1, <3>1
    <3>3. CASE i = 1
      <4>1. wall[j - 1] = writing
        BY <1>5, <2>1, <3>2, <3>3
      <4> QED BY <3>2, <4>1 DEF WallInv, TwiceAtMost
    <3>4. CASE i # 1
      <4>1. i - 1 \in DOMAIN wall /\ i - 1 < j - 1 /\ wall[i - 1] = wall[j - 1]
        BY <1>5, <1>7, <2>1, <3>2, <3>4
      <4> QED BY <3>1, <3>2, <4>1 DEF WallInv, TwiceAtMost
    <3> QED BY <3>3, <3>4
  <2>2. \A i \in DOMAIN wall' : wall'[i] # 0
    BY <1>3, <1>4, SetOfSeq, Facts
  <2> QED BY <1>1, <2>1, <2>2 DEF TwiceAtMost
<1>9. Len(wall') <= 2 * MaxPosts
  BY <1>3, <1>8, TwiceBound DEF TwiceAtMost
<1>10. WallTypeOK'
  BY <1>1, <1>3, <1>9, Facts DEF WallInv, WallTypeOK
<1>11. HoldsCommitted'
  BY <1>1, <1>6 DEF WallInv, HoldsCommitted, Requests
<1>12. CursorsAgree' /\ RowsOnce'
  BY <1>1 DEF WallInv, CursorsAgree, RowsOnce, Requests, Polling
<1>13. NoHole'
  BY <1>1, <1>6 DEF WallInv, NoHole, Covered, Visible, Polling
<1>14. WrittenApart'
  <2> SUFFICES ASSUME "create" \notin overlaps PROVE IsInjective(wall')
    BY <1>1 DEF WrittenApart
  <2>1. IsInjective(wall) /\ writing \notin ToSet(wall)
    BY <1>1 DEF WallInv, WrittenApart
  <2> SUFFICES ASSUME NEW i \in DOMAIN wall', NEW j \in DOMAIN wall', wall'[i] = wall'[j] PROVE i = j
    BY DEF IsInjective
  <2>2. CASE i = 1 BY <1>2, <1>5, <2>1, <2>2
  <2>3. CASE j = 1 BY <1>2, <1>5, <2>1, <2>3
  <2>4. CASE i # 1 /\ j # 1
    <3>1. i - 1 = j - 1
      BY <1>5, <2>1, <2>4 DEF IsInjective
    <3> QED BY <1>7, <3>1
  <2> QED BY <2>2, <2>3, <2>4
<1>15. RemovedStaysOut'
  <2>1. 0 \notin clean
    BY Facts DEF WallInv, WallTypeOK
  <2> QED BY <1>1, <1>6, <2>1 DEF WallInv, RemovedStaysOut, Requests
<1>16. ASSUME Calm' PROVE InOrder'
  <2>1. Calm /\ ~ Reading /\ Polling' = Polling /\ Visible' = Visible
    BY <1>1, <1>16 DEF WallInv, WrittenApart, Calm, Polling, Visible
  <2>2. writing > oldest /\ \A p \in ToSet(wall) : p < writing
    BY <1>1, <2>1 DEF WallInv, InOrder
  <2>3. ASSUME NEW i \in DOMAIN wall', NEW j \in DOMAIN wall', i < j, {wall'[i], wall'[j]} \subseteq Visible
        PROVE  wall'[i] > wall'[j]
    <3>1. CASE i = 1
      <4>1. j # 1
        BY <1>7, <2>3, <3>1
      <4>2. wall'[j] \in ToSet(wall) /\ wall'[i] = writing /\ wall'[j] \in Nat
        BY <1>2, <1>5, <3>1, <4>1, Facts
      <4> QED BY <2>2, <4>2, Facts
    <3>2. CASE i # 1
      <4>1. /\ i - 1 \in DOMAIN wall /\ j - 1 \in DOMAIN wall /\ i - 1 < j - 1
            /\ wall'[i] = wall[i - 1] /\ wall'[j] = wall[j - 1]
        BY <1>5, <1>7, <2>3, <3>2
      <4> QED BY <2>1, <2>3, <4>1 DEF WallInv, InOrder
    <3> QED BY <3>1, <3>2
  <2>4. \A p \in ToSet(wall') : p >= oldest
    BY <1>1, <1>6, <2>1, <2>2, Facts DEF WallInv, InOrder
  <2>5. Polling = {}
    BY <2>1 DEF Reading
  <2> QED BY <1>1, <2>1, <2>3, <2>4, <2>5 DEF WallInv, InOrder
<1>17. InOrder'
  BY <1>16 DEF InOrder
<1> QED BY <1>8, <1>10, <1>11, <1>12, <1>13, <1>14, <1>15, <1>17 DEF WallInv


LEMMA RemovalArrivesKeeps ==
    ASSUME WallInv, RemovalArrives
    PROVE  WallInv'
<1> DEFINE K == {i \in DOMAIN wall : wall[i] # removing.post}
<1>1. /\ wall' = Kept(wall, K) /\ removing.pc = "answered" /\ removing' = NoRemoval
      /\ clean' = IF Reading \/ writing # 0 THEN clean ELSE clean \cup {removing.post}
      /\ UNCHANGED <<begun, committed, removed, oldest, latest, wallPage, poll, writing, late, overlaps>>
  BY DEF RemovalArrives, wallServer
<1>2. wall \in Seq(Posts) /\ DOMAIN wall = 1 .. Len(wall) /\ \A i \in DOMAIN wall : wall[i] \in ToSet(wall)
  BY Facts
<1>3. /\ wall' \in Seq(Posts) /\ ToSet(wall') = {wall[i] : i \in K}
      /\ \A k, l \in DOMAIN wall' : k < l => \E i, j \in K : i < j /\ wall'[k] = wall[i] /\ wall'[l] = wall[j]
      /\ \A k, l, m \in DOMAIN wall' : k < l /\ l < m =>
            \E h, i, j \in K : /\ h < i /\ i < j
                               /\ wall'[k] = wall[h] /\ wall'[l] = wall[i] /\ wall'[m] = wall[j]
  <2>1. K \in SUBSET DOMAIN wall
    OBVIOUS
  <2> HIDE DEF K
  <2>2. wall' \in Seq(Posts) /\ ToSet(wall') = {wall[i] : i \in K}
    BY <1>1, <1>2, <2>1, KeptIs
  <2>3. \A k, l \in DOMAIN wall' : k < l =>
            \E i, j \in K : i < j /\ wall'[k] = wall[i] /\ wall'[l] = wall[j]
    BY <1>1, <1>2, <2>1, KeptIs
  <2>4. \A k, l, m \in DOMAIN wall' : k < l /\ l < m =>
            \E h, i, j \in K : /\ h < i /\ i < j
                               /\ wall'[k] = wall[h] /\ wall'[l] = wall[i] /\ wall'[m] = wall[j]
    <3> DEFINE w == Kept(wall, K)
    <3>1. \A k, l, m \in DOMAIN w : k < l /\ l < m =>
            \E h, i, j \in K : /\ h < i /\ i < j
                               /\ w[k] = wall[h] /\ w[l] = wall[i] /\ w[m] = wall[j]
      BY <1>2, <2>1, KeptIs
    <3>2. wall' = w
      BY <1>1
    <3> HIDE DEF w
    <3> QED BY <3>1, <3>2
  <2> QED BY <2>2, <2>3, <2>4
<1>4. ToSet(wall') = ToSet(wall) \ {removing.post}
  <2>1. ToSet(wall) = {wall[i] : i \in DOMAIN wall}
    BY DEF ToSet
  <2>2. \A p : p \in {wall[i] : i \in K} <=> p \in {wall[i] : i \in DOMAIN wall} \ {removing.post}
    OBVIOUS
  <2> HIDE DEF K
  <2> QED BY <1>3, <2>1, <2>2
<1>5. \A i \in K : i \in DOMAIN wall
  OBVIOUS
<1> HIDE DEF K
<1>6. TwiceAtMost'
  <2>1. ASSUME NEW k \in DOMAIN wall', NEW l \in DOMAIN wall', NEW m \in DOMAIN wall', k < l, l < m,
               wall'[k] = wall'[l], wall'[l] = wall'[m]
        PROVE  FALSE
    <3>1. PICK h \in K, i \in K, j \in K :
            h < i /\ i < j /\ wall'[k] = wall[h] /\ wall'[l] = wall[i] /\ wall'[m] = wall[j]
      BY <1>3, <2>1
    <3> QED BY <1>5, <2>1, <3>1 DEF WallInv, TwiceAtMost
  <2>2. \A k, l \in DOMAIN wall' : k < l /\ wall'[k] = wall'[l] => wall'[k] # writing
    <3> SUFFICES ASSUME NEW k \in DOMAIN wall', NEW l \in DOMAIN wall', k < l, wall'[k] = wall'[l]
                 PROVE  wall'[k] # writing
      OBVIOUS
    <3>1. PICK i \in K, j \in K : i < j /\ wall'[k] = wall[i] /\ wall'[l] = wall[j]
      BY <1>3
    <3>2. i \in DOMAIN wall /\ j \in DOMAIN wall /\ wall[i] = wall[j]
      BY <1>5, <3>1
    <3>3. i # j
      BY <1>2, <3>1, <3>2
    <3> QED BY <3>1, <3>2, <3>3 DEF WallInv, TwiceAtMost
  <2>3. \A k, l \in DOMAIN wall' : k < l \/ l < k \/ k = l
    BY <1>3, SetOfSeq
  <2> QED BY <1>1, <2>1, <2>2, <2>3 DEF TwiceAtMost
<1>7. Len(wall') <= 2 * MaxPosts
  BY <1>3, <1>6, TwiceBound DEF TwiceAtMost
<1>8. clean' \subseteq removed
  BY <1>1 DEF WallInv, WallTypeOK, HoldsCommitted
<1>9. WallTypeOK'
  BY <1>1, <1>3, <1>7, <1>8, TribeWallAssumption DEF WallInv, WallTypeOK, NoRemoval
<1>10. HoldsCommitted'
  BY <1>1, <1>4 DEF WallInv, HoldsCommitted, Requests, NoRemoval
<1>11. CursorsAgree' /\ RowsOnce'
  BY <1>1 DEF WallInv, CursorsAgree, RowsOnce, Requests, Polling
<1>12. NoHole'
  <2>1. removing.post \notin Visible
    BY <1>1 DEF WallInv, HoldsCommitted, Visible
  <2>2. \A p \in Visible : p \in ToSet(wall) => p \in ToSet(wall')
    BY <1>4, <2>1
  <2> QED BY <1>1, <2>2 DEF WallInv, NoHole, Covered, Visible, Polling
<1>13. WrittenApart'
  <2>1. ASSUME IsInjective(wall) PROVE IsInjective(wall')
    <3> SUFFICES ASSUME NEW k \in DOMAIN wall', NEW l \in DOMAIN wall', k < l PROVE wall'[k] # wall'[l]
      <4>1. \A k, l \in DOMAIN wall' : k < l \/ l < k \/ k = l
        BY <1>3, SetOfSeq
      <4> QED BY <4>1 DEF IsInjective
    <3>1. PICK i \in K, j \in K : i < j /\ wall'[k] = wall[i] /\ wall'[l] = wall[j]
      BY <1>3
    <3>2. i \in DOMAIN wall /\ j \in DOMAIN wall /\ i # j
      BY <1>2, <1>5, <3>1
    <3> QED BY <2>1, <3>1, <3>2 DEF IsInjective
  <2> QED BY <1>1, <1>4, <2>1 DEF WallInv, WrittenApart, Reading, Polling
<1>14. RemovedStaysOut'
  <2>1. ASSUME Reading \/ writing # 0 PROVE RemovedStaysOut'
    BY <1>1, <1>4, <2>1 DEF WallInv, RemovedStaysOut, Requests
  <2>2. ASSUME ~ Reading, writing = 0 PROVE RemovedStaysOut'
    <3>1. clean' = clean \cup {removing.post} /\ removing.post # 0
      BY <1>1, <2>2, Facts DEF WallInv, HoldsCommitted
    <3>2. \A r \in Requests : r.pc # "answered"
      BY <2>2 DEF Reading, Polling, Requests
    <3>3. \A r \in Requests : ToSet(r.rows) = {}
      <4>1. 0 \in 0 .. MaxPosts
        BY TribeWallAssumption
      <4>2. ToSet(<<>>) = {}
        BY <4>1, EmptyRequest
      <4> QED BY <3>2, <4>2 DEF WallInv, HoldsCommitted
    <3> QED BY <1>1, <1>4, <2>2, <3>1, <3>3 DEF WallInv, RemovedStaysOut, Requests
  <2> QED BY <2>1, <2>2
<1>15. InOrder'
  <2>1. UNCHANGED <<oldest, wallPage, poll, writing, late, overlaps, Visible>> /\ Polling' = Polling
    BY <1>1 DEF Visible, Polling
  <2>2. ASSUME Calm, NEW k \in DOMAIN wall', NEW l \in DOMAIN wall', k < l, {wall'[k], wall'[l]} \subseteq Visible
        PROVE  wall'[k] > wall'[l]
    <3>1. PICK i \in K, j \in K : i < j /\ wall'[k] = wall[i] /\ wall'[l] = wall[j]
      BY <1>3, <2>2
    <3> QED BY <1>5, <2>2, <3>1 DEF WallInv, InOrder
  <2>3. ToSet(wall') \subseteq ToSet(wall)
    BY <1>4
  <2> QED BY <2>1, <2>2, <2>3 DEF WallInv, InOrder, Calm
<1> QED BY <1>6, <1>9, <1>10, <1>11, <1>12, <1>13, <1>14, <1>15 DEF WallInv


LEMMA FirstPageArrivesKeeps ==
    ASSUME WallInv, PageArrives, wallPage.cursor = 0
    PROVE  WallInv'
<1>1. /\ wallPage.pc = "answered" /\ wallPage' = NoRequest
      /\ wall' = wallPage.rows /\ latest' = wallPage.latest /\ oldest' = wallPage.next
      /\ UNCHANGED <<begun, committed, removed, poll, writing, removing, late, clean, overlaps>>
  BY DEF PageArrives, wallServer
<1>2. 0 \in 0 .. MaxPosts
  BY TribeWallAssumption
<1>3. /\ NoRequest \in Request
      /\ NoRequest.pc = "none" /\ NoRequest.cursor = 0
      /\ NoRequest.rows = <<>> /\ NoRequest.next = 0 /\ NoRequest.latest = 0
      /\ ToSet(<<>>) = {} /\ IsInjective(<<>>) /\ Descending(<<>>)
  BY <1>2, EmptyRequest
<1>4. Polling = {} /\ Polling' = {} /\ Visible' = Visible
  BY <1>1 DEF WallInv, CursorsAgree, Polling, Visible
<1>5. /\ wallPage \in Requests /\ \A r \in Requests' : r = NoRequest \/ r \in Requests
      /\ ToSet(wallPage.rows) \subseteq committed
      /\ {wallPage.next, wallPage.latest} \subseteq committed \cup {0}
      /\ wallPage.next \in Nat /\ wallPage.latest \in Nat
      /\ wallPage.rows \in Seq(Posts) /\ IsInjective(wallPage.rows)
  BY <1>1, Facts DEF WallInv, HoldsCommitted, RowsOnce, Requests
<1>6. \A i, j \in DOMAIN wall' : i # j => wall'[i] # wall'[j]
  BY <1>1, <1>5 DEF IsInjective
<1>7. \A i \in DOMAIN wall' : i \in Nat
  BY <1>1, <1>5, SetOfSeq
<1>8. TwiceAtMost'
  BY <1>6, <1>7 DEF TwiceAtMost
<1>9. Len(wall') <= 2 * MaxPosts
  BY <1>1, <1>5, <1>8, TwiceBound DEF TwiceAtMost
<1>10. WallTypeOK'
  BY <1>1, <1>3, <1>5, <1>9 DEF WallInv, WallTypeOK, Request
<1>11. HoldsCommitted'
  BY <1>1, <1>3, <1>5 DEF WallInv, HoldsCommitted
<1>12. CursorsAgree'
  BY <1>1, <1>3, <1>4, <1>5 DEF WallInv, CursorsAgree
<1>13. RowsOnce'
  BY <1>3, <1>5 DEF WallInv, RowsOnce
<1>14. NoHole'
  <2>1. \A p \in Visible \ late : p \in Nat
    BY Facts DEF Visible
  <2>2. ASSUME NEW p \in Visible \ late, p <= wallPage.latest, wallPage.next # 0 => p >= wallPage.next
        PROVE  p \in ToSet(wallPage.rows)
    <3>1. p >= wallPage.next
      BY <1>5, <2>1, <2>2
    <3> QED BY <1>1, <2>2, <3>1 DEF WallInv, NoHole
  <2> QED BY <1>1, <1>3, <1>4, <2>2 DEF NoHole, Covered
<1>15. "create" \notin overlaps => writing = 0
  BY <1>1 DEF WallInv, WrittenApart, Reading
<1>16. WrittenApart'
  BY <1>1, <1>5, <1>15 DEF WrittenApart
<1>17. RemovedStaysOut'
  BY <1>1, <1>3, <1>5 DEF WallInv, RemovedStaysOut
<1>18. InOrder'
  <2>1. ASSUME Calm PROVE Descending(wall') /\ (\A p \in ToSet(wall') : p >= oldest') /\ writing' = 0
    BY <1>1, <1>15, <2>1 DEF WallInv, InOrder, Calm
  <2>2. Calm' = Calm
    BY <1>1 DEF Calm
  <2>3. ASSUME Calm PROVE \A i, j \in DOMAIN wall' : i < j => wall'[i] > wall'[j]
    BY <2>1, <2>3 DEF Descending
  <2>4. wallPage'.rows = <<>> /\ ToSet(wallPage'.rows) = {} /\ Descending(wallPage'.rows)
    BY <1>1, <1>3
  <2>5. ASSUME Calm' PROVE \A p \in ToSet(wall') : p >= oldest'
    BY <2>1, <2>2, <2>5
  <2> QED BY <1>4, <2>1, <2>2, <2>3, <2>4, <2>5 DEF InOrder
<1> QED BY <1>8, <1>10, <1>11, <1>12, <1>13, <1>14, <1>16, <1>17, <1>18 DEF WallInv

LEMMA OlderPageArrivesKeeps ==
    ASSUME WallInv, PageArrives, wallPage.cursor # 0
    PROVE  WallInv'
<1> DEFINE rows == wallPage.rows
           next == wallPage.next
<1>1. /\ wallPage.pc = "answered" /\ wallPage' = NoRequest /\ wallPage.cursor = oldest
      /\ wall' = MergeFeedItems(wall, rows) /\ oldest' = next
      /\ UNCHANGED <<begun, committed, removed, latest, poll, writing, removing, late, clean, overlaps>>
  BY DEF PageArrives, wallServer, WallInv, CursorsAgree
<1>2. 0 \in 0 .. MaxPosts
  BY TribeWallAssumption
<1>3. /\ NoRequest \in Request
      /\ NoRequest.pc = "none" /\ NoRequest.cursor = 0
      /\ NoRequest.rows = <<>> /\ NoRequest.next = 0 /\ NoRequest.latest = 0
      /\ ToSet(<<>>) = {} /\ IsInjective(<<>>) /\ Descending(<<>>)
  BY <1>2, EmptyRequest
<1>4. Polling' = Polling /\ Visible' = Visible
  BY <1>1 DEF Polling, Visible
<1>5. /\ wallPage \in Requests /\ \A r \in Requests' : r = NoRequest \/ r \in Requests
      /\ ToSet(rows) \subseteq committed /\ next \in committed \cup {0}
      /\ next \in Nat /\ rows \in Seq(Posts)
      /\ oldest \in Nat /\ latest \in Nat /\ \A k \in Polls : poll[k].cursor \in Nat
      /\ next \in 0 .. MaxPosts
  BY <1>1, Facts DEF WallInv, HoldsCommitted, Requests, WallTypeOK, Request
<1>6. oldest # 0 /\ (next = 0 \/ next < oldest)
  BY <1>1 DEF WallInv, CursorsAgree
<1>7. /\ wall \in Seq(Posts) /\ DOMAIN wall = 1 .. Len(wall) /\ Len(wall) \in Nat
      /\ \A i \in DOMAIN wall : wall[i] \in ToSet(wall)
  BY Facts
<1>8. /\ wall' \in Seq(Posts) /\ ToSet(wall') = ToSet(wall) \cup ToSet(rows)
      /\ \A i \in DOMAIN wall' : i <= Len(wall) => i \in DOMAIN wall /\ wall'[i] = wall[i]
      /\ \A i \in DOMAIN wall' : i > Len(wall) => wall'[i] \in ToSet(rows) \ ToSet(wall)
      /\ \A i, j \in DOMAIN wall' : Len(wall) < i /\ i < j =>
            \E a, b \in DOMAIN rows : a < b /\ rows[a] # rows[b] /\ wall'[i] = rows[a] /\ wall'[j] = rows[b]
  <2> DEFINE w == MergeFeedItems(wall, rows)
  <2>1. wall' = w
    BY <1>1
  <2>2. /\ w \in Seq(Posts) /\ ToSet(w) = ToSet(wall) \cup ToSet(rows)
        /\ \A i \in DOMAIN w : i <= Len(wall) => i \in DOMAIN wall /\ w[i] = wall[i]
        /\ \A i \in DOMAIN w : i > Len(wall) => w[i] \in ToSet(rows) \ ToSet(wall)
        /\ \A i, j \in DOMAIN w : Len(wall) < i /\ i < j =>
              \E a, b \in DOMAIN rows : a < b /\ rows[a] # rows[b] /\ w[i] = rows[a] /\ w[j] = rows[b]
    <3>1. wall \in Seq(Posts) /\ rows \in Seq(Posts)
      BY <1>5, <1>7
    <3> HIDE DEF rows
    <3> QED BY <3>1, MergeIs
  <2> HIDE DEF w
  <2> QED BY <2>1, <2>2
<1>9. /\ \A i, j \in DOMAIN wall' : i < j /\ wall'[i] = wall'[j] =>
            i \in DOMAIN wall /\ j \in DOMAIN wall /\ wall'[i] = wall[i] /\ wall'[j] = wall[j]
      /\ IsInjective(wall) => IsInjective(wall')
  BY <1>1, <1>5, <1>7, MergeTwice
<1>10. DOMAIN wall' = 1 .. Len(wall') /\ Len(wall') \in Nat
  BY <1>8, SetOfSeq
<1> HIDE DEF rows, next
<1>11. TwiceAtMost'
  <2>1. ASSUME NEW i \in DOMAIN wall', NEW j \in DOMAIN wall', NEW k \in DOMAIN wall', i < j, j < k,
               wall'[i] = wall'[j], wall'[j] = wall'[k]
        PROVE  FALSE
    <3>1. /\ i \in DOMAIN wall /\ j \in DOMAIN wall /\ k \in DOMAIN wall
          /\ wall'[i] = wall[i] /\ wall'[j] = wall[j] /\ wall'[k] = wall[k]
      BY <1>9, <2>1
    <3> QED BY <2>1, <3>1 DEF WallInv, TwiceAtMost
  <2>2. ASSUME NEW i \in DOMAIN wall', NEW j \in DOMAIN wall', i < j, wall'[i] = wall'[j]
        PROVE  wall'[i] # writing
    <3>1. i \in DOMAIN wall /\ j \in DOMAIN wall /\ wall'[i] = wall[i] /\ wall'[j] = wall[j]
      BY <1>9, <2>2
    <3>2. i # j
      BY <1>7, <2>2, <3>1
    <3> QED BY <2>2, <3>1, <3>2 DEF WallInv, TwiceAtMost
  <2>3. \A i, j \in DOMAIN wall' : i < j \/ j < i \/ i = j
    BY <1>10
  <2> QED BY <1>1, <2>1, <2>2, <2>3 DEF TwiceAtMost
<1>12. Len(wall') <= 2 * MaxPosts
  BY <1>8, <1>11, TwiceBound DEF TwiceAtMost
<1>13. WallTypeOK'
  BY <1>1, <1>3, <1>5, <1>8, <1>12 DEF WallInv, WallTypeOK
<1>14. HoldsCommitted'
  BY <1>1, <1>3, <1>5, <1>8 DEF WallInv, HoldsCommitted
<1>15. CursorsAgree'
  BY <1>1, <1>3, <1>4, <1>5, <1>6 DEF WallInv, CursorsAgree, Polling
<1>16. RowsOnce'
  BY <1>3, <1>5 DEF WallInv, RowsOnce
<1>17. NoHole'
  <2>1. \A p \in Visible \ late : p \in Nat
    BY Facts DEF Visible
  <2>2. \A p \in Visible \ late : p >= next /\ p < oldest => p \in ToSet(rows)
    BY <1>1, <1>6 DEF WallInv, NoHole, rows, next
  <2>3. ASSUME NEW c \in Nat, Covered(c), NEW p \in Visible \ late, p <= c, next # 0 => p >= next
        PROVE  p \in ToSet(wall')
    <3>1. CASE p >= oldest
      BY <1>8, <2>3, <3>1 DEF Covered
    <3>2. CASE p < oldest
      <4>1. p >= next
        BY <1>5, <2>1, <2>3
      <4> QED BY <1>8, <2>2, <3>2, <4>1
    <3> QED BY <1>5, <2>1, <3>1, <3>2
  <2>4. latest # 0 => Covered(latest)'
    <3>1. latest # 0 => Covered(latest)
      BY DEF WallInv, NoHole
    <3>2. latest # 0 => \A p \in Visible \ late : p <= latest /\ (next # 0 => p >= next) => p \in ToSet(wall')
      BY <1>5, <2>3, <3>1
    <3> QED BY <1>1, <1>4, <3>2 DEF Covered
  <2>5. \A k \in Polling : Covered(poll[k].cursor)'
    <3>1. \A k \in Polling : Covered(poll[k].cursor) /\ poll[k].cursor \in Nat
      BY <1>5 DEF WallInv, NoHole, Polling
    <3>2. \A k \in Polling : \A p \in Visible \ late :
            p <= poll[k].cursor /\ (next # 0 => p >= next) => p \in ToSet(wall')
      BY <2>3, <3>1
    <3> QED BY <1>1, <1>4, <3>2 DEF Covered
  <2> QED BY <1>1, <1>3, <1>4, <2>4, <2>5 DEF WallInv, NoHole, Covered
<1>18. "create" \notin overlaps => writing = 0
  BY <1>1 DEF WallInv, WrittenApart, Reading
<1>19. WrittenApart'
  BY <1>1, <1>9, <1>18 DEF WallInv, WrittenApart
<1>20. RemovedStaysOut'
  BY <1>1, <1>3, <1>5, <1>8 DEF WallInv, RemovedStaysOut, rows
<1>21. ASSUME Calm PROVE InOrder'
  <2>1. /\ Descending(rows) /\ \A p \in ToSet(rows) : p >= next /\ p < oldest
        /\ \A p \in ToSet(wall) : p >= oldest
        /\ writing = 0
    BY <1>1, <1>6, <1>18, <1>21 DEF WallInv, InOrder, Calm, rows, next
  <2>2. ASSUME NEW i \in DOMAIN wall', NEW j \in DOMAIN wall', i < j, {wall'[i], wall'[j]} \subseteq Visible
        PROVE  wall'[i] > wall'[j]
    <3>1. CASE j <= Len(wall)
      <4>1. i <= Len(wall)
        BY <1>7, <1>10, <2>2, <3>1
      <4>2. i \in DOMAIN wall /\ j \in DOMAIN wall /\ wall'[i] = wall[i] /\ wall'[j] = wall[j]
        BY <1>8, <3>1, <4>1
      <4> QED BY <1>21, <2>2, <4>2 DEF WallInv, InOrder
    <3>2. CASE i <= Len(wall) /\ j > Len(wall)
      <4>1. wall'[i] \in ToSet(wall) /\ wall'[j] \in ToSet(rows)
        BY <1>7, <1>8, <3>2
      <4>2. wall'[i] \in Nat /\ wall'[j] \in Nat
        BY <2>2, Facts DEF Visible
      <4> QED BY <1>5, <2>1, <4>1, <4>2
    <3>3. CASE i > Len(wall)
      <4>1. PICK a \in DOMAIN rows, b \in DOMAIN rows : a < b /\ wall'[i] = rows[a] /\ wall'[j] = rows[b]
        BY <1>8, <2>2, <3>3
      <4> QED BY <2>1, <4>1 DEF Descending
    <3> QED BY <1>7, <1>10, <3>1, <3>2, <3>3
  <2>3. \A p \in ToSet(wall') : p >= next
    <3>1. \A p \in ToSet(wall) : p \in Nat
      BY Facts DEF WallInv, HoldsCommitted
    <3> QED BY <1>5, <1>6, <1>8, <2>1, <3>1
  <2>4. \A k \in Polling : \A p \in ToSet(rows) : p <= poll[k].cursor
    <3>1. \A p \in ToSet(rows) : p \in Nat
      BY <1>5, Facts
    <3> QED BY <1>5, <2>1, <3>1 DEF WallInv, CursorsAgree, Polling
  <2>5. \A k \in Polling : poll[k].pc = "answered" =>
            \A p \in ToSet(wall') \cap Visible : p \in ToSet(poll[k].rows) \/ p <= poll[k].cursor
    BY <1>8, <1>21, <2>4 DEF WallInv, InOrder
  <2> QED BY <1>1, <1>3, <1>4, <1>21, <2>1, <2>2, <2>3, <2>5 DEF WallInv, InOrder
<1>22. InOrder'
  BY <1>1, <1>21 DEF InOrder, Calm
<1> QED BY <1>11, <1>13, <1>14, <1>15, <1>16, <1>17, <1>19, <1>20, <1>22 DEF WallInv

LEMMA PageArrivesKeeps ==
    ASSUME WallInv, PageArrives
    PROVE  WallInv'
BY FirstPageArrivesKeeps, OlderPageArrivesKeeps


LEMMA PollArrivesKeeps ==
    ASSUME WallInv, NEW k \in Polls, PollArrives(k)
    PROVE  WallInv'
<1> DEFINE rows == poll[k].rows
           back == Reverse(rows)
           cursor == poll[k].cursor
<1>1. /\ poll[k].pc = "answered" /\ poll' = [poll EXCEPT ![k] = NoRequest]
      /\ wall' = IF rows # <<>> THEN MergeFeedItems(back, wall) ELSE wall
      /\ latest' = poll[k].latest
      /\ UNCHANGED <<begun, committed, removed, oldest, wallPage, writing, removing, late, clean, overlaps>>
  <2>1. k \in Polling /\ poll[k] \in Requests
    BY DEF PollArrives, Polling, Requests
  <2>2. poll[k].cursor \in Nat /\ poll[k].latest \in Nat
    BY <2>1, Facts
  <2>3. poll[k].cursor # 0 /\ poll[k].cursor <= poll[k].latest
    BY <2>1 DEF PollArrives, WallInv, CursorsAgree
  <2>4. poll[k].latest # 0
    BY <2>2, <2>3
  <2> QED BY <2>4 DEF PollArrives, wallServer
<1>2. 0 \in 0 .. MaxPosts
  BY TribeWallAssumption
<1>3. /\ NoRequest \in Request
      /\ NoRequest.pc = "none" /\ NoRequest.cursor = 0
      /\ NoRequest.rows = <<>> /\ NoRequest.next = 0 /\ NoRequest.latest = 0
      /\ ToSet(<<>>) = {} /\ IsInjective(<<>>)
  BY <1>2, EmptyRequest
<1>4. poll'[k] = NoRequest /\ \A l \in Polls : l # k => poll'[l] = poll[l]
  BY <1>1 DEF WallInv, WallTypeOK
<1>5. k \in Polling /\ Polling' = Polling \ {k} /\ Visible' = Visible
  BY <1>1, <1>3, <1>4 DEF Polling, Visible
<1>6. /\ poll[k] \in Requests /\ \A r \in Requests' : r = NoRequest \/ r \in Requests
      /\ \A l \in Polling' : l \in Polling /\ poll'[l] = poll[l]
  BY <1>1, <1>4, <1>5 DEF Requests, Polling
<1>7. /\ ToSet(rows) \subseteq committed /\ latest' \in committed \cup {0}
      /\ rows \in Seq(Posts) /\ IsInjective(rows)
  BY <1>1, <1>6, Facts DEF WallInv, HoldsCommitted, RowsOnce
<1>8. /\ oldest \in Nat /\ cursor \in Nat /\ latest' \in Nat /\ oldest <= cursor /\ cursor <= latest'
      /\ cursor # 0 /\ latest' \in 0 .. MaxPosts
  BY <1>1, <1>5, <1>6, Facts DEF WallInv, CursorsAgree, WallTypeOK, Request
<1>9. /\ wall \in Seq(Posts) /\ DOMAIN wall = 1 .. Len(wall) /\ Len(wall) \in Nat
      /\ \A i \in DOMAIN wall : wall[i] \in ToSet(wall)
  BY Facts
<1>10. /\ back \in Seq(Posts) /\ ToSet(back) = ToSet(rows) /\ IsInjective(back)
       /\ Ascending(rows) => Descending(back)
  <2>1. Posts \in SUBSET Nat
    BY DEF Posts
  <2> QED BY <1>7, <2>1, ReverseIs
<1>11. /\ DOMAIN back = 1 .. Len(back) /\ Len(back) \in Nat /\ \A i \in DOMAIN back : back[i] \in ToSet(back)
  BY <1>10, SetOfSeq
<1> HIDE DEF rows, back, cursor
<1>12. ASSUME rows # <<>>
       PROVE  /\ wall' \in Seq(Posts) /\ ToSet(wall') = ToSet(back) \cup ToSet(wall)
              /\ \A i \in DOMAIN wall' : i <= Len(back) => i \in DOMAIN back /\ wall'[i] = back[i]
              /\ \A i \in DOMAIN wall' : i > Len(back) => wall'[i] \in ToSet(wall) \ ToSet(back)
              /\ \A i, j \in DOMAIN wall' : Len(back) < i /\ i < j =>
                    \E a, b \in DOMAIN wall : a < b /\ wall[a] # wall[b] /\ wall'[i] = wall[a] /\ wall'[j] = wall[b]
              /\ IsInjective(wall')
  <2> DEFINE w == MergeFeedItems(back, wall)
  <2>1. wall' = w
    BY <1>1, <1>12
  <2>2. wall \in Seq(Posts) /\ back \in Seq(Posts)
    BY <1>9, <1>10
  <2>3. /\ w \in Seq(Posts) /\ ToSet(w) = ToSet(back) \cup ToSet(wall)
        /\ \A i \in DOMAIN w : i <= Len(back) => i \in DOMAIN back /\ w[i] = back[i]
        /\ \A i \in DOMAIN w : i > Len(back) => w[i] \in ToSet(wall) \ ToSet(back)
        /\ \A i, j \in DOMAIN w : Len(back) < i /\ i < j =>
              \E a, b \in DOMAIN wall : a < b /\ wall[a] # wall[b] /\ w[i] = wall[a] /\ w[j] = wall[b]
    BY <2>2, MergeIs
  <2>4. IsInjective(w)
    BY <1>10, <2>2, MergeTwice
  <2> HIDE DEF w
  <2> QED BY <2>1, <2>3, <2>4
<1>13. rows = <<>> => wall' = wall /\ ToSet(rows) = {}
  BY <1>1, <1>3
<1>14. wall' \in Seq(Posts) /\ ToSet(wall') = ToSet(rows) \cup ToSet(wall)
  BY <1>9, <1>10, <1>12, <1>13
<1>15. IsInjective(wall) => IsInjective(wall')
  BY <1>12, <1>13
<1>16. TwiceAtMost'
  <2>1. CASE rows = <<>>
    BY <1>1, <1>13, <2>1 DEF WallInv, TwiceAtMost
  <2>2. CASE rows # <<>>
    <3>1. \A i, j \in DOMAIN wall' : i # j => wall'[i] # wall'[j]
      BY <1>12, <2>2 DEF IsInjective
    <3>2. \A i \in DOMAIN wall' : i \in Nat
      BY <1>14, SetOfSeq
    <3> QED BY <3>1, <3>2 DEF TwiceAtMost
  <2> QED BY <2>1, <2>2
<1>17. Len(wall') <= 2 * MaxPosts
  BY <1>14, <1>16, TwiceBound DEF TwiceAtMost
<1>18. WallTypeOK'
  BY <1>1, <1>3, <1>8, <1>14, <1>17 DEF WallInv, WallTypeOK
<1>19. HoldsCommitted'
  BY <1>1, <1>3, <1>6, <1>7, <1>14 DEF WallInv, HoldsCommitted
<1>20. CursorsAgree'
  BY <1>1, <1>5, <1>6, <1>8 DEF WallInv, CursorsAgree
<1>21. RowsOnce'
  BY <1>3, <1>6 DEF WallInv, RowsOnce
<1>22. NoHole'
  <2>1. \A p \in Visible \ late : p \in Nat
    BY Facts DEF Visible
  <2>2. Covered(latest)'
    <3> SUFFICES ASSUME NEW p \in Visible \ late, p <= latest', oldest # 0 => p >= oldest
                 PROVE  p \in ToSet(wall')
      BY <1>1, <1>5 DEF Covered
    <3>1. CASE p <= cursor
      BY <1>5, <1>14, <3>1 DEF WallInv, NoHole, Covered, cursor
    <3>2. CASE cursor < p
      BY <1>1, <1>5, <1>14, <3>2 DEF WallInv, NoHole, cursor, rows
    <3> QED BY <1>8, <2>1, <3>1, <3>2
  <2>3. \A l \in Polling' : Covered(poll[l].cursor)'
    BY <1>1, <1>5, <1>6, <1>14 DEF WallInv, NoHole, Covered
  <2> QED BY <1>1, <1>5, <1>6, <2>2, <2>3 DEF WallInv, NoHole
<1>23. "create" \notin overlaps => writing = 0
  BY <1>5 DEF WallInv, WrittenApart, Reading
<1>24. WrittenApart'
  BY <1>1, <1>15, <1>23 DEF WallInv, WrittenApart
<1>25. RemovedStaysOut'
  BY <1>1, <1>3, <1>6, <1>14 DEF WallInv, RemovedStaysOut, rows
<1>26. ASSUME Calm PROVE InOrder'
  <2>1. /\ Ascending(rows) /\ \A p \in ToSet(rows) : p > cursor
        /\ \A p \in ToSet(wall) \cap Visible : p \in ToSet(rows) \/ p <= cursor
        /\ \A p \in ToSet(wall) : p >= oldest
        /\ writing = 0
    BY <1>1, <1>5, <1>23, <1>26 DEF WallInv, InOrder, Calm, rows, cursor
  <2>2. Polling' = {}
    BY <1>5, <1>26 DEF WallInv, InOrder
  <2>3. ASSUME rows # <<>>, NEW i \in DOMAIN wall', NEW j \in DOMAIN wall', i < j,
               {wall'[i], wall'[j]} \subseteq Visible
        PROVE  wall'[i] > wall'[j]
    <3>1. DOMAIN wall' = 1 .. Len(wall') /\ Len(wall') \in Nat
      BY <1>14, SetOfSeq
    <3>2. CASE j <= Len(back)
      <4>1. i <= Len(back)
        BY <1>11, <2>3, <3>1, <3>2
      <4>2. i \in DOMAIN back /\ j \in DOMAIN back /\ wall'[i] = back[i] /\ wall'[j] = back[j]
        BY <1>12, <2>3, <3>2, <4>1
      <4> QED BY <1>10, <2>1, <2>3, <4>2 DEF Descending
    <3>3. CASE i <= Len(back) /\ j > Len(back)
      <4>1. wall'[i] \in ToSet(rows) /\ wall'[j] \in ToSet(wall) \ ToSet(rows)
        BY <1>10, <1>11, <1>12, <2>3, <3>3
      <4>2. wall'[i] \in Nat /\ wall'[j] \in Nat
        BY <2>3, Facts DEF Visible
      <4>3. wall'[i] > cursor /\ wall'[j] <= cursor
        BY <2>1, <2>3, <4>1
      <4> QED BY <1>8, <4>2, <4>3
    <3>4. CASE i > Len(back)
      <4>1. PICK a \in DOMAIN wall, b \in DOMAIN wall : a < b /\ wall'[i] = wall[a] /\ wall'[j] = wall[b]
        BY <1>12, <2>3, <3>4
      <4> QED BY <1>26, <2>3, <4>1 DEF WallInv, InOrder
    <3> QED BY <1>11, <3>1, <3>2, <3>3, <3>4
  <2>4. \A i, j \in DOMAIN wall' : i < j /\ {wall'[i], wall'[j]} \subseteq Visible => wall'[i] > wall'[j]
    <3>1. CASE rows = <<>>
      BY <1>13, <1>26, <3>1 DEF WallInv, InOrder
    <3>2. CASE rows # <<>>
      BY <2>3, <3>2
    <3> QED BY <3>1, <3>2
  <2>5. \A p \in ToSet(wall') : p >= oldest
    <3>1. \A p \in ToSet(rows) : p \in Nat
      BY <1>7, Facts
    <3> QED BY <1>8, <1>14, <2>1, <3>1
  <2> QED BY <1>1, <1>5, <1>26, <2>1, <2>2, <2>4, <2>5 DEF WallInv, InOrder
<1>27. InOrder'
  BY <1>1, <1>26 DEF InOrder, Calm
<1> QED BY <1>16, <1>18, <1>19, <1>20, <1>21, <1>22, <1>24, <1>25, <1>27 DEF WallInv


-----------------------------------------------------------------------------
(* The invariant                                                           *)

LEMMA WallInitInv == WallInit => WallInv
<1> SUFFICES ASSUME WallInit PROVE WallInv
  OBVIOUS
<1>1. 0 \in 0 .. MaxPosts
  BY TribeWallAssumption
<1>2. /\ NoRequest \in Request
      /\ NoRequest.pc = "none" /\ NoRequest.cursor = 0
      /\ NoRequest.rows = <<>> /\ NoRequest.next = 0 /\ NoRequest.latest = 0
      /\ ToSet(<<>>) = {} /\ IsInjective(<<>>) /\ Descending(<<>>)
  BY <1>1, EmptyRequest
<1>3. /\ wallPage \in Request /\ wallPage.pc = "new" /\ wallPage.cursor = 0
      /\ wallPage.rows = <<>> /\ wallPage.next = 0 /\ wallPage.latest = 0
  BY <1>2 DEF WallInit, Request
<1>4. /\ begun = 0 /\ committed = {} /\ removed = {} /\ wall = <<>> /\ oldest = 0 /\ latest = 0
      /\ poll = [k \in Polls |-> NoRequest] /\ writing = 0 /\ late = {} /\ clean = {} /\ overlaps = {}
      /\ removing = NoRemoval
  BY DEF WallInit
<1>5. Polling = {} /\ Visible = {}
  BY <1>2, <1>4 DEF Polling, Visible
<1>6. \A r \in Requests : r.rows = <<>> /\ r.cursor = 0 /\ r.next = 0 /\ r.latest = 0
  BY <1>2, <1>3, <1>4 DEF Requests
<1>7. WallTypeOK
  <2>1. wall \in Seq(Posts) /\ Len(wall) <= 2 * MaxPosts
    BY <1>4, TribeWallAssumption
  <2>2. poll \in [Polls -> Request]
    BY <1>2, <1>4
  <2>3. removing \in [pc : {"none", "sent", "answered"}, post : 0 .. MaxPosts]
    BY <1>1, <1>4 DEF NoRemoval
  <2>4. begun \in 0 .. MaxPosts /\ oldest \in 0 .. MaxPosts /\ latest \in 0 .. MaxPosts /\ writing \in 0 .. begun
    BY <1>1, <1>4
  <2> QED BY <1>3, <1>4, <2>1, <2>2, <2>3, <2>4 DEF WallTypeOK
<1>8. HoldsCommitted
  BY <1>2, <1>4, <1>6 DEF HoldsCommitted, NoRemoval
<1>9. CursorsAgree
  BY <1>3, <1>4, <1>5 DEF CursorsAgree
<1>10. RowsOnce /\ TwiceAtMost
  BY <1>2, <1>4, <1>6 DEF RowsOnce, TwiceAtMost
<1>11. NoHole
  BY <1>3, <1>4, <1>5 DEF NoHole
<1>12. WrittenApart /\ RemovedStaysOut
  BY <1>2, <1>4, <1>6 DEF WrittenApart, RemovedStaysOut
<1>13. InOrder
  BY <1>2, <1>3, <1>4, <1>5 DEF InOrder
<1> QED BY <1>7, <1>8, <1>9, <1>10, <1>11, <1>12, <1>13 DEF WallInv

LEMMA WallStutterKeeps ==
    ASSUME WallInv, UNCHANGED wallVars
    PROVE  WallInv'
<1>1. UNCHANGED <<begun, committed, removed, wall, oldest, latest, wallPage, poll,
                  writing, removing, late, clean, overlaps>>
  BY DEF wallVars
<1>2. Polling' = Polling /\ Visible' = Visible /\ Requests' = Requests
  BY <1>1 DEF Polling, Visible, Requests
<1>3. WallTypeOK' /\ HoldsCommitted' /\ CursorsAgree' /\ RowsOnce' /\ TwiceAtMost'
  BY <1>1, <1>2 DEF WallInv, WallTypeOK, HoldsCommitted, CursorsAgree, RowsOnce, TwiceAtMost
<1>4. NoHole'
  BY <1>1, <1>2 DEF WallInv, NoHole, Covered
<1>5. WrittenApart' /\ RemovedStaysOut' /\ InOrder'
  BY <1>1, <1>2 DEF WallInv, WrittenApart, RemovedStaysOut, InOrder, Calm, Reading
<1> QED BY <1>3, <1>4, <1>5 DEF WallInv

LEMMA WallStepInv == WallInv /\ [WallNext]_wallVars => WallInv'
<1> SUFFICES ASSUME WallInv, [WallNext]_wallVars PROVE WallInv'
  OBVIOUS
<1>1. CASE UNCHANGED wallVars
  BY <1>1, WallStutterKeeps
<1>2. CASE WallNext
  BY <1>2, BeginPostKeeps, CommitPostKeeps, ModeratePostKeeps, ListPostsKeeps,
     ListPostsSinceKeeps, LoadWallKeeps, LoadOlderKeeps, PageArrivesKeeps, PageFailsKeeps,
     PollWallKeeps, PollArrivesKeeps, PollFailsKeeps, WritePostKeeps, PostArrivesKeeps,
     PostFailsKeeps, RemovalAskedKeeps, SoftDeletePostKeeps, RemovalArrivesKeeps DEF WallNext
<1> QED BY <1>1, <1>2

LEMMA WallAlways == WallSpec => []WallInv
BY WallInitInv, WallStepInv, PTL DEF WallSpec

-----------------------------------------------------------------------------
(* The cursors                                                             *)

\* Which steps move the cursors, and which change the polls under way.
LEMMA CursorStep ==
    ASSUME WallInv, PollFromCursor, [WallNext]_wallVars
    PROVE  /\ PollFromCursor'
           /\ latest # 0 => oldest' <= oldest /\ ("polls" \notin overlaps => latest <= latest')
<1>1. oldest \in Nat /\ latest \in Nat /\ oldest <= oldest /\ latest <= latest
  BY Facts
<1>2. 0 \in 0 .. MaxPosts
  BY TribeWallAssumption
<1>3. NoRequest.pc = "none" /\ \A c \in 0 .. MaxPosts : Asking(c).cursor = c
  BY <1>2, EmptyRequest
<1>4. ASSUME UNCHANGED <<oldest, latest, poll>>, overlaps \subseteq overlaps'
      PROVE  /\ PollFromCursor'
             /\ latest # 0 => oldest' <= oldest /\ ("polls" \notin overlaps => latest <= latest')
  BY <1>1, <1>4 DEF PollFromCursor, Polling
<1>5. CASE PageArrives
  <2>1. CASE wallPage.cursor = 0
    <3>1. latest = 0 /\ Polling = {} /\ poll' = poll
      BY <1>5, <2>1 DEF PageArrives, WallInv, CursorsAgree
    <3> QED BY <3>1 DEF PollFromCursor, Polling
  <2>2. CASE wallPage.cursor # 0
    <3>1. UNCHANGED <<latest, poll, overlaps>> /\ oldest' = wallPage.next
      BY <1>5, <2>2 DEF PageArrives
    <3>2. wallPage.cursor = oldest /\ (wallPage.next = 0 \/ wallPage.next < oldest)
      BY <1>5, <2>2 DEF PageArrives, WallInv, CursorsAgree
    <3>3. wallPage.next \in Nat
      BY Facts DEF Requests
    <3>4. oldest' <= oldest
      BY <1>1, <3>1, <3>2, <3>3
    <3> QED BY <1>1, <3>1, <3>4 DEF PollFromCursor, Polling
  <2> QED BY <2>1, <2>2
<1>6. ASSUME NEW k \in Polls, PollWall(k) PROVE PollFromCursor' /\ UNCHANGED <<oldest, latest>>
  <2>1. /\ poll[k].pc = "none" /\ poll' = [poll EXCEPT ![k] = Asking(latest)]
        /\ Polling # {} => "polls" \in overlaps'
        /\ overlaps \subseteq overlaps' /\ UNCHANGED <<oldest, latest>>
    BY <1>6 DEF PollWall, wallShown
  <2>2. poll'[k] = Asking(latest) /\ \A l \in Polls : l # k => poll'[l] = poll[l]
    BY <2>1 DEF WallInv, WallTypeOK
  <2>3. Asking(latest).cursor = latest
    BY <1>3 DEF WallInv, WallTypeOK
  <2>4. Polling' \subseteq Polling \cup {k}
    BY <2>1, <2>2 DEF Polling
  <2> QED BY <2>1, <2>2, <2>3, <2>4 DEF PollFromCursor
<1>7. ASSUME NEW k \in Polls, ListPostsSince(k) PROVE PollFromCursor' /\ UNCHANGED <<oldest, latest>>
  <2>1. /\ poll[k].pc = "sent" /\ overlaps \subseteq overlaps' /\ UNCHANGED <<oldest, latest>>
        /\ poll \in [Polls -> Request]
    BY <1>7 DEF ListPostsSince, wallShown, WallInv, WallTypeOK
  <2>2. \A l \in Polls : poll'[l].cursor = poll[l].cursor /\ (l # k => poll'[l] = poll[l])
    BY <1>7, <2>1 DEF ListPostsSince, Request
  <2>3. Polling' \subseteq Polling
    BY <2>1, <2>2 DEF Polling
  <2> QED BY <2>1, <2>2, <2>3 DEF PollFromCursor, Polling
<1>8. ASSUME NEW k \in Polls, PollFails(k) \/ PollArrives(k)
      PROVE  /\ PollFromCursor' /\ oldest' = oldest
             /\ "polls" \notin overlaps => latest <= latest'
  <2>1. /\ poll' = [poll EXCEPT ![k] = NoRequest] /\ k \in Polling /\ overlaps' = overlaps
        /\ oldest' = oldest
    BY <1>8 DEF PollFails, PollArrives, wallShown, Polling
  <2>2. poll'[k] = NoRequest /\ \A l \in Polls : l # k => poll'[l] = poll[l]
    BY <2>1 DEF WallInv, WallTypeOK
  <2>3. Polling' = Polling \ {k}
    BY <1>3, <2>2 DEF Polling
  <2>4. "polls" \notin overlaps => Polling' = {} /\ poll[k].cursor = latest
    BY <2>1, <2>3 DEF PollFromCursor
  <2>5. "polls" \notin overlaps => latest <= latest'
    <3>1. CASE PollFails(k)
      BY <1>1, <3>1 DEF PollFails, wallShown
    <3>2. CASE PollArrives(k)
      <4>1. poll[k].cursor <= poll[k].latest
        BY <2>1, <3>2 DEF PollArrives, WallInv, CursorsAgree
      <4> QED BY <1>1, <2>4, <3>2, <4>1 DEF PollArrives
    <3> QED BY <1>8, <3>1, <3>2
  <2> QED BY <2>1, <2>4, <2>5 DEF PollFromCursor
<1>9. CASE \/ BeginPost \/ \E p \in Posts : CommitPost(p) \/ ModeratePost(p) \/ RemovePost(p)
           \/ ListPosts \/ LoadWall \/ LoadOlder \/ PageFails
           \/ WritePost \/ PostArrives \/ PostFails
           \/ SoftDeletePost \/ RemovalArrives \/ RemovalFails \/ UNCHANGED wallVars
  <2>1. UNCHANGED <<oldest, latest, poll>> /\ overlaps \subseteq overlaps'
    BY <1>9 DEF BeginPost, CommitPost, ModeratePost, RemovePost, ListPosts, LoadWall, LoadOlder,
                PageFails, WritePost, PostArrives, PostFails, SoftDeletePost, RemovalArrives,
                RemovalFails, wallVars, wallShown
  <2> QED BY <1>4, <2>1
<1> QED BY <1>1, <1>5, <1>6, <1>7, <1>8, <1>9 DEF WallNext

-----------------------------------------------------------------------------
(* Theorems                                                                *)

\* The state of the service and of the tab is well typed; the wall never grows
\* past twice the posts there are, whatever overlaps.
THEOREM WallTypeCorrect == WallSpec => []WallTypeOK
BY WallAlways, PTL DEF WallInv

\* The pages of list_posts and the polls of list_posts_since, put together by
\* useTribeWall, leave no hole between its two cursors, but for the posts that
\* were committed after a newer one.
THEOREM NoPostIsMissed == WallSpec => []NoPostMissed
<1>1. WallInv => NoPostMissed
  BY DEF WallInv, NoHole, Covered, NoPostMissed
<1> QED BY <1>1, WallAlways, PTL

\* mergeFeedItems and the cursors show a post once, in whatever order pages, polls
\* and removals end, while createPost overlaps no request.
THEOREM PostsShownOnce == WallSpec => []OncePerPost
<1>1. WallInv => OncePerPost
  BY DEF WallInv, WrittenApart, OncePerPost
<1> QED BY <1>1, WallAlways, PTL

\* The wall is newest first while nothing overlaps and posts are committed in order:
\* a page goes below all that is shown, a delta above it.
THEOREM WallNewestFirst == WallSpec => []NewestFirst
<1>1. WallInv => NewestFirst
  BY DEF WallInv, InOrder, Calm, NewestFirst
<1> QED BY <1>1, WallAlways, PTL

\* A post removed by deletePost with no request under way stays off the wall: no
\* answer still to come, and no createPost, brings it back.
THEOREM RemovedStays == WallSpec => []RemovedForGood
<1>1. WallInv => RemovedForGood
  BY DEF WallInv, RemovedStaysOut, RemovedForGood
<1> QED BY <1>1, WallAlways, PTL


\* The cursor of the older pages only goes back, and that of the polls, as long
\* as one poll is under way at a time, only forth: no answer of list_posts or
\* list_posts_since that comes late makes useTribeWall ask again for what it has got.
THEOREM CursorsOnlyMoveApart == WallSpec => CursorsMoveApart
<1> DEFINE Apart == latest # 0 => oldest' <= oldest /\ ("polls" \notin overlaps => latest <= latest')
<1>1. WallInit => PollFromCursor
  <2> SUFFICES ASSUME WallInit PROVE PollFromCursor
    OBVIOUS
  <2>1. 0 \in 0 .. MaxPosts
    BY TribeWallAssumption
  <2>2. NoRequest.pc = "none"
    BY <2>1, EmptyRequest
  <2> QED BY <2>2 DEF WallInit, PollFromCursor, Polling
<1>2. CursorInv /\ [WallNext]_wallVars => PollFromCursor'
  <2> SUFFICES ASSUME CursorInv, [WallNext]_wallVars PROVE PollFromCursor'
    OBVIOUS
  <2> QED BY CursorStep DEF CursorInv
<1>3. CursorInv /\ [WallNext]_wallVars => [Apart]_wallVars
  <2> SUFFICES ASSUME CursorInv, WallNext PROVE Apart
    OBVIOUS
  <2> QED BY CursorStep DEF CursorInv
<1>4. WallSpec => []CursorInv
  <2>1. WallInit => CursorInv
    BY <1>1, WallInitInv DEF CursorInv
  <2>2. CursorInv /\ [WallNext]_wallVars => CursorInv'
    BY <1>2, WallStepInv DEF CursorInv
  <2> QED BY <2>1, <2>2, PTL DEF WallSpec
<1> QED BY <1>3, <1>4, PTL DEF WallSpec, CursorsMoveApart

=============================================================================
