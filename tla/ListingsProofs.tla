--------------------------- MODULE ListingsProofs ---------------------------
(***************************************************************************)
(* Theorems about Listings, for every number of requests, every distance   *)
(* and every set of queries: what the sorted lists and their pages hold,   *)
(* and where the growing search stops while requests come and go.          *)
(***************************************************************************)
EXTENDS Listings, FiniteSetTheorems, SequenceTheorems, TLAPS

-----------------------------------------------------------------------------
(* Sorting.  Both lists sort by a strict total order on the requests.  The *)
(* arguments take the least cardinality at which a set has no sorted list, *)
(* where a proof on paper would go by induction.                           *)

LEMMA LeastNumber ==
  ASSUME NEW T \in SUBSET Nat, T # {}
  PROVE  \E n \in T : \A m \in T : n <= m
<1> DEFINE R == OpToRel(<, Nat)
<1>1. IsWellFoundedOn(R, Nat)
  BY NatLessThanWellFounded
<1> HIDE DEF R
<1>2. PICK n \in T : \A m \in T : <<m, n>> \notin R
  BY <1>1, WFMin
<1>3. \A m \in T : ~(m < n)
  BY <1>2 DEF R, OpToRel
<1> QED BY <1>3

StrictOrder(R) ==
  /\ \A a \in Items : <<a, a>> \notin R
  /\ \A a, b \in Items : a # b => <<a, b>> \in R \/ <<b, a>> \in R
  /\ \A a, b, c \in Items : <<a, b>> \in R /\ <<b, c>> \in R => <<a, c>> \in R

LEMMA FiniteItems ==
  ASSUME NEW S \in SUBSET Items
  PROVE  IsFiniteSet(S) /\ Cardinality(S) \in 0 .. MaxListed
<1>1. IsFiniteSet(Items) /\ Cardinality(Items) = MaxListed
  BY FS_Interval, ListingsAssumption DEF Items
<1>2. IsFiniteSet(S) /\ Cardinality(S) <= MaxListed
  BY <1>1, FS_Subset
<1> QED BY <1>2, FS_CardinalityType, ListingsAssumption

LEMMA LastExists ==
  ASSUME NEW R, StrictOrder(R), NEW S \in SUBSET Items, S # {}
  PROVE  \E m \in S : \A x \in S \ {m} : <<x, m>> \in R
<1> DEFINE Last(T) == \E m \in T : \A x \in T \ {m} : <<x, m>> \in R
           Bad == {n \in Nat : \E T \in SUBSET Items :
                      T # {} /\ Cardinality(T) = n /\ ~Last(T)}
<1>1. SUFFICES ASSUME Bad # {} PROVE FALSE
  <2>1. Cardinality(S) \in Nat
    BY FiniteItems
  <2> QED BY <1>1, <2>1
<1>2. PICK n \in Bad : \A k \in Bad : n <= k
  BY <1>1, LeastNumber
<1>3. PICK T \in SUBSET Items : T # {} /\ Cardinality(T) = n /\ ~Last(T)
  BY <1>2
<1>4. PICK x \in T : TRUE
  BY <1>3
<1> DEFINE U == T \ {x}
<1>5. Cardinality(U) \in Nat /\ Cardinality(U) < n /\ U \in SUBSET Items
  <2>1. IsFiniteSet(T) /\ n \in Nat /\ Cardinality(T) = n
    BY <1>3, FiniteItems
  <2>2. Cardinality(U) = n - 1
    BY <1>4, <2>1, FS_RemoveElement
  <2>3. U \in SUBSET Items
    BY <1>3
  <2>4. Cardinality(U) \in Nat
    BY <2>3, FiniteItems
  <2> QED BY <2>1, <2>2, <2>3, <2>4
<1>6. CASE U = {}
  BY <1>3, <1>4, <1>6
<1>7. CASE U # {}
  <2>1. Cardinality(U) \notin Bad
    BY <1>2, <1>5
  <2>2. PICK m \in U : \A y \in U \ {m} : <<y, m>> \in R
    BY <1>5, <1>7, <2>1
  <2>3. m \in Items /\ x \in Items /\ m # x
    BY <2>2, <1>4
  <2>4. CASE <<x, m>> \in R
    BY <1>3, <2>2, <2>4
  <2>5. CASE <<m, x>> \in R
    <3>1. \A y \in U : <<y, x>> \in R
      BY <2>2, <2>3, <2>5, <1>5 DEF StrictOrder
    <3> QED BY <1>3, <1>4, <3>1
  <2> QED BY <2>3, <2>4, <2>5 DEF StrictOrder
<1> QED BY <1>6, <1>7

SortedBy(s, S, R) ==
  /\ s \in [1 .. Cardinality(S) -> S]
  /\ \A i, j \in 1 .. Cardinality(S) : i < j => <<s[i], s[j]>> \in R

(* Every set of requests has a sorted list.                                *)
LEMMA SortedExists ==
  ASSUME NEW R, StrictOrder(R), NEW S \in SUBSET Items
  PROVE  \E s : SortedBy(s, S, R)
<1> DEFINE Bad == {n \in Nat : \E T \in SUBSET Items :
                      Cardinality(T) = n /\ ~\E s : SortedBy(s, T, R)}
<1>1. SUFFICES ASSUME Bad # {} PROVE FALSE
  <2>1. Cardinality(S) \in Nat
    BY FiniteItems
  <2> QED BY <1>1, <2>1
<1>2. PICK n \in Bad : \A k \in Bad : n <= k
  BY <1>1, LeastNumber
<1>3. PICK T \in SUBSET Items : Cardinality(T) = n /\ ~\E s : SortedBy(s, T, R)
  BY <1>2
<1>4. CASE T = {}
  <2>1. Cardinality(T) = 0
    BY <1>4, FS_EmptySet
  <2>2. SortedBy([i \in 1 .. Cardinality(T) |-> i], T, R)
    BY <2>1, <1>4 DEF SortedBy
  <2> QED BY <1>3, <2>2
<1>5. CASE T # {}
  <2>1. PICK m \in T : \A x \in T \ {m} : <<x, m>> \in R
    BY <1>5, LastExists
  <2> DEFINE U == T \ {m}
  <2>2. /\ Cardinality(U) = n - 1 /\ n - 1 \in Nat
        /\ U \in SUBSET Items
    BY <1>3, <2>1, FiniteItems, FS_RemoveElement
  <2>3. Cardinality(U) \notin Bad
    BY <1>2, <2>2
  <2>4. PICK s : SortedBy(s, U, R)
    BY <2>2, <2>3
  <2> DEFINE t == [i \in 1 .. n |-> IF i = n THEN m ELSE s[i]]
  <2>5. s \in [1 .. n - 1 -> U]
        /\ \A i, j \in 1 .. n - 1 : i < j => <<s[i], s[j]>> \in R
    BY <2>2, <2>4 DEF SortedBy
  <2>6. \A i \in 1 .. n : i # n => i \in 1 .. n - 1
    BY <2>2
  <2>7. \A i \in 1 .. n - 1 : s[i] \in U
    BY <2>5
  <2>8. t \in [1 .. n -> T]
    BY <2>1, <2>6, <2>7
  <2>9. ASSUME NEW i \in 1 .. n, NEW j \in 1 .. n, i < j
        PROVE  <<t[i], t[j]>> \in R
    <3>1. i \in 1 .. n - 1 /\ t[i] = s[i] /\ s[i] \in U
      BY <2>2, <2>7, <2>9
    <3>2. CASE j = n
      BY <2>1, <3>1, <3>2
    <3>3. CASE j # n
      BY <2>5, <2>6, <2>9, <3>1, <3>3
    <3> QED BY <3>2, <3>3
  <2>10. SortedBy(t, T, R)
    BY <1>3, <2>8, <2>9 DEF SortedBy
  <2> QED BY <1>3, <2>10
<1> QED BY <1>4, <1>5

(* A sorted list holds every request of its set.                           *)
LEMMA SortedCovers ==
  ASSUME NEW R, StrictOrder(R), NEW S \in SUBSET Items, NEW s, SortedBy(s, S, R)
  PROVE  \A r \in S : \E i \in 1 .. Cardinality(S) : s[i] = r
<1> DEFINE D == 1 .. Cardinality(S)
<1>1. IsFiniteSet(S) /\ Cardinality(S) \in Nat
  BY FiniteItems
<1>2. IsFiniteSet(D) /\ Cardinality(D) = Cardinality(S)
  BY <1>1, FS_Interval
<1>3. ASSUME NEW i \in D, NEW j \in D, s[i] = s[j] PROVE i = j
  <2>1. s[i] \in Items
    BY DEF SortedBy
  <2>2. ~(i < j) /\ ~(j < i)
    BY <1>3, <2>1 DEF SortedBy, StrictOrder
  <2> QED BY <1>1, <2>2
<1>4. s \in Injection(D, S)
  BY <1>3 DEF SortedBy, Injection, IsInjective
<1>5. s \in Surjection(D, S)
  BY <1>1, <1>2, <1>4, FS_Injection
<1> QED BY <1>5 DEF Surjection
LEMMA NewestFirstSorted ==
  ASSUME NEW S \in SUBSET Items
  PROVE  /\ NewestFirst(S) \in [1 .. Cardinality(S) -> S]
         /\ \A i, j \in 1 .. Cardinality(S) :
              i < j => Newer(NewestFirst(S)[i], NewestFirst(S)[j])
         /\ \A r \in S : \E i \in 1 .. Cardinality(S) : NewestFirst(S)[i] = r
<1> DEFINE R == {p \in Items \X Items : p[1] > p[2]}
           s == NewestFirst(S)
           n == Cardinality(S)
<1>1. \A a, b \in Items : <<a, b>> \in R <=> Newer(a, b)
  BY DEF Newer
<1>2. StrictOrder(R)
  BY <1>1 DEF StrictOrder, Newer, Items
<1> HIDE DEF R
<1>3. PICK t : SortedBy(t, S, R)
  BY <1>2, SortedExists
<1>4. t \in [1 .. n -> S] /\ \A i, j \in 1 .. n : i < j => Newer(t[i], t[j])
  BY <1>1, <1>3 DEF SortedBy
<1>5. s \in [1 .. n -> S] /\ \A i, j \in 1 .. n : i < j => Newer(s[i], s[j])
  BY <1>4 DEF NewestFirst, Sorted
<1>6. SortedBy(s, S, R)
  BY <1>1, <1>5 DEF SortedBy
<1> HIDE DEF s
<1>7. \A r \in S : \E i \in 1 .. n : s[i] = r
  BY <1>2, <1>6, SortedCovers
<1> QED BY <1>5, <1>7 DEF s

LEMMA NearestFirstSorted ==
  ASSUME NEW seq, Range(seq) \in SUBSET Items
  PROVE  NearestFirst(seq) \in [1 .. Cardinality(Range(seq)) -> Range(seq)]
<1> DEFINE S == Range(seq)
           R == {p \in Items \X Items : Nearer(p[1], p[2])}
           n == Cardinality(S)
<1>1. \A a, b \in Items : <<a, b>> \in R <=> Nearer(a, b)
  OBVIOUS
<1>2. StrictOrder(R)
  BY <1>1, ListingsAssumption DEF StrictOrder, Nearer, Newer, Items
<1> HIDE DEF R, S
<1>3. PICK t : SortedBy(t, S, R)
  BY <1>2, SortedExists DEF S
<1>4. t \in [1 .. n -> S] /\ \A i, j \in 1 .. n : i < j => Nearer(t[i], t[j])
  BY <1>1, <1>3 DEF SortedBy, S
<1> QED BY <1>4 DEF NearestFirst, Sorted, S

-----------------------------------------------------------------------------
(* Pages.                                                                  *)

LEMMA Division ==
  ASSUME NEW a \in Nat, NEW l \in Nat \ {0}
  PROVE  /\ a \div l \in Nat /\ a % l \in 0 .. l - 1
         /\ a = ((a \div l) * l) + (a % l)
OBVIOUS

LEMMA PageFacts ==
  ASSUME NEW S \in SUBSET Items, NEW p \in Nat \ {0}, NEW l \in Nat \ {0},
         NEW first, first = (p - 1) * l,
         NEW last, last = IF p * l < Cardinality(S) THEN p * l ELSE Cardinality(S)
  PROVE  /\ Page(NewestFirst(S), p, l) \in Seq(S)
         /\ Len(Page(NewestFirst(S), p, l)) = IF first < last THEN last - first ELSE 0
         /\ \A i \in 1 .. last - first :
              Page(NewestFirst(S), p, l)[i] = NewestFirst(S)[first + i]
<1> DEFINE s == NewestFirst(S)
           n == Cardinality(S)
<1>1. n \in Nat
  BY FiniteItems
<1>2. s \in [1 .. n -> S]
  BY NewestFirstSorted
<1> HIDE DEF s, n
<1>3. Len(s) = n
  BY <1>1, <1>2
<1>4. p * l \in Nat /\ first \in Nat /\ last \in 0 .. n
  BY <1>1 DEF n
<1>5. Page(s, p, l) = SubSeq(s, first + 1, last)
  BY <1>3 DEF Page, n
<1>6. \A i \in first + 1 .. last : s[i] \in S
  BY <1>1, <1>2, <1>4
<1>7. /\ SubSeq(s, first + 1, last) \in Seq(S)
      /\ Len(SubSeq(s, first + 1, last)) =
           IF first + 1 <= last THEN last - (first + 1) + 1 ELSE 0
      /\ \A i \in 1 .. last - (first + 1) + 1 :
           SubSeq(s, first + 1, last)[i] = s[first + 1 + i - 1]
  BY <1>1, <1>4, <1>6, SubSeqProperties
<1>8. last - (first + 1) + 1 = last - first
  BY <1>1, <1>4
<1>9. \A i \in 1 .. last - first : first + 1 + i - 1 = first + i
  BY <1>1, <1>4
<1> QED BY <1>1, <1>4, <1>5, <1>7, <1>8, <1>9 DEF s
LEMMA Times ==
  ASSUME NEW a \in Int, NEW b \in Int, NEW l \in Nat \ {0}
  PROVE  /\ a <= b => a * l <= b * l
         /\ a < b => (a + 1) * l <= b * l
         /\ (a + 1) * l = (a * l) + l /\ (a - 1) * l = (a * l) - l
         /\ a * l \in Int
<1>1. /\ (a + 1) * l = (a * l) + l /\ (a - 1) * l = (a * l) - l
      /\ a * l \in Int /\ b * l \in Int
  OBVIOUS
<1>2. ASSUME NEW c \in Int, c <= b PROVE c * l <= b * l
  <2>1. (b - c) * l >= 0 /\ (b - c) * l = (b * l) - (c * l)
    BY <1>2
  <2>2. c * l \in Int
    OBVIOUS
  <2> QED BY <1>1, <2>1, <2>2
<1>3. a < b => a + 1 <= b /\ a + 1 \in Int
  OBVIOUS
<1> QED BY <1>1, <1>2, <1>3

(* The pages announced for a list are not empty, hold every row, and keep  *)
(* the order of the list.                                                  *)
LEMMA PagesOfList ==
  ASSUME NEW S \in SUBSET Items, NEW l \in Nat \ {0},
         NEW N, N = TotalPages(Cardinality(S), l)
  PROVE  /\ \A p \in 1 .. N : Page(NewestFirst(S), p, l) # <<>>
         /\ \A r \in S : \E p \in 1 .. N : r \in Range(Page(NewestFirst(S), p, l))
         /\ \A p, q \in 1 .. N :
              \A i \in DOMAIN Page(NewestFirst(S), p, l),
                 j \in DOMAIN Page(NewestFirst(S), q, l) :
                   p < q \/ (p = q /\ i < j) =>
                     Newer(Page(NewestFirst(S), p, l)[i], Page(NewestFirst(S), q, l)[j])
<1> DEFINE s == NewestFirst(S)
           n == Cardinality(S)
           page(p) == Page(s, p, l)
<1>1. n \in Nat
  BY FiniteItems
<1>2. /\ \A i, j \in 1 .. n : i < j => Newer(s[i], s[j])
      /\ \A r \in S : \E i \in 1 .. n : s[i] = r
  BY NewestFirstSorted
<1>3. N \in Nat /\ n <= N * l /\ N * l <= n + l - 1
  <2> DEFINE a == n + l - 1
  <2>1. a \in Nat /\ N = a \div l
    BY <1>1 DEF TotalPages
  <2>2. N \in Nat /\ a % l \in 0 .. l - 1 /\ a = (N * l) + (a % l)
    BY <2>1, Division
  <2>3. N * l \in Nat
    BY <2>2
  <2> HIDE DEF n
  <2> QED BY <1>1, <2>2, <2>3
<1>4. ASSUME NEW p \in 1 .. N
      PROVE  /\ (p - 1) * l \in Nat /\ (p - 1) * l < n
             /\ page(p) \in Seq(S) /\ Len(page(p)) \in 1 .. l
             /\ (p - 1) * l + Len(page(p)) <= n
             /\ \A i \in 1 .. l : (p - 1) * l + i <= n => i <= Len(page(p))
             /\ \A i \in 1 .. Len(page(p)) : page(p)[i] = s[((p - 1) * l) + i]
  <2> DEFINE first == (p - 1) * l
             last == IF p * l < n THEN p * l ELSE n
  <2>1. p \in Int /\ p - 1 \in Int /\ N \in Int /\ N - 1 \in Int /\ p - 1 <= N - 1
    BY <1>3
  <2>2. first \in Nat
    BY <2>1
  <2>3. first <= (N - 1) * l /\ (N - 1) * l = (N * l) - l /\ N * l \in Int
    BY <2>1, Times
  <2>4. p * l = first + l
    BY <2>1, <2>2
  <2>5. first < n
    BY <1>1, <1>3, <2>2, <2>3
  <2>6. /\ page(p) \in Seq(S)
        /\ Len(page(p)) = IF first < last THEN last - first ELSE 0
        /\ \A i \in 1 .. last - first : page(p)[i] = s[first + i]
    BY PageFacts
  <2>7. first < last /\ last - first \in 1 .. l /\ last <= n
    BY <1>1, <2>2, <2>4, <2>5
  <2> HIDE DEF first, n, page
  <2>8. Len(page(p)) = last - first
    BY <2>6, <2>7
  <2>9. \A i \in 1 .. l : first + i <= n => i <= last - first
    BY <1>1, <2>2, <2>4, <2>7
  <2> QED BY <1>1, <2>2, <2>5, <2>6, <2>7, <2>8, <2>9 DEF first
<1> HIDE DEF s, n
<1>5. ASSUME NEW p \in 1 .. N PROVE page(p) # <<>>
  BY <1>4
<1>6. ASSUME NEW r \in S PROVE \E p \in 1 .. N : r \in Range(page(p))
  <2>1. PICK k \in 1 .. n : s[k] = r
    BY <1>2
  <2> DEFINE d == (k - 1) \div l
             p == d + 1
             i == ((k - 1) % l) + 1
  <2>2. k - 1 \in Nat /\ d \in Nat /\ k - 1 = (d * l) + (i - 1) /\ i \in 1 .. l
    BY <1>1, Division
  <2> HIDE DEF d, i
  <2>3. d * l \in Int /\ N * l \in Int /\ (N <= d => N * l <= d * l)
    BY <1>3, <2>2, Times
  <2>4. d < N
    BY <1>1, <1>3, <2>2, <2>3
  <2>5. p \in 1 .. N /\ (p - 1) * l = d * l
    BY <1>3, <2>2, <2>4
  <2> HIDE DEF p
  <2>6. ((p - 1) * l) + i = k /\ i \in 1 .. l
    BY <2>2, <2>3, <2>5
  <2>7. i \in 1 .. Len(page(p)) /\ page(p) \in Seq(S)
    BY <1>1, <1>4, <2>5, <2>6
  <2>8. page(p)[i] = r
    BY <1>4, <2>1, <2>5, <2>6, <2>7
  <2> HIDE DEF page
  <2>9. r \in Range(page(p))
    BY <2>7, <2>8 DEF Range
  <2> QED BY <2>5, <2>9
<1>7. ASSUME NEW p \in 1 .. N, NEW q \in 1 .. N,
             NEW i \in DOMAIN page(p), NEW j \in DOMAIN page(q),
             p < q \/ (p = q /\ i < j)
      PROVE  Newer(page(p)[i], page(q)[j])
  <2> DEFINE a == (p - 1) * l
             b == (q - 1) * l
  <2>1. i \in 1 .. Len(page(p)) /\ j \in 1 .. Len(page(q))
    BY <1>4
  <2>2. /\ a \in Nat /\ b \in Nat
        /\ a + Len(page(p)) <= n /\ b + Len(page(q)) <= n
        /\ Len(page(p)) \in 1 .. l /\ Len(page(q)) \in 1 .. l
        /\ page(p)[i] = s[a + i] /\ page(q)[j] = s[b + j]
    BY <1>4, <2>1
  <2>3. p < q => a + l <= b
    <3>1. p - 1 \in Int /\ q - 1 \in Int
      BY <1>3
    <3>2. p < q => ((p - 1) + 1) * l <= (q - 1) * l
      <4>1. p < q => p - 1 < q - 1
        BY <1>3
      <4> QED BY <3>1, <4>1, Times
    <3>3. ((p - 1) + 1) * l = a + l
      BY <3>1, Times
    <3> QED BY <3>2, <3>3
  <2>4. p = q => a = b
    OBVIOUS
  <2> HIDE DEF a, b, page
  <2>5. a + i < b + j
    BY <1>1, <1>7, <2>1, <2>2, <2>3, <2>4
  <2>6. a + i \in 1 .. n /\ b + j \in 1 .. n
    BY <1>1, <2>1, <2>2
  <2> QED BY <1>2, <2>2, <2>5, <2>6
<1> QED BY <1>5, <1>6, <1>7 DEF s
-----------------------------------------------------------------------------
(* The search.  Tried: a rung that has been left holds no request that     *)
(* was visible all along, unless the call was answered there; the rungs    *)
(* below the one answered were all left.                                   *)

Tried ==
  query.near /\ query.page = 1 =>
    \A k \in Ladder(query) \ rungs :
      rungs # {} \/ k < kUsed \/ items = <<>> =>
        \A r \in stayed : Distance[r] > k

ListingsInv ==
  /\ ListingsTypeOK
  /\ stayed \subseteq Visible(query)
  /\ rungs \subseteq Ladder(query)
  /\ counted => rungs # {}
  /\ Tried

LEMMA QueryTypes ==
  ASSUME NEW q \in Queries
  PROVE  /\ q.near \in BOOLEAN /\ q.k \in 0 .. 8
         /\ q.page \in Nat \ {0} /\ q.limit \in Nat \ {0}
         /\ Ladder(q) \subseteq 0 .. 8
         /\ Visible(q) \subseteq Items
         /\ \A k : Matching(q, k) \subseteq Items
BY ListingsAssumption DEF Ladder, K_LADDER, Visible, Matching, Within

LEMMA LowestRung ==
  ASSUME NEW T \in SUBSET Nat, T # {}
  PROVE  Min(T) \in T /\ \A k \in T : Min(T) <= k
<1>1. \E n \in T : \A m \in T : n <= m
  BY LeastNumber
<1> QED BY <1>1 DEF Min

LEMMA ListingsInitial == ListingsInit => ListingsInv
<1> SUFFICES ASSUME ListingsInit PROVE ListingsInv
  OBVIOUS
<1>1. query \in Queries /\ kUsed = query.k /\ 0 \in 0 .. MaxListed
  BY ListingsAssumption DEF ListingsInit
<1>2. items \in Seq(Items) /\ Len(items) = 0
  BY DEF ListingsInit
<1>3. Len(items) <= query.limit /\ query.k \in 0 .. 8
  BY <1>1, <1>2, QueryTypes
<1>4. ListingsTypeOK
  BY <1>1, <1>2, <1>3 DEF ListingsInit, ListingsTypeOK
<1> QED BY <1>4 DEF ListingsInit, ListingsInv, Tried

(* What one rung's read gives: at most a page, and on the first page       *)
(* nothing only where nothing matches.                                     *)
LEMMA FoundFacts ==
  ASSUME NEW M \in SUBSET Items, NEW p \in Nat \ {0}, NEW l \in Nat \ {0},
         NEW found, found = Page(NewestFirst(M), p, l)
  PROVE  /\ found \in Seq(Items) /\ Len(found) <= l
         /\ p = 1 /\ found = <<>> => M = {}
         /\ NearestFirst(found) \in Seq(Items)
         /\ Len(NearestFirst(found)) <= l
         /\ found # <<>> => NearestFirst(found) # <<>>
<1> DEFINE n == Cardinality(M)
           first == (p - 1) * l
           last == IF p * l < n THEN p * l ELSE n
<1>1. n \in Nat /\ IsFiniteSet(M)
  BY FiniteItems
<1>2. /\ found \in Seq(M)
      /\ Len(found) = IF first < last THEN last - first ELSE 0
  BY PageFacts
<1>3. first \in Nat /\ p * l = first + l /\ last \in Nat
  BY <1>1
<1>4. p = 1 => first = 0
  OBVIOUS
<1>5. found \in Seq(Items)
  BY <1>2
<1> HIDE DEF first, n
<1>6. Len(found) <= l
  BY <1>1, <1>2, <1>3
<1>7. p = 1 /\ found = <<>> => M = {}
  <2>1. SUFFICES ASSUME p = 1, found = <<>> PROVE n = 0
    BY <1>1, FS_EmptySet DEF n
  <2>2. Len(found) = 0
    BY <2>1
  <2>3. ~(0 < last)
    BY <1>2, <1>3, <1>4, <2>1, <2>2
  <2> QED BY <1>1, <1>3, <1>4, <2>1, <2>3
<1> DEFINE S == Range(found)
           c == Cardinality(S)
<1>8. S \in SUBSET Items
  BY <1>5 DEF Range
<1>9. found \in Surjection(1 .. Len(found), S)
  BY <1>5 DEF Surjection, Range
<1>10. Len(found) \in Nat
  BY <1>5
<1>11. c <= Len(found) /\ c \in Nat /\ IsFiniteSet(S)
  <2>1. PICK m \in Nat : m = Len(found)
    BY <1>10
  <2>2. IsFiniteSet(1 .. m) /\ Cardinality(1 .. m) = m
    BY FS_Interval
  <2> QED BY <1>8, <1>9, <2>1, <2>2, FS_Surjection, FiniteItems
<1>12. NearestFirst(found) \in [1 .. c -> S]
  BY <1>8, NearestFirstSorted
<1>13. found # <<>> => c # 0
  <2>1. SUFFICES ASSUME found # <<>> PROVE S # {}
    BY <1>11, FS_EmptySet
  <2>2. 1 \in DOMAIN found
    BY <1>5, <2>1
  <2> QED BY <2>2 DEF Range
<1> HIDE DEF c, S
<1>14. NearestFirst(found) \in Seq(Items) /\ Len(NearestFirst(found)) = c
  BY <1>8, <1>11, <1>12
<1>15. c # 0 => NearestFirst(found) # <<>>
  BY <1>11, <1>14
<1> QED BY <1>5, <1>6, <1>7, <1>10, <1>11, <1>13, <1>14, <1>15

LEMMA ListKeeps ==
  ASSUME ListingsInv, NEW q \in Queries, list(q) PROVE ListingsInv'
<1>1. items' \in Seq(Items) /\ Len(items') = 0 /\ 0 \in 0 .. MaxListed
  BY ListingsAssumption DEF list
<1>2. q.k \in 0 .. 8 /\ q.limit \in Nat /\ Ladder(q) \subseteq 0 .. 8
      /\ Visible(q) \subseteq Items
  BY QueryTypes
<1>3. items' \in Seq(Items) /\ Len(items') <= query'.limit /\ total' \in 0 .. MaxListed
  BY <1>1, <1>2 DEF list
<1>4. ListingsTypeOK'
  BY <1>2, <1>3 DEF list, ListingsInv, ListingsTypeOK
<1>5. Visible(query)' = Visible(q)
  BY DEF list, Visible
<1> QED BY <1>4, <1>5 DEF list, ListingsInv, Tried

LEMMA CountKeeps ==
  ASSUME ListingsInv, getCount PROVE ListingsInv'
<1>1. query \in Queries
  BY DEF ListingsInv, ListingsTypeOK
<1>2. Matching(query, Min(rungs)) \in SUBSET Items
  BY <1>1, QueryTypes
<1>3. total' \in 0 .. MaxListed
  BY <1>2, FiniteItems DEF getCount
<1>4. Visible(query)' = Visible(query)
  BY DEF getCount, Visible
<1> QED BY <1>3, <1>4 DEF getCount, ListingsInv, ListingsTypeOK, Tried

LEMMA ReadKeeps ==
  ASSUME ListingsInv, getMany PROVE ListingsInv'
<1> DEFINE k == Min(rungs)
           M == Matching(query, k)
           found == Page(NewestFirst(M), query.page, query.limit)
<1>1. query \in Queries /\ rungs # {} /\ rungs \in SUBSET Nat
      /\ rungs \subseteq Ladder(query) /\ rungs \subseteq 0 .. 8
  BY DEF ListingsInv, ListingsTypeOK, getMany
<1>2. k \in rungs /\ \A j \in rungs : k <= j
  BY <1>1, LowestRung
<1>3. query.page \in Nat \ {0} /\ query.limit \in Nat \ {0} /\ M \in SUBSET Items
  BY <1>1, QueryTypes
<1>4. /\ found \in Seq(Items) /\ Len(found) <= query.limit
      /\ query.page = 1 /\ found = <<>> => M = {}
      /\ NearestFirst(found) \in Seq(Items)
      /\ Len(NearestFirst(found)) <= query.limit
      /\ found # <<>> => NearestFirst(found) # <<>>
  BY <1>3, FoundFacts
<1>5. /\ items' = IF query.near THEN NearestFirst(found) ELSE found
      /\ rungs' = IF query.near /\ found = <<>> THEN rungs \ {k} ELSE {}
      /\ kUsed' = k /\ counted' = FALSE
      /\ UNCHANGED <<status, query, total, stayed>>
  BY DEF getMany
<1>6. Visible(query)' = Visible(query)
  BY <1>5 DEF Visible
<1>7. M = {r \in Visible(query) : query.near => Distance[r] <= k}
  BY DEF Matching, Within
<1> HIDE DEF k, M, found
<1>8. ListingsTypeOK'
  BY <1>1, <1>2, <1>4, <1>5 DEF ListingsInv, ListingsTypeOK
<1>9. Tried'
  <2>1. SUFFICES ASSUME query.near, query.page = 1,
                        NEW j \in Ladder(query), j \notin rungs',
                        rungs' # {} \/ j < k \/ items' = <<>>,
                        NEW r \in stayed
                 PROVE  Distance[r] > j
    BY <1>5 DEF Tried, Ladder
  <2>2. r \in Visible(query) /\ r \in Items
    BY DEF ListingsInv, ListingsTypeOK
  <2>3. CASE j \in rungs
    <3>1. found = <<>>
      BY <1>2, <1>4, <1>5, <1>1, <2>1, <2>3
    <3>2. j = k
      BY <1>5, <2>1, <2>3, <3>1
    <3>3. r \notin M
      BY <1>4, <2>1, <3>1
    <3>4. Distance[r] \in Nat /\ k \in Nat
      BY <1>1, <1>2, <2>2, ListingsAssumption
    <3> QED BY <1>7, <2>1, <2>2, <3>2, <3>3, <3>4
  <2>4. CASE j \notin rungs
    BY <1>1, <2>1, <2>4 DEF ListingsInv, Tried
  <2> QED BY <2>3, <2>4
<1> QED BY <1>1, <1>5, <1>6, <1>8, <1>9 DEF ListingsInv

LEMMA WorldKeeps ==
  ASSUME ListingsInv, World PROVE ListingsInv'
<1>1. PICK r \in Items : \E from, to \in {"NONE", "OPEN", "BIDDING", "BOOKED", "DELIVERED"} :
                            Becomes(r, from, to)
  BY DEF World
<1>2. /\ status' \in [Items -> {"NONE", "OPEN", "BIDDING", "BOOKED", "DELIVERED"}]
      /\ UNCHANGED <<query, rungs, counted, total, items, kUsed>>
      /\ stayed' = stayed \cap Visible(query)'
  BY <1>1 DEF Becomes, ListingsInv, ListingsTypeOK
<1> QED BY <1>2 DEF ListingsInv, ListingsTypeOK, Tried

LEMMA ListingsStep == ListingsInv /\ [ListingsNext]_listVars => ListingsInv'
<1>1. ASSUME ListingsInv, UNCHANGED listVars PROVE ListingsInv'
  BY <1>1 DEF listVars, ListingsInv, ListingsTypeOK, Tried, Visible
<1> QED BY <1>1, ListKeeps, CountKeeps, ReadKeeps, WorldKeeps DEF ListingsNext

LEMMA ListingsInvariant == ListingsSpec => []ListingsInv
BY ListingsInitial, ListingsStep, PTL DEF ListingsSpec

(* What the invariant gives.                                               *)
LEMMA ListingsPromises ==
  ASSUME ListingsInv
  PROVE  ListingsTypeOK /\ SearchStopsAtFirst /\ PagesPartition
<1>1. SearchStopsAtFirst
  <2>1. query.near => \A k \in K_LADDER : k >= query.k => k \in Ladder(query)
    BY DEF Ladder
  <2> QED BY <2>1 DEF ListingsInv, Tried, SearchStopsAtFirst
<1>2. PagesPartition
  <2>1. query.limit \in Nat \ {0}
    BY QueryTypes DEF ListingsInv, ListingsTypeOK
  <2>2. \A S \in {Visible(query), VisibleBookings(query)} : S \in SUBSET Items
    BY DEF Visible, VisibleBookings
  <2> QED BY <2>1, <2>2, PagesOfList DEF PagesPartition
<1> QED BY <1>1, <1>2 DEF ListingsInv

-----------------------------------------------------------------------------
(* Every answer has its type: its rows are requests, no more of them than  *)
(* the limit asked for, and the radius is one of the search's.             *)
THEOREM ListingsTypeCorrect == ListingsSpec => []ListingsTypeOK
<1>1. ListingsInv => ListingsTypeOK  BY ListingsPromises
<1> QED BY <1>1, ListingsInvariant, PTL

(* The search answers from the first rung that has something, however many *)
(* requests come and go between its rungs: none that was visible all along *)
(* is within a smaller rung, and none within any rung if nothing is found. *)
THEOREM SearchStopsAtFirstHolds == ListingsSpec => []SearchStopsAtFirst
<1>1. ListingsInv => SearchStopsAtFirst  BY ListingsPromises
<1> QED BY <1>1, ListingsInvariant, PTL

(* The pages announced by totalPages hold every request, or booking, once, *)
(* in the order of the list, and none of them is empty, for every limit.   *)
THEOREM PagesPartitionHolds == ListingsSpec => []PagesPartition
<1>1. ListingsInv => PagesPartition  BY ListingsPromises
<1> QED BY <1>1, ListingsInvariant, PTL
=============================================================================
