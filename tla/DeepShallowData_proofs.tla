------------------------ MODULE DeepShallowData_proofs ------------------------
(***************************************************************************)
(* Facts about DeepShallowData, for every text, alphabet and length of a   *)
(* segment, which the proofs of the serial and of the parallel constructor *)
(* rest on: the order of the suffixes, what a bucket's cells hold, and     *)
(* what sorting some of them makes of the array.                           *)
(***************************************************************************)
EXTENDS DeepShallowData, FiniteSetTheorems, WellFoundedInduction, TLAPS

-----------------------------------------------------------------------------
(* Finite sets and orders *)

\* A set of naturals that is not empty has a smallest element.
LEMMA Smallest ==
  ASSUME NEW T, T \subseteq Nat, T # {}
  PROVE  \E x \in T : \A y \in T : x <= y
<1>1. PICK x \in T : \A y \in T : ~ << y, x >> \in OpToRel(<, Nat)
  BY NatLessThanWellFounded, WFMin, Zenon
<1>2. ASSUME NEW y \in T PROVE ~(y < x)
  <2>1. x \in Nat /\ y \in Nat
    OBVIOUS
  <2> QED
    BY <1>1, <2>1, Zenon DEF OpToRel
<1> QED
  BY <1>2

\* n elements with n different numbers take all of them.
LEMMA FillsRange ==
  ASSUME NEW T, IsFiniteSet(T), NEW a \in Nat, NEW f,
         f \in [T -> a .. a + Cardinality(T) - 1],
         \A p, q \in T : f[p] = f[q] => p = q
  PROVE  \A k \in a .. a + Cardinality(T) - 1 : \E p \in T : f[p] = k
<1> DEFINE m == Cardinality(T)
           all == a .. a + m - 1
<1>1. m \in Nat
  BY FS_CardinalityType
<1>2. SUFFICES ASSUME NEW k \in all, \A p \in T : f[p] # k PROVE FALSE
  OBVIOUS
<1>3. IsFiniteSet(all) /\ Cardinality(all) = m /\ m > 0
  <2>1. a \in Int /\ a + m - 1 \in Int
    BY <1>1
  <2>2. IsFiniteSet(all) /\ Cardinality(all) = IF a > a + m - 1 THEN 0 ELSE (a + m - 1) - a + 1
    BY <2>1, FS_Interval
  <2>3. m > 0
    BY <1>1, <1>2
  <2> QED
    BY <1>1, <2>2, <2>3
<1> DEFINE some == all \ { k }
<1>4. IsFiniteSet(some) /\ Cardinality(some) = m - 1
  BY <1>3, FS_RemoveElement
<1>5. f \in [T -> some]
  BY <1>2
<1> HIDE DEF some, all
<1>6. Cardinality(some) < Cardinality(T)
  BY <1>1, <1>3, <1>4
<1>7. \E p, q \in T : p # q /\ f[p] = f[q]
  BY <1>4, <1>5, <1>6, FS_PigeonHole
<1> QED
  BY <1>7

\* A relation that is a strict order of a set.
Orders(R, T) ==
  /\ \A p \in T : << p, p >> \notin R
  /\ \A p, q, r \in T : << p, q >> \in R /\ << q, r >> \in R => << p, r >> \in R
  /\ \A p, q \in T : p # q => << p, q >> \in R \/ << q, p >> \in R

\* The place of p in that order.
Place(R, T, p) == Cardinality({ q \in T : << q, p >> \in R })

\* The places count the elements from 0, in their order.
LEMMA OrderPlaces ==
  ASSUME NEW T, IsFiniteSet(T), NEW R, Orders(R, T)
  PROVE  /\ Cardinality(T) \in Nat
         /\ \A p \in T : Place(R, T, p) \in 0 .. Cardinality(T) - 1
         /\ \A p, q \in T : << p, q >> \in R <=> Place(R, T, p) < Place(R, T, q)
         /\ \A p, q \in T : Place(R, T, p) = Place(R, T, q) => p = q
         /\ \A k \in 0 .. Cardinality(T) - 1 : \E p \in T : Place(R, T, p) = k
<1> DEFINE m == Cardinality(T)
           before(p) == { q \in T : << q, p >> \in R }
<1>1. m \in Nat
  BY FS_CardinalityType
<1>2. /\ \A p \in T : << p, p >> \notin R
      /\ \A p, q, r \in T : << p, q >> \in R /\ << q, r >> \in R => << p, r >> \in R
      /\ \A p, q \in T : p # q => << p, q >> \in R \/ << q, p >> \in R
  BY DEF Orders
<1>3. \A p \in T : Place(R, T, p) = Cardinality(before(p))
  BY DEF Place
<1>4. ASSUME NEW p \in T
      PROVE  IsFiniteSet(before(p)) /\ Place(R, T, p) \in 0 .. m - 1 /\ Place(R, T, p) \in Nat
  <2>1. before(p) \subseteq T /\ before(p) # T
    BY <1>2
  <2> HIDE DEF before
  <2>2. IsFiniteSet(before(p)) /\ Cardinality(before(p)) <= m /\ Cardinality(before(p)) # m
    BY <2>1, FS_Subset
  <2>3. Cardinality(before(p)) \in Nat
    BY <2>2, FS_CardinalityType
  <2> QED
    BY <1>1, <1>3, <2>2, <2>3
<1>5. ASSUME NEW p \in T, NEW q \in T, << p, q >> \in R PROVE Place(R, T, p) < Place(R, T, q)
  <2>1. before(p) \subseteq before(q) /\ before(p) # before(q)
    <3>1. p \in before(q) /\ p \notin before(p)
      BY <1>2, <1>5
    <3>2. before(p) \subseteq before(q)
      BY <1>2, <1>5
    <3> QED
      BY <3>1, <3>2
  <2>2. Place(R, T, p) \in Nat /\ Place(R, T, q) \in Nat /\ IsFiniteSet(before(q))
    BY <1>4
  <2> HIDE DEF before
  <2>3. Cardinality(before(p)) <= Cardinality(before(q)) /\ Cardinality(before(p)) # Cardinality(before(q))
    BY <2>1, <2>2, FS_Subset
  <2> QED
    BY <1>3, <2>2, <2>3
<1>6. \A p \in T : Place(R, T, p) \in Nat
  BY <1>4
<1>7. ASSUME NEW p \in T, NEW q \in T, Place(R, T, p) = Place(R, T, q) PROVE p = q
  <2>1. << p, q >> \notin R /\ << q, p >> \notin R
    BY <1>5, <1>6, <1>7
  <2> QED
    BY <1>2, <2>1
<1>8. ASSUME NEW p \in T, NEW q \in T, Place(R, T, p) < Place(R, T, q) PROVE << p, q >> \in R
  <2>1. p # q /\ << q, p >> \notin R
    BY <1>5, <1>6, <1>8
  <2> QED
    BY <1>2, <2>1
<1>9. \A k \in 0 .. m - 1 : \E p \in T : Place(R, T, p) = k
  <2> DEFINE f == [ p \in T |-> Place(R, T, p) ]
  <2>1. f \in [T -> 0 .. 0 + m - 1]
    <3>1. 0 .. 0 + m - 1 = 0 .. m - 1
      BY <1>1
    <3>2. f \in [T -> 0 .. m - 1]
      BY <1>4
    <3> QED
      BY <3>1, <3>2
  <2>2. \A p, q \in T : f[p] = f[q] => p = q
    BY <1>7
  <2> HIDE DEF f
  <2>3. \A k \in 0 .. 0 + m - 1 : \E p \in T : f[p] = k
    BY <2>1, <2>2, FillsRange
  <2> QED
    BY <1>1, <2>3 DEF f
<1> QED
  BY <1>1, <1>4, <1>5, <1>7, <1>8, <1>9

\* n different numbers below n, in order, are 0, 1, ..., n - 1.
LEMMA Identity ==
  ASSUME NEW m \in Nat, NEW f \in [0 .. m - 1 -> 0 .. m - 1],
         \A j, k \in 0 .. m - 1 : j < k => f[j] < f[k]
  PROVE  \A k \in 0 .. m - 1 : f[k] = k
<1>1. \A k \in 0 .. m - 1 : f[k] \in 0 .. m - 1
  OBVIOUS
<1> DEFINE Low == { k \in 0 .. m - 1 : f[k] < k }
           High == { k \in 0 .. m - 1 : f[m - 1 - k] > m - 1 - k }
<1>3. ASSUME Low # {} PROVE FALSE
  <2>1. PICK k \in Low : \A l \in Low : k <= l
    <3>1. Low \subseteq Nat
      OBVIOUS
    <3> HIDE DEF Low
    <3> QED
      BY <1>3, <3>1, Smallest
  <2>2. k \in 0 .. m - 1 /\ f[k] < k
    OBVIOUS
  <2>3. k - 1 \in 0 .. m - 1 /\ k - 1 < k
    BY <1>1, <2>2
  <2>4. ~(f[k - 1] < k - 1)
    BY <2>1, <2>3
  <2>5. f[k - 1] < f[k] /\ f[k - 1] \in Nat /\ f[k] \in Nat
    BY <1>1, <2>2, <2>3
  <2> QED
    BY <2>2, <2>3, <2>4, <2>5
<1>4. ASSUME High # {} PROVE FALSE
  <2>1. PICK k \in High : \A l \in High : k <= l
    <3>1. High \subseteq Nat
      OBVIOUS
    <3> HIDE DEF High
    <3> QED
      BY <1>4, <3>1, Smallest
  <2> DEFINE i == m - 1 - k
  <2>2. k \in 0 .. m - 1 /\ i \in 0 .. m - 1 /\ f[i] > i
    OBVIOUS
  <2>3. i + 1 \in 0 .. m - 1 /\ k - 1 \in 0 .. m - 1 /\ m - 1 - (k - 1) = i + 1 /\ i < i + 1
    BY <1>1, <2>2
  <2>4. ~(f[i + 1] > i + 1)
    <3>1. k - 1 \notin High
      <4> HIDE DEF High, i
      <4>1. k - 1 < k /\ k - 1 \in Nat /\ k \in Nat
        BY <2>2, <2>3
      <4> QED
        BY <2>1, <4>1
    <3>2. ~(f[m - 1 - (k - 1)] > m - 1 - (k - 1))
      BY <2>3, <3>1
    <3> QED
      BY <2>3, <3>2
  <2>5. f[i] < f[i + 1] /\ f[i] \in Nat /\ f[i + 1] \in Nat
    BY <1>1, <2>2, <2>3
  <2> QED
    BY <2>2, <2>3, <2>4, <2>5
<1> SUFFICES ASSUME NEW k \in 0 .. m - 1 PROVE f[k] = k
  OBVIOUS
<1>5. ~(f[k] < k)
  BY <1>3
<1>6. ~(f[k] > k)
  <2> DEFINE q == m - 1 - k
  <2>1. q \in 0 .. m - 1 /\ m - 1 - q = k
    OBVIOUS
  <2> HIDE DEF q
  <2>2. q \notin High
    BY <1>4
  <2>3. ~(f[m - 1 - q] > m - 1 - q)
    BY <2>1, <2>2
  <2> QED
    BY <2>1, <2>3
<1> QED
  BY <1>1, <1>5, <1>6

-----------------------------------------------------------------------------
(* The order of the suffixes of a text *)

TextInv(x) ==
  /\ K \in Nat \ {0}
  /\ Len(x) \in Nat \ {0}
  /\ Positions(x) = 0 .. Len(x) - 1
  /\ \A p \in Positions(x) : At(x, p) \in 0 .. K - 1 /\ (At(x, p) = 0 <=> p = Len(x) - 1)

LEMMA TextFacts ==
  ASSUME NEW x \in Texts
  PROVE  TextInv(x)
<1>1. /\ x \in Seq(0 .. K - 1) /\ Len(x) > 0 /\ K \in Nat \ {0}
      /\ \A p \in Positions(x) : At(x, p) = 0 <=> p = Len(x) - 1
  BY DataAssumption
<1>2. \A p \in 0 .. Len(x) - 1 : x[p + 1] \in 0 .. K - 1
  BY <1>1
<1> QED
  BY <1>1, <1>2 DEF TextInv, Positions, At

\* Two suffixes differ at some character first, which decides their order.
DiffersAt(x, p, q, k) ==
  /\ k \in Nat
  /\ p + k < Len(x) /\ q + k < Len(x)
  /\ At(x, p + k) # At(x, q + k)
  /\ \A j \in 0 .. k - 1 : At(x, p + j) = At(x, q + j)

LEMMA FirstDifference ==
  ASSUME NEW x, TextInv(x), NEW p \in Positions(x), NEW q \in Positions(x), p # q
  PROVE  \E k \in Nat : DiffersAt(x, p, q, k)
<1>1. /\ Len(x) \in Nat \ {0} /\ Positions(x) = 0 .. Len(x) - 1
      /\ \A r \in 0 .. Len(x) - 1 : At(x, r) = 0 <=> r = Len(x) - 1
  BY DEF TextInv
<1> DEFINE Differ == { k \in Nat : p + k < Len(x) /\ q + k < Len(x) /\ At(x, p + k) # At(x, q + k) }
<1>2. Differ # {}
  <2>1. CASE p < q
    <3> DEFINE k == Len(x) - 1 - q
    <3>1. k \in Nat /\ p + k \in 0 .. Len(x) - 1 /\ q + k = Len(x) - 1 /\ p + k # Len(x) - 1
      BY <1>1, <2>1
    <3> HIDE DEF k
    <3>2. At(x, q + k) = 0 /\ At(x, p + k) # 0
      BY <1>1, <3>1
    <3>3. p + k < Len(x) /\ q + k < Len(x)
      BY <1>1, <3>1
    <3> QED
      BY <3>1, <3>2, <3>3
  <2>2. CASE q < p
    <3> DEFINE k == Len(x) - 1 - p
    <3>1. k \in Nat /\ q + k \in 0 .. Len(x) - 1 /\ p + k = Len(x) - 1 /\ q + k # Len(x) - 1
      BY <1>1, <2>2
    <3> HIDE DEF k
    <3>2. At(x, p + k) = 0 /\ At(x, q + k) # 0
      BY <1>1, <3>1
    <3>3. p + k < Len(x) /\ q + k < Len(x)
      BY <1>1, <3>1
    <3> QED
      BY <3>1, <3>2, <3>3
  <2>3. p < q \/ q < p
    BY <1>1
  <2> QED
    BY <2>1, <2>2, <2>3
<1>3. PICK k \in Differ : \A j \in Differ : k <= j
  <2>1. Differ \subseteq Nat
    OBVIOUS
  <2> HIDE DEF Differ
  <2> QED
    BY <1>2, <2>1, Smallest
<1>4. k \in Nat /\ p + k < Len(x) /\ q + k < Len(x) /\ At(x, p + k) # At(x, q + k)
  OBVIOUS
<1>5. ASSUME NEW j \in 0 .. k - 1 PROVE At(x, p + j) = At(x, q + j)
  <2>1. j \in Nat /\ p + j < Len(x) /\ q + j < Len(x) /\ ~(k <= j)
    BY <1>1, <1>4
  <2>2. j \notin Differ
    <3> HIDE DEF Differ
    <3> QED
      BY <1>3, <2>1
  <2> QED
    BY <2>1, <2>2
<1> QED
  BY <1>4, <1>5 DEF DiffersAt

LEMMA LessAtDifference ==
  ASSUME NEW x, TextInv(x), NEW p \in Positions(x), NEW q \in Positions(x),
         NEW k \in Nat, DiffersAt(x, p, q, k)
  PROVE  SuffixLess(x, p, q) <=> At(x, p + k) < At(x, q + k)
<1>1. /\ Len(x) \in Nat \ {0} /\ Positions(x) = 0 .. Len(x) - 1 /\ K \in Nat
      /\ \A r \in 0 .. Len(x) - 1 : At(x, r) \in 0 .. K - 1
  BY DEF TextInv
<1>2. /\ p + k < Len(x) /\ q + k < Len(x) /\ At(x, p + k) # At(x, q + k)
      /\ \A j \in 0 .. k - 1 : At(x, p + j) = At(x, q + j)
  BY DEF DiffersAt
<1>3. ASSUME SuffixLess(x, p, q) PROVE At(x, p + k) < At(x, q + k)
  <2>1. PICK i \in 0 .. Len(x) - 1 :
           /\ p + i < Len(x) /\ q + i < Len(x) /\ At(x, p + i) < At(x, q + i)
           /\ \A j \in 0 .. i - 1 : At(x, p + j) = At(x, q + j)
    BY <1>3 DEF SuffixLess
  <2>2. p + i \in 0 .. Len(x) - 1 /\ q + i \in 0 .. Len(x) - 1 /\ i \in Nat
    BY <1>1, <2>1
  <2>3. At(x, p + i) # At(x, q + i)
    <3>1. At(x, p + i) \in Nat
      BY <1>1, <2>2
    <3> QED
      BY <2>1, <3>1
  <2>4. ~(i < k) /\ ~(k < i)
    <3>1. i < k => i \in 0 .. k - 1
      BY <2>2
    <3>2. k < i => k \in 0 .. i - 1
      BY <2>2
    <3> QED
      BY <1>2, <2>1, <2>3, <3>1, <3>2
  <2>5. i = k
    BY <2>2, <2>4
  <2> QED
    BY <2>1, <2>5
<1>4. ASSUME At(x, p + k) < At(x, q + k) PROVE SuffixLess(x, p, q)
  <2>1. k \in 0 .. Len(x) - 1
    BY <1>1, <1>2
  <2> QED
    BY <1>2, <1>4, <2>1 DEF SuffixLess
<1> QED
  BY <1>3, <1>4

LEMMA LessOrder ==
  ASSUME NEW x, TextInv(x)
  PROVE  /\ \A p \in Positions(x) : ~SuffixLess(x, p, p)
         /\ \A p, q, r \in Positions(x) :
              SuffixLess(x, p, q) /\ SuffixLess(x, q, r) => SuffixLess(x, p, r)
         /\ \A p, q \in Positions(x) : p # q => SuffixLess(x, p, q) \/ SuffixLess(x, q, p)
<1>1. /\ Len(x) \in Nat \ {0} /\ Positions(x) = 0 .. Len(x) - 1 /\ K \in Nat
      /\ \A r \in 0 .. Len(x) - 1 : At(x, r) \in Nat
  BY DEF TextInv
<1>2. ASSUME NEW p \in Positions(x) PROVE ~SuffixLess(x, p, p)
  <2>1. \A k \in 0 .. Len(x) - 1 : p + k < Len(x) => At(x, p + k) \in Nat
    BY <1>1
  <2>2. \A k \in 0 .. Len(x) - 1 : p + k < Len(x) => ~(At(x, p + k) < At(x, p + k))
    BY <2>1
  <2> QED
    BY <2>2 DEF SuffixLess
<1>3. ASSUME NEW p \in Positions(x), NEW q \in Positions(x), NEW r \in Positions(x),
             SuffixLess(x, p, q), SuffixLess(x, q, r)
      PROVE  SuffixLess(x, p, r)
  <2>1. PICK i \in 0 .. Len(x) - 1 :
           /\ p + i < Len(x) /\ q + i < Len(x) /\ At(x, p + i) < At(x, q + i)
           /\ \A j \in 0 .. i - 1 : At(x, p + j) = At(x, q + j)
    BY <1>3 DEF SuffixLess
  <2>2. PICK k \in 0 .. Len(x) - 1 :
           /\ q + k < Len(x) /\ r + k < Len(x) /\ At(x, q + k) < At(x, r + k)
           /\ \A j \in 0 .. k - 1 : At(x, q + j) = At(x, r + j)
    BY <1>3 DEF SuffixLess
  <2>3. CASE i < k
    <3>1. i \in 0 .. k - 1 /\ r + i < Len(x)
      BY <1>1, <2>2, <2>3
    <3>2. At(x, p + i) < At(x, r + i)
      BY <2>1, <2>2, <3>1
    <3>3. \A j \in 0 .. i - 1 : At(x, p + j) = At(x, r + j)
      <4>1. \A j \in 0 .. i - 1 : j \in 0 .. k - 1
        BY <1>1, <2>3
      <4> QED
        BY <2>1, <2>2, <4>1
    <3> QED
      BY <2>1, <3>1, <3>2, <3>3 DEF SuffixLess
  <2>4. CASE k < i
    <3>1. k \in 0 .. i - 1 /\ p + k < Len(x)
      BY <1>1, <2>1, <2>4
    <3>2. At(x, p + k) < At(x, r + k)
      BY <2>1, <2>2, <3>1
    <3>3. \A j \in 0 .. k - 1 : At(x, p + j) = At(x, r + j)
      <4>1. \A j \in 0 .. k - 1 : j \in 0 .. i - 1
        BY <1>1, <2>4
      <4> QED
        BY <2>1, <2>2, <4>1
    <3> QED
      BY <2>2, <3>1, <3>2, <3>3 DEF SuffixLess
  <2>5. CASE i = k
    <3>1. At(x, p + i) \in Nat /\ At(x, q + i) \in Nat /\ At(x, r + i) \in Nat
      <4>1. p + i \in 0 .. Len(x) - 1 /\ q + i \in 0 .. Len(x) - 1 /\ r + i \in 0 .. Len(x) - 1
        BY <1>1, <2>1, <2>2, <2>5
      <4> QED
        BY <1>1, <4>1
    <3>2. At(x, p + i) < At(x, r + i)
      BY <2>1, <2>2, <2>5, <3>1
    <3>3. \A j \in 0 .. i - 1 : At(x, p + j) = At(x, r + j)
      BY <2>1, <2>2, <2>5
    <3> QED
      BY <2>1, <2>2, <2>5, <3>2, <3>3 DEF SuffixLess
  <2> QED
    BY <1>1, <2>3, <2>4, <2>5
<1>4. ASSUME NEW p \in Positions(x), NEW q \in Positions(x), p # q
      PROVE  SuffixLess(x, p, q) \/ SuffixLess(x, q, p)
  <2>1. PICK k \in Nat : DiffersAt(x, p, q, k)
    BY <1>4, FirstDifference
  <2>2. DiffersAt(x, q, p, k)
    BY <2>1 DEF DiffersAt
  <2>3. At(x, p + k) < At(x, q + k) \/ At(x, q + k) < At(x, p + k)
    <3>1. p + k \in 0 .. Len(x) - 1 /\ q + k \in 0 .. Len(x) - 1
      BY <1>1, <2>1 DEF DiffersAt
    <3>2. At(x, p + k) \in Nat /\ At(x, q + k) \in Nat /\ At(x, p + k) # At(x, q + k)
      BY <1>1, <2>1, <3>1 DEF DiffersAt
    <3> QED
      BY <3>2
  <2> QED
    BY <2>1, <2>2, <2>3, LessAtDifference
<1> QED
  BY <1>2, <1>3, <1>4

LEMMA PositionsFinite ==
  ASSUME NEW x, TextInv(x)
  PROVE  IsFiniteSet(Positions(x)) /\ Cardinality(Positions(x)) = Len(x)
<1>1. Len(x) \in Nat \ {0} /\ Positions(x) = 0 .. Len(x) - 1
  BY DEF TextInv
<1>2. 0 \in Int /\ Len(x) - 1 \in Int
  BY <1>1
<1>3. /\ IsFiniteSet(0 .. Len(x) - 1)
      /\ Cardinality(0 .. Len(x) - 1) = IF 0 > Len(x) - 1 THEN 0 ELSE (Len(x) - 1) - 0 + 1
  BY <1>2, FS_Interval
<1> QED
  BY <1>1, <1>3

\* The order as a relation, and the ranks as the places in it.
LessPairs(x) == { pq \in Positions(x) \X Positions(x) : SuffixLess(x, pq[1], pq[2]) }

LEMMA RankFacts ==
  ASSUME NEW x, TextInv(x)
  PROVE  /\ \A p \in Positions(x) : Rank(x, p) \in Positions(x)
         /\ \A p, q \in Positions(x) : SuffixLess(x, p, q) <=> Rank(x, p) < Rank(x, q)
         /\ \A p, q \in Positions(x) : Rank(x, p) = Rank(x, q) => p = q
         /\ \A c \in Positions(x) : \E p \in Positions(x) : Rank(x, p) = c
<1> DEFINE R == LessPairs(x)
           T == Positions(x)
<1>1. Len(x) \in Nat \ {0} /\ T = 0 .. Len(x) - 1
  BY DEF TextInv
<1>2. IsFiniteSet(T) /\ Cardinality(T) = Len(x)
  BY PositionsFinite
<1>3. \A p, q \in T : << p, q >> \in R <=> SuffixLess(x, p, q)
  BY DEF LessPairs
<1>4. Orders(R, T)
  BY <1>3, LessOrder DEF Orders
<1>5. \A p \in T : Place(R, T, p) = Rank(x, p)
  <2> TAKE p \in T
  <2>1. { q \in T : << q, p >> \in R } = { q \in T : SuffixLess(x, q, p) }
    BY <1>3
  <2> QED
    BY <2>1 DEF Place, Rank
<1> HIDE DEF R, T
<1>6. /\ \A p \in T : Place(R, T, p) \in 0 .. Cardinality(T) - 1
      /\ \A p, q \in T : << p, q >> \in R <=> Place(R, T, p) < Place(R, T, q)
      /\ \A p, q \in T : Place(R, T, p) = Place(R, T, q) => p = q
      /\ \A k \in 0 .. Cardinality(T) - 1 : \E p \in T : Place(R, T, p) = k
  BY <1>2, <1>4, OrderPlaces
<1>7. \A p, q \in T : SuffixLess(x, p, q) <=> Rank(x, p) < Rank(x, q)
  BY <1>3, <1>5, <1>6
<1>8. \A p, q \in T : Rank(x, p) = Rank(x, q) => p = q
  BY <1>5, <1>6
<1>9. \A p \in T : Rank(x, p) \in T
  BY <1>1, <1>2, <1>5, <1>6
<1>10. ASSUME NEW c \in T PROVE \E p \in T : Rank(x, p) = c
  <2>1. c \in 0 .. Cardinality(T) - 1
    BY <1>1, <1>2
  <2>2. PICK p \in T : Place(R, T, p) = c
    BY <1>6, <2>1
  <2> QED
    BY <1>5, <2>2
<1> QED
  BY <1>7, <1>8, <1>9, <1>10 DEF T

-----------------------------------------------------------------------------
(* Buckets and their cells *)

LEMMA BeforeOrder ==
  ASSUME K \in Nat
  PROVE  /\ \A b \in Buckets : ~Before(b, b)
         /\ \A b, d, e \in Buckets : Before(b, d) /\ Before(d, e) => Before(b, e)
         /\ \A b, d \in Buckets : b # d => Before(b, d) \/ Before(d, b)
<1>1. \A b \in Buckets : b[1] \in Nat /\ b[2] \in Nat /\ b = << b[1], b[2] >>
  BY DEF Buckets, Characters
<1>2. \A b, d, e \in Buckets : Before(b, d) /\ Before(d, e) => Before(b, e)
  <2> SUFFICES ASSUME NEW b \in Buckets, NEW d \in Buckets, NEW e \in Buckets,
                      Before(b, d), Before(d, e)
               PROVE  Before(b, e)
    OBVIOUS
  <2>1. /\ b[1] \in Nat /\ b[2] \in Nat /\ d[1] \in Nat /\ d[2] \in Nat
        /\ e[1] \in Nat /\ e[2] \in Nat
    BY <1>1
  <2> QED
    BY <2>1 DEF Before
<1>3. \A b, d \in Buckets : b # d => Before(b, d) \/ Before(d, b)
  <2> SUFFICES ASSUME NEW b \in Buckets, NEW d \in Buckets, b # d
               PROVE  Before(b, d) \/ Before(d, b)
    OBVIOUS
  <2>1. b[1] \in Nat /\ b[2] \in Nat /\ d[1] \in Nat /\ d[2] \in Nat
    BY <1>1
  <2>2. b[1] # d[1] \/ b[2] # d[2]
    BY <1>1
  <2> QED
    BY <2>1, <2>2 DEF Before
<1>4. \A b \in Buckets : ~Before(b, b)
  <2> SUFFICES ASSUME NEW b \in Buckets PROVE ~Before(b, b)
    OBVIOUS
  <2>1. b[1] \in Nat /\ b[2] \in Nat
    BY <1>1
  <2> QED
    BY <2>1 DEF Before
<1> QED
  BY <1>2, <1>3, <1>4

\* The first two characters decide before the others do.
LEMMA BucketFacts ==
  ASSUME NEW x, TextInv(x)
  PROVE  /\ \A p \in Positions(x) : BucketOf(x, p) \in Buckets
         /\ \A p, q \in Positions(x) : Before(BucketOf(x, p), BucketOf(x, q)) => SuffixLess(x, p, q)
<1>1. /\ Len(x) \in Nat \ {0} /\ Positions(x) = 0 .. Len(x) - 1 /\ K \in Nat \ {0}
      /\ \A r \in 0 .. Len(x) - 1 : At(x, r) \in 0 .. K - 1 /\ (At(x, r) = 0 <=> r = Len(x) - 1)
  BY DEF TextInv
<1>2. ASSUME NEW p \in Positions(x) PROVE BucketOf(x, p) \in Buckets
  <2>1. At(x, p) \in 0 .. K - 1 /\ 0 \in 0 .. K - 1
    BY <1>1
  <2>2. p + 1 < Len(x) => At(x, p + 1) \in 0 .. K - 1
    BY <1>1
  <2> QED
    BY <2>1, <2>2 DEF BucketOf, Buckets, Characters
<1>3. ASSUME NEW p \in Positions(x), NEW q \in Positions(x),
             Before(BucketOf(x, p), BucketOf(x, q))
      PROVE  SuffixLess(x, p, q)
  <2> DEFINE second(r) == IF r + 1 < Len(x) THEN At(x, r + 1) ELSE 0
  <2>1. At(x, p) < At(x, q) \/ (At(x, p) = At(x, q) /\ second(p) < second(q))
    BY <1>3 DEF Before, BucketOf
  <2>2. CASE At(x, p) < At(x, q)
    <3>1. 0 \in 0 .. Len(x) - 1 /\ p + 0 = p /\ q + 0 = q /\ p + 0 < Len(x) /\ q + 0 < Len(x)
      BY <1>1
    <3>2. 0 .. 0 - 1 = {}
      OBVIOUS
    <3> QED
      BY <2>2, <3>1, <3>2 DEF SuffixLess
  <2>3. CASE At(x, p) = At(x, q) /\ second(p) < second(q)
    <3>1. q + 1 < Len(x)
      <4>1. second(p) \in Nat
        BY <1>1
      <4>2. second(q) # 0
        BY <2>3, <4>1
      <4> QED
        BY <4>2
    <3>2. p + 1 < Len(x)
      <4>1. q # Len(x) - 1
        BY <1>1, <3>1
      <4>2. p # Len(x) - 1
        BY <1>1, <2>3, <4>1
      <4> QED
        BY <1>1, <4>2
    <3>3. At(x, p + 1) < At(x, q + 1)
      BY <2>3, <3>1, <3>2
    <3>4. \A j \in 0 .. 1 - 1 : At(x, p + j) = At(x, q + j)
      <4>1. \A j \in 0 .. 1 - 1 : p + j = p /\ q + j = q
        BY <1>1
      <4> QED
        BY <2>3, <4>1
    <3>5. 1 \in 0 .. Len(x) - 1
      BY <1>1, <3>1
    <3> QED
      BY <3>1, <3>2, <3>3, <3>4, <3>5 DEF SuffixLess
  <2> QED
    BY <2>1, <2>2, <2>3
<1> QED
  BY <1>2, <1>3

LEMMA CellsFacts ==
  ASSUME NEW x, TextInv(x)
  PROVE  /\ \A b \in Buckets :
              /\ start_of_bucket(x, b) \in Nat /\ end_of_bucket(x, b) \in Nat
              /\ start_of_bucket(x, b) <= end_of_bucket(x, b)
              /\ CellsOf(x, b) \subseteq Positions(x)
         /\ \A b, d \in Buckets : Before(b, d) => end_of_bucket(x, b) <= start_of_bucket(x, d)
<1>1. Len(x) \in Nat \ {0} /\ Positions(x) = 0 .. Len(x) - 1 /\ K \in Nat
  BY DEF TextInv
<1>2. IsFiniteSet(Positions(x)) /\ Cardinality(Positions(x)) = Len(x)
  BY PositionsFinite
<1>3. \A p \in Positions(x) : BucketOf(x, p) \in Buckets
  BY BucketFacts
<1>4. /\ \A b \in Buckets : ~Before(b, b)
      /\ \A b, d, e \in Buckets : Before(b, d) /\ Before(d, e) => Before(b, e)
      /\ \A b, d \in Buckets : b # d => Before(b, d) \/ Before(d, b)
  BY <1>1, BeforeOrder
<1> DEFINE below(b) == { p \in Positions(x) : Before(BucketOf(x, p), b) }
           upto(b) == { p \in Positions(x) : ~Before(b, BucketOf(x, p)) }
<1>5. \A b : start_of_bucket(x, b) = Cardinality(below(b)) /\ end_of_bucket(x, b) = Cardinality(upto(b))
  BY DEF start_of_bucket, end_of_bucket
<1>6. ASSUME NEW b \in Buckets
      PROVE  /\ IsFiniteSet(below(b)) /\ IsFiniteSet(upto(b))
             /\ start_of_bucket(x, b) \in Nat /\ end_of_bucket(x, b) \in Nat
             /\ end_of_bucket(x, b) <= Len(x)
             /\ start_of_bucket(x, b) <= end_of_bucket(x, b)
  <2>1. below(b) \subseteq Positions(x) /\ upto(b) \subseteq Positions(x) /\ below(b) \subseteq upto(b)
    BY <1>3, <1>4
  <2> HIDE DEF below, upto
  <2>2. IsFiniteSet(below(b)) /\ IsFiniteSet(upto(b)) /\ Cardinality(upto(b)) <= Len(x)
    BY <1>2, <2>1, FS_Subset
  <2>3. Cardinality(below(b)) <= Cardinality(upto(b))
    BY <2>1, <2>2, FS_Subset
  <2>4. Cardinality(below(b)) \in Nat /\ Cardinality(upto(b)) \in Nat
    BY <2>2, FS_CardinalityType
  <2> QED
    BY <1>5, <2>2, <2>3, <2>4
<1>7. ASSUME NEW b \in Buckets PROVE CellsOf(x, b) \subseteq Positions(x)
  <2>1. /\ start_of_bucket(x, b) \in Nat /\ end_of_bucket(x, b) \in Nat
        /\ end_of_bucket(x, b) <= Len(x)
    BY <1>6
  <2> QED
    BY <1>1, <2>1 DEF CellsOf
<1>8. ASSUME NEW b \in Buckets, NEW d \in Buckets, Before(b, d)
      PROVE  end_of_bucket(x, b) <= start_of_bucket(x, d)
  <2>1. upto(b) \subseteq below(d)
    <3> SUFFICES ASSUME NEW p \in Positions(x), ~Before(b, BucketOf(x, p))
                 PROVE  Before(BucketOf(x, p), d)
      OBVIOUS
    <3>1. BucketOf(x, p) = b \/ Before(BucketOf(x, p), b)
      BY <1>3, <1>4
    <3> QED
      BY <1>3, <1>4, <1>8, <3>1
  <2>2. IsFiniteSet(below(d))
    BY <1>6
  <2> HIDE DEF below, upto
  <2> QED
    BY <1>5, <2>1, <2>2, FS_Subset
<1> QED
  BY <1>6, <1>7, <1>8

\* No cell belongs to two buckets.
LEMMA CellsApart ==
  ASSUME NEW x, TextInv(x), NEW b \in Buckets, NEW d \in Buckets,
         NEW c \in CellsOf(x, b), c \in CellsOf(x, d)
  PROVE  b = d
<1>1. K \in Nat
  BY DEF TextInv
<1>2. /\ start_of_bucket(x, b) \in Nat /\ end_of_bucket(x, b) \in Nat
      /\ start_of_bucket(x, d) \in Nat /\ end_of_bucket(x, d) \in Nat
      /\ Before(b, d) => end_of_bucket(x, b) <= start_of_bucket(x, d)
      /\ Before(d, b) => end_of_bucket(x, d) <= start_of_bucket(x, b)
  BY CellsFacts
<1>3. c \in start_of_bucket(x, b) .. end_of_bucket(x, b) - 1
  BY DEF CellsOf
<1>4. c \in start_of_bucket(x, d) .. end_of_bucket(x, d) - 1
  BY DEF CellsOf
<1>5. ~Before(b, d) /\ ~Before(d, b)
  BY <1>2, <1>3, <1>4
<1> QED
  BY <1>1, <1>5, BeforeOrder

\* An order that puts buckets in order puts every suffix into its bucket.
LEMMA OwnCells ==
  ASSUME NEW x, TextInv(x), NEW R,
         \A p \in Positions(x) : << p, p >> \notin R,
         \A p, q \in Positions(x) : Before(BucketOf(x, p), BucketOf(x, q)) => << p, q >> \in R,
         \A p, q \in Positions(x) : << p, q >> \in R => ~Before(BucketOf(x, q), BucketOf(x, p)),
         NEW p \in Positions(x)
  PROVE  Place(R, Positions(x), p) \in CellsOf(x, BucketOf(x, p))
<1> DEFINE b == BucketOf(x, p)
           below == { q \in Positions(x) : Before(BucketOf(x, q), b) }
           upto == { q \in Positions(x) : ~Before(b, BucketOf(x, q)) }
           before == { q \in Positions(x) : << q, p >> \in R }
<1>1. K \in Nat /\ b \in Buckets
  BY BucketFacts DEF TextInv
<1>2. IsFiniteSet(Positions(x))
  BY PositionsFinite
<1>3. below \subseteq before /\ before \subseteq upto /\ p \notin before /\ p \in upto
  <2>1. ~Before(b, b)
    BY <1>1, BeforeOrder
  <2> QED
    BY <2>1
<1>4. /\ start_of_bucket(x, b) = Cardinality(below) /\ end_of_bucket(x, b) = Cardinality(upto)
      /\ Place(R, Positions(x), p) = Cardinality(before)
  BY DEF start_of_bucket, end_of_bucket, Place
<1>5. upto \subseteq Positions(x)
  OBVIOUS
<1>6. start_of_bucket(x, b) \in Nat /\ end_of_bucket(x, b) \in Nat
  BY <1>1, CellsFacts
<1> HIDE DEF below, upto, before, b
<1>7. IsFiniteSet(upto) /\ before # upto
  BY <1>2, <1>3, <1>5, FS_Subset
<1>8. /\ IsFiniteSet(before)
      /\ Cardinality(before) <= Cardinality(upto) /\ Cardinality(before) # Cardinality(upto)
  BY <1>3, <1>7, FS_Subset
<1>9. Cardinality(below) <= Cardinality(before)
  BY <1>3, <1>8, FS_Subset
<1>10. Cardinality(before) \in Nat
  BY <1>8, FS_CardinalityType
<1>11. Place(R, Positions(x), p) \in CellsOf(x, b)
  BY <1>4, <1>6, <1>8, <1>9, <1>10 DEF CellsOf
<1> QED
  BY <1>11 DEF b

LEMMA RankInBucket ==
  ASSUME NEW x, TextInv(x), NEW p \in Positions(x)
  PROVE  Rank(x, p) \in CellsOf(x, BucketOf(x, p))
<1> DEFINE R == LessPairs(x)
<1>1. \A q, r \in Positions(x) : << q, r >> \in R <=> SuffixLess(x, q, r)
  BY DEF LessPairs
<1>2. Place(R, Positions(x), p) = Rank(x, p)
  <2>1. { q \in Positions(x) : << q, p >> \in R } = { q \in Positions(x) : SuffixLess(x, q, p) }
    BY <1>1
  <2> QED
    BY <2>1 DEF Place, Rank
<1>3. /\ \A q \in Positions(x) : ~SuffixLess(x, q, q)
      /\ \A q, r, t \in Positions(x) :
           SuffixLess(x, q, r) /\ SuffixLess(x, r, t) => SuffixLess(x, q, t)
      /\ \A q, r \in Positions(x) : Before(BucketOf(x, q), BucketOf(x, r)) => SuffixLess(x, q, r)
  BY LessOrder, BucketFacts
<1> HIDE DEF R
<1>4. /\ \A q \in Positions(x) : << q, q >> \notin R
      /\ \A q, r \in Positions(x) : Before(BucketOf(x, q), BucketOf(x, r)) => << q, r >> \in R
      /\ \A q, r \in Positions(x) : << q, r >> \in R => ~Before(BucketOf(x, r), BucketOf(x, q))
  BY <1>1, <1>3
<1>5. Place(R, Positions(x), p) \in CellsOf(x, BucketOf(x, p))
  BY <1>4, OwnCells
<1> QED
  BY <1>2, <1>5

-----------------------------------------------------------------------------
(* Arrays of suffixes *)

\* Every suffix once, in the cells of its bucket.
InOwnBuckets(x, a) ==
  /\ a \in [Positions(x) -> Positions(x)]
  /\ \A c, d \in Positions(x) : a[c] = a[d] => c = d
  /\ \A c \in Positions(x) : c \in CellsOf(x, BucketOf(x, a[c]))

\* The cells from l to e - 1 have the suffixes that belong there, in any order.
Spans(x, a, l, e) == { Rank(x, a[c]) : c \in l .. e - 1 } = l .. e - 1

LEMMA PresortedFacts ==
  ASSUME NEW x, TextInv(x)
  PROVE  InOwnBuckets(x, Presorted(x))
<1> DEFINE T == Positions(x)
           earlier(p, q) == \/ Before(BucketOf(x, p), BucketOf(x, q))
                            \/ BucketOf(x, p) = BucketOf(x, q) /\ p < q
           count(p) == Cardinality({ q \in T : earlier(q, p) })
           R == { pq \in T \X T : earlier(pq[1], pq[2]) }
<1>1. Len(x) \in Nat \ {0} /\ T = 0 .. Len(x) - 1 /\ K \in Nat
  BY DEF TextInv
<1>2. IsFiniteSet(T) /\ Cardinality(T) = Len(x) /\ \A p \in T : BucketOf(x, p) \in Buckets
  BY PositionsFinite, BucketFacts
<1>3. \A p, q \in T : << p, q >> \in R <=>
        \/ Before(BucketOf(x, p), BucketOf(x, q))
        \/ BucketOf(x, p) = BucketOf(x, q) /\ p < q
  OBVIOUS
<1>4. /\ \A b \in Buckets : ~Before(b, b)
      /\ \A b, d, e \in Buckets : Before(b, d) /\ Before(d, e) => Before(b, e)
      /\ \A b, d \in Buckets : b # d => Before(b, d) \/ Before(d, b)
  BY <1>1, BeforeOrder
<1>5. \A p \in T : Place(R, T, p) = count(p)
  <2> TAKE p \in T
  <2>1. { q \in T : << q, p >> \in R } = { q \in T : earlier(q, p) }
    OBVIOUS
  <2> HIDE DEF R
  <2> QED
    BY <2>1 DEF Place
<1> HIDE DEF R
<1>6. Orders(R, T)
  <2>1. \A p \in T : << p, p >> \notin R
    BY <1>1, <1>2, <1>3, <1>4
  <2>2. \A p, q, r \in T : << p, q >> \in R /\ << q, r >> \in R => << p, r >> \in R
    <3> SUFFICES ASSUME NEW p \in T, NEW q \in T, NEW r \in T, << p, q >> \in R, << q, r >> \in R
                 PROVE  << p, r >> \in R
      OBVIOUS
    <3>1. BucketOf(x, p) \in Buckets /\ BucketOf(x, q) \in Buckets /\ BucketOf(x, r) \in Buckets
      BY <1>2
    <3>2. CASE BucketOf(x, p) = BucketOf(x, q) /\ BucketOf(x, q) = BucketOf(x, r)
      <4>1. p < q /\ q < r
        BY <1>3, <1>4, <3>1, <3>2
      <4> QED
        BY <1>1, <1>3, <3>2, <4>1
    <3>3. CASE ~(BucketOf(x, p) = BucketOf(x, q) /\ BucketOf(x, q) = BucketOf(x, r))
      BY <1>3, <1>4, <3>1, <3>3
    <3> QED
      BY <3>2, <3>3
  <2>3. \A p, q \in T : p # q => << p, q >> \in R \/ << q, p >> \in R
    <3> SUFFICES ASSUME NEW p \in T, NEW q \in T, p # q PROVE << p, q >> \in R \/ << q, p >> \in R
      OBVIOUS
    <3>1. BucketOf(x, p) \in Buckets /\ BucketOf(x, q) \in Buckets /\ (p < q \/ q < p)
      BY <1>1, <1>2
    <3> QED
      BY <1>3, <1>4, <3>1
  <2> QED
    BY <2>1, <2>2, <2>3 DEF Orders
<1>7. /\ \A p \in T : Place(R, T, p) \in 0 .. Cardinality(T) - 1
      /\ \A p, q \in T : Place(R, T, p) = Place(R, T, q) => p = q
      /\ \A k \in 0 .. Cardinality(T) - 1 : \E p \in T : Place(R, T, p) = k
  BY <1>2, <1>6, OrderPlaces
<1>8. ASSUME NEW c \in T PROVE Presorted(x)[c] \in T /\ Place(R, T, Presorted(x)[c]) = c
  <2>1. Presorted(x)[c] = CHOOSE q \in T : c = count(q)
    BY DEF Presorted
  <2> HIDE DEF count
  <2>2. \E q \in T : c = count(q)
    <3>1. c \in 0 .. Cardinality(T) - 1
      BY <1>1, <1>2
    <3>2. PICK q \in T : Place(R, T, q) = c
      BY <1>7, <3>1
    <3> QED
      BY <1>5, <3>2
  <2>3. Presorted(x)[c] \in T /\ count(Presorted(x)[c]) = c
    BY <2>1, <2>2
  <2> QED
    BY <1>5, <2>3
<1>9. Presorted(x) \in [T -> T]
  <2>1. Presorted(x) = [ c \in T |-> Presorted(x)[c] ]
    BY DEF Presorted
  <2> QED
    BY <1>8, <2>1
<1>10. \A c \in T : c \in CellsOf(x, BucketOf(x, Presorted(x)[c]))
  <2>1. /\ \A p \in T : << p, p >> \notin R
        /\ \A p, q \in T : Before(BucketOf(x, p), BucketOf(x, q)) => << p, q >> \in R
    BY <1>3, <1>6 DEF Orders
  <2>2. \A p, q \in T : << p, q >> \in R => ~Before(BucketOf(x, q), BucketOf(x, p))
    BY <1>2, <1>3, <1>4
  <2>3. \A p \in T : Place(R, T, p) \in CellsOf(x, BucketOf(x, p))
    BY <2>1, <2>2, OwnCells
  <2> QED
    BY <1>8, <2>3
<1>11. \A c, d \in T : Presorted(x)[c] = Presorted(x)[d] => c = d
  BY <1>8
<1> QED
  BY <1>9, <1>10, <1>11 DEF InOwnBuckets

\* A bucket's cells have the bucket's suffixes.
LEMMA BucketSpans ==
  ASSUME NEW x, TextInv(x), NEW a, InOwnBuckets(x, a), NEW b \in Buckets
  PROVE  /\ \A c \in Positions(x) : c \in CellsOf(x, b) <=> BucketOf(x, a[c]) = b
         /\ Spans(x, a, start_of_bucket(x, b), end_of_bucket(x, b))
         /\ { a[c] : c \in CellsOf(x, b) } = { p \in Positions(x) : BucketOf(x, p) = b }
<1> DEFINE T == CellsOf(x, b)
           l == start_of_bucket(x, b)
           e == end_of_bucket(x, b)
<1>1. /\ a \in [Positions(x) -> Positions(x)]
      /\ \A c, d \in Positions(x) : a[c] = a[d] => c = d
      /\ \A c \in Positions(x) : c \in CellsOf(x, BucketOf(x, a[c]))
  BY DEF InOwnBuckets
<1>2. l \in Nat /\ e \in Nat /\ l <= e /\ T \subseteq Positions(x) /\ T = l .. e - 1
  BY CellsFacts DEF CellsOf
<1>3. \A p \in Positions(x) : BucketOf(x, p) \in Buckets /\ Rank(x, p) \in CellsOf(x, BucketOf(x, p))
  BY BucketFacts, RankInBucket
<1>4. \A c \in Positions(x) : c \in T <=> BucketOf(x, a[c]) = b
  BY <1>1, <1>3, CellsApart
<1>5. \A p, q \in Positions(x) : Rank(x, p) = Rank(x, q) => p = q
  BY RankFacts
<1>6. IsFiniteSet(T) /\ Cardinality(T) = e - l
  <2>1. l \in Int /\ e - 1 \in Int
    BY <1>2
  <2>2. IsFiniteSet(l .. e - 1) /\ Cardinality(l .. e - 1) = IF l > e - 1 THEN 0 ELSE (e - 1) - l + 1
    BY <2>1, FS_Interval
  <2> QED
    BY <1>2, <2>2
<1> HIDE DEF T, l, e
<1>7. \A c \in T : a[c] \in Positions(x) /\ Rank(x, a[c]) \in T
  BY <1>1, <1>2, <1>3, <1>4 DEF T
<1>8. \A k \in T : \E c \in T : Rank(x, a[c]) = k
  <2> DEFINE f == [ c \in T |-> Rank(x, a[c]) ]
  <2>1. l .. l + Cardinality(T) - 1 = T
    BY <1>2, <1>6
  <2>2. f \in [T -> l .. l + Cardinality(T) - 1]
    BY <1>7, <2>1
  <2>3. \A c, d \in T : f[c] = f[d] => c = d
    BY <1>1, <1>2, <1>5, <1>7
  <2> HIDE DEF f
  <2>4. l \in Nat /\ IsFiniteSet(T)
    BY <1>2, <1>6
  <2>5. \A k \in l .. l + Cardinality(T) - 1 : \E c \in T : f[c] = k
    BY <2>2, <2>3, <2>4, FillsRange
  <2> QED
    BY <2>1, <2>5 DEF f
<1>9. Spans(x, a, l, e)
  BY <1>2, <1>7, <1>8 DEF Spans
<1>10. { a[c] : c \in T } = { p \in Positions(x) : BucketOf(x, p) = b }
  <2>1. \A c \in T : c \in Positions(x) /\ a[c] \in Positions(x) /\ BucketOf(x, a[c]) = b
    BY <1>2, <1>4, <1>7
  <2>2. ASSUME NEW p \in Positions(x), BucketOf(x, p) = b PROVE \E c \in T : a[c] = p
    <3>1. Rank(x, p) \in T
      BY <1>3, <2>2 DEF T
    <3>2. PICK c \in T : Rank(x, a[c]) = Rank(x, p)
      BY <1>8, <3>1
    <3> QED
      BY <1>5, <1>7, <3>2
  <2> QED
    BY <2>1, <2>2
<1> QED
  BY <1>4, <1>9, <1>10 DEF T, l, e

\* Rearranging cells of one bucket keeps every suffix in its bucket's.
LEMMA Permuted ==
  ASSUME NEW x, TextInv(x), NEW a, InOwnBuckets(x, a), NEW b \in Buckets,
         NEW C, C \subseteq CellsOf(x, b), NEW new,
         new \in [Positions(x) -> Positions(x)],
         \A c \in Positions(x) \ C : new[c] = a[c],
         \A c \in C : \E d \in C : new[c] = a[d],
         \A c, d \in C : new[c] = new[d] => c = d
  PROVE  InOwnBuckets(x, new)
<1>1. /\ a \in [Positions(x) -> Positions(x)]
      /\ \A c, d \in Positions(x) : a[c] = a[d] => c = d
      /\ \A c \in Positions(x) : c \in CellsOf(x, BucketOf(x, a[c]))
  BY DEF InOwnBuckets
<1>2. C \subseteq Positions(x)
  BY CellsFacts
<1>3. \A c \in Positions(x) : c \in CellsOf(x, b) <=> BucketOf(x, a[c]) = b
  BY BucketSpans
<1>4. ASSUME NEW c \in Positions(x) PROVE c \in CellsOf(x, BucketOf(x, new[c]))
  <2>1. CASE c \in C
    <3>1. PICK d \in C : new[c] = a[d]
      BY <2>1
    <3> QED
      BY <1>2, <1>3, <2>1, <3>1
  <2>2. CASE c \notin C
    BY <1>1, <2>2
  <2> QED
    BY <2>1, <2>2
<1>5. ASSUME NEW c \in Positions(x), NEW d \in Positions(x), new[c] = new[d] PROVE c = d
  <2>1. \A i \in C : \A j \in Positions(x) \ C : new[i] # new[j]
    <3> SUFFICES ASSUME NEW i \in C, NEW j \in Positions(x) \ C, new[i] = new[j] PROVE FALSE
      OBVIOUS
    <3>1. PICK k \in C : new[i] = a[k]
      OBVIOUS
    <3> QED
      BY <1>1, <1>2, <3>1
  <2> QED
    BY <1>1, <1>5, <2>1
<1> QED
  BY <1>4, <1>5 DEF InOwnBuckets

\* Cells that have the right suffixes have them in the right order afterwards.
LEMMA SortedInFacts ==
  ASSUME NEW x, TextInv(x), NEW a, a \in [Positions(x) -> Positions(x)],
         NEW l \in Nat, NEW e \in Nat, l .. e - 1 \subseteq Positions(x), Spans(x, a, l, e)
  PROVE  /\ SortedIn(x, a, l .. e - 1) \in [Positions(x) -> Positions(x)]
         /\ \A c \in l .. e - 1 : /\ Rank(x, SortedIn(x, a, l .. e - 1)[c]) = c
                                  /\ \E d \in l .. e - 1 : SortedIn(x, a, l .. e - 1)[c] = a[d]
         /\ \A c \in Positions(x) \ (l .. e - 1) : SortedIn(x, a, l .. e - 1)[c] = a[c]
<1> DEFINE C == l .. e - 1
           new == SortedIn(x, a, C)
           members == { a[c] : c \in C }
           first == CHOOSE c \in C : \A d \in C : c <= d
           rank(p) == Cardinality({ q \in members : SuffixLess(x, q, p) })
<1>1. new = [ c \in Positions(x) |->
                IF c \in C THEN CHOOSE p \in members : rank(p) = c - first ELSE a[c] ]
  BY DEF SortedIn
<1>2. /\ \A p \in Positions(x) : Rank(x, p) \in Positions(x)
      /\ \A p, q \in Positions(x) : SuffixLess(x, p, q) <=> Rank(x, p) < Rank(x, q)
      /\ \A p, q \in Positions(x) : Rank(x, p) = Rank(x, q) => p = q
      /\ \A c \in Positions(x) : \E p \in Positions(x) : Rank(x, p) = c
  BY RankFacts
<1>3. Len(x) \in Nat /\ Positions(x) = 0 .. Len(x) - 1
  BY DEF TextInv
<1>4. /\ members \subseteq Positions(x)
      /\ \A p \in members : Rank(x, p) \in C
      /\ \A c \in C : \E p \in members : Rank(x, p) = c
  BY DEF Spans
<1>5. \A p \in Positions(x) : Rank(x, p) \in C => p \in members
  BY <1>2, <1>4
<1>6. ASSUME C # {} PROVE first = l
  <2>1. l \in C /\ \A d \in C : l <= d
    BY <1>6
  <2>2. \A c \in C : (\A d \in C : c <= d) => c = l
    BY <2>1
  <2> QED
    BY <2>1, <2>2
<1> HIDE DEF new, members, first
<1>7. ASSUME NEW p \in members PROVE rank(p) = Rank(x, p) - l
  <2>1. p \in Positions(x) /\ Rank(x, p) \in C /\ l \in C
    <3>1. p \in Positions(x) /\ Rank(x, p) \in C
      BY <1>4
    <3> QED
      BY <3>1
  <2>2. PICK u \in Positions(x) : Rank(x, u) = l
    BY <1>2, <2>1
  <2> DEFINE below == { q \in Positions(x) : SuffixLess(x, q, p) }
             low == { q \in Positions(x) : SuffixLess(x, q, u) }
             between == { q \in members : SuffixLess(x, q, p) }
  <2>3. below \cap low = low
    <3> SUFFICES ASSUME NEW q \in Positions(x), SuffixLess(x, q, u) PROVE SuffixLess(x, q, p)
      OBVIOUS
    <3>1. /\ Rank(x, q) < Rank(x, u) /\ Rank(x, u) <= Rank(x, p) /\ Rank(x, q) \in Nat
          /\ Rank(x, u) \in Nat /\ Rank(x, p) \in Nat
      BY <1>2, <1>3, <2>1, <2>2
    <3>2. Rank(x, q) < Rank(x, p)
      BY <3>1
    <3> QED
      BY <1>2, <2>1, <3>2
  <2>4. between = below \ low
    <3>1. ASSUME NEW q \in Positions(x), SuffixLess(x, q, p)
          PROVE  q \in members <=> ~SuffixLess(x, q, u)
      <4>1. Rank(x, q) < Rank(x, p) /\ Rank(x, q) \in Nat /\ Rank(x, p) \in Nat
        BY <1>2, <1>3, <2>1, <3>1
      <4>2. Rank(x, q) \in C <=> ~(Rank(x, q) < l)
        BY <2>1, <4>1
      <4>3. Rank(x, q) \in C <=> ~SuffixLess(x, q, u)
        BY <1>2, <2>2, <4>2
      <4> QED
        BY <1>4, <1>5, <4>3
    <3> QED
      BY <1>4, <3>1
  <2>5. Rank(x, p) = Cardinality(below) /\ Rank(x, u) = Cardinality(low)
    BY DEF Rank
  <2>6. IsFiniteSet(Positions(x)) /\ below \subseteq Positions(x)
    BY PositionsFinite
  <2> HIDE DEF below, low, between
  <2>7. IsFiniteSet(below)
    BY <2>6, FS_Subset
  <2>8. Cardinality(between) = Cardinality(below) - Cardinality(low)
    BY <2>3, <2>4, <2>7, FS_Difference
  <2> QED
    BY <2>2, <2>5, <2>8 DEF between
<1> HIDE DEF rank
<1>8. ASSUME NEW c \in C PROVE new[c] \in members /\ Rank(x, new[c]) = c
  <2>1. first = l /\ c \in Positions(x) /\ c \in Nat
    BY <1>3, <1>6
  <2>2. PICK p \in members : Rank(x, p) = c
    BY <1>4
  <2>3. rank(p) = c - first
    BY <1>7, <2>1, <2>2
  <2>4. new[c] = CHOOSE q \in members : rank(q) = c - first
    BY <1>1, <2>1
  <2>5. new[c] \in members /\ rank(new[c]) = c - first
    BY <2>3, <2>4
  <2>6. Rank(x, new[c]) - l = c - l /\ Rank(x, new[c]) \in Nat
    <3>1. Rank(x, new[c]) \in C
      BY <1>4, <2>5
    <3>2. rank(new[c]) = Rank(x, new[c]) - l
      BY <1>7, <2>5
    <3> QED
      BY <2>1, <2>5, <3>1, <3>2
  <2> QED
    BY <2>1, <2>5, <2>6
<1>9. \A c \in Positions(x) \ C : new[c] = a[c]
  BY <1>1
<1>10. new \in [Positions(x) -> Positions(x)]
  <2>1. \A c \in Positions(x) : new[c] \in Positions(x)
    BY <1>4, <1>8, <1>9
  <2>2. new = [ c \in Positions(x) |-> new[c] ]
    BY <1>1
  <2> QED
    BY <2>1, <2>2
<1>11. \A c \in C : Rank(x, new[c]) = c /\ \E d \in C : new[c] = a[d]
  BY <1>8 DEF members
<1> QED
  BY <1>9, <1>10, <1>11 DEF new

\* The ranks determine the suffix array.
LEMMA IsSuffixArray ==
  ASSUME NEW x, TextInv(x), NEW a, a \in [Positions(x) -> Positions(x)],
         \A c \in Positions(x) : Rank(x, a[c]) = c
  PROVE  a = SuffixArray(x)
<1>1. \A p, q \in Positions(x) : Rank(x, p) = Rank(x, q) => p = q
  BY RankFacts
<1>2. ASSUME NEW c \in Positions(x) PROVE a[c] = CHOOSE p \in Positions(x) : Rank(x, p) = c
  <2>1. a[c] \in Positions(x) /\ Rank(x, a[c]) = c
    OBVIOUS
  <2>2. \A p \in Positions(x) : Rank(x, p) = c => p = a[c]
    BY <1>1, <2>1
  <2> QED
    BY <2>1, <2>2
<1> QED
  BY <1>2 DEF SuffixArray


\* Sorting all cells of the array that bucketsort has not touched gives ranks.
LEMMA WholeSorted ==
  ASSUME NEW x, TextInv(x), NEW a, a = [ c \in Positions(x) |-> c ]
  PROVE  /\ SortedIn(x, a, Positions(x)) \in [ Positions(x) -> Positions(x) ]
         /\ \A c \in Positions(x) : Rank(x, SortedIn(x, a, Positions(x))[c]) = c
<1> DEFINE m == Len(x)
<1>1. m \in Nat /\ Positions(x) = 0 .. m - 1 /\ 0 \in Nat
  BY DEF TextInv
<1>2. Spans(x, a, 0, m)
  <2>1. \A c \in 0 .. m - 1 : a[c] = c
    BY <1>1
  <2>2. { Rank(x, a[c]) : c \in 0 .. m - 1 } = { Rank(x, c) : c \in 0 .. m - 1 }
    BY <2>1
  <2>3. /\ \A c \in 0 .. m - 1 : Rank(x, c) \in 0 .. m - 1
        /\ \A c \in 0 .. m - 1 : \E p \in 0 .. m - 1 : Rank(x, p) = c
    BY <1>1, RankFacts
  <2>4. { Rank(x, c) : c \in 0 .. m - 1 } = 0 .. m - 1
    BY <2>3
  <2> QED
    BY <2>2, <2>4 DEF Spans
<1>3. a \in [ Positions(x) -> Positions(x) ] /\ 0 .. m - 1 \subseteq Positions(x)
  BY <1>1
<1> HIDE DEF m
<1>4. /\ SortedIn(x, a, 0 .. m - 1) \in [ Positions(x) -> Positions(x) ]
      /\ \A c \in 0 .. m - 1 : Rank(x, SortedIn(x, a, 0 .. m - 1)[c]) = c
  <2> DEFINE l == 0
             new == SortedIn(x, a, l .. m - 1)
  <2>1. /\ TextInv(x) /\ m \in Nat /\ l \in Nat
        /\ a \in [ Positions(x) -> Positions(x) ]
        /\ l .. m - 1 \subseteq Positions(x) /\ Spans(x, a, l, m)
    BY <1>1, <1>2, <1>3
  <2> HIDE DEF l
  <2>2. new \in [ Positions(x) -> Positions(x) ] /\ \A c \in l .. m - 1 : Rank(x, new[c]) = c
    BY ONLY <2>1, SortedInFacts
  <2> QED
    BY <2>2 DEF l
<1> QED
  BY <1>1, <1>4

\* Sorting a bucket's cells puts its suffixes in their final places.
LEMMA BucketSorted ==
  ASSUME NEW x, TextInv(x), NEW a, InOwnBuckets(x, a), NEW b \in Buckets
  PROVE  /\ InOwnBuckets(x, SortedIn(x, a, CellsOf(x, b)))
         /\ \A c \in CellsOf(x, b) : Rank(x, SortedIn(x, a, CellsOf(x, b))[c]) = c
         /\ \A c \in Positions(x) \ CellsOf(x, b) : SortedIn(x, a, CellsOf(x, b))[c] = a[c]
<1> DEFINE l == start_of_bucket(x, b)
           e == end_of_bucket(x, b)
           new == SortedIn(x, a, l .. e - 1)
<1>1. /\ l \in Nat /\ e \in Nat /\ CellsOf(x, b) = l .. e - 1
      /\ l .. e - 1 \subseteq Positions(x)
  BY CellsFacts DEF CellsOf
<1>2. Spans(x, a, l, e) /\ a \in [ Positions(x) -> Positions(x) ]
  BY BucketSpans DEF InOwnBuckets
<1> HIDE DEF l, e
<1>3. /\ new \in [ Positions(x) -> Positions(x) ]
      /\ \A c \in l .. e - 1 : Rank(x, new[c]) = c /\ \E d \in l .. e - 1 : new[c] = a[d]
      /\ \A c \in Positions(x) \ (l .. e - 1) : new[c] = a[c]
  BY <1>1, <1>2, SortedInFacts
<1> HIDE DEF new
<1>4. \A c, d \in l .. e - 1 : new[c] = new[d] => c = d
  BY <1>3
<1>5. InOwnBuckets(x, new)
  <2> DEFINE C == l .. e - 1
  <2>1. C \subseteq CellsOf(x, b)
    BY <1>1
  <2>2. /\ \A c \in Positions(x) \ C : new[c] = a[c]
        /\ \A c \in C : \E d \in C : new[c] = a[d]
        /\ \A c, d \in C : new[c] = new[d] => c = d
    BY <1>3, <1>4
  <2> HIDE DEF C
  <2> QED
    BY <1>3, <2>1, <2>2, Permuted
<1> QED
  BY <1>1, <1>3, <1>5 DEF new

\* A bucket of one suffix is sorted once the suffix is there.
LEMMA SmallBucketSorted ==
  ASSUME NEW x, TextInv(x), NEW a, InOwnBuckets(x, a), NEW b \in Buckets,
         size_of_bucket(x, b) < 2, NEW c \in CellsOf(x, b)
  PROVE  Rank(x, a[c]) = c
<1> DEFINE l == start_of_bucket(x, b)
           e == end_of_bucket(x, b)
<1>1. l \in Nat /\ e \in Nat /\ CellsOf(x, b) = l .. e - 1 /\ e - l < 2
  BY CellsFacts DEF CellsOf, size_of_bucket
<1>2. Spans(x, a, l, e)
  BY BucketSpans
<1> HIDE DEF l, e
<1>3. c \in l .. e - 1 /\ \A k \in l .. e - 1 : k = c
  BY <1>1
<1>4. Rank(x, a[c]) \in l .. e - 1
  BY <1>2, <1>3 DEF Spans
<1> QED
  BY <1>3, <1>4

=============================================================================
