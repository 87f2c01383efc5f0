-------------------------- MODULE DeepShallow_proofs --------------------------
(***************************************************************************)
(* Theorems about DeepShallow, for every text, alphabet, segment length    *)
(* and depth of shallow_sort: direct and induced sorting together give the *)
(* suffix array, and no bucket that is sorted is changed again.            *)
(***************************************************************************)
EXTENDS DeepShallow, DeepShallowData_proofs

-----------------------------------------------------------------------------
(* Common prefixes *)

LEMMA AgreeFacts ==
  ASSUME TextInv(s)
  PROVE  /\ \A p, q, d : Agree(p, q, d) => Agree(q, p, d)
         /\ \A p, q, r, d : Agree(p, q, d) /\ Agree(q, r, d) => Agree(p, r, d)
         /\ \A p, q : \A d \in Nat : Agree(p, q, d + 1) => Agree(p, q, d)
<1>1. \A p, q, d : Agree(p, q, d) => Agree(q, p, d)
  BY DEF Agree
<1>2. \A p, q, r, d : Agree(p, q, d) /\ Agree(q, r, d) => Agree(p, r, d)
  BY DEF Agree
<1>3. \A p, q : \A d \in Nat : Agree(p, q, d + 1) => Agree(p, q, d)
  <2>1. \A d \in Nat : 0 .. d - 1 \subseteq 0 .. (d + 1) - 1
    OBVIOUS
  <2> QED
    BY <2>1 DEF Agree
<1> QED
  BY <1>1, <1>2, <1>3

\* What lies between two suffixes with a common prefix has that prefix.
LEMMA AgreeBetween ==
  ASSUME TextInv(s), NEW p \in Positions(s), NEW q \in Positions(s), NEW r \in Positions(s),
         NEW d \in Nat, Agree(p, r, d), SuffixLess(s, p, q), SuffixLess(s, q, r)
  PROVE  Agree(p, q, d)
<1>1. Len(s) \in Nat /\ n = Len(s) /\ Positions(s) = 0 .. Len(s) - 1 /\ K \in Nat
      /\ \A i \in 0 .. Len(s) - 1 : At(s, i) \in 0 .. K - 1
  BY DEF TextInv, n
<1>2. p # q
  BY LessOrder
<1>3. PICK k \in Nat : DiffersAt(s, p, q, k)
  BY <1>2, FirstDifference
<1>4. /\ p + k < n /\ q + k < n /\ At(s, p + k) # At(s, q + k)
      /\ \A j \in 0 .. k - 1 : At(s, p + j) = At(s, q + j)
  BY <1>1, <1>3 DEF DiffersAt
<1>5. At(s, p + k) < At(s, q + k)
  BY <1>3, LessAtDifference
<1>6. CASE k < d
  <2>1. k \in 0 .. d - 1 /\ \A j \in 0 .. k - 1 : j \in 0 .. d - 1
    BY <1>6
  <2>2. r + k < n /\ At(s, p + k) = At(s, r + k) /\ \A j \in 0 .. k - 1 : At(s, p + j) = At(s, r + j)
    BY <2>1 DEF Agree
  <2>3. DiffersAt(s, q, r, k)
    BY <1>1, <1>4, <2>2 DEF DiffersAt
  <2>4. At(s, q + k) < At(s, r + k)
    BY <2>3, LessAtDifference
  <2>5. At(s, p + k) \in Nat /\ At(s, q + k) \in Nat
    <3>1. p + k \in 0 .. Len(s) - 1 /\ q + k \in 0 .. Len(s) - 1
      BY <1>1, <1>4
    <3> QED
      BY <1>1, <3>1
  <2> QED
    BY <1>5, <2>2, <2>4, <2>5
<1>7. CASE ~(k < d)
  <2> SUFFICES ASSUME NEW j \in 0 .. d - 1
               PROVE  p + j < n /\ q + j < n /\ At(s, p + j) = At(s, q + j)
    BY DEF Agree
  <2>1. j < k /\ j \in 0 .. k - 1
    BY <1>7
  <2>2. p + j < n /\ q + j < n
    BY <1>1, <1>4, <2>1
  <2> QED
    BY <1>4, <2>1, <2>2
<1> QED
  BY <1>6, <1>7

\* Suffixes with a common prefix are in the order of the suffixes in it.
LEMMA AgreeShift ==
  ASSUME TextInv(s), NEW p \in Positions(s), NEW q \in Positions(s), NEW d \in Nat,
         Agree(p, q, d), NEW r \in 0 .. d - 1, SuffixLess(s, p + r, q + r)
  PROVE  SuffixLess(s, p, q)
<1>1. Len(s) \in Nat /\ n = Len(s) /\ Positions(s) = 0 .. Len(s) - 1
  BY DEF TextInv, n
<1>2. PICK k \in 0 .. Len(s) - 1 :
         /\ (p + r) + k < Len(s) /\ (q + r) + k < Len(s)
         /\ At(s, (p + r) + k) < At(s, (q + r) + k)
         /\ \A j \in 0 .. k - 1 : At(s, (p + r) + j) = At(s, (q + r) + j)
  BY DEF SuffixLess
<1>3. (p + r) + k = p + (r + k) /\ (q + r) + k = q + (r + k) /\ r + k \in 0 .. Len(s) - 1
  BY <1>1, <1>2
<1>4. ASSUME NEW j \in 0 .. (r + k) - 1 PROVE At(s, p + j) = At(s, q + j)
  <2>1. CASE j < d
    <3>1. j \in 0 .. d - 1
      BY <1>1, <1>2, <2>1
    <3> QED
      BY <3>1 DEF Agree
  <2>2. CASE ~(j < d)
    <3>1. /\ j - r \in 0 .. k - 1 /\ (p + r) + (j - r) = p + j /\ (q + r) + (j - r) = q + j
      BY <1>1, <1>2, <2>2
    <3>2. At(s, (p + r) + (j - r)) = At(s, (q + r) + (j - r))
      BY <1>2, <3>1
    <3> QED
      BY <3>1, <3>2
  <2> QED
    BY <2>1, <2>2
<1> QED
  BY <1>2, <1>3, <1>4 DEF SuffixLess

-----------------------------------------------------------------------------
(* The groups of shallow_sort *)

\* A partition of M into sets that agree in d characters and in which nothing
\* of M is left out between two members.
Groups(M, partition, d) ==
  /\ \A C \in partition : C \subseteq M /\ C # {}
  /\ \A p \in M : \E C \in partition : p \in C
  /\ \A C, D \in partition : \A p \in C : p \in D => C = D
  /\ \A C \in partition : \A p, q \in C : p = q \/ Agree(p, q, d)
  /\ \A C \in partition : \A p, r \in C : \A q \in M :
       SuffixLess(s, p, q) /\ SuffixLess(s, q, r) => q \in C

LEMMA ClassesAreGroups ==
  ASSUME TextInv(s), NEW M, M \subseteq Positions(s), NEW d \in Nat
  PROVE  Groups(M, Classes(M, d), d)
<1>1. /\ \A p, q : Agree(p, q, d) => Agree(q, p, d)
      /\ \A p, q, r : Agree(p, q, d) /\ Agree(q, r, d) => Agree(p, r, d)
  BY AgreeFacts
<1>2. \A p, q : q \in Class(M, p, d) <=> q \in M /\ (q = p \/ Agree(p, q, d))
  BY DEF Class
<1>3. \A C \in Classes(M, d) : \E p \in M : C = Class(M, p, d)
  BY DEF Classes
<1>4. \A p \in M : Class(M, p, d) \in Classes(M, d)
  BY DEF Classes
<1>5. ASSUME NEW p \in M, NEW q \in M, NEW t, t \in Class(M, p, d), t \in Class(M, q, d)
      PROVE  Class(M, p, d) = Class(M, q, d)
  <2>1. \A r : r \in Class(M, p, d) <=> r \in Class(M, q, d)
    BY <1>1, <1>2, <1>5
  <2>2. Class(M, p, d) \subseteq M /\ Class(M, q, d) \subseteq M
    BY <1>2
  <2> QED
    BY <2>1
<1>6. ASSUME NEW p \in M, NEW q \in Class(M, p, d), NEW r \in Class(M, p, d), NEW t \in M,
             SuffixLess(s, q, t), SuffixLess(s, t, r)
      PROVE  t \in Class(M, p, d)
  <2>1. q \in M /\ r \in M /\ q \in Positions(s) /\ r \in Positions(s) /\ t \in Positions(s)
    BY <1>2
  <2>2. q # r
    BY <1>6, <2>1, LessOrder
  <2>3. Agree(q, r, d)
    BY <1>1, <1>2, <2>2
  <2>4. Agree(q, t, d)
    BY <1>6, <2>1, <2>3, AgreeBetween
  <2> QED
    BY <1>1, <1>2, <2>4
<1>7. \A C \in Classes(M, d) : C \subseteq M /\ C # {}
  BY <1>2, <1>3
<1>8. \A p \in M : \E C \in Classes(M, d) : p \in C
  BY <1>2, <1>4
<1>9. \A C, D \in Classes(M, d) : \A p \in C : p \in D => C = D
  BY <1>3, <1>5
<1>10. \A C \in Classes(M, d) : \A p, q \in C : p = q \/ Agree(p, q, d)
  BY <1>1, <1>2, <1>3
<1>11. \A C \in Classes(M, d) : \A p, r \in C : \A q \in M :
         SuffixLess(s, p, q) /\ SuffixLess(s, q, r) => q \in C
  BY <1>3, <1>6
<1> QED
  BY <1>7, <1>8, <1>9, <1>10, <1>11 DEF Groups

\* Whichever classes multikey quicksort leaves alone.
LEMMA PossibleGroups ==
  ASSUME TextInv(s), NEW M, M \subseteq Positions(s), NEW partition \in GroupsPossible(M)
  PROVE  Groups(M, partition, DeepSortDepth)
<1> DEFINE d == DeepSortDepth
           together == Classes(M, d)
<1>1. d \in Nat /\ d + 1 \in Nat
  BY DepthAssumption
<1>2. PICK alone \in SUBSET together :
        partition = (together \ alone) \cup UNION { Classes(C, d + 1) : C \in alone }
  BY DEF GroupsPossible
<1>3. Groups(M, together, d)
  BY <1>1, ClassesAreGroups
<1>4. \A A \in alone : A \in together /\ A \subseteq M
  BY <1>3 DEF Groups
<1>5. ASSUME NEW A \in alone PROVE Groups(A, Classes(A, d + 1), d + 1)
  BY <1>1, <1>4, ClassesAreGroups
<1>6. \A C : C \in partition <=>
        (C \in together /\ C \notin alone) \/ (\E A \in alone : C \in Classes(A, d + 1))
  BY <1>2
<1>7. \A p, q : Agree(p, q, d + 1) => Agree(p, q, d)
  BY <1>1, AgreeFacts
<1> HIDE DEF together, d
<1>8. ASSUME NEW C \in partition
      PROVE  \E A \in together : C \subseteq A /\ (C = A \/ A \in alone)
  <2>1. CASE C \in together /\ C \notin alone
    BY <2>1
  <2>2. CASE \E A \in alone : C \in Classes(A, d + 1)
    <3>1. PICK A \in alone : C \in Classes(A, d + 1)
      BY <2>2
    <3>2. C \subseteq A
      BY <1>5, <3>1 DEF Groups
    <3> QED
      BY <1>4, <3>1, <3>2
  <2> QED
    BY <1>6, <2>1, <2>2
<1>9. \A C \in partition : C \subseteq M /\ C # {}
  <2> SUFFICES ASSUME NEW C \in partition PROVE C \subseteq M /\ C # {}
    OBVIOUS
  <2>1. CASE C \in together /\ C \notin alone
    BY <1>3, <2>1 DEF Groups
  <2>2. CASE \E A \in alone : C \in Classes(A, d + 1)
    <3>1. PICK A \in alone : C \in Classes(A, d + 1)
      BY <2>2
    <3>2. C \subseteq A /\ C # {}
      BY <1>5, <3>1 DEF Groups
    <3> QED
      BY <1>4, <3>1, <3>2
  <2> QED
    BY <1>6, <2>1, <2>2
<1>10. ASSUME NEW p \in M PROVE \E C \in partition : p \in C
  <2>1. PICK A \in together : p \in A
    BY <1>3 DEF Groups
  <2>2. CASE A \in alone
    <3>1. PICK C \in Classes(A, d + 1) : p \in C
      BY <1>5, <2>1, <2>2 DEF Groups
    <3> QED
      BY <1>6, <2>2, <3>1
  <2>3. CASE A \notin alone
    BY <1>6, <2>1, <2>3
  <2> QED
    BY <2>2, <2>3
<1>11. ASSUME NEW C \in partition, NEW D \in partition, NEW p \in C, p \in D PROVE C = D
  <2>1. PICK A \in together : C \subseteq A /\ (C = A \/ A \in alone)
    BY <1>8
  <2>2. PICK B \in together : D \subseteq B /\ (D = B \/ B \in alone)
    BY <1>8
  <2>3. A = B
    BY <1>3, <1>11, <2>1, <2>2 DEF Groups
  <2>4. \A E \in partition : \A F \in alone :
          p \in E /\ p \in F => E \in Classes(F, d + 1)
    <3> SUFFICES ASSUME NEW E \in partition, NEW F \in alone, p \in E, p \in F
                 PROVE  E \in Classes(F, d + 1)
      OBVIOUS
    <3>1. CASE E \in together /\ E \notin alone
      <4>1. E = F
        BY <1>3, <1>4, <3>1 DEF Groups
      <4> QED
        BY <3>1, <4>1
    <3>2. CASE \E G \in alone : E \in Classes(G, d + 1)
      <4>1. PICK G \in alone : E \in Classes(G, d + 1)
        BY <3>2
      <4>2. p \in G
        BY <1>5, <4>1 DEF Groups
      <4>3. G = F
        BY <1>3, <1>4, <4>2 DEF Groups
      <4> QED
        BY <4>1, <4>3
    <3> QED
      BY <1>6, <3>1, <3>2
  <2>5. CASE A \in alone
    <3>1. C \in Classes(A, d + 1) /\ D \in Classes(A, d + 1)
      BY <1>11, <2>1, <2>2, <2>3, <2>4, <2>5
    <3> QED
      BY <1>5, <1>11, <2>5, <3>1 DEF Groups
  <2>6. CASE A \notin alone
    BY <2>1, <2>2, <2>3, <2>6
  <2> QED
    BY <2>5, <2>6
<1>12. ASSUME NEW C \in partition, NEW p \in C, NEW q \in C PROVE p = q \/ Agree(p, q, d)
  <2>1. PICK A \in together : C \subseteq A
    BY <1>8
  <2> QED
    BY <1>3, <2>1 DEF Groups
<1>13. ASSUME NEW C \in partition, NEW p \in C, NEW r \in C, NEW q \in M,
              SuffixLess(s, p, q), SuffixLess(s, q, r)
       PROVE  q \in C
  <2>1. CASE C \in together /\ C \notin alone
    BY <1>3, <1>13, <2>1 DEF Groups
  <2>2. CASE \E A \in alone : C \in Classes(A, d + 1)
    <3>1. PICK A \in alone : C \in Classes(A, d + 1)
      BY <2>2
    <3>2. p \in A /\ r \in A
      BY <1>5, <3>1 DEF Groups
    <3>3. q \in A
      BY <1>3, <1>4, <1>13, <3>2 DEF Groups
    <3> QED
      BY <1>5, <1>13, <3>1, <3>3 DEF Groups
  <2> QED
    BY <1>6, <2>1, <2>2
<1>14. Groups(M, partition, d)
  BY <1>9, <1>10, <1>11, <1>12, <1>13 DEF Groups
<1> QED
  BY <1>14 DEF d

-----------------------------------------------------------------------------
(* Where shallow_sort puts the groups *)

\* Two disjoint parts of a finite set.
LEMMA CountParts ==
  ASSUME NEW T, IsFiniteSet(T), NEW A \in SUBSET T, NEW B \in SUBSET T, \A r \in A : r \notin B
  PROVE  /\ IsFiniteSet(A) /\ IsFiniteSet(B)
         /\ Cardinality(A) \in Nat /\ Cardinality(B) \in Nat
         /\ Cardinality(A \cup B) = Cardinality(A) + Cardinality(B)
<1>1. A \cap B = {}
  OBVIOUS
<1>2. IsFiniteSet(A) /\ IsFiniteSet(B)
  BY FS_Subset
<1>3. Cardinality(A) \in Nat /\ Cardinality(B) \in Nat
  BY <1>2, FS_CardinalityType
<1>4. Cardinality(A \cup B) = Cardinality(A) + Cardinality(B) - Cardinality(A \cap B)
  BY <1>2, FS_Union
<1>5. Cardinality(A \cap B) = 0
  BY <1>1, FS_EmptySet
<1> QED
  BY <1>2, <1>3, <1>4, <1>5

\* The suffixes of a bucket.
SuffixesOf(x, b) == { p \in Positions(x) : BucketOf(x, p) = b }

\* The rank of a suffix counts the smaller buckets and its own bucket's.
LEMMA MemberRanks ==
  ASSUME NEW x, TextInv(x), NEW b \in Buckets, NEW M, M = { p \in Positions(x) : BucketOf(x, p) = b }
  PROVE  /\ IsFiniteSet(M)
         /\ Cardinality(M) = end_of_bucket(x, b) - start_of_bucket(x, b)
         /\ \A q \in M :
              Rank(x, q) = start_of_bucket(x, b) + Cardinality({ r \in M : SuffixLess(x, r, q) })
<1> DEFINE T == Positions(x)
           below == { p \in Positions(x) : Before(BucketOf(x, p), b) }
           upto == { p \in Positions(x) : ~Before(b, BucketOf(x, p)) }
<1>1. IsFiniteSet(T) /\ K \in Nat
  BY PositionsFinite DEF TextInv
<1>2. \A p \in T : BucketOf(x, p) \in Buckets
  BY BucketFacts
<1>3. /\ ~Before(b, b)
      /\ \A d \in Buckets : Before(b, d) => ~Before(d, b)
      /\ \A d \in Buckets : d # b => Before(d, b) \/ Before(b, d)
  <2>1. /\ \A d \in Buckets : ~Before(d, d)
        /\ \A c, d, e \in Buckets : Before(c, d) /\ Before(d, e) => Before(c, e)
        /\ \A c, d \in Buckets : c # d => Before(c, d) \/ Before(d, c)
    BY <1>1, BeforeOrder
  <2> QED
    BY <2>1
<1>4. start_of_bucket(x, b) = Cardinality(below) /\ end_of_bucket(x, b) = Cardinality(upto)
  BY DEF start_of_bucket, end_of_bucket
<1>5. upto = below \cup M /\ \A r \in below : r \notin M
  <2>1. \A p \in T : p \in upto <=> p \in below \/ p \in M
    BY <1>2, <1>3
  <2>2. upto \subseteq T /\ below \subseteq T /\ M \subseteq T
    OBVIOUS
  <2>3. \A r \in below : r \notin M
    BY <1>3
  <2> QED
    BY <2>1, <2>2, <2>3
<1>6. upto \subseteq T
  OBVIOUS
<1>7. ASSUME NEW q \in M
      PROVE  Rank(x, q) = start_of_bucket(x, b) + Cardinality({ r \in M : SuffixLess(x, r, q) })
  <2> DEFINE before == { r \in T : SuffixLess(x, r, q) }
             inner == { r \in M : SuffixLess(x, r, q) }
  <2>1. q \in T /\ BucketOf(x, q) = b
    OBVIOUS
  <2>2. \A r \in T : /\ Before(BucketOf(x, r), b) => SuffixLess(x, r, q)
                     /\ Before(b, BucketOf(x, r)) => ~SuffixLess(x, r, q)
    <3>1. \A r, t \in T : Before(BucketOf(x, r), BucketOf(x, t)) => SuffixLess(x, r, t)
      BY BucketFacts
    <3>2. \A r \in T : SuffixLess(x, q, r) => ~SuffixLess(x, r, q)
      BY <2>1, LessOrder
    <3> QED
      BY <2>1, <3>1, <3>2
  <2>3. \A r \in T : r \in before <=> r \in below \/ r \in inner
    BY <1>2, <1>3, <2>2
  <2>4. before \subseteq T /\ below \subseteq T /\ inner \subseteq T /\ inner \subseteq M
    OBVIOUS
  <2>5. before = below \cup inner /\ \A r \in below : r \notin inner
    BY <1>5, <2>3, <2>4
  <2>6. Rank(x, q) = Cardinality(before)
    BY DEF Rank
  <2> HIDE DEF before, below, inner, T
  <2>7. Cardinality(below \cup inner) = Cardinality(below) + Cardinality(inner)
    BY <1>1, <2>4, <2>5, CountParts
  <2>8. Rank(x, q) = start_of_bucket(x, b) + Cardinality(inner)
    BY <1>4, <2>5, <2>6, <2>7
  <2> QED
    BY <2>8 DEF inner
<1>8. IsFiniteSet(M) /\ Cardinality(M) = end_of_bucket(x, b) - start_of_bucket(x, b)
  <2> HIDE DEF below, upto, T
  <2>1. IsFiniteSet(T) /\ below \in SUBSET T /\ M \in SUBSET T /\ \A r \in below : r \notin M
    BY <1>1, <1>5, <1>6
  <2>2. /\ IsFiniteSet(M) /\ Cardinality(below) \in Nat /\ Cardinality(M) \in Nat
        /\ Cardinality(below \cup M) = Cardinality(below) + Cardinality(M)
    BY ONLY <2>1, CountParts
  <2> QED
    BY <1>4, <1>5, <2>2
<1> QED
  BY <1>7, <1>8

\* The group of a suffix, its first cell and the suffix's own.
Mates(partition, p) == CHOOSE C \in partition : p \in C
First(M, b, partition, p) ==
  start_of_bucket(s, b) + Cardinality({ q \in M : SuffixLess(s, q, p) /\ q \notin Mates(partition, p) })
Cell(M, b, partition, p) ==
  First(M, b, partition, p) + Cardinality({ q \in Mates(partition, p) : q < p })

LEMMA MatesFacts ==
  ASSUME NEW M, NEW partition, Groups(M, partition, DeepSortDepth)
  PROVE  /\ \A p \in M : Mates(partition, p) \in partition /\ p \in Mates(partition, p)
         /\ \A p \in M : Mates(partition, p) \subseteq M
         /\ \A p \in M : \A q \in Mates(partition, p) : Mates(partition, q) = Mates(partition, p)
<1>1. \A p \in M : \E C \in partition : p \in C
  BY DEF Groups
<1>2. \A p \in M : Mates(partition, p) \in partition /\ p \in Mates(partition, p)
  BY <1>1 DEF Mates
<1>3. \A C \in partition : C \subseteq M
  BY DEF Groups
<1>4. \A C, D \in partition : \A p \in C : p \in D => C = D
  BY DEF Groups
<1> QED
  BY <1>2, <1>3, <1>4

\* Orders of a set: by number, by suffix, and shallow_sort's.
ByNumber(T) == { pq \in T \X T : pq[1] < pq[2] }
BySuffix(T) == { pq \in T \X T : SuffixLess(s, pq[1], pq[2]) }
ByGroup(M, partition) ==
  { pq \in M \X M : IF pq[1] \in Mates(partition, pq[2]) THEN pq[1] < pq[2]
                    ELSE SuffixLess(s, pq[1], pq[2]) }

LEMMA NumberOrder ==
  ASSUME NEW T, T \subseteq Nat
  PROVE  /\ Orders(ByNumber(T), T)
         /\ \A p, q \in T : << p, q >> \in ByNumber(T) <=> p < q
         /\ \A p \in T : Place(ByNumber(T), T, p) = Cardinality({ q \in T : q < p })
<1>1. \A p, q \in T : << p, q >> \in ByNumber(T) <=> p < q
  BY DEF ByNumber
<1>2. Orders(ByNumber(T), T)
  BY <1>1 DEF Orders
<1>3. \A p \in T : { q \in T : << q, p >> \in ByNumber(T) } = { q \in T : q < p }
  BY <1>1
<1> QED
  BY <1>1, <1>2, <1>3 DEF Place

LEMMA SuffixOrder ==
  ASSUME TextInv(s), NEW T, T \subseteq Positions(s)
  PROVE  /\ Orders(BySuffix(T), T)
         /\ \A p \in T : Place(BySuffix(T), T, p) = Cardinality({ q \in T : SuffixLess(s, q, p) })
<1>1. \A p, q \in T : << p, q >> \in BySuffix(T) <=> SuffixLess(s, p, q)
  BY DEF BySuffix
<1>2. /\ \A p \in T : ~SuffixLess(s, p, p)
      /\ \A p, q, r \in T : SuffixLess(s, p, q) /\ SuffixLess(s, q, r) => SuffixLess(s, p, r)
      /\ \A p, q \in T : p # q => SuffixLess(s, p, q) \/ SuffixLess(s, q, p)
  BY LessOrder
<1>3. Orders(BySuffix(T), T)
  BY <1>1, <1>2 DEF Orders
<1>4. \A p \in T : { q \in T : << q, p >> \in BySuffix(T) } = { q \in T : SuffixLess(s, q, p) }
  BY <1>1
<1> QED
  BY <1>3, <1>4 DEF Place

\* A group is ordered as a whole against the suffixes outside, in either order.
LEMMA GroupOrder ==
  ASSUME TextInv(s), NEW M, M \subseteq Positions(s), NEW partition,
         Groups(M, partition, DeepSortDepth)
  PROVE  /\ Orders(ByGroup(M, partition), M)
         /\ \A p, q \in M : << p, q >> \in ByGroup(M, partition) <=>
              IF p \in Mates(partition, q) THEN p < q ELSE SuffixLess(s, p, q)
         /\ \A p \in M : \A q \in Mates(partition, p) : \A r \in M :
              r \notin Mates(partition, p) => (SuffixLess(s, r, p) <=> SuffixLess(s, r, q))
<1> DEFINE R == ByGroup(M, partition)
           mates(p) == Mates(partition, p)
<1>1. \A p, q \in M : << p, q >> \in R <=> IF p \in mates(q) THEN p < q ELSE SuffixLess(s, p, q)
  BY DEF ByGroup
<1>2. /\ \A p \in M : mates(p) \in partition /\ p \in mates(p) /\ mates(p) \subseteq M
      /\ \A p \in M : \A q \in mates(p) : mates(q) = mates(p)
  BY MatesFacts
<1>3. \A C \in partition : \A p, r \in C : \A q \in M :
        SuffixLess(s, p, q) /\ SuffixLess(s, q, r) => q \in C
  BY DEF Groups
<1>4. /\ \A p \in M : ~SuffixLess(s, p, p)
      /\ \A p, q, r \in M : SuffixLess(s, p, q) /\ SuffixLess(s, q, r) => SuffixLess(s, p, r)
      /\ \A p, q \in M : p # q => SuffixLess(s, p, q) \/ SuffixLess(s, q, p)
  BY LessOrder
<1>5. \A p \in M : p \in Nat
  BY DEF TextInv
<1> HIDE DEF R, mates
<1>6. \A p \in M : \A q \in mates(p) : \A r \in M :
        r \notin mates(p) => (SuffixLess(s, r, p) <=> SuffixLess(s, r, q))
  <2> SUFFICES ASSUME NEW p \in M, NEW q \in mates(p), NEW r \in M, r \notin mates(p)
               PROVE  SuffixLess(s, r, p) <=> SuffixLess(s, r, q)
    OBVIOUS
  <2>1. q \in M /\ p \in mates(p) /\ mates(p) \in partition /\ r # p /\ r # q
    BY <1>2
  <2>2. /\ SuffixLess(s, r, p) \/ SuffixLess(s, p, r)
        /\ SuffixLess(s, r, q) \/ SuffixLess(s, q, r)
        /\ ~(SuffixLess(s, r, p) /\ SuffixLess(s, p, r))
        /\ ~(SuffixLess(s, r, q) /\ SuffixLess(s, q, r))
    BY <1>4, <2>1
  <2>3. ~(SuffixLess(s, r, p) /\ SuffixLess(s, q, r)) /\ ~(SuffixLess(s, r, q) /\ SuffixLess(s, p, r))
    BY <1>3, <2>1
  <2> QED
    BY <2>2, <2>3
<1>7. \A p, q \in M : p \in mates(q) <=> q \in mates(p)
  BY <1>2
<1>8. \A p \in M : << p, p >> \notin R
  BY <1>1, <1>2, <1>5
<1>9. \A p, q \in M : p # q => << p, q >> \in R \/ << q, p >> \in R
  BY <1>1, <1>4, <1>5, <1>7
<1>10. ASSUME NEW p \in M, NEW q \in M, NEW r \in M, << p, q >> \in R, << q, r >> \in R
       PROVE  << p, r >> \in R
  <2>1. CASE p \in mates(q) /\ q \in mates(r)
    <3>1. p \in mates(r) /\ p < q /\ q < r
      BY <1>1, <1>2, <1>10, <2>1
    <3> QED
      BY <1>1, <1>5, <3>1
  <2>2. CASE p \in mates(q) /\ q \notin mates(r)
    <3>1. q \in mates(p) /\ r \notin mates(p) /\ p \notin mates(r) /\ SuffixLess(s, q, r)
      BY <1>1, <1>2, <1>7, <1>10, <2>2
    <3>2. SuffixLess(s, p, r)
      <4>1. p # r /\ p \in M /\ q \in mates(p) /\ r \in M /\ r \notin mates(p)
        BY <1>2, <3>1
      <4>2. SuffixLess(s, r, p) <=> SuffixLess(s, r, q)
        BY <1>6, <4>1
      <4> QED
        BY <1>4, <3>1, <4>1, <4>2
    <3> QED
      BY <1>1, <3>1, <3>2
  <2>3. CASE p \notin mates(q) /\ q \in mates(r)
    <3>1. p \notin mates(r) /\ SuffixLess(s, p, q)
      BY <1>1, <1>2, <1>10, <2>3
    <3>2. SuffixLess(s, p, r)
      BY <1>6, <2>3, <3>1
    <3> QED
      BY <1>1, <3>1, <3>2
  <2>4. CASE p \notin mates(q) /\ q \notin mates(r)
    <3>1. SuffixLess(s, p, q) /\ SuffixLess(s, q, r) /\ SuffixLess(s, p, r)
      BY <1>1, <1>4, <1>10, <2>4
    <3>2. p \notin mates(r)
      <4> SUFFICES ASSUME p \in mates(r) PROVE FALSE
        OBVIOUS
      <4>1. r \in mates(r) /\ mates(r) \in partition
        BY <1>2
      <4> QED
        BY <1>3, <2>4, <3>1, <4>1
    <3> QED
      BY <1>1, <3>1, <3>2
  <2> QED
    BY <2>1, <2>2, <2>3, <2>4
<1>11. Orders(R, M)
  BY <1>8, <1>9, <1>10 DEF Orders
<1> QED
  BY <1>1, <1>6, <1>11 DEF R, mates

\* The cells of the group of p are its first one and those that follow.
GroupCells(M, b, partition, p) ==
  LET first == First(M, b, partition, p)
      end == first + Cardinality(Mates(partition, p))
  IN  /\ first \in Nat /\ Cardinality(Mates(partition, p)) \in Nat /\ first < end
      /\ \A q \in Mates(partition, p) : /\ First(M, b, partition, q) = first
                                        /\ Cell(M, b, partition, q) \in first .. end - 1
                                        /\ Rank(s, q) \in first .. end - 1
      /\ \A k \in first .. end - 1 :
           /\ \E q \in Mates(partition, p) : Cell(M, b, partition, q) = k
           /\ \E q \in Mates(partition, p) : Rank(s, q) = k

\* The cells of the bucket are filled, and those of a group are the ranks of
\* its suffixes, in some order.
LEMMA ShallowCells ==
  ASSUME TextInv(s), NEW b \in Buckets, NEW M, M = SuffixesOf(s, b),
         NEW partition, Groups(M, partition, DeepSortDepth)
  PROVE  /\ \A p \in M : Cell(M, b, partition, p) \in CellsOf(s, b)
         /\ \A p, q \in M : Cell(M, b, partition, p) = Cell(M, b, partition, q) => p = q
         /\ \A c \in CellsOf(s, b) : \E p \in M : Cell(M, b, partition, p) = c
         /\ \A p \in M : GroupCells(M, b, partition, p)
<1> DEFINE l == start_of_bucket(s, b)
           e == end_of_bucket(s, b)
           mates(p) == Mates(partition, p)
           outside(p) == { q \in M : SuffixLess(s, q, p) /\ q \notin mates(p) }
           R == ByGroup(M, partition)
<1>1. l \in Nat /\ e \in Nat /\ CellsOf(s, b) = l .. e - 1
  BY CellsFacts DEF CellsOf
<1>2. /\ IsFiniteSet(M) /\ Cardinality(M) = e - l /\ M \subseteq Positions(s)
      /\ \A q \in M : Rank(s, q) = l + Cardinality({ r \in M : SuffixLess(s, r, q) })
  <2>1. M = { p \in Positions(s) : BucketOf(s, p) = b }
    BY DEF SuffixesOf
  <2> QED
    BY <2>1, MemberRanks
<1>3. /\ \A p \in M : mates(p) \in partition /\ p \in mates(p) /\ mates(p) \subseteq M
      /\ \A p \in M : \A q \in mates(p) : mates(q) = mates(p)
  BY MatesFacts
<1>4. /\ Orders(R, M)
      /\ \A p, q \in M : << p, q >> \in R <=> IF p \in mates(q) THEN p < q ELSE SuffixLess(s, p, q)
      /\ \A p \in M : \A q \in mates(p) : \A r \in M :
           r \notin mates(p) => (SuffixLess(s, r, p) <=> SuffixLess(s, r, q))
  BY <1>2, GroupOrder
<1>5. \A p \in M : First(M, b, partition, p) = l + Cardinality(outside(p))
  BY DEF First
<1>6. \A p \in M : Cell(M, b, partition, p)
                     = First(M, b, partition, p) + Cardinality({ q \in mates(p) : q < p })
  BY DEF Cell
<1>7. M \subseteq Nat
  BY <1>2 DEF TextInv
<1>8. \A p \in M : outside(p) \subseteq M /\ \A q \in outside(p) : q \notin mates(p)
  OBVIOUS
<1>9. \A p \in M : \A q \in mates(p) : outside(q) = outside(p)
  <2> SUFFICES ASSUME NEW p \in M, NEW q \in mates(p) PROVE outside(q) = outside(p)
    OBVIOUS
  <2>1. mates(q) = mates(p)
    BY <1>3
  <2>2. \A r \in M : r \in outside(q) <=> r \in outside(p)
    BY <1>4, <2>1
  <2> QED
    BY <2>2
<1>10. \A p \in M : /\ { q \in M : << q, p >> \in R } = outside(p) \cup { q \in mates(p) : q < p }
                    /\ { q \in M : SuffixLess(s, q, p) }
                         = outside(p) \cup { q \in mates(p) : SuffixLess(s, q, p) }
  <2> SUFFICES ASSUME NEW p \in M
               PROVE  /\ { q \in M : << q, p >> \in R } = outside(p) \cup { q \in mates(p) : q < p }
                      /\ { q \in M : SuffixLess(s, q, p) }
                           = outside(p) \cup { q \in mates(p) : SuffixLess(s, q, p) }
    OBVIOUS
  <2>1. mates(p) \subseteq M
    BY <1>3
  <2>2. \A q \in M : << q, p >> \in R <=> IF q \in mates(p) THEN q < p ELSE SuffixLess(s, q, p)
    BY <1>4
  <2> HIDE DEF mates, R
  <2> QED
    BY <2>1, <2>2
<1> HIDE DEF l, e, mates, outside, R
<1>11. \A p \in M : /\ Cardinality(outside(p)) \in Nat
                    /\ Place(R, M, p) = Cardinality(outside(p)) + Cardinality({ q \in mates(p) : q < p })
                    /\ Cardinality({ q \in M : SuffixLess(s, q, p) })
                         = Cardinality(outside(p)) + Cardinality({ q \in mates(p) : SuffixLess(s, q, p) })
  <2> SUFFICES ASSUME NEW p \in M
               PROVE  /\ Cardinality(outside(p)) \in Nat
                      /\ Place(R, M, p) = Cardinality(outside(p)) + Cardinality({ q \in mates(p) : q < p })
                      /\ Cardinality({ q \in M : SuffixLess(s, q, p) })
                           = Cardinality(outside(p)) + Cardinality({ q \in mates(p) : SuffixLess(s, q, p) })
    OBVIOUS
  <2> DEFINE A == outside(p)
             B == { q \in mates(p) : q < p }
             C == { q \in mates(p) : SuffixLess(s, q, p) }
  <2>1. /\ A \in SUBSET M /\ B \in SUBSET M /\ C \in SUBSET M
        /\ \A q \in A : q \notin B
        /\ \A q \in A : q \notin C
    BY <1>3, <1>8
  <2>2. Place(R, M, p) = Cardinality(A \cup B)
    BY <1>10 DEF Place
  <2>3. Cardinality({ q \in M : SuffixLess(s, q, p) }) = Cardinality(A \cup C)
    BY <1>10
  <2> HIDE DEF A, B, C
  <2>9. IsFiniteSet(M)
    BY <1>2
  <2>4. Cardinality(A) \in Nat /\ Cardinality(A \cup B) = Cardinality(A) + Cardinality(B)
    BY ONLY <2>9, <2>1, CountParts
  <2>5. Cardinality(A \cup C) = Cardinality(A) + Cardinality(C)
    BY ONLY <2>9, <2>1, CountParts
  <2> QED
    BY <2>2, <2>3, <2>4, <2>5 DEF A, B, C
<1>12. /\ \A p \in M : Place(R, M, p) \in 0 .. Cardinality(M) - 1
       /\ \A p, q \in M : Place(R, M, p) = Place(R, M, q) => p = q
       /\ \A k \in 0 .. Cardinality(M) - 1 : \E p \in M : Place(R, M, p) = k
  <2>1. IsFiniteSet(M) /\ Orders(R, M)
    BY <1>2, <1>4
  <2> QED
    BY ONLY <2>1, OrderPlaces
<1>13. \A p \in M : First(M, b, partition, p) \in Nat /\ Cell(M, b, partition, p) = l + Place(R, M, p)
  <2> SUFFICES ASSUME NEW p \in M
               PROVE  /\ First(M, b, partition, p) \in Nat
                      /\ Cell(M, b, partition, p) = l + Place(R, M, p)
    OBVIOUS
  <2> DEFINE before == { q \in mates(p) : q < p }
             f == First(M, b, partition, p)
  <2>1. before \in SUBSET M /\ IsFiniteSet(M)
    BY <1>2, <1>3
  <2>2. /\ f = l + Cardinality(outside(p))
        /\ Cell(M, b, partition, p) = f + Cardinality(before)
        /\ Place(R, M, p) = Cardinality(outside(p)) + Cardinality(before)
        /\ Cardinality(outside(p)) \in Nat
        /\ l \in Nat
    BY <1>1, <1>5, <1>6, <1>11
  <2> HIDE DEF before, f
  <2>3. IsFiniteSet(before)
    BY ONLY <2>1, FS_Subset
  <2>4. Cardinality(before) \in Nat
    BY ONLY <2>3, FS_CardinalityType
  <2>5. f \in Nat /\ Cell(M, b, partition, p) = l + Place(R, M, p)
    BY ONLY <2>2, <2>4
  <2> QED
    BY <2>5 DEF f
<1>14. \A p \in M : Cell(M, b, partition, p) \in l .. e - 1
  <2>1. /\ l \in Nat /\ e \in Nat
        /\ \A p \in M : Place(R, M, p) \in 0 .. (e - l) - 1
    BY <1>1, <1>2, <1>12
  <2> QED
    BY ONLY <1>13, <2>1
<1>15. \A p, q \in M : Cell(M, b, partition, p) = Cell(M, b, partition, q) => p = q
  <2>1. /\ l \in Nat
        /\ \A p \in M : Place(R, M, p) \in Nat
    BY <1>1, <1>12
  <2>2. \A p, q \in M : Place(R, M, p) = Place(R, M, q) => p = q
    BY <1>12
  <2> QED
    BY ONLY <1>13, <2>1, <2>2
<1>16. \A c \in l .. e - 1 : \E p \in M : Cell(M, b, partition, p) = c
  <2> SUFFICES ASSUME NEW c \in l .. e - 1 PROVE \E p \in M : Cell(M, b, partition, p) = c
    OBVIOUS
  <2>1. c - l \in 0 .. Cardinality(M) - 1
    BY <1>1, <1>2
  <2>2. PICK p \in M : Place(R, M, p) = c - l
    BY <1>12, <2>1
  <2>3. l \in Nat /\ c \in Int
    BY <1>1
  <2>4. Cell(M, b, partition, p) = l + (c - l)
    BY <1>13, <2>2
  <2>5. l + (c - l) = c
    BY ONLY <2>3
  <2> QED
    BY <2>4, <2>5
<1>17. ASSUME NEW p \in M
       PROVE  GroupCells(M, b, partition, p)
  <2> DEFINE C == mates(p)
             first == First(M, b, partition, p)
             m == Cardinality(C)
             smaller(q) == Cardinality({ r \in C : r < q })
             lower(q) == Cardinality({ r \in C : SuffixLess(s, r, q) })
  <2>1. C \subseteq M /\ p \in C /\ C \subseteq Nat /\ C \subseteq Positions(s) /\ \A q \in C : mates(q) = C
    BY <1>2, <1>3, <1>7
  <2>2. IsFiniteSet(C)
    BY <1>2, <2>1, FS_Subset
  <2>3. \A q \in C : First(M, b, partition, q) = first
    BY <1>5, <1>9, <2>1
  <2>4. \A q \in C : Cell(M, b, partition, q) = first + smaller(q)
    BY <1>6, <2>1, <2>3
  <2>5. \A q \in C : Rank(s, q) = first + lower(q)
    <3> SUFFICES ASSUME NEW q \in C PROVE Rank(s, q) = first + lower(q)
      OBVIOUS
    <3>1. q \in M /\ mates(q) = C
      BY <2>1
    <3>2. Rank(s, q) = l + (Cardinality(outside(q)) + lower(q))
      BY <1>2, <1>11, <3>1
    <3>3. first = l + Cardinality(outside(q)) /\ Cardinality(outside(q)) \in Nat
      BY <1>5, <1>11, <2>3, <3>1
    <3>4. IsFiniteSet({ r \in C : SuffixLess(s, r, q) })
      BY <2>2, FS_Subset
    <3>5. lower(q) \in Nat
      BY <3>4, FS_CardinalityType
    <3> HIDE DEF lower, first
    <3> QED
      BY <1>1, <3>2, <3>3, <3>5
  <2>6. /\ m \in Nat
        /\ \A q \in C : smaller(q) \in 0 .. m - 1
        /\ \A k \in 0 .. m - 1 : \E q \in C : smaller(q) = k
    <3>1. Orders(ByNumber(C), C) /\ \A q \in C : Place(ByNumber(C), C, q) = smaller(q)
      BY <2>1, NumberOrder
    <3> HIDE DEF C, smaller, m
    <3>2. /\ Cardinality(C) \in Nat
          /\ \A q \in C : Place(ByNumber(C), C, q) \in 0 .. Cardinality(C) - 1
          /\ \A k \in 0 .. Cardinality(C) - 1 : \E q \in C : Place(ByNumber(C), C, q) = k
      BY <2>2, <3>1, OrderPlaces
    <3> QED
      BY <3>1, <3>2 DEF m
  <2>7. /\ \A q \in C : lower(q) \in 0 .. m - 1
        /\ \A k \in 0 .. m - 1 : \E q \in C : lower(q) = k
    <3>1. Orders(BySuffix(C), C) /\ \A q \in C : Place(BySuffix(C), C, q) = lower(q)
      BY <2>1, SuffixOrder
    <3> HIDE DEF C, lower, m
    <3>2. /\ \A q \in C : Place(BySuffix(C), C, q) \in 0 .. Cardinality(C) - 1
          /\ \A k \in 0 .. Cardinality(C) - 1 : \E q \in C : Place(BySuffix(C), C, q) = k
      BY <2>2, <3>1, OrderPlaces
    <3> QED
      BY <3>1, <3>2 DEF m
  <2>8. first \in Nat
    BY <1>13
  <2> HIDE DEF C, first, m, smaller, lower
  <2>9. 0 < m
    BY <2>1, <2>6
  <2>10. \A q \in C : /\ Cell(M, b, partition, q) \in first .. first + m - 1
                      /\ Rank(s, q) \in first .. first + m - 1
    BY <2>4, <2>5, <2>6, <2>7, <2>8
  <2>11. ASSUME NEW k \in first .. first + m - 1
         PROVE  /\ \E q \in C : Cell(M, b, partition, q) = k
                /\ \E q \in C : Rank(s, q) = k
    <3>1. k - first \in 0 .. m - 1 /\ first + (k - first) = k
      BY <2>6, <2>8
    <3>2. PICK q \in C : smaller(q) = k - first
      BY <2>6, <3>1
    <3>3. PICK r \in C : lower(r) = k - first
      BY <2>7, <3>1
    <3> QED
      BY <2>4, <2>5, <3>1, <3>2, <3>3
  <2>12. m \in Nat /\ first < first + m
    BY <2>6, <2>8, <2>9
  <2>13. /\ first \in Nat /\ m \in Nat /\ first < first + m
         /\ \A q \in C : /\ First(M, b, partition, q) = first
                         /\ Cell(M, b, partition, q) \in first .. first + m - 1
                         /\ Rank(s, q) \in first .. first + m - 1
         /\ \A k \in first .. first + m - 1 :
              /\ \E q \in C : Cell(M, b, partition, q) = k
              /\ \E q \in C : Rank(s, q) = k
    BY <2>3, <2>8, <2>10, <2>11, <2>12
  <2>14. first + m = First(M, b, partition, p) + Cardinality(mates(p)) /\ C = mates(p)
         /\ first = First(M, b, partition, p) /\ m = Cardinality(mates(p))
    BY DEF C, first, m
  <2> QED
    BY ONLY <2>13, <2>14 DEF GroupCells, mates
<1> QED
  BY <1>1, <1>14, <1>15, <1>16, <1>17 DEF mates


-----------------------------------------------------------------------------
(* The inductive invariant *)

\* Between its creation and bucketsort the array is the identity, then every
\* suffix is in a cell of its bucket, and in the end in its own.
ArrayInv ==
  /\ phase \in { "new", "buckets", "done" }
  /\ phase = "new" => /\ suffix_array = [ c \in Positions(s) |-> c ]
                      /\ left = Buckets
                      /\ finished = {}
  /\ phase = "buckets" => InOwnBuckets(s, suffix_array)
  /\ phase = "done" => /\ suffix_array \in [ Positions(s) -> Positions(s) ]
                       /\ \A c \in Positions(s) : Rank(s, suffix_array[c]) = c
  /\ phase # "buckets" => current = NoBucket

\* A bucket is waiting, being sorted, sorted or too small to be sorted.
BucketsInv ==
  /\ left \subseteq Buckets
  /\ finished \subseteq Buckets
  /\ left \cap finished = {}
  /\ current # NoBucket => current \in Buckets /\ current \notin left /\ current \notin finished
  /\ phase = "buckets" =>
       \A b \in Buckets : \/ b \in left
                          \/ current # NoBucket /\ b = current
                          \/ b \in finished
                          \/ size_of_bucket(s, b) < 2
  /\ \A b \in finished : \A c \in CellsOf(s, b) : Rank(s, suffix_array[c]) = c

\* A group has exactly the suffixes that belong into its cells, and they agree
\* in as many characters as shallow_sort looks at.
IsGroup(a, b, g) ==
  /\ g[1] \in Nat /\ g[2] \in Nat /\ g[1] < g[2]
  /\ g[1] .. g[2] - 1 \subseteq CellsOf(s, b)
  /\ Spans(s, a, g[1], g[2])
  /\ \A c, d \in g[1] .. g[2] - 1 : a[c] = a[d] \/ Agree(a[c], a[d], DeepSortDepth)

\* Outside of the groups the bucket being sorted is sorted.
GroupsInv ==
  /\ groups # {} => current # NoBucket
  /\ \A g \in groups : IsGroup(suffix_array, current, g)
  /\ \A g, h \in groups : \A c \in g[1] .. g[2] - 1 : c \in h[1] .. h[2] - 1 => g = h
  /\ current # NoBucket =>
       \A c \in CellsOf(s, current) :
         Rank(s, suffix_array[c]) = c \/ \E g \in groups : c \in g[1] .. g[2] - 1

Anchors == [ Segments(s) -> [ relative : -1 .. SegmentLength - 1, position : Nat ] ]

AnchorsInv ==
  /\ ad \in Anchors
  /\ AnchorsAreFinal(s, ad, finished)

\* What a search has marked are cells of one sorted bucket, whose suffixes lie
\* at the same distance right of suffixes of the group; the first one is known.
SearchInv ==
  search # NoSearch =>
    /\ search \in [ group : groups, relation : 1 .. DeepSortDepth - 1,
                    sorted_bucket : Nat, left_bucket_bound : Nat, right_bucket_bound : Nat,
                    leftmost : Nat, dist : Nat ]
    /\ \E b \in finished :
         /\ search.left_bucket_bound = start_of_bucket(s, b)
         /\ search.right_bucket_bound = end_of_bucket(s, b)
         /\ tagged \subseteq CellsOf(s, b)
    /\ search.leftmost \in tagged
    /\ search.sorted_bucket \in tagged
    /\ \A c \in tagged :
         /\ search.leftmost <= c
         /\ search.sorted_bucket - search.dist <= c
         /\ \E d \in search.group[1] .. search.group[2] - 1 :
              suffix_array[c] - search.relation = suffix_array[d]

DeepInv == s \in Texts /\ ArrayInv /\ BucketsInv /\ GroupsInv /\ AnchorsInv /\ SearchInv

-----------------------------------------------------------------------------
(* shallow_sort *)

MembersOf(a, b) == { a[c] : c \in CellsOf(s, b) }

Shallow(a, b, partition) ==
  [ c \in Positions(s) |->
      IF c \in CellsOf(s, b) THEN CHOOSE p \in MembersOf(a, b) : Cell(MembersOf(a, b), b, partition, p) = c
      ELSE a[c] ]

ShallowGroups(a, b, partition) ==
  { << First(MembersOf(a, b), b, partition, p),
       First(MembersOf(a, b), b, partition, p) + Cardinality(Mates(partition, p)) >> :
      p \in { q \in MembersOf(a, b) : Cardinality(Mates(partition, q)) > 1 } }

\* It leaves the bucket sorted but for groups of suffixes that belong together.
LEMMA ShallowSorted ==
  ASSUME TextInv(s), NEW b \in Buckets, NEW a, InOwnBuckets(s, a), NEW partition,
         partition \in GroupsPossible(MembersOf(a, b)),
         NEW new, new = Shallow(a, b, partition), NEW G, G = ShallowGroups(a, b, partition)
  PROVE  /\ InOwnBuckets(s, new)
         /\ \A c \in Positions(s) \ CellsOf(s, b) : new[c] = a[c]
         /\ \A g \in G : IsGroup(new, b, g)
         /\ \A g, h \in G : \A c \in g[1] .. g[2] - 1 : c \in h[1] .. h[2] - 1 => g = h
         /\ \A c \in CellsOf(s, b) :
              Rank(s, new[c]) = c \/ \E g \in G : c \in g[1] .. g[2] - 1
<1> DEFINE M == MembersOf(a, b)
           T == CellsOf(s, b)
           mates(p) == Mates(partition, p)
           first(p) == First(M, b, partition, p)
           size(p) == Cardinality(Mates(partition, p))
           cell(p) == Cell(M, b, partition, p)
<1>1. M = SuffixesOf(s, b)
  BY BucketSpans DEF MembersOf, SuffixesOf
<1>2. M \subseteq Positions(s) /\ T \subseteq Positions(s)
  BY <1>1, CellsFacts DEF SuffixesOf
<1>3. Groups(M, partition, DeepSortDepth)
  BY <1>2, PossibleGroups
<1>4. /\ \A p \in M : mates(p) \in partition /\ p \in mates(p) /\ mates(p) \subseteq M
      /\ \A p \in M : \A q \in mates(p) : mates(q) = mates(p)
  BY <1>3, MatesFacts
<1>5. \A C \in partition : \A p, q \in C : p = q \/ Agree(p, q, DeepSortDepth)
  BY <1>3 DEF Groups
<1>6. /\ \A p \in M : cell(p) \in T
      /\ \A p, q \in M : cell(p) = cell(q) => p = q
      /\ \A c \in T : \E p \in M : cell(p) = c
      /\ \A p \in M : /\ first(p) \in Nat /\ size(p) \in Nat /\ first(p) < first(p) + size(p)
                      /\ \A q \in mates(p) : /\ first(q) = first(p)
                                             /\ cell(q) \in first(p) .. first(p) + size(p) - 1
                                             /\ Rank(s, q) \in first(p) .. first(p) + size(p) - 1
                      /\ \A k \in first(p) .. first(p) + size(p) - 1 :
                           /\ \E q \in mates(p) : cell(q) = k
                           /\ \E q \in mates(p) : Rank(s, q) = k
  <2>1. TextInv(s) /\ b \in Buckets /\ M = SuffixesOf(s, b)
        /\ Groups(M, partition, DeepSortDepth)
    BY <1>1, <1>3
  <2> HIDE DEF M
  <2>2. /\ \A p \in M : Cell(M, b, partition, p) \in CellsOf(s, b)
        /\ \A p, q \in M : Cell(M, b, partition, p) = Cell(M, b, partition, q) => p = q
        /\ \A c \in CellsOf(s, b) : \E p \in M : Cell(M, b, partition, p) = c
        /\ \A p \in M : GroupCells(M, b, partition, p)
    BY ONLY <2>1, ShallowCells
  <2> QED
    BY ONLY <2>2 DEF GroupCells
<1>7. /\ new = [ c \in Positions(s) |-> IF c \in T THEN CHOOSE p \in M : cell(p) = c ELSE a[c] ]
      /\ G = { << first(p), first(p) + size(p) >> : p \in { q \in M : size(q) > 1 } }
  BY DEF Shallow, ShallowGroups
<1>8. /\ a \in [ Positions(s) -> Positions(s) ]
      /\ \A p \in M : \E d \in T : p = a[d]
  BY DEF InOwnBuckets, MembersOf
<1>9. \A p \in M : IF size(p) > 1 THEN << first(p), first(p) + size(p) >> \in G ELSE TRUE
  BY <1>7
<1>10. \A g \in G : \E p \in M : size(p) > 1 /\ g = << first(p), first(p) + size(p) >>
  BY <1>7
<1>11. \A c \in Positions(s) \ T : new[c] = a[c]
  BY <1>7
<1>12. \A c \in T : new[c] = CHOOSE p \in M : cell(p) = c
  BY <1>2, <1>7
<1>13. DOMAIN new = Positions(s) /\ new = [ c \in Positions(s) |-> new[c] ]
  BY <1>7
<1> HIDE DEF M, T, mates, first, size, cell
<1>14. \A c \in T : new[c] \in M /\ cell(new[c]) = c
  BY <1>6, <1>12
<1>15. \A p \in M : new[cell(p)] = p
  BY <1>6, <1>14
<1>16. new \in [ Positions(s) -> Positions(s) ]
  <2>1. \A c \in Positions(s) : new[c] \in Positions(s)
    BY <1>2, <1>8, <1>11, <1>14
  <2> QED
    BY <1>13, <2>1
<1>17. InOwnBuckets(s, new)
  <2>1. \A c \in T : \E d \in T : new[c] = a[d]
    BY <1>8, <1>14
  <2>2. \A c, d \in T : new[c] = new[d] => c = d
    BY <1>14
  <2>3. T \subseteq CellsOf(s, b)
    BY DEF T
  <2>4. TextInv(s) /\ InOwnBuckets(s, a) /\ b \in Buckets
    OBVIOUS
  <2> QED
    BY ONLY <1>11, <1>16, <2>1, <2>2, <2>3, <2>4, Permuted
<1>18. \A p \in M : \A c \in first(p) .. first(p) + size(p) - 1 :
         c \in T /\ new[c] \in mates(p) /\ Rank(s, new[c]) \in first(p) .. first(p) + size(p) - 1
  <2> SUFFICES ASSUME NEW p \in M, NEW c \in first(p) .. first(p) + size(p) - 1
               PROVE  c \in T /\ new[c] \in mates(p) /\ Rank(s, new[c]) \in first(p) .. first(p) + size(p) - 1
    OBVIOUS
  <2>1. PICK q \in mates(p) : cell(q) = c
    BY <1>6
  <2>2. q \in M
    BY <1>4
  <2> QED
    BY <1>6, <1>15, <2>1, <2>2
<1>19. ASSUME NEW p \in M
       PROVE  IsGroup(new, b, << first(p), first(p) + size(p) >>)
  <2> DEFINE l == first(p)
             e == first(p) + size(p)
  <2>1. l \in Nat /\ e \in Nat /\ l < e
    BY <1>6
  <2>2. \A c \in l .. e - 1 : c \in T /\ new[c] \in mates(p) /\ Rank(s, new[c]) \in l .. e - 1
    <3>1. \A c \in first(p) .. first(p) + size(p) - 1 :
            c \in T /\ new[c] \in mates(p) /\ Rank(s, new[c]) \in first(p) .. first(p) + size(p) - 1
      BY ONLY <1>18, p \in M
    <3>2. first(p) \in Nat /\ size(p) \in Nat
      BY <1>6
    <3> QED
      BY ONLY <3>1, <3>2
  <2>3. \A k \in l .. e - 1 : \E c \in l .. e - 1 : Rank(s, new[c]) = k
    <3> SUFFICES ASSUME NEW k \in l .. e - 1 PROVE \E c \in l .. e - 1 : Rank(s, new[c]) = k
      OBVIOUS
    <3>1. PICK q \in mates(p) : Rank(s, q) = k
      BY <1>6
    <3>2. q \in M /\ cell(q) \in l .. e - 1
      BY <1>4, <1>6
    <3>3. new[cell(q)] = q
      BY <1>15, <3>2
    <3> QED
      BY <3>1, <3>2, <3>3
  <2>4. mates(p) \in partition
    BY <1>4
  <2> HIDE DEF l, e
  <2>5. Spans(s, new, l, e)
    BY <2>2, <2>3 DEF Spans
  <2>6. \A c, d \in l .. e - 1 : new[c] = new[d] \/ Agree(new[c], new[d], DeepSortDepth)
    BY <1>5, <2>2, <2>4
  <2>7. IsGroup(new, b, << l, e >>)
    BY <2>1, <2>2, <2>5, <2>6 DEF IsGroup, T
  <2> QED
    BY <2>7 DEF l, e
<1>20. \A g \in G : IsGroup(new, b, g)
  BY <1>10, <1>19
<1>21. \A g, h \in G : \A c \in g[1] .. g[2] - 1 : c \in h[1] .. h[2] - 1 => g = h
  <2> SUFFICES ASSUME NEW g \in G, NEW h \in G, NEW c \in g[1] .. g[2] - 1, c \in h[1] .. h[2] - 1
               PROVE  g = h
    OBVIOUS
  <2>1. PICK p \in M : g = << first(p), first(p) + size(p) >>
    BY <1>10
  <2>2. PICK q \in M : h = << first(q), first(q) + size(q) >>
    BY <1>10
  <2>3. c \in first(p) .. first(p) + size(p) - 1 /\ c \in first(q) .. first(q) + size(q) - 1
    <3>1. /\ first(p) \in Nat /\ size(p) \in Nat /\ first(q) \in Nat /\ size(q) \in Nat
          /\ g[1] = first(p) /\ g[2] = first(p) + size(p) /\ h[1] = first(q) /\ h[2] = first(q) + size(q)
      BY <1>6, <2>1, <2>2
    <3>2. c \in g[1] .. g[2] - 1 /\ c \in h[1] .. h[2] - 1
      OBVIOUS
    <3> QED
      BY ONLY <3>1, <3>2
  <2>6. new[c] \in mates(p) /\ new[c] \in mates(q)
    BY ONLY <1>18, <2>3, p \in M, q \in M
  <2>4. first(new[c]) = first(p) /\ first(new[c]) = first(q) /\ mates(p) = mates(q)
    BY <1>4, <1>6, <2>6
  <2>5. size(p) = size(q)
    BY <2>4 DEF size, mates
  <2> QED
    BY <2>1, <2>2, <2>4, <2>5
<1>22. ASSUME NEW c \in T PROVE Rank(s, new[c]) = c \/ \E g \in G : c \in g[1] .. g[2] - 1
  <2> DEFINE p == new[c]
  <2>1. p \in M /\ cell(p) = c /\ p \in mates(p)
    BY <1>4, <1>14
  <2>2. /\ first(p) \in Nat /\ size(p) \in Nat /\ first(p) < first(p) + size(p)
        /\ c \in first(p) .. first(p) + size(p) - 1
        /\ Rank(s, p) \in first(p) .. first(p) + size(p) - 1
    BY <1>6, <2>1
  <2> HIDE DEF p
  <2>3. CASE size(p) > 1
    <3>1. << first(p), first(p) + size(p) >> \in G
      BY <1>9, <2>1, <2>3
    <3> QED
      BY <2>2, <3>1
  <2>4. CASE ~(size(p) > 1)
    <3>1. Rank(s, p) = c
      BY <2>2, <2>4
    <3> QED
      BY <3>1 DEF p
  <2> QED
    BY <2>3, <2>4
<1> QED
  BY <1>11, <1>17, <1>20, <1>21, <1>22 DEF T

-----------------------------------------------------------------------------
(* The anchors *)

LEMMA SegmentFacts ==
  ASSUME TextInv(s), NEW p \in Positions(s)
  PROVE  /\ Segment(p) \in Segments(s)
         /\ p % SegmentLength \in 0 .. SegmentLength - 1
         /\ p = Segment(p) * SegmentLength + (p % SegmentLength)
         /\ Segment(p) * SegmentLength \in Int
<1>1. SegmentLength \in Nat /\ SegmentLength > 0 /\ p \in Nat /\ Len(s) \in Nat /\ p < Len(s)
  BY DataAssumption DEF TextInv
<1>2. p % SegmentLength \in 0 .. SegmentLength - 1
  BY ONLY <1>1
<1>3. p = SegmentLength * (p \div SegmentLength) + (p % SegmentLength)
  BY ONLY <1>1
<1>4. p \div SegmentLength \in Nat /\ Len(s) \div SegmentLength \in Nat
  BY ONLY <1>1
<1>5. p \div SegmentLength <= Len(s) \div SegmentLength
  BY ONLY <1>1
<1> QED
  BY <1>1, <1>2, <1>3, <1>4, <1>5 DEF Segment, Segments

\* The sorted suffixes of a segment, and what its anchor says of them.
SortedOf(g, F) == { p \in Positions(s) : Segment(p) = g /\ BucketOf(s, p) \in F }
AnchorIsFinal(anchor, g, F) ==
  IF anchor.relative = Null THEN SortedOf(g, F) = {}
  ELSE /\ g * SegmentLength + anchor.relative \in SortedOf(g, F)
       /\ \A q \in SortedOf(g, F) : g * SegmentLength + anchor.relative <= q
       /\ anchor.position = Rank(s, g * SegmentLength + anchor.relative)

LEMMA AnchorsBySegment ==
  ASSUME NEW anchors, NEW F
  PROVE  AnchorsAreFinal(s, anchors, F) <=> \A g \in Segments(s) : AnchorIsFinal(anchors[g], g, F)
BY DEF AnchorsAreFinal, AnchorIsFinal, SortedOf

\* Once a bucket is sorted its anchors and the old ones are those of all.
LEMMA AnchorsUpdated ==
  ASSUME TextInv(s), NEW a, InOwnBuckets(s, a), NEW b \in Buckets, NEW F,
         \A c \in CellsOf(s, b) : Rank(s, a[c]) = c,
         NEW anchors \in Anchors, AnchorsAreFinal(s, anchors, F)
  PROVE  /\ update_anchors(s, anchors, a, b) \in Anchors
         /\ AnchorsAreFinal(s, update_anchors(s, anchors, a, b), F \cup { b })
<1> DEFINE new == update_anchors(s, anchors, a, b)
           T == CellsOf(s, b)
           inSegment(g) == { c \in T : Segment(a[c]) = g }
           leftmost(g) == CHOOSE c \in inSegment(g) : \A d \in inSegment(g) : a[c] <= a[d]
           updated(g) == update_anchor(anchors, a[leftmost(g)], leftmost(g))
           Anchor == [ relative : -1 .. SegmentLength - 1, position : Nat ]
<1>1. new = [ g \in Segments(s) |-> IF inSegment(g) = {} THEN anchors[g] ELSE updated(g)[g] ]
  BY DEF update_anchors
<1>2. /\ T \subseteq Positions(s)
      /\ a \in [ Positions(s) -> Positions(s) ]
      /\ { a[c] : c \in T } = { p \in Positions(s) : BucketOf(s, p) = b }
      /\ \A c \in T : Rank(s, a[c]) = c
  BY CellsFacts, BucketSpans DEF InOwnBuckets
<1>3. Positions(s) \subseteq Nat /\ SegmentLength \in Nat
  BY DataAssumption DEF TextInv
<1>4. \A p \in Positions(s) :
        /\ Segment(p) \in Segments(s)
        /\ p % SegmentLength \in 0 .. SegmentLength - 1
        /\ p = Segment(p) * SegmentLength + (p % SegmentLength)
        /\ Segment(p) * SegmentLength \in Int
  BY SegmentFacts
<1>5. \A p \in Positions(s) : BucketOf(s, p) = b <=> \E c \in T : a[c] = p
  BY <1>2
<1>6. \A g \in Segments(s) : anchors[g] \in Anchor /\ AnchorIsFinal(anchors[g], g, F)
  BY AnchorsBySegment DEF Anchors
<1>7. \A g : \A c : c \in inSegment(g) <=> c \in T /\ Segment(a[c]) = g
  OBVIOUS
<1>8. ASSUME NEW g \in Segments(s), inSegment(g) # {}
      PROVE  leftmost(g) \in inSegment(g) /\ \A d \in inSegment(g) : a[leftmost(g)] <= a[d]
  <2> DEFINE S == inSegment(g)
             V == { a[c] : c \in S }
  <2>1. V \subseteq Nat /\ V # {}
    BY <1>2, <1>3, <1>8
  <2> HIDE DEF V
  <2>2. PICK v \in V : \A w \in V : v <= w
    BY <2>1, Smallest
  <2>3. \E c \in S : \A d \in S : a[c] <= a[d]
    BY <2>2 DEF V
  <2> HIDE DEF S
  <2>4. (CHOOSE c \in S : \A d \in S : a[c] <= a[d]) \in S
        /\ \A d \in S : a[CHOOSE c \in S : \A e \in S : a[c] <= a[e]] <= a[d]
    BY <2>3
  <2> QED
    BY <2>4 DEF S
<1>9. ASSUME NEW g \in Segments(s), inSegment(g) # {}
      PROVE  updated(g)[g] =
               IF anchors[g].relative = Null \/ a[leftmost(g)] % SegmentLength < anchors[g].relative
                 THEN [ relative |-> a[leftmost(g)] % SegmentLength, position |-> leftmost(g) ]
                 ELSE anchors[g]
  <2>1. Segment(a[leftmost(g)]) = g
    BY <1>7, <1>8, <1>9
  <2>2. DOMAIN anchors = Segments(s)
    BY DEF Anchors
  <2> HIDE DEF leftmost
  <2> QED
    BY <2>1, <2>2 DEF update_anchor
<1> HIDE DEF new, T, leftmost, inSegment, updated, Anchor
<1>10. ASSUME NEW g \in Segments(s)
       PROVE  new[g] \in Anchor /\ AnchorIsFinal(new[g], g, F \cup { b })
  <2> DEFINE old == SortedOf(g, F)
             all == SortedOf(g, F \cup { b })
  <2>1. \A p \in Positions(s) : Segment(p) = g /\ BucketOf(s, p) = b <=> \E c \in inSegment(g) : a[c] = p
    BY <1>5, <1>7
  <2>2. \A p : p \in all <=> p \in old \/ \E c \in inSegment(g) : a[c] = p
    <3>1. \A p : p \in all <=> p \in old \/ (p \in Positions(s) /\ Segment(p) = g /\ BucketOf(s, p) = b)
      BY DEF SortedOf
    <3>2. \A c \in inSegment(g) : a[c] \in Positions(s)
      BY <1>2, <1>7
    <3> QED
      BY <2>1, <3>1, <3>2
  <2>3. anchors[g] \in Anchor /\ AnchorIsFinal(anchors[g], g, F)
    BY <1>6
  <2>4. CASE inSegment(g) = {}
    <3>1. new[g] = anchors[g]
      BY <1>1, <2>4
    <3>2. all = old
      BY <2>2, <2>4
    <3> QED
      BY <2>3, <3>1, <3>2 DEF AnchorIsFinal
  <2>5. CASE inSegment(g) # {}
    <3> DEFINE c0 == leftmost(g)
               p0 == a[c0]
               r0 == p0 % SegmentLength
               base == g * SegmentLength
               rel == anchors[g].relative
    <3>1. c0 \in inSegment(g) /\ \A d \in inSegment(g) : p0 <= a[d]
      BY <1>8, <2>5
    <3>2. c0 \in T /\ Segment(p0) = g /\ p0 \in Positions(s) /\ Rank(s, p0) = c0 /\ c0 \in Nat
      BY <1>2, <1>3, <1>7, <3>1
    <3>3. r0 \in 0 .. SegmentLength - 1 /\ p0 = base + r0 /\ base \in Int
      BY <1>4, <3>2
    <3>4. new[g] = IF rel = Null \/ r0 < rel THEN [ relative |-> r0, position |-> c0 ] ELSE anchors[g]
      BY <1>1, <1>9, <2>5
    <3>5. p0 \in all
      BY <2>2, <3>1
    <3>6. rel \in -1 .. SegmentLength - 1
      BY <2>3 DEF Anchor
    <3>7. \A p \in old : p \in Nat
      BY <1>3 DEF SortedOf
    <3>8. \A c \in inSegment(g) : a[c] \in Nat
      BY <1>2, <1>3, <1>7
    <3>9. /\ rel = Null => old = {}
          /\ rel # Null => /\ base + rel \in old
                           /\ \A q \in old : base + rel <= q
                           /\ anchors[g].position = Rank(s, base + rel)
      BY <2>3 DEF AnchorIsFinal
    <3> HIDE DEF c0, p0, r0, base, rel, old, all
    <3>10. CASE rel = Null \/ r0 < rel
      <4>1. new[g] = [ relative |-> r0, position |-> c0 ]
        BY <3>4, <3>10
      <4>2. \A q \in all : p0 <= q
        <5> SUFFICES ASSUME NEW q \in all PROVE p0 <= q
          OBVIOUS
        <5>1. CASE q \in old
          <6>1. base + rel <= q /\ r0 < rel /\ q \in Nat
            BY <3>7, <3>9, <3>10, <5>1
          <6> QED
            BY <3>3, <3>6, <6>1
        <5>2. CASE \E c \in inSegment(g) : a[c] = q
          BY <3>1, <5>2
        <5> QED
          BY <2>2, <5>1, <5>2
      <4>3. r0 # Null
        BY <3>3 DEF Null
      <4>4. new[g].relative = r0 /\ new[g].position = c0
        BY <4>1
      <4>5. AnchorIsFinal(new[g], g, F \cup { b })
        BY <3>2, <3>3, <3>5, <4>2, <4>3, <4>4 DEF AnchorIsFinal, base, all
      <4>6. new[g] \in Anchor
        BY <3>2, <3>3, <4>1 DEF Anchor
      <4> QED
        BY <4>5, <4>6
    <3>11. CASE ~(rel = Null \/ r0 < rel)
      <4>1. new[g] = anchors[g]
        BY <3>4, <3>11
      <4>2. base + rel <= p0
        BY <3>3, <3>6, <3>11
      <4>3. \A q \in all : base + rel <= q
        <5> SUFFICES ASSUME NEW q \in all PROVE base + rel <= q
          OBVIOUS
        <5>1. CASE q \in old
          BY <3>9, <3>11, <5>1
        <5>2. CASE \E c \in inSegment(g) : a[c] = q
          <6>1. p0 <= q /\ q \in Nat
            BY <3>1, <3>8, <5>2
          <6> QED
            BY <3>3, <3>6, <4>2, <6>1
        <5> QED
          BY <2>2, <5>1, <5>2
      <4>4. base + rel \in all
        BY <2>2, <3>9, <3>11
      <4>5. AnchorIsFinal(new[g], g, F \cup { b })
        BY <3>9, <3>11, <4>1, <4>3, <4>4 DEF AnchorIsFinal, base, rel, all
      <4> QED
        BY <2>3, <4>1, <4>5
    <3> QED
      BY <3>10, <3>11
  <2> QED
    BY <2>4, <2>5
<1>11. new \in Anchors
  <2>1. new = [ g \in Segments(s) |-> new[g] ]
    BY <1>1
  <2> QED
    BY <1>10, <2>1 DEF Anchors, Anchor
<1>12. AnchorsAreFinal(s, new, F \cup { b })
  BY <1>10, AnchorsBySegment
<1> QED
  BY <1>11, <1>12 DEF new

-----------------------------------------------------------------------------
(* deep_sort *)

\* Rearranging the cells of a bucket that is not yet sorted leaves the sorted
\* ones as they are.
LEMMA SortedKept ==
  ASSUME TextInv(s), BucketsInv, NEW b \in Buckets, b \notin finished, NEW new,
         \A c \in Positions(s) \ CellsOf(s, b) : new[c] = suffix_array[c]
  PROVE  \A d \in finished : \A c \in CellsOf(s, d) :
           new[c] = suffix_array[c] /\ Rank(s, new[c]) = c
<1> SUFFICES ASSUME NEW d \in finished, NEW c \in CellsOf(s, d)
             PROVE  new[c] = suffix_array[c] /\ Rank(s, new[c]) = c
  OBVIOUS
<1>1. d \in Buckets /\ d # b
  BY DEF BucketsInv
<1>2. c \in Positions(s) /\ c \notin CellsOf(s, b)
  BY <1>1, CellsFacts, CellsApart
<1>3. Rank(s, suffix_array[c]) = c
  BY DEF BucketsInv
<1> QED
  BY <1>2, <1>3

\* Putting a group in order leaves the bucket sorted outside of the others.
LEMMA GroupSorted ==
  ASSUME TextInv(s), ArrayInv, BucketsInv, GroupsInv, NEW g \in groups, NEW new,
         new \in [ Positions(s) -> Positions(s) ],
         \A c \in Positions(s) \ (g[1] .. g[2] - 1) : new[c] = suffix_array[c],
         \A c \in g[1] .. g[2] - 1 : /\ Rank(s, new[c]) = c
                                     /\ \E d \in g[1] .. g[2] - 1 : new[c] = suffix_array[d]
  PROVE  /\ current \in Buckets /\ current \notin finished /\ phase = "buckets"
         /\ InOwnBuckets(s, new)
         /\ \A c \in Positions(s) \ CellsOf(s, current) : new[c] = suffix_array[c]
         /\ \A h \in groups \ { g } : IsGroup(new, current, h)
         /\ \A c \in CellsOf(s, current) :
              Rank(s, new[c]) = c \/ \E h \in groups \ { g } : c \in h[1] .. h[2] - 1
<1> DEFINE C == g[1] .. g[2] - 1
<1>1. current # NoBucket /\ current \in Buckets /\ current \notin finished /\ phase = "buckets"
  BY DEF GroupsInv, BucketsInv, ArrayInv
<1>2. InOwnBuckets(s, suffix_array)
  BY <1>1 DEF ArrayInv
<1>3. IsGroup(suffix_array, current, g) /\ C \subseteq CellsOf(s, current)
  BY DEF GroupsInv, IsGroup
<1>4. CellsOf(s, current) \subseteq Positions(s)
  BY <1>1, CellsFacts
<1>5. /\ \A c \in Positions(s) \ C : new[c] = suffix_array[c]
      /\ \A c \in C : Rank(s, new[c]) = c /\ \E d \in C : new[c] = suffix_array[d]
  OBVIOUS
<1>6. ASSUME NEW h \in groups \ { g } PROVE IsGroup(new, current, h)
  <2> DEFINE D == h[1] .. h[2] - 1
  <2>1. \A c \in D : c \notin C
    BY DEF GroupsInv
  <2>2. IsGroup(suffix_array, current, h)
    BY DEF GroupsInv
  <2>3. D \subseteq Positions(s)
    BY <1>4, <2>2 DEF IsGroup
  <2>4. \A c \in D : new[c] = suffix_array[c]
    BY <1>5, <2>1, <2>3
  <2>5. { Rank(s, new[c]) : c \in D } = { Rank(s, suffix_array[c]) : c \in D }
    BY <2>4
  <2>6. Spans(s, new, h[1], h[2])
    BY <2>2, <2>5 DEF IsGroup, Spans
  <2>7. \A c, d \in D : new[c] = new[d] \/ Agree(new[c], new[d], DeepSortDepth)
    BY <2>2, <2>4 DEF IsGroup
  <2> QED
    BY <2>2, <2>6, <2>7 DEF IsGroup
<1> HIDE DEF C
<1>7. InOwnBuckets(s, new)
  <2>1. \A c, d \in C : new[c] = new[d] => c = d
    BY <1>5
  <2>2. TextInv(s) /\ new \in [ Positions(s) -> Positions(s) ]
    OBVIOUS
  <2> QED
    BY ONLY <1>1, <1>2, <1>3, <1>5, <2>1, <2>2, Permuted
<1>8. \A c \in Positions(s) \ CellsOf(s, current) : new[c] = suffix_array[c]
  BY <1>3, <1>5
<1>9. ASSUME NEW c \in CellsOf(s, current)
      PROVE  Rank(s, new[c]) = c \/ \E h \in groups \ { g } : c \in h[1] .. h[2] - 1
  <2>1. CASE c \in C
    BY <1>5, <2>1
  <2>2. CASE c \notin C
    <3>1. new[c] = suffix_array[c]
      BY <1>4, <1>5, <2>2
    <3>2. Rank(s, suffix_array[c]) = c \/ \E h \in groups : c \in h[1] .. h[2] - 1
      BY <1>1 DEF GroupsInv
    <3> QED
      BY <2>2, <3>1, <3>2 DEF C
  <2> QED
    BY <2>1, <2>2
<1> QED
  BY <1>1, <1>6, <1>7, <1>8, <1>9

\* The suffixes that a search has marked give the group's order: those of the
\* group are as many places left of them, within the common prefix.
LEMMA InducedSorted ==
  ASSUME TextInv(s), ArrayInv, BucketsInv, GroupsInv, SearchInv, search # NoSearch,
         Cardinality(tagged) = GroupSize,
         NEW g, g = search.group, NEW new, new = Induced(search.relation)
  PROVE  /\ g \in groups
         /\ new \in [ Positions(s) -> Positions(s) ]
         /\ \A c \in Positions(s) \ (g[1] .. g[2] - 1) : new[c] = suffix_array[c]
         /\ \A c \in g[1] .. g[2] - 1 : /\ Rank(s, new[c]) = c
                                        /\ \E d \in g[1] .. g[2] - 1 : new[c] = suffix_array[d]
<1> DEFINE l == g[1]
           e == g[2]
           C == l .. e - 1
           rel == search.relation
           a == suffix_array
           T == tagged
           m == e - l
<1>1. /\ g \in groups /\ rel \in 1 .. DeepSortDepth - 1
      /\ \A c \in T : search.leftmost <= c /\ \E d \in C : a[c] - rel = a[d]
  BY DEF SearchInv
<1>2. PICK b \in finished : T \subseteq CellsOf(s, b)
  BY DEF SearchInv
<1>3. /\ current # NoBucket /\ current \in Buckets /\ phase = "buckets" /\ b \in Buckets
      /\ InOwnBuckets(s, a)
      /\ IsGroup(a, current, g)
  BY <1>1 DEF GroupsInv, BucketsInv, ArrayInv
<1>4. /\ l \in Nat /\ e \in Nat /\ l < e /\ C \subseteq Positions(s)
      /\ Spans(s, a, l, e)
      /\ \A c, d \in C : a[c] = a[d] \/ Agree(a[c], a[d], DeepSortDepth)
  <2>1. CellsOf(s, current) \subseteq Positions(s)
    BY <1>3, CellsFacts
  <2> QED
    BY <1>3, <2>1 DEF IsGroup
<1>5. T \subseteq Positions(s) /\ T \subseteq Nat /\ IsFiniteSet(T) /\ Cardinality(T) = m
  <2>1. CellsOf(s, b) \subseteq Positions(s)
    BY <1>3, CellsFacts
  <2>2. T \subseteq Positions(s) /\ IsFiniteSet(Positions(s)) /\ Positions(s) \subseteq Nat
    BY <1>2, <2>1, PositionsFinite DEF TextInv
  <2>3. IsFiniteSet(T)
    BY <2>2, FS_Subset
  <2>4. GroupSize = m
    BY DEF GroupSize
  <2> QED
    BY <2>2, <2>3, <2>4
<1>6. \A c \in T : Rank(s, a[c]) = c
  BY <1>2 DEF BucketsInv
<1>7. /\ a \in [ Positions(s) -> Positions(s) ]
      /\ \A c, d \in Positions(s) : a[c] = a[d] => c = d
  BY <1>3 DEF InOwnBuckets
<1>8. new = [ c \in Positions(s) |-> IF c \in C THEN a[Marked(c - l)] - rel ELSE a[c] ]
  BY DEF Induced
<1>9. /\ \A k \in 0 .. m - 1 : Marked(k) \in T
      /\ \A j, k \in 0 .. m - 1 : j < k => Marked(j) < Marked(k)
  <2>1. /\ Orders(ByNumber(T), T)
        /\ \A p, q \in T : << p, q >> \in ByNumber(T) <=> p < q
        /\ \A p \in T : Place(ByNumber(T), T, p) = Cardinality({ q \in T : q < p })
    BY <1>5, NumberOrder
  <2>2. /\ \A p, q \in T : << p, q >> \in ByNumber(T) <=> Place(ByNumber(T), T, p) < Place(ByNumber(T), T, q)
        /\ \A k \in 0 .. Cardinality(T) - 1 : \E p \in T : Place(ByNumber(T), T, p) = k
    BY <1>5, <2>1, OrderPlaces
  <2>3. \A k \in 0 .. m - 1 : \E c \in T : c >= search.leftmost /\ Cardinality({ d \in T : d < c }) = k
    <3> SUFFICES ASSUME NEW k \in 0 .. m - 1
                 PROVE  \E c \in T : c >= search.leftmost /\ Cardinality({ d \in T : d < c }) = k
      OBVIOUS
    <3>1. PICK c \in T : Place(ByNumber(T), T, c) = k
      BY <1>5, <2>2
    <3>2. Cardinality({ d \in T : d < c }) = k /\ search.leftmost <= c
      BY <1>1, <2>1, <3>1
    <3> QED
      BY <3>2
  <2>4. \A k \in 0 .. m - 1 : Marked(k) \in T /\ Cardinality({ d \in T : d < Marked(k) }) = k
    BY <2>3 DEF Marked
  <2> HIDE DEF T, m
  <2>5. \A k \in 0 .. m - 1 : Marked(k) \in T /\ Place(ByNumber(T), T, Marked(k)) = k
    BY <2>1, <2>4
  <2> QED
    BY <2>1, <2>2, <2>5
<1> DEFINE p(k) == a[Marked(k)] - rel
<1>10. \A k \in 0 .. m - 1 : \E d \in C : p(k) = a[d]
  BY <1>1, <1>9
<1>11. \A c \in C : new[c] = p(c - l)
  BY <1>4, <1>8
<1>12. \A c \in Positions(s) \ C : new[c] = a[c]
  BY <1>8
<1>13. new = [ c \in Positions(s) |-> new[c] ]
  BY <1>8
<1> HIDE DEF l, e, C, rel, a, T, m, p
<1>14. l .. e - 1 = C /\ \A c \in C : c \in Positions(s) /\ c - l \in 0 .. m - 1 /\ c \in Int
  BY <1>4 DEF C, m
<1>15. \A c \in C : \E d \in C : new[c] = a[d]
  BY <1>10, <1>11, <1>14
<1>16. new \in [ Positions(s) -> Positions(s) ]
  <2>1. \A c \in Positions(s) : new[c] \in Positions(s)
    BY <1>7, <1>12, <1>14, <1>15
  <2> QED
    BY <1>13, <2>1
<1>17. \A d \in C : Rank(s, a[d]) \in C
  BY <1>4, <1>14 DEF Spans
<1>18. m \in Nat /\ 0 < m /\ e = l + m
  BY <1>4 DEF m
<1> DEFINE f == [ k \in 0 .. m - 1 |-> Rank(s, p(k)) - l ]
<1>19. f \in [ 0 .. m - 1 -> 0 .. m - 1 ]
  <2> SUFFICES ASSUME NEW k \in 0 .. m - 1 PROVE Rank(s, p(k)) - l \in 0 .. m - 1
    OBVIOUS
  <2>1. Rank(s, p(k)) \in C
    BY <1>10, <1>17
  <2> QED
    BY <1>14, <2>1
<1>20. ASSUME NEW j \in 0 .. m - 1, NEW k \in 0 .. m - 1, j < k PROVE f[j] < f[k]
  <2> DEFINE cj == Marked(j)
             ck == Marked(k)
  <2>1. cj \in T /\ ck \in T /\ cj < ck
    BY <1>9, <1>20
  <2>2. a[cj] \in Positions(s) /\ a[ck] \in Positions(s) /\ Rank(s, a[cj]) < Rank(s, a[ck])
    BY <1>5, <1>6, <1>7, <2>1
  <2>3. SuffixLess(s, a[cj], a[ck])
    BY <2>2, RankFacts
  <2>4. p(j) = a[cj] - rel /\ p(k) = a[ck] - rel
    BY DEF p
  <2>5. a[cj] # a[ck] /\ a[cj] \in Int /\ a[ck] \in Int /\ rel \in Int
    <3>1. Positions(s) \subseteq Nat /\ rel \in Int
      BY <1>1, DepthAssumption DEF TextInv
    <3>2. a[cj] # a[ck]
      BY <2>2, <2>3, LessOrder
    <3> QED
      BY <2>2, <3>1, <3>2
  <2> HIDE DEF cj, ck
  <2>6. p(j) # p(k) /\ p(j) + rel = a[cj] /\ p(k) + rel = a[ck]
    BY <2>4, <2>5
  <2>7. p(j) \in Positions(s) /\ p(k) \in Positions(s) /\ Agree(p(j), p(k), DeepSortDepth)
    <3>1. PICK c \in C : p(j) = a[c]
      BY <1>10
    <3>2. PICK d \in C : p(k) = a[d]
      BY <1>10
    <3>3. a[c] = a[d] \/ Agree(a[c], a[d], DeepSortDepth)
      BY <1>4 DEF C
    <3> QED
      BY <1>7, <1>14, <2>6, <3>1, <3>2, <3>3
  <2>8. rel \in 0 .. DeepSortDepth - 1 /\ DeepSortDepth \in Nat
    BY <1>1, DepthAssumption
  <2>9. SuffixLess(s, p(j) + rel, p(k) + rel)
    BY <2>3, <2>6
  <2>10. SuffixLess(s, p(j), p(k))
    BY <2>7, <2>8, <2>9, AgreeShift
  <2>11. Rank(s, p(j)) < Rank(s, p(k))
    BY <2>7, <2>10, RankFacts
  <2>12. Rank(s, p(j)) \in Int /\ Rank(s, p(k)) \in Int /\ l \in Int
    <3>1. Rank(s, p(j)) \in C /\ Rank(s, p(k)) \in C
      BY <1>10, <1>17
    <3> QED
      BY <1>4, <1>14, <3>1
  <2> QED
    BY <2>11, <2>12
<1>21. \A k \in 0 .. m - 1 : f[k] = k
  <2> HIDE DEF f
  <2> QED
    BY ONLY <1>18, <1>19, <1>20, Identity
<1>22. \A c \in C : Rank(s, new[c]) = c
  <2> SUFFICES ASSUME NEW c \in C PROVE Rank(s, new[c]) = c
    OBVIOUS
  <2>1. c - l \in 0 .. m - 1 /\ c \in Int /\ l \in Int
    BY <1>4, <1>14
  <2>2. Rank(s, p(c - l)) - l = c - l
    BY <1>21, <2>1
  <2>3. Rank(s, p(c - l)) \in Int
    BY <1>10, <1>14, <1>17, <2>1
  <2> QED
    BY <1>11, <2>1, <2>2, <2>3
<1> QED
  BY <1>1, <1>12, <1>15, <1>16, <1>22 DEF C, l, e, a

-----------------------------------------------------------------------------
(* The steps *)

\* What is said of the text alone is not changed by a step.
LEMMA SameText ==
  ASSUME s' = s
  PROVE  /\ \A g : IsGroup(suffix_array', current', g) => IsGroup(suffix_array, current, g)'
         /\ Anchors' = Anchors
<1>1. \A p, q, d : Agree(p, q, d)' <=> Agree(p, q, d)
  BY DEF Agree, n
<1> QED
  BY <1>1 DEF IsGroup, Anchors

LEMMA Initially ==
  Init => DeepInv
<1> SUFFICES ASSUME Init PROVE DeepInv
  OBVIOUS
<1>1. s \in Texts
  BY DEF Init
<1>2. ArrayInv
  BY DEF Init, ArrayInv
<1>3. BucketsInv
  BY DEF Init, BucketsInv
<1>4. GroupsInv
  BY DEF Init, GroupsInv
<1>5. AnchorsInv
  <2>1. ad = [ g \in Segments(s) |-> [ relative |-> -1, position |-> 0 ] ] /\ finished = {}
    BY DEF Init, NoAnchors, Null
  <2>2. SegmentLength \in Nat
    BY DataAssumption
  <2>3. ad \in Anchors
    BY <2>1, <2>2 DEF Anchors
  <2>4. \A g \in Segments(s) : ad[g].relative = Null /\ SortedOf(g, finished) = {}
    BY <2>1 DEF SortedOf, Null
  <2>5. AnchorsAreFinal(s, ad, finished)
    BY <2>4, AnchorsBySegment DEF AnchorIsFinal
  <2> QED
    BY <2>3, <2>5 DEF AnchorsInv
<1>6. SearchInv
  BY DEF Init, SearchInv
<1> QED
  BY <1>1, <1>2, <1>3, <1>4, <1>5, <1>6 DEF DeepInv

LEMMA StutterKeeps ==
  ASSUME DeepInv, UNCHANGED vars
  PROVE  DeepInv'
<1>1. /\ s' = s /\ suffix_array' = suffix_array /\ left' = left /\ current' = current
      /\ groups' = groups /\ ad' = ad /\ finished' = finished /\ search' = search
      /\ tagged' = tagged /\ phase' = phase
  BY DEF vars
<1>2. ArrayInv' /\ BucketsInv' /\ SearchInv'
  BY <1>1 DEF DeepInv, ArrayInv, BucketsInv, SearchInv
<1>3. GroupsInv'
  BY <1>1, SameText DEF DeepInv, GroupsInv
<1>4. AnchorsInv'
  BY <1>1, SameText DEF DeepInv, AnchorsInv
<1> QED
  BY <1>1, <1>2, <1>3, <1>4 DEF DeepInv

LEMMA SmallTextKeeps ==
  ASSUME DeepInv, SortSmallText
  PROVE  DeepInv'
<1>1. /\ phase = "new" /\ suffix_array' = SortedIn(s, suffix_array, Positions(s)) /\ phase' = "done"
      /\ s' = s /\ left' = left /\ current' = current /\ groups' = groups /\ ad' = ad
      /\ finished' = finished /\ search' = search /\ tagged' = tagged
  BY DEF SortSmallText
<1>2. /\ TextInv(s) /\ suffix_array = [ c \in Positions(s) |-> c ]
      /\ left = Buckets /\ finished = {} /\ current = NoBucket /\ groups = {} /\ search = NoSearch
  BY <1>1, TextFacts DEF DeepInv, ArrayInv, GroupsInv, SearchInv
<1>3. suffix_array' \in [ Positions(s) -> Positions(s) ] /\ \A c \in Positions(s) : Rank(s, suffix_array'[c]) = c
  BY <1>1, <1>2, WholeSorted
<1>4. ArrayInv'
  BY <1>1, <1>2, <1>3 DEF ArrayInv
<1>5. BucketsInv'
  BY <1>1, <1>2 DEF BucketsInv
<1>6. GroupsInv'
  BY <1>1, <1>2 DEF GroupsInv
<1>7. AnchorsInv'
  BY <1>1, SameText DEF DeepInv, AnchorsInv
<1>8. SearchInv'
  BY <1>1, <1>2 DEF SearchInv
<1> QED
  BY <1>1, <1>4, <1>5, <1>6, <1>7, <1>8 DEF DeepInv

LEMMA BucketSortKeeps ==
  ASSUME DeepInv, bucket_sort
  PROVE  DeepInv'
<1>1. /\ phase = "new" /\ suffix_array' = Presorted(s) /\ phase' = "buckets"
      /\ s' = s /\ left' = left /\ current' = current /\ groups' = groups /\ ad' = ad
      /\ finished' = finished /\ search' = search /\ tagged' = tagged
  BY DEF bucket_sort
<1>2. /\ TextInv(s) /\ left = Buckets /\ finished = {}
      /\ current = NoBucket /\ groups = {} /\ search = NoSearch
  BY <1>1, TextFacts DEF DeepInv, ArrayInv, GroupsInv, SearchInv
<1>3. InOwnBuckets(s, suffix_array')
  BY <1>1, <1>2, PresortedFacts
<1>4. ArrayInv'
  BY <1>1, <1>2, <1>3 DEF ArrayInv
<1>5. BucketsInv'
  BY <1>1, <1>2 DEF BucketsInv
<1>6. GroupsInv'
  BY <1>1, <1>2 DEF GroupsInv
<1>7. AnchorsInv'
  BY <1>1, SameText DEF DeepInv, AnchorsInv
<1>8. SearchInv'
  BY <1>1, <1>2 DEF SearchInv
<1> QED
  BY <1>1, <1>4, <1>5, <1>6, <1>7, <1>8 DEF DeepInv

LEMMA SkipKeeps ==
  ASSUME DeepInv, SkipSmallBuckets
  PROVE  DeepInv'
<1>1. /\ phase = "buckets" /\ left' = left \ { b \in left : size_of_bucket(s, b) < 2 }
      /\ s' = s /\ suffix_array' = suffix_array /\ current' = current /\ groups' = groups /\ ad' = ad
      /\ finished' = finished /\ search' = search /\ tagged' = tagged /\ phase' = phase
  BY DEF SkipSmallBuckets
<1>2. ArrayInv' /\ SearchInv'
  BY <1>1 DEF DeepInv, ArrayInv, SearchInv
<1>3. GroupsInv'
  BY <1>1, SameText DEF DeepInv, GroupsInv
<1>4. BucketsInv'
  BY <1>1 DEF DeepInv, BucketsInv
<1>5. AnchorsInv'
  BY <1>1, SameText DEF DeepInv, AnchorsInv
<1> QED
  BY <1>1, <1>2, <1>3, <1>4, <1>5 DEF DeepInv

\* What the actions that rewrite cells of a bucket have in common.
LEMMA RewriteKeeps ==
  ASSUME DeepInv, phase = "buckets", NEW b \in Buckets, b \notin finished,
         s' = s, phase' = phase, ad' = ad, finished' = finished, search' = NoSearch, current' = b,
         left' \subseteq left, b \notin left',
         \A d \in Buckets : d \in left => d \in left' \/ d = b,
         current = NoBucket \/ current = b, b # NoBucket,
         InOwnBuckets(s, suffix_array'),
         \A c \in Positions(s) \ CellsOf(s, b) : suffix_array'[c] = suffix_array[c]
  PROVE  /\ s' \in Texts /\ ArrayInv' /\ BucketsInv' /\ AnchorsInv' /\ SearchInv'
         /\ \A c \in Positions(s) :
              BucketOf(s, suffix_array[c]) \in finished => suffix_array'[c] = suffix_array[c]
<1>1. TextInv(s) /\ BucketsInv /\ ArrayInv /\ s \in Texts
  BY TextFacts DEF DeepInv
<1>2. \A d \in finished : \A c \in CellsOf(s, d) :
        suffix_array'[c] = suffix_array[c] /\ Rank(s, suffix_array'[c]) = c
  BY <1>1, SortedKept
<1>3. ArrayInv'
  BY <1>1 DEF ArrayInv
<1>4. BucketsInv'
  <2>1. /\ left' \subseteq Buckets /\ finished' \subseteq Buckets /\ left' \cap finished' = {}
        /\ current' \in Buckets /\ current' \notin left' /\ current' \notin finished'
    BY <1>1 DEF BucketsInv
  <2>2. \A d \in Buckets : \/ d \in left'
                           \/ current' # NoBucket /\ d = current'
                           \/ d \in finished'
                           \/ size_of_bucket(s, d) < 2
    BY <1>1 DEF BucketsInv
  <2>3. \A d \in finished' : \A c \in CellsOf(s', d) : Rank(s', suffix_array'[c]) = c
    BY <1>2
  <2> QED
    BY <2>1, <2>2, <2>3 DEF BucketsInv
<1>5. AnchorsInv'
  BY SameText DEF DeepInv, AnchorsInv
<1>6. SearchInv'
  BY DEF SearchInv
<1>7. ASSUME NEW c \in Positions(s), BucketOf(s, suffix_array[c]) \in finished
      PROVE  suffix_array'[c] = suffix_array[c]
  <2>1. c \in CellsOf(s, BucketOf(s, suffix_array[c]))
    BY <1>1 DEF ArrayInv, InOwnBuckets
  <2> QED
    BY <1>2, <1>7, <2>1
<1> QED
  BY <1>1, <1>3, <1>4, <1>5, <1>6, <1>7

SortedStay ==
  \A c \in Positions(s) : BucketOf(s, suffix_array[c]) \in finished => suffix_array'[c] = suffix_array[c]

LEMMA NoPair ==
  ASSUME NEW b \in Buckets
  PROVE  b # NoBucket
BY DEF Buckets, NoBucket

LEMMA PairKeeps ==
  ASSUME DeepInv, SortPair
  PROVE  DeepInv' /\ SortedStay
<1>1. PICK b \in left :
        /\ phase = "buckets" /\ current = NoBucket /\ size_of_bucket(s, b) = 2
        /\ suffix_array' = SortedIn(s, suffix_array, CellsOf(s, b))
        /\ left' = left \ { b } /\ current' = b
        /\ s' = s /\ groups' = groups /\ ad' = ad /\ finished' = finished /\ search' = search
        /\ phase' = phase
  BY DEF SortPair, get_smallest_bucket
<1>2. /\ TextInv(s) /\ b \in Buckets /\ b \notin finished /\ groups = {} /\ search = NoSearch
      /\ InOwnBuckets(s, suffix_array)
  BY <1>1, TextFacts DEF DeepInv, ArrayInv, BucketsInv, GroupsInv, SearchInv
<1> DEFINE l == start_of_bucket(s, b)
           e == end_of_bucket(s, b)
<1>3. /\ l \in Nat /\ e \in Nat /\ CellsOf(s, b) = l .. e - 1 /\ CellsOf(s, b) \subseteq Positions(s)
      /\ Spans(s, suffix_array, l, e)
      /\ suffix_array \in [ Positions(s) -> Positions(s) ]
  BY <1>2, CellsFacts, BucketSpans DEF CellsOf, InOwnBuckets
<1> HIDE DEF l, e
<1>4. /\ suffix_array' \in [ Positions(s) -> Positions(s) ]
      /\ \A c \in l .. e - 1 : /\ Rank(s, suffix_array'[c]) = c
                               /\ \E d \in l .. e - 1 : suffix_array'[c] = suffix_array[d]
      /\ \A c \in Positions(s) \ (l .. e - 1) : suffix_array'[c] = suffix_array[c]
  <2> DEFINE new == SortedIn(s, suffix_array, l .. e - 1)
  <2>1. suffix_array' = new
    BY <1>1, <1>3
  <2>2. /\ new \in [ Positions(s) -> Positions(s) ]
        /\ \A c \in l .. e - 1 : /\ Rank(s, new[c]) = c
                                 /\ \E d \in l .. e - 1 : new[c] = suffix_array[d]
        /\ \A c \in Positions(s) \ (l .. e - 1) : new[c] = suffix_array[c]
    BY <1>2, <1>3, SortedInFacts
  <2> HIDE DEF new
  <2> QED
    BY <2>1, <2>2
<1>5. InOwnBuckets(s, suffix_array')
  <2> DEFINE C == CellsOf(s, b)
  <2>1. /\ C \subseteq CellsOf(s, b)
        /\ \A c \in Positions(s) \ C : suffix_array'[c] = suffix_array[c]
        /\ \A c \in C : \E d \in C : suffix_array'[c] = suffix_array[d]
        /\ \A c, d \in C : suffix_array'[c] = suffix_array'[d] => c = d
    <3>1. C = l .. e - 1
      BY <1>3
    <3> HIDE DEF C
    <3>2. /\ \A c \in C : Rank(s, suffix_array'[c]) = c /\ \E d \in C : suffix_array'[c] = suffix_array[d]
          /\ \A c \in Positions(s) \ C : suffix_array'[c] = suffix_array[c]
      BY <1>4, <3>1
    <3>3. \A c, d \in C : suffix_array'[c] = suffix_array'[d] => c = d
      BY <3>2
    <3>4. C \subseteq CellsOf(s, b)
      BY DEF C
    <3> QED
      BY <3>2, <3>3, <3>4
  <2>2. /\ TextInv(s) /\ InOwnBuckets(s, suffix_array) /\ b \in Buckets
        /\ suffix_array' \in [ Positions(s) -> Positions(s) ]
    BY <1>2, <1>4
  <2> HIDE DEF C
  <2> QED
    BY ONLY <2>1, <2>2, Permuted
<1>6. /\ s' \in Texts /\ ArrayInv' /\ BucketsInv' /\ AnchorsInv' /\ SearchInv'
      /\ \A c \in Positions(s) :
           BucketOf(s, suffix_array[c]) \in finished => suffix_array'[c] = suffix_array[c]
  <2>1. \A c \in Positions(s) \ CellsOf(s, b) : suffix_array'[c] = suffix_array[c]
    BY <1>3, <1>4
  <2>2. b # NoBucket
    BY <1>2, NoPair
  <2>3. left' \subseteq left /\ b \notin left' /\ \A d \in Buckets : d \in left => d \in left' \/ d = b
    BY <1>1
  <2> QED
    BY <1>1, <1>2, <1>5, <2>1, <2>2, <2>3, RewriteKeeps
<1>7. GroupsInv'
  BY <1>1, <1>2, <1>3, <1>4 DEF GroupsInv
<1> QED
  BY <1>6, <1>7 DEF DeepInv, SortedStay

LEMMA ShallowKeeps ==
  ASSUME DeepInv, shallow_sort
  PROVE  DeepInv' /\ SortedStay
<1>9. PICK b \in left :
        /\ phase = "buckets" /\ current = NoBucket
        /\ \E partition \in GroupsPossible(MembersOf(suffix_array, b)) :
             /\ suffix_array' = Shallow(suffix_array, b, partition)
             /\ groups' = ShallowGroups(suffix_array, b, partition)
        /\ left' = left \ { b } /\ current' = b
        /\ s' = s /\ ad' = ad /\ finished' = finished /\ search' = search /\ phase' = phase
  BY Zenon DEF shallow_sort, get_smallest_bucket, MembersOf, Shallow, ShallowGroups, Mates, First, Cell
<1>1. PICK partition \in GroupsPossible(MembersOf(suffix_array, b)) :
        /\ phase = "buckets" /\ current = NoBucket
        /\ suffix_array' = Shallow(suffix_array, b, partition)
        /\ groups' = ShallowGroups(suffix_array, b, partition)
        /\ left' = left \ { b } /\ current' = b
        /\ s' = s /\ ad' = ad /\ finished' = finished /\ search' = search /\ phase' = phase
  BY <1>9
<1>2. /\ TextInv(s) /\ b \in Buckets /\ b \notin finished /\ groups = {} /\ search = NoSearch
      /\ InOwnBuckets(s, suffix_array)
  BY <1>1, TextFacts DEF DeepInv, ArrayInv, BucketsInv, GroupsInv, SearchInv
<1>3. /\ InOwnBuckets(s, suffix_array')
      /\ \A c \in Positions(s) \ CellsOf(s, b) : suffix_array'[c] = suffix_array[c]
      /\ \A g \in groups' : IsGroup(suffix_array', b, g)
      /\ \A g, h \in groups' : \A c \in g[1] .. g[2] - 1 : c \in h[1] .. h[2] - 1 => g = h
      /\ \A c \in CellsOf(s, b) :
           Rank(s, suffix_array'[c]) = c \/ \E g \in groups' : c \in g[1] .. g[2] - 1
  BY <1>1, <1>2, ShallowSorted
<1>4. /\ s' \in Texts /\ ArrayInv' /\ BucketsInv' /\ AnchorsInv' /\ SearchInv'
      /\ \A c \in Positions(s) :
           BucketOf(s, suffix_array[c]) \in finished => suffix_array'[c] = suffix_array[c]
  <2>1. b # NoBucket
    BY <1>2, NoPair
  <2>2. left' \subseteq left /\ b \notin left' /\ \A d \in Buckets : d \in left => d \in left' \/ d = b
    BY <1>1
  <2> QED
    BY <1>1, <1>2, <1>3, <2>1, <2>2, RewriteKeeps
<1>5. GroupsInv'
  <2>1. \A g \in groups' : IsGroup(suffix_array, current, g)'
    BY <1>1, <1>3, SameText
  <2>2. b # NoBucket
    BY <1>2, NoPair
  <2> QED
    BY <1>1, <1>3, <2>1, <2>2 DEF GroupsInv
<1> QED
  BY <1>4, <1>5 DEF DeepInv, SortedStay

\* A step that puts one group in its order.
LEMMA OrderedGroupKeeps ==
  ASSUME DeepInv, NEW g \in groups,
         suffix_array' \in [ Positions(s) -> Positions(s) ],
         \A c \in Positions(s) \ (g[1] .. g[2] - 1) : suffix_array'[c] = suffix_array[c],
         \A c \in g[1] .. g[2] - 1 : /\ Rank(s, suffix_array'[c]) = c
                                     /\ \E d \in g[1] .. g[2] - 1 : suffix_array'[c] = suffix_array[d],
         groups' = groups \ { g }, search' = NoSearch,
         s' = s, left' = left, current' = current, ad' = ad, finished' = finished, phase' = phase
  PROVE  DeepInv' /\ SortedStay
<1>1. TextInv(s) /\ ArrayInv /\ BucketsInv /\ GroupsInv
  BY TextFacts DEF DeepInv
<1>2. /\ current \in Buckets /\ current \notin finished /\ phase = "buckets"
      /\ InOwnBuckets(s, suffix_array')
      /\ \A c \in Positions(s) \ CellsOf(s, current) : suffix_array'[c] = suffix_array[c]
      /\ \A h \in groups \ { g } : IsGroup(suffix_array', current, h)
      /\ \A c \in CellsOf(s, current) :
           Rank(s, suffix_array'[c]) = c \/ \E h \in groups \ { g } : c \in h[1] .. h[2] - 1
  BY <1>1, GroupSorted
<1>3. /\ s' \in Texts /\ ArrayInv' /\ BucketsInv' /\ AnchorsInv' /\ SearchInv'
      /\ \A c \in Positions(s) :
           BucketOf(s, suffix_array[c]) \in finished => suffix_array'[c] = suffix_array[c]
  <2>1. current # NoBucket /\ current \notin left'
    BY <1>1, <1>2, NoPair DEF BucketsInv
  <2> QED
    BY <1>2, <2>1, RewriteKeeps
<1>4. GroupsInv'
  <2>1. \A h \in groups' : IsGroup(suffix_array, current, h)'
    BY <1>2, SameText
  <2>2. current # NoBucket
    BY <1>2, NoPair
  <2>3. \A h, k \in groups' : \A c \in h[1] .. h[2] - 1 : c \in k[1] .. k[2] - 1 => h = k
    BY <1>1 DEF GroupsInv
  <2> QED
    BY <1>2, <2>1, <2>2, <2>3 DEF GroupsInv
<1> QED
  BY <1>3, <1>4 DEF DeepInv, SortedStay

LEMMA SortGroupKeeps ==
  ASSUME DeepInv, NEW g \in groups, SortGroup(g)
  PROVE  DeepInv' /\ SortedStay
<1>1. /\ search = NoSearch
      /\ suffix_array' = SortedIn(s, suffix_array, g[1] .. g[2] - 1)
      /\ groups' = groups \ { g } /\ search' = search
      /\ s' = s /\ left' = left /\ current' = current /\ ad' = ad /\ finished' = finished /\ phase' = phase
  BY DEF SortGroup
<1>2. /\ TextInv(s) /\ current \in Buckets
      /\ suffix_array \in [ Positions(s) -> Positions(s) ]
      /\ g[1] \in Nat /\ g[2] \in Nat /\ g[1] .. g[2] - 1 \subseteq CellsOf(s, current)
      /\ Spans(s, suffix_array, g[1], g[2])
  BY TextFacts DEF DeepInv, ArrayInv, BucketsInv, GroupsInv, IsGroup, InOwnBuckets
<1>3. g[1] .. g[2] - 1 \subseteq Positions(s)
  <2>1. CellsOf(s, current) \subseteq Positions(s)
    BY <1>2, CellsFacts
  <2> QED
    BY <1>2, <2>1
<1>4. /\ suffix_array' \in [ Positions(s) -> Positions(s) ]
      /\ \A c \in g[1] .. g[2] - 1 : /\ Rank(s, suffix_array'[c]) = c
                                     /\ \E d \in g[1] .. g[2] - 1 : suffix_array'[c] = suffix_array[d]
      /\ \A c \in Positions(s) \ (g[1] .. g[2] - 1) : suffix_array'[c] = suffix_array[c]
  <2> DEFINE l == g[1]
             e == g[2]
             new == SortedIn(s, suffix_array, l .. e - 1)
  <2>1. /\ TextInv(s) /\ suffix_array \in [ Positions(s) -> Positions(s) ]
        /\ l \in Nat /\ e \in Nat /\ l .. e - 1 \subseteq Positions(s) /\ Spans(s, suffix_array, l, e)
    BY <1>2, <1>3
  <2>2. suffix_array' = new
    BY <1>1
  <2> HIDE DEF l, e
  <2>3. /\ new \in [ Positions(s) -> Positions(s) ]
        /\ \A c \in l .. e - 1 : Rank(s, new[c]) = c /\ \E d \in l .. e - 1 : new[c] = suffix_array[d]
        /\ \A c \in Positions(s) \ (l .. e - 1) : new[c] = suffix_array[c]
    BY ONLY <2>1, SortedInFacts
  <2> HIDE DEF new
  <2> QED
    BY <2>2, <2>3 DEF l, e
<1> QED
  BY <1>1, <1>4, OrderedGroupKeeps

LEMMA TraverseKeeps ==
  ASSUME DeepInv, Traverse
  PROVE  DeepInv' /\ SortedStay
<1> DEFINE g == search.group
<1>1. /\ search # NoSearch /\ Cardinality(tagged) = GroupSize
      /\ suffix_array' = Induced(search.relation)
      /\ groups' = groups \ { g } /\ search' = NoSearch
      /\ s' = s /\ left' = left /\ current' = current /\ ad' = ad /\ finished' = finished /\ phase' = phase
  BY DEF Traverse
<1>2. TextInv(s) /\ ArrayInv /\ BucketsInv /\ GroupsInv /\ SearchInv
  BY TextFacts DEF DeepInv
<1>3. /\ g \in groups
      /\ suffix_array' \in [ Positions(s) -> Positions(s) ]
      /\ \A c \in Positions(s) \ (g[1] .. g[2] - 1) : suffix_array'[c] = suffix_array[c]
      /\ \A c \in g[1] .. g[2] - 1 : /\ Rank(s, suffix_array'[c]) = c
                                     /\ \E d \in g[1] .. g[2] - 1 : suffix_array'[c] = suffix_array[d]
  BY <1>1, <1>2, InducedSorted
<1> HIDE DEF g
<1> QED
  BY <1>1, <1>3, OrderedGroupKeeps

LEMMA StartSearchKeeps ==
  ASSUME DeepInv, NEW g \in groups, NEW si \in Members(g), StartSearch(g, si)
  PROVE  DeepInv' /\ SortedStay
<1> DEFINE right == get_leftmost_position(ad, si)
           pos == ad[Segment(si)].position
           b == BucketOf(s, right)
<1>1. /\ HasAnchor(ad, si) /\ si < right /\ right < si + DeepSortDepth
      /\ tagged' = { pos }
      /\ search' = [ group |-> g, relation |-> right - si, sorted_bucket |-> pos,
                     left_bucket_bound |-> start_of_bucket(s, b),
                     right_bucket_bound |-> end_of_bucket(s, b),
                     leftmost |-> pos, dist |-> 0 ]
      /\ s' = s /\ suffix_array' = suffix_array /\ left' = left /\ current' = current
      /\ groups' = groups /\ ad' = ad /\ finished' = finished /\ phase' = phase
  BY DEF StartSearch, Suitable
<1>2. /\ TextInv(s) /\ InOwnBuckets(s, suffix_array) /\ Positions(s) \subseteq Nat
      /\ suffix_array \in [ Positions(s) -> Positions(s) ]
      /\ \A c, d \in Positions(s) : suffix_array[c] = suffix_array[d] => c = d
  BY TextFacts DEF DeepInv, ArrayInv, GroupsInv, InOwnBuckets, TextInv
<1>3. PICK d0 \in g[1] .. g[2] - 1 : si = suffix_array[d0]
  BY DEF Members
<1>4. si \in Positions(s) /\ si \in Int
  <2>1. g[1] .. g[2] - 1 \subseteq CellsOf(s, current) /\ current \in Buckets
    BY DEF DeepInv, GroupsInv, IsGroup, BucketsInv
  <2>2. CellsOf(s, current) \subseteq Positions(s)
    BY <1>2, <2>1, CellsFacts
  <2> QED
    BY <1>2, <1>3, <2>1, <2>2
<1>5. right \in Positions(s) /\ b \in finished /\ pos = Rank(s, right)
  <2> DEFINE anchor == ad[Segment(si)]
             seg == Segment(si)
  <2>1. seg \in Segments(s)
    BY <1>2, <1>4, SegmentFacts
  <2>2. AnchorIsFinal(anchor, seg, finished)
    BY <2>1, AnchorsBySegment DEF DeepInv, AnchorsInv
  <2>3. anchor.relative # Null /\ right = seg * SegmentLength + anchor.relative
    BY <1>1 DEF HasAnchor, get_leftmost_position
  <2>4. right \in SortedOf(seg, finished) /\ pos = Rank(s, right)
    BY <2>2, <2>3 DEF AnchorIsFinal
  <2> QED
    BY <2>4 DEF SortedOf
<1> HIDE DEF right, pos, b
<1>6. b \in Buckets /\ b = BucketOf(s, right)
  BY <1>5 DEF DeepInv, BucketsInv, b
<1>7. pos \in CellsOf(s, b) /\ CellsOf(s, b) \subseteq Positions(s) /\ pos \in Nat
      /\ start_of_bucket(s, b) \in Nat /\ end_of_bucket(s, b) \in Nat
  <2>1. pos \in CellsOf(s, b)
    BY <1>2, <1>5, <1>6, RankInBucket
  <2>2. CellsOf(s, b) \subseteq Positions(s)
        /\ start_of_bucket(s, b) \in Nat /\ end_of_bucket(s, b) \in Nat
    BY <1>2, <1>6, CellsFacts
  <2> QED
    BY <1>2, <2>1, <2>2
<1>8. suffix_array[pos] = right
  <2>1. Rank(s, suffix_array[pos]) = pos
    BY <1>5, <1>7 DEF DeepInv, BucketsInv
  <2>2. suffix_array[pos] \in Positions(s)
    BY <1>2, <1>7
  <2> QED
    BY <1>2, <1>5, <2>1, <2>2, RankFacts
<1>9. right - si \in 1 .. DeepSortDepth - 1 /\ suffix_array[pos] - (right - si) = si
  <2>1. right \in Int /\ DeepSortDepth \in Nat
    BY <1>2, <1>5, DepthAssumption
  <2> QED
    BY <1>1, <1>4, <1>8, <2>1
<1>10. SearchInv'
  <2>1. search' \in [ group : groups', relation : 1 .. DeepSortDepth - 1,
                      sorted_bucket : Nat, left_bucket_bound : Nat, right_bucket_bound : Nat,
                      leftmost : Nat, dist : Nat ]
    BY <1>1, <1>7, <1>9
  <2>2. /\ search'.left_bucket_bound = start_of_bucket(s', b)
        /\ search'.right_bucket_bound = end_of_bucket(s', b)
        /\ tagged' \subseteq CellsOf(s', b) /\ b \in finished'
    BY <1>1, <1>5, <1>7
  <2>3. /\ search'.leftmost \in tagged' /\ search'.sorted_bucket \in tagged'
        /\ \A c \in tagged' : search'.leftmost <= c /\ search'.sorted_bucket - search'.dist <= c
    BY <1>1, <1>7
  <2>4. \A c \in tagged' : \E d \in search'.group[1] .. search'.group[2] - 1 :
          suffix_array'[c] - search'.relation = suffix_array'[d]
    BY <1>1, <1>3, <1>9
  <2> QED
    BY <2>1, <2>2, <2>3, <2>4 DEF SearchInv
<1>11. s' \in Texts /\ ArrayInv' /\ BucketsInv'
  BY <1>1 DEF DeepInv, ArrayInv, BucketsInv
<1>12. GroupsInv'
  BY <1>1, SameText DEF DeepInv, GroupsInv
<1>13. AnchorsInv'
  BY <1>1, SameText DEF DeepInv, AnchorsInv
<1>14. SortedStay
  BY <1>1 DEF SortedStay
<1> QED
  BY <1>10, <1>11, <1>12, <1>13, <1>14 DEF DeepInv

LEMMA LookAtKeeps ==
  ASSUME DeepInv, look_at
  PROVE  DeepInv' /\ SortedStay
<1> DEFINE far == search.dist + 1
           l == search.sorted_bucket - far
           r == search.sorted_bucket + far
           foundLeft == l >= search.left_bucket_bound /\ Contains(l)
           foundRight == r < search.right_bucket_bound /\ Contains(r)
<1>1. /\ search # NoSearch
      /\ tagged' = tagged \cup (IF foundLeft THEN { l } ELSE {})
                          \cup (IF foundRight THEN { r } ELSE {})
      /\ search' = [ search EXCEPT !.dist = far, !.leftmost = IF foundLeft THEN l ELSE @ ]
      /\ s' = s /\ suffix_array' = suffix_array /\ left' = left /\ current' = current
      /\ groups' = groups /\ ad' = ad /\ finished' = finished /\ phase' = phase
  BY DEF look_at
<1>2. /\ search \in [ group : groups, relation : 1 .. DeepSortDepth - 1,
                      sorted_bucket : Nat, left_bucket_bound : Nat, right_bucket_bound : Nat,
                      leftmost : Nat, dist : Nat ]
      /\ search.leftmost \in tagged /\ search.sorted_bucket \in tagged
      /\ \A c \in tagged :
           /\ search.leftmost <= c
           /\ search.sorted_bucket - search.dist <= c
           /\ \E d \in search.group[1] .. search.group[2] - 1 :
                suffix_array[c] - search.relation = suffix_array[d]
  BY <1>1 DEF DeepInv, SearchInv
<1>3. PICK b \in finished : /\ search.left_bucket_bound = start_of_bucket(s, b)
                            /\ search.right_bucket_bound = end_of_bucket(s, b)
                            /\ tagged \subseteq CellsOf(s, b)
  BY <1>1 DEF DeepInv, SearchInv
<1> DEFINE start == start_of_bucket(s, b)
           end == end_of_bucket(s, b)
           sb == search.sorted_bucket
           low == search.leftmost
           found(c) == \E d \in search.group[1] .. search.group[2] - 1 :
                         suffix_array[c] - search.relation = suffix_array[d]
<1>4. /\ start \in Nat /\ end \in Nat /\ CellsOf(s, b) = start .. end - 1
  <2>1. TextInv(s) /\ b \in Buckets
    BY <1>3, TextFacts DEF DeepInv, BucketsInv
  <2> QED
    BY <2>1, CellsFacts DEF CellsOf
<1>5. /\ foundLeft => l >= start /\ found(l)
      /\ foundRight => r < end /\ found(r)
  BY <1>3 DEF Contains, Members
<1>6. /\ sb \in Nat /\ low \in Nat /\ search.dist \in Nat /\ search.group \in groups
      /\ low \in tagged /\ sb \in tagged /\ tagged \subseteq start .. end - 1
      /\ \A c \in tagged : low <= c /\ sb - search.dist <= c /\ found(c)
  BY <1>2, <1>3, <1>4
<1>7. /\ search'.group = search.group /\ search'.relation = search.relation
      /\ search'.sorted_bucket = sb /\ search'.dist = far
      /\ search'.left_bucket_bound = search.left_bucket_bound
      /\ search'.right_bucket_bound = search.right_bucket_bound
      /\ search'.leftmost = IF foundLeft THEN l ELSE low
  BY <1>1, <1>2
<1>8. \A c : c \in tagged' <=> c \in tagged \/ (foundLeft /\ c = l) \/ (foundRight /\ c = r)
  BY <1>1
<1>9. far \in Nat /\ far = search.dist + 1 /\ l = sb - far /\ r = sb + far
  BY <1>6
<1>10. search' \in [ group : groups, relation : 1 .. DeepSortDepth - 1,
                     sorted_bucket : Nat, left_bucket_bound : Nat, right_bucket_bound : Nat,
                     leftmost : Nat, dist : Nat ]
  <2> HIDE DEF foundLeft, l, far
  <2>1. l \in Int /\ far \in Nat
    BY <1>6, <1>9 DEF far
  <2>2. foundLeft => l \in Nat
    <3>1. start \in Nat /\ (foundLeft => l >= start)
      BY <1>4, <1>5
    <3> HIDE DEF start
    <3> QED
      BY ONLY <2>1, <3>1
  <2> QED
    BY <1>1, <1>2, <2>1, <2>2
<1> HIDE DEF far, l, r, foundLeft, foundRight, start, end, sb, low, found
<1>11. /\ \A c \in tagged' : c \in start .. end - 1 /\ found(c) /\ sb - far <= c
       /\ sb \in tagged'
  <2>1. sb \in tagged' /\ start <= sb /\ sb < end
    BY <1>4, <1>6, <1>8
  <2>2. ASSUME NEW c \in tagged
        PROVE  c \in start .. end - 1 /\ found(c) /\ sb - far <= c
    <3>1. sb - search.dist <= c /\ c \in start .. end - 1 /\ found(c)
      BY <1>6, <2>2
    <3>2. sb - far <= c
      BY <1>4, <1>6, <1>9, <3>1
    <3> QED
      BY <3>1, <3>2
  <2>3. ASSUME foundLeft
        PROVE  l \in start .. end - 1 /\ found(l) /\ sb - far <= l
    <3>1. l >= start /\ found(l)
      BY <1>5, <2>3
    <3> QED
      BY <1>4, <1>6, <1>9, <2>1, <3>1
  <2>4. ASSUME foundRight
        PROVE  r \in start .. end - 1 /\ found(r) /\ sb - far <= r
    <3>1. r < end /\ found(r)
      BY <1>5, <2>4
    <3> QED
      BY <1>4, <1>6, <1>9, <2>1, <3>1
  <2> QED
    BY <1>8, <2>1, <2>2, <2>3, <2>4
<1>12. /\ search'.leftmost \in tagged'
       /\ \A c \in tagged' : search'.leftmost <= c
  <2>1. CASE foundLeft
    <3>1. search'.leftmost = l /\ l \in tagged' /\ l = sb - far
      BY <1>7, <1>8, <1>9, <2>1
    <3> QED
      BY <1>11, <3>1
  <2>2. CASE ~foundLeft
    <3>1. search'.leftmost = low /\ low \in tagged'
      BY <1>6, <1>7, <1>8, <2>2
    <3>2. \A c \in tagged' : c \in tagged \/ c = r
      BY <1>8, <2>2
    <3>3. low <= sb /\ low <= r
      BY <1>6, <1>9
    <3> QED
      BY <1>6, <3>1, <3>2, <3>3
  <2> QED
    BY <2>1, <2>2
<1>13. SearchInv'
  <2>1. /\ search'.left_bucket_bound = start_of_bucket(s', b)
        /\ search'.right_bucket_bound = end_of_bucket(s', b)
        /\ tagged' \subseteq CellsOf(s', b) /\ b \in finished'
    BY <1>1, <1>3, <1>4, <1>7, <1>11
  <2>2. search'.sorted_bucket \in tagged' /\ \A c \in tagged' : search'.sorted_bucket - search'.dist <= c
    BY <1>7, <1>11
  <2>3. \A c \in tagged' : \E d \in search'.group[1] .. search'.group[2] - 1 :
          suffix_array'[c] - search'.relation = suffix_array'[d]
    BY <1>1, <1>7, <1>11 DEF found
  <2>4. groups' = groups
    BY <1>1
  <2> QED
    BY <1>10, <1>12, <2>1, <2>2, <2>3, <2>4 DEF SearchInv
<1>14. s' \in Texts /\ ArrayInv' /\ BucketsInv'
  BY <1>1 DEF DeepInv, ArrayInv, BucketsInv
<1>15. GroupsInv'
  BY <1>1, SameText DEF DeepInv, GroupsInv
<1>16. AnchorsInv'
  BY <1>1, SameText DEF DeepInv, AnchorsInv
<1>17. SortedStay
  BY <1>1 DEF SortedStay
<1> QED
  BY <1>13, <1>14, <1>15, <1>16, <1>17 DEF DeepInv

LEMMA FinishKeeps ==
  ASSUME DeepInv, FinishBucket
  PROVE  DeepInv' /\ SortedStay
<1>1. /\ current # NoBucket /\ groups = {} /\ search = NoSearch
      /\ ad' = update_anchors(s, ad, suffix_array, current)
      /\ finished' = finished \cup { current } /\ current' = NoBucket
      /\ s' = s /\ suffix_array' = suffix_array /\ left' = left /\ groups' = groups
      /\ search' = search /\ phase' = phase
  BY DEF FinishBucket
<1>2. /\ TextInv(s) /\ phase = "buckets" /\ InOwnBuckets(s, suffix_array)
      /\ current \in Buckets /\ current \notin left
      /\ \A c \in CellsOf(s, current) : Rank(s, suffix_array[c]) = c
  BY <1>1, TextFacts DEF DeepInv, ArrayInv, BucketsInv, GroupsInv
<1>3. s' \in Texts /\ ArrayInv' /\ GroupsInv' /\ SearchInv'
  BY <1>1, <1>2 DEF DeepInv, ArrayInv, GroupsInv, SearchInv
<1>4. BucketsInv'
  <2>1. left' \subseteq Buckets /\ finished' \subseteq Buckets /\ left' \cap finished' = {}
    BY <1>1, <1>2 DEF DeepInv, BucketsInv
  <2>2. \A d \in Buckets : d \in left' \/ d \in finished' \/ size_of_bucket(s', d) < 2
    BY <1>1, <1>2 DEF DeepInv, BucketsInv
  <2>3. \A d \in finished' : \A c \in CellsOf(s', d) : Rank(s', suffix_array'[c]) = c
    BY <1>1, <1>2 DEF DeepInv, BucketsInv
  <2> QED
    BY <1>1, <2>1, <2>2, <2>3 DEF BucketsInv
<1>5. AnchorsInv'
  <2>1. ad \in Anchors /\ AnchorsAreFinal(s, ad, finished)
    BY DEF DeepInv, AnchorsInv
  <2>2. ad' \in Anchors /\ AnchorsAreFinal(s, ad', finished')
    BY <1>1, <1>2, <2>1, AnchorsUpdated
  <2> QED
    BY <1>1, <2>2, SameText DEF AnchorsInv
<1>6. SortedStay
  BY <1>1 DEF SortedStay
<1> QED
  BY <1>3, <1>4, <1>5, <1>6 DEF DeepInv

LEMMA AllSortedKeeps ==
  ASSUME DeepInv, AllSorted
  PROVE  DeepInv' /\ SortedStay
<1>1. /\ phase = "buckets" /\ left = {} /\ current = NoBucket /\ phase' = "done"
      /\ s' = s /\ suffix_array' = suffix_array /\ left' = left /\ current' = current
      /\ groups' = groups /\ ad' = ad /\ finished' = finished /\ search' = search /\ tagged' = tagged
  BY DEF AllSorted
<1>2. TextInv(s) /\ InOwnBuckets(s, suffix_array) /\ groups = {} /\ search = NoSearch
  BY <1>1, TextFacts DEF DeepInv, ArrayInv, GroupsInv, SearchInv
<1>3. ASSUME NEW c \in Positions(s) PROVE Rank(s, suffix_array[c]) = c
  <2> DEFINE b == BucketOf(s, suffix_array[c])
  <2>1. suffix_array[c] \in Positions(s) /\ c \in CellsOf(s, b)
    BY <1>2 DEF InOwnBuckets
  <2>2. b \in Buckets
    BY <1>2, <2>1, BucketFacts
  <2>3. b \in finished \/ size_of_bucket(s, b) < 2
    BY <1>1, <2>2 DEF DeepInv, BucketsInv
  <2> HIDE DEF b
  <2>4. CASE b \in finished
    BY <2>1, <2>4 DEF DeepInv, BucketsInv
  <2>5. CASE size_of_bucket(s, b) < 2
    BY <1>2, <2>1, <2>2, <2>5, SmallBucketSorted
  <2> QED
    BY <2>3, <2>4, <2>5
<1>4. ArrayInv'
  BY <1>1, <1>2, <1>3 DEF ArrayInv, InOwnBuckets
<1>5. s' \in Texts /\ BucketsInv' /\ GroupsInv' /\ SearchInv'
  BY <1>1, <1>2 DEF DeepInv, BucketsInv, GroupsInv, SearchInv
<1>6. AnchorsInv'
  BY <1>1, SameText DEF DeepInv, AnchorsInv
<1>7. SortedStay
  BY <1>1 DEF SortedStay
<1> QED
  BY <1>4, <1>5, <1>6, <1>7 DEF DeepInv

LEMMA NextKeeps ==
  ASSUME DeepInv, [Next]_vars
  PROVE  DeepInv' /\ SortedStay
<1>1. CASE SortSmallText
  <2>1. finished = {}
    BY <1>1 DEF SortSmallText, DeepInv, ArrayInv
  <2> QED
    BY <1>1, <2>1, SmallTextKeeps DEF SortedStay
<1>2. CASE bucket_sort
  <2>1. finished = {}
    BY <1>2 DEF bucket_sort, DeepInv, ArrayInv
  <2> QED
    BY <1>2, <2>1, BucketSortKeeps DEF SortedStay
<1>3. CASE SkipSmallBuckets
  <2>1. suffix_array' = suffix_array
    BY <1>3 DEF SkipSmallBuckets
  <2> QED
    BY <1>3, <2>1, SkipKeeps DEF SortedStay
<1>4. CASE SortPair
  BY <1>4, PairKeeps
<1>5. CASE shallow_sort
  BY <1>5, ShallowKeeps
<1>6. CASE DeepSort
  <2>1. CASE \E g \in groups : SortGroup(g)
    BY <2>1, SortGroupKeeps
  <2>2. CASE \E g \in groups : \E si \in Members(g) : StartSearch(g, si)
    BY <2>2, StartSearchKeeps
  <2>3. CASE look_at
    BY <2>3, LookAtKeeps
  <2>4. CASE LookBeyondText
    <3>1. UNCHANGED vars /\ suffix_array' = suffix_array
      BY <2>4 DEF LookBeyondText, vars
    <3> QED
      BY <3>1, StutterKeeps DEF SortedStay
  <2>5. CASE Traverse
    BY <2>5, TraverseKeeps
  <2> QED
    BY <1>6, <2>1, <2>2, <2>3, <2>4, <2>5 DEF DeepSort
<1>7. CASE FinishBucket
  BY <1>7, FinishKeeps
<1>8. CASE AllSorted
  BY <1>8, AllSortedKeeps
<1>9. CASE UNCHANGED vars
  <2>1. suffix_array' = suffix_array
    BY <1>9 DEF vars
  <2> QED
    BY <1>9, <2>1, StutterKeeps DEF SortedStay
<1>10. CASE Terminating
  BY <1>9, <1>10 DEF Terminating
<1> QED
  BY <1>1, <1>2, <1>3, <1>4, <1>5, <1>6, <1>7, <1>8, <1>9, <1>10 DEF Next

-----------------------------------------------------------------------------
(* The theorems *)

THEOREM DeepInvariance ==
  Spec => []DeepInv
<1>1. Init => DeepInv
  BY Initially
<1>2. DeepInv /\ [Next]_vars => DeepInv'
  BY NextKeeps
<1> QED
  BY <1>1, <1>2, PTL DEF Spec

\* The constructor's result is the suffix array, whatever the order in which
\* equally large buckets are taken, the groups that shallow_sort leaves to
\* deep_sort, the anchors it follows and the groups it sorts directly.
THEOREM DeepShallowCorrect ==
  Spec => []ResultIsSuffixArray
<1>1. DeepInv => ResultIsSuffixArray
  <2> SUFFICES ASSUME DeepInv, phase = "done" PROVE suffix_array = SuffixArray(s)
    BY DEF ResultIsSuffixArray
  <2>1. /\ TextInv(s) /\ suffix_array \in [ Positions(s) -> Positions(s) ]
        /\ \A c \in Positions(s) : Rank(s, suffix_array[c]) = c
    BY TextFacts DEF DeepInv, ArrayInv
  <2> QED
    BY <2>1, IsSuffixArray
<1> QED
  BY <1>1, DeepInvariance, PTL

\* No suffix is lost or doubled at any time: an induced sort writes back the
\* group's own suffixes.
THEOREM NoSuffixLost ==
  Spec => []EverySuffixOnce
<1>1. DeepInv => EverySuffixOnce
  <2> SUFFICES ASSUME DeepInv PROVE { suffix_array[c] : c \in Positions(s) } = Positions(s)
    BY DEF EverySuffixOnce
  <2>1. TextInv(s)
    BY TextFacts DEF DeepInv
  <2>2. /\ \A p \in Positions(s) : Rank(s, p) \in Positions(s)
        /\ \A p, q \in Positions(s) : Rank(s, p) = Rank(s, q) => p = q
    BY <2>1, RankFacts
  <2>3. CASE phase = "new"
    <3>1. suffix_array = [ c \in Positions(s) |-> c ]
      BY <2>3 DEF DeepInv, ArrayInv
    <3> QED
      BY <3>1
  <2>4. CASE phase = "done"
    <3>1. /\ suffix_array \in [ Positions(s) -> Positions(s) ]
          /\ \A c \in Positions(s) : Rank(s, suffix_array[c]) = c
      BY <2>4 DEF DeepInv, ArrayInv
    <3>2. \A p \in Positions(s) : suffix_array[Rank(s, p)] = p
      BY <2>2, <3>1
    <3> QED
      BY <2>2, <3>1, <3>2
  <2>5. CASE phase = "buckets"
    <3>1. InOwnBuckets(s, suffix_array)
      BY <2>5 DEF DeepInv, ArrayInv
    <3>2. suffix_array \in [ Positions(s) -> Positions(s) ]
      BY <3>1 DEF InOwnBuckets
    <3>3. ASSUME NEW p \in Positions(s) PROVE \E c \in Positions(s) : suffix_array[c] = p
      <4> DEFINE b == BucketOf(s, p)
      <4>1. b \in Buckets
        BY <2>1, BucketFacts
      <4> HIDE DEF b
      <4>2. /\ { suffix_array[c] : c \in CellsOf(s, b) } = { q \in Positions(s) : BucketOf(s, q) = b }
            /\ CellsOf(s, b) \subseteq Positions(s)
        BY <2>1, <3>1, <4>1, BucketSpans, CellsFacts
      <4>3. p \in { q \in Positions(s) : BucketOf(s, q) = b }
        BY DEF b
      <4> QED
        BY <4>2, <4>3
    <3> QED
      BY <3>2, <3>3
  <2> QED
    BY <2>3, <2>4, <2>5 DEF DeepInv, ArrayInv
<1> QED
  BY <1>1, DeepInvariance, PTL

\* An anchor is the leftmost sorted suffix of its segment, and it is where the
\* anchor says.
THEOREM AnchorsSorted ==
  Spec => []AnchorsLeadToSorted
<1>1. DeepInv => AnchorsLeadToSorted
  BY DEF DeepInv, AnchorsInv, AnchorsLeadToSorted
<1> QED
  BY <1>1, DeepInvariance, PTL

\* Nothing is written into a sorted bucket any more.
THEOREM SortedBucketsKept ==
  Spec => SortedBucketsStay
<1>1. DeepInv /\ [Next]_vars =>
        [\A c \in Positions(s) :
           BucketOf(s, suffix_array[c]) \in finished => suffix_array'[c] = suffix_array[c]]_vars
  BY NextKeeps DEF SortedStay
<1> QED
  BY <1>1, DeepInvariance, PTL DEF Spec, SortedBucketsStay
=============================================================================
