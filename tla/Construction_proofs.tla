-------------------------- MODULE Construction_proofs --------------------------
(***************************************************************************)
(* Theorems about Construction, for every alphabet, length of the text and *)
(* array that the algorithm may return: the algorithm gets a text whose    *)
(* suffixes are ordered as the input's are, the checks accept suffix       *)
(* arrays and nothing else, and what is written can be read back.          *)
(***************************************************************************)
EXTENDS Construction, FiniteSetTheorems, SequenceTheorems, WellFoundedInduction, TLAPS

Size == Len(input)
Positions == 0 .. Size - 1
Char(p) == input[p + 1]
Less(p, q) == sa_check!SuffixLess(p, q)

-----------------------------------------------------------------------------
(* Numbers *)

\* A set of naturals that is not empty has a smallest element.
LEMMA Smallest ==
  ASSUME NEW T, T \subseteq Nat, T # {}
  PROVE  \E x \in T : \A y \in T : x <= y
<1>1. PICK x \in T : \A y \in T : ~ << y, x >> \in OpToRel(<, Nat)
  BY NatLessThanWellFounded, WFMin, Zenon
<1>2. ASSUME NEW y \in T PROVE ~(y < x)
  <2>1. x \in Nat /\ y \in Nat
    OBVIOUS
  <2> QED
    BY <1>1, <2>1, Zenon DEF OpToRel
<1> QED
  BY <1>2

\* n different numbers below n are all of them.
LEMMA OneToOne ==
  ASSUME NEW n \in Nat, NEW f \in [1 .. n -> 0 .. n - 1],
         \A j, k \in 1 .. n : f[j] = f[k] => j = k
  PROVE  { f[k] : k \in 1 .. n } = 0 .. n - 1
<1>1. SUFFICES ASSUME NEW x \in 0 .. n - 1, \A k \in 1 .. n : f[k] # x PROVE FALSE
  OBVIOUS
<1> DEFINE T == (0 .. n - 1) \ { x }
<1>2. IsFiniteSet(1 .. n) /\ Cardinality(1 .. n) = n /\ n > 0
  BY FS_Interval
<1>3. IsFiniteSet(0 .. n - 1) /\ Cardinality(0 .. n - 1) = n
  <2>1. 0 \in Int /\ n - 1 \in Int
    OBVIOUS
  <2>2. IsFiniteSet(0 .. n - 1)
        /\ Cardinality(0 .. n - 1) = IF 0 > n - 1 THEN 0 ELSE (n - 1) - 0 + 1
    BY <2>1, FS_Interval
  <2> QED
    BY <1>2, <2>2
<1>4. IsFiniteSet(T) /\ Cardinality(T) = n - 1
  BY <1>3, FS_RemoveElement, ZenonT(40)
<1>5. f \in [1 .. n -> T]
  BY <1>1
<1> HIDE DEF T
<1>6. Cardinality(T) < Cardinality(1 .. n)
  BY <1>2, <1>4
<1>7. \E j, k \in 1 .. n : j # k /\ f[j] = f[k]
  BY <1>2, <1>4, <1>5, <1>6, FS_PigeonHole
<1> QED
  BY <1>7

-----------------------------------------------------------------------------
(* The order of the suffixes *)

InputInv == input \in [1 .. Size -> Nat] /\ Size \in Nat

\* A suffix compares by its first character, then by the suffix after it; the
\* empty one is the smallest.
LEMMA LessStep ==
  ASSUME InputInv, NEW p \in 0 .. Size, NEW q \in 0 .. Size
  PROVE  /\ q = Size => ~Less(p, q)
         /\ p = Size /\ q < Size => Less(p, q)
         /\ p < Size /\ q < Size =>
              (Less(p, q) <=>
                 \/ Char(p) < Char(q)
                 \/ Char(p) = Char(q) /\ Less(p + 1, q + 1))
<1>1. Less(p, q) <=>
        \E k \in 0 .. Size :
          /\ p + k <= Size /\ q + k < Size
          /\ \A j \in 0 .. k - 1 : Char(p + j) = Char(q + j)
          /\ p + k = Size \/ Char(p + k) < Char(q + k)
  BY DEF Less, sa_check!SuffixLess, sa_check!N, sa_check!At, Size, Char
<1>2. Less(p + 1, q + 1) <=>
        \E k \in 0 .. Size :
          /\ p + 1 + k <= Size /\ q + 1 + k < Size
          /\ \A j \in 0 .. k - 1 : Char(p + 1 + j) = Char(q + 1 + j)
          /\ p + 1 + k = Size \/ Char(p + 1 + k) < Char(q + 1 + k)
  BY DEF Less, sa_check!SuffixLess, sa_check!N, sa_check!At, Size, Char
<1>3. Size \in Nat
  BY DEF InputInv
<1> HIDE DEF Size, Less, Char
<1>4. q = Size => ~Less(p, q)
  BY <1>1, <1>3
<1>5. p = Size /\ q < Size => Less(p, q)
  <2>1. ASSUME p = Size, q < Size
        PROVE  /\ p + 0 <= Size /\ q + 0 < Size
               /\ \A j \in 0 .. 0 - 1 : Char(p + j) = Char(q + j)
               /\ p + 0 = Size
    BY <1>3, <2>1
  <2> QED
    BY <1>1, <1>3, <2>1
<1>6. ASSUME p < Size, q < Size, Less(p, q), ~(Char(p) < Char(q))
      PROVE  Char(p) = Char(q) /\ Less(p + 1, q + 1)
  <2>1. PICK k \in 0 .. Size :
          /\ p + k <= Size /\ q + k < Size
          /\ \A j \in 0 .. k - 1 : Char(p + j) = Char(q + j)
          /\ p + k = Size \/ Char(p + k) < Char(q + k)
    BY <1>1, <1>6
  <2>2. k # 0
    <3>1. p + 0 = p /\ q + 0 = q
      OBVIOUS
    <3> QED
      BY <1>3, <1>6, <2>1, <3>1
  <2>3. Char(p) = Char(q)
    <3>1. 0 \in 0 .. k - 1 /\ p + 0 = p /\ q + 0 = q
      BY <1>3, <2>2
    <3> QED
      BY <2>1, <3>1
  <2>4. k - 1 \in 0 .. Size /\ p + 1 + (k - 1) = p + k /\ q + 1 + (k - 1) = q + k
    BY <1>3, <2>2
  <2>5. \A j \in 0 .. (k - 1) - 1 : Char(p + 1 + j) = Char(q + 1 + j)
    <3> TAKE j \in 0 .. (k - 1) - 1
    <3>1. j + 1 \in 0 .. k - 1 /\ p + (j + 1) = p + 1 + j /\ q + (j + 1) = q + 1 + j
      BY <1>3, <2>2
    <3>2. Char(p + (j + 1)) = Char(q + (j + 1))
      BY <2>1, <3>1
    <3> QED
      BY <3>1, <3>2
  <2> QED
    BY <1>2, <2>1, <2>3, <2>4, <2>5
<1>7. ASSUME p < Size, q < Size, Char(p) < Char(q)
      PROVE  Less(p, q)
  <2>1. p + 0 = p /\ q + 0 = q /\ 0 \in 0 .. Size /\ 0 .. 0 - 1 = {}
    BY <1>3
  <2> QED
    BY <1>1, <1>7, <2>1
<1>8. ASSUME p < Size, q < Size, Char(p) = Char(q), Less(p + 1, q + 1)
      PROVE  Less(p, q)
  <2>1. PICK k \in 0 .. Size :
          /\ p + 1 + k <= Size /\ q + 1 + k < Size
          /\ \A j \in 0 .. k - 1 : Char(p + 1 + j) = Char(q + 1 + j)
          /\ p + 1 + k = Size \/ Char(p + 1 + k) < Char(q + 1 + k)
    BY <1>2, <1>8
  <2>2. k + 1 \in 0 .. Size /\ p + (k + 1) = p + 1 + k /\ q + (k + 1) = q + 1 + k
    BY <1>3, <2>1
  <2>3. \A j \in 0 .. (k + 1) - 1 : Char(p + j) = Char(q + j)
    <3> TAKE j \in 0 .. (k + 1) - 1
    <3>1. CASE j = 0
      BY <1>8, <3>1
    <3>2. CASE j # 0
      <4>1. j - 1 \in 0 .. k - 1 /\ p + 1 + (j - 1) = p + j /\ q + 1 + (j - 1) = q + j
        BY <1>3, <3>2
      <4>2. Char(p + 1 + (j - 1)) = Char(q + 1 + (j - 1))
        BY <2>1, <4>1
      <4> QED
        BY <4>1, <4>2
    <3> QED
      BY <3>1, <3>2
  <2> QED
    BY <1>1, <2>1, <2>2, <2>3
<1>9. p < Size /\ q < Size =>
        (Less(p, q) <=> Char(p) < Char(q) \/ (Char(p) = Char(q) /\ Less(p + 1, q + 1)))
  BY <1>6, <1>7, <1>8
<1> QED
  BY <1>4, <1>5, <1>9

\* It is a strict order of all suffixes.
LEMMA LessOrder ==
  ASSUME InputInv
  PROVE  /\ \A p \in 0 .. Size : ~Less(p, p)
         /\ \A p, q, r \in 0 .. Size : Less(p, q) /\ Less(q, r) => Less(p, r)
         /\ \A p, q \in 0 .. Size : p # q => Less(p, q) \/ Less(q, p)
<1>1. Size \in Nat /\ \A p \in 0 .. Size - 1 : Char(p) \in Nat
  BY DEF InputInv, Char
<1>2. /\ \A p \in 0 .. Size : ~Less(p, Size)
      /\ \A q \in 0 .. Size : q < Size => Less(Size, q)
      /\ \A p, q \in 0 .. Size :
           p < Size /\ q < Size =>
             (Less(p, q) <=> Char(p) < Char(q) \/ (Char(p) = Char(q) /\ Less(p + 1, q + 1)))
  <2>1. Size \in 0 .. Size
    BY <1>1
  <2> QED
    BY <1>1, <2>1, LessStep
<1> HIDE DEF Size, Less, Char, InputInv
<1>3. \A p \in 0 .. Size : ~Less(p, p)
  <2> DEFINE Bad == { k \in 0 .. Size : Less(Size - k, Size - k) }
  <2>1. ASSUME Bad # {} PROVE FALSE
    <3>1. PICK k \in Bad : \A l \in Bad : k <= l
      <4>1. Bad \subseteq Nat
        BY <1>1
      <4> HIDE DEF Bad
      <4> QED
        BY <2>1, <4>1, Smallest
    <3> DEFINE p == Size - k
    <3>2. p \in 0 .. Size /\ Less(p, p)
      BY <1>1
    <3>3. p < Size
      BY <1>1, <1>2, <3>2
    <3>4. Less(p + 1, p + 1)
      BY <1>1, <1>2, <3>2, <3>3
    <3>5. k - 1 \in 0 .. Size /\ Size - (k - 1) = p + 1
      BY <1>1, <3>3
    <3>6. k - 1 \in Bad
      BY <3>4, <3>5
    <3> QED
      BY <1>1, <3>1, <3>6
  <2>2. ASSUME NEW p \in 0 .. Size, Less(p, p) PROVE FALSE
    <3>1. Size - p \in 0 .. Size /\ Size - (Size - p) = p
      BY <1>1
    <3> QED
      BY <2>1, <2>2, <3>1
  <2> QED
    BY <2>2
<1>4. \A p, q, r \in 0 .. Size : Less(p, q) /\ Less(q, r) => Less(p, r)
  <2> DEFINE Bad == { k \in 0 .. Size : \E q, r \in 0 .. Size :
                        Less(Size - k, q) /\ Less(q, r) /\ ~Less(Size - k, r) }
  <2>1. ASSUME Bad # {} PROVE FALSE
    <3>1. PICK k \in Bad : \A l \in Bad : k <= l
      <4>1. Bad \subseteq Nat
        BY <1>1
      <4> HIDE DEF Bad
      <4> QED
        BY <2>1, <4>1, Smallest
    <3> DEFINE p == Size - k
    <3>2. PICK q, r \in 0 .. Size : Less(p, q) /\ Less(q, r) /\ ~Less(p, r)
      OBVIOUS
    <3>3. p \in 0 .. Size
      BY <1>1
    <3>4. q < Size /\ r < Size /\ p < Size
      BY <1>1, <1>2, <3>2, <3>3
    <3>5. /\ Char(p) <= Char(q) /\ Char(q) <= Char(r) /\ ~(Char(p) < Char(r))
          /\ Char(p) \in Nat /\ Char(q) \in Nat /\ Char(r) \in Nat
      BY <1>1, <1>2, <3>2, <3>3, <3>4
    <3>6. Char(p) = Char(q) /\ Char(q) = Char(r)
      BY <3>5
    <3>7. Less(p + 1, q + 1) /\ Less(q + 1, r + 1) /\ ~Less(p + 1, r + 1)
      BY <1>2, <3>2, <3>3, <3>4, <3>5, <3>6
    <3>8. /\ k - 1 \in 0 .. Size /\ Size - (k - 1) = p + 1
          /\ q + 1 \in 0 .. Size /\ r + 1 \in 0 .. Size
      BY <1>1, <3>4
    <3>9. k - 1 \in Bad
      BY <3>7, <3>8
    <3> QED
      BY <1>1, <3>1, <3>9
  <2>2. ASSUME NEW p \in 0 .. Size, NEW q \in 0 .. Size, NEW r \in 0 .. Size,
               Less(p, q), Less(q, r), ~Less(p, r)
        PROVE  FALSE
    <3>1. Size - p \in 0 .. Size /\ Size - (Size - p) = p
      BY <1>1
    <3> QED
      BY <2>1, <2>2, <3>1
  <2> QED
    BY <2>2
<1>5. \A p, q \in 0 .. Size : p # q => Less(p, q) \/ Less(q, p)
  <2> DEFINE Bad == { k \in 0 .. Size : \E q \in 0 .. Size :
                        q # Size - k /\ ~Less(Size - k, q) /\ ~Less(q, Size - k) }
  <2>1. ASSUME Bad # {} PROVE FALSE
    <3>1. PICK k \in Bad : \A l \in Bad : k <= l
      <4>1. Bad \subseteq Nat
        BY <1>1
      <4> HIDE DEF Bad
      <4> QED
        BY <2>1, <4>1, Smallest
    <3> DEFINE p == Size - k
    <3>2. PICK q \in 0 .. Size : p # q /\ ~Less(p, q) /\ ~Less(q, p)
      OBVIOUS
    <3>3. p \in 0 .. Size
      BY <1>1
    <3>4. q < Size /\ p < Size
      BY <1>1, <1>2, <3>2, <3>3
    <3>5. Char(p) = Char(q)
      <4>1. Char(p) \in Nat /\ Char(q) \in Nat /\ ~(Char(p) < Char(q)) /\ ~(Char(q) < Char(p))
        BY <1>1, <1>2, <3>2, <3>3, <3>4
      <4> QED
        BY <4>1
    <3>6. ~Less(p + 1, q + 1) /\ ~Less(q + 1, p + 1)
      BY <1>2, <3>2, <3>3, <3>4, <3>5
    <3>7. k - 1 \in 0 .. Size /\ Size - (k - 1) = p + 1 /\ q + 1 \in 0 .. Size /\ p + 1 # q + 1
      BY <1>1, <3>2, <3>4
    <3>8. k - 1 \in Bad
      BY <3>6, <3>7
    <3> QED
      BY <1>1, <3>1, <3>8
  <2>2. ASSUME NEW p \in 0 .. Size, NEW q \in 0 .. Size, p # q, ~Less(p, q), ~Less(q, p)
        PROVE  FALSE
    <3>1. Size - p \in 0 .. Size /\ Size - (Size - p) = p
      BY <1>1
    <3> QED
      BY <2>1, <2>2, <3>1
  <2> QED
    BY <2>2
<1> QED
  BY <1>3, <1>4, <1>5

-----------------------------------------------------------------------------
(* Sorted arrays *)

Sorted(s) ==
  /\ s \in [1 .. Size -> Positions]
  /\ \A k \in 1 .. Size - 1 : Less(s[k], s[k + 1])

\* Sorted neighbours make a sorted array, which has every position once.
LEMMA SortedFacts ==
  ASSUME InputInv, NEW s, Sorted(s)
  PROVE  /\ \A j, k \in 1 .. Size : j < k => Less(s[j], s[k])
         /\ \A j, k \in 1 .. Size : s[j] = s[k] => j = k
         /\ { s[k] : k \in 1 .. Size } = Positions
<1>1. /\ Size \in Nat
      /\ s \in [1 .. Size -> 0 .. Size - 1]
      /\ \A k \in 1 .. Size - 1 : Less(s[k], s[k + 1])
  BY DEF InputInv, Sorted, Positions
<1>2. /\ \A p \in 0 .. Size : ~Less(p, p)
      /\ \A p, q, r \in 0 .. Size : Less(p, q) /\ Less(q, r) => Less(p, r)
  BY LessOrder
<1>3. \A k \in 1 .. Size : s[k] \in 0 .. Size
  BY <1>1
<1> HIDE DEF Size, Less, Sorted, InputInv, Positions
<1>4. \A j, k \in 1 .. Size : j < k => Less(s[j], s[k])
  <2> DEFINE Bad == { k \in 1 .. Size : \E j \in 1 .. Size : j < k /\ ~Less(s[j], s[k]) }
  <2>1. ASSUME Bad # {} PROVE FALSE
    <3>1. PICK k \in Bad : \A l \in Bad : k <= l
      <4>1. Bad \subseteq Nat
        BY <1>1
      <4> HIDE DEF Bad
      <4> QED
        BY <2>1, <4>1, Smallest
    <3>2. PICK j \in 1 .. Size : j < k /\ ~Less(s[j], s[k])
      OBVIOUS
    <3>3. k - 1 \in 1 .. Size - 1 /\ (k - 1) + 1 = k /\ k - 1 \in 1 .. Size
      BY <1>1, <3>2
    <3>4. Less(s[k - 1], s[k])
      BY <1>1, <3>3
    <3>5. k - 1 \notin Bad
      BY <1>1, <3>1, <3>3
    <3>6. j < k - 1
      <4>1. j # k - 1
        BY <3>2, <3>4
      <4> QED
        BY <1>1, <3>2, <4>1
    <3>7. Less(s[j], s[k - 1])
      BY <3>3, <3>5, <3>6
    <3> QED
      BY <1>2, <1>3, <3>2, <3>3, <3>4, <3>7
  <2> QED
    BY <2>1
<1>5. ASSUME NEW j \in 1 .. Size, NEW k \in 1 .. Size, s[j] = s[k] PROVE j = k
  <2>1. ~(j < k) /\ ~(k < j)
    BY <1>2, <1>3, <1>4, <1>5
  <2> QED
    BY <1>1, <2>1
<1>6. { s[k] : k \in 1 .. Size } = 0 .. Size - 1
  BY <1>1, <1>5, OneToOne
<1> QED
  BY <1>4, <1>5, <1>6 DEF Positions

\* What sa_check calls a suffix array.
LEMMA SuffixArray ==
  ASSUME InputInv, sa \in [1 .. Size -> 0 .. MaxIndex]
  PROVE  sa_check!IsSuffixArray <=> Sorted(sa)
<1>1. sa_check!IsSuffixArray <=>
        /\ Len(sa) = Size /\ { sa[k] : k \in 1 .. Len(sa) } = Positions
        /\ \A k \in 1 .. Size - 1 : Less(sa[k], sa[k + 1])
  BY DEF sa_check!IsSuffixArray, sa_check!IsPermutation, sa_check!N, sa_check!Positions,
         Size, Positions, Less
<1>2. Len(sa) = Size
  BY DEF InputInv
<1>3. Sorted(sa) => { sa[k] : k \in 1 .. Size } = Positions
  BY SortedFacts
<1> QED
  BY <1>1, <1>2, <1>3 DEF Sorted

\* The suffixes that are smaller than suffix p.
Below(p) == { q \in Positions : Less(q, p) }

\* A suffix's place among all is the number of those below it.
LEMMA BelowFacts ==
  ASSUME InputInv
  PROVE  /\ \A p \in Positions : Cardinality(Below(p)) \in Positions
         /\ \A p, q \in Positions : Less(p, q) => Cardinality(Below(p)) < Cardinality(Below(q))
         /\ \A p, q \in Positions : Cardinality(Below(p)) = Cardinality(Below(q)) => p = q
         /\ \A k \in Positions : \E p \in Positions : Cardinality(Below(p)) = k
<1>1. Size \in Nat /\ Positions = 0 .. Size - 1
  BY DEF InputInv, Positions
<1>2. /\ \A p \in Positions : ~Less(p, p)
      /\ \A p, q, r \in Positions : Less(p, q) /\ Less(q, r) => Less(p, r)
      /\ \A p, q \in Positions : p # q => Less(p, q) \/ Less(q, p)
  BY <1>1, LessOrder
<1> HIDE DEF Size, Less, Positions, InputInv
<1>3. IsFiniteSet(Positions) /\ Cardinality(Positions) = Size
  <2>1. 0 \in Int /\ Size - 1 \in Int
    BY <1>1
  <2>2. /\ IsFiniteSet(0 .. Size - 1)
        /\ Cardinality(0 .. Size - 1) = IF 0 > Size - 1 THEN 0 ELSE (Size - 1) - 0 + 1
    BY <2>1, FS_Interval
  <2> QED
    BY <1>1, <2>2
<1>4. ASSUME NEW p \in Positions
      PROVE  IsFiniteSet(Below(p)) /\ Cardinality(Below(p)) \in Positions
  <2>1. Below(p) \subseteq Positions /\ p \notin Below(p)
    BY <1>2 DEF Below
  <2>2. IsFiniteSet(Below(p)) /\ Cardinality(Below(p)) <= Size /\ Cardinality(Below(p)) # Size
    BY <1>3, <2>1, FS_Subset
  <2>3. Cardinality(Below(p)) \in Nat
    BY <2>2, FS_CardinalityType
  <2> QED
    BY <1>1, <2>2, <2>3
<1>5. ASSUME NEW p \in Positions, NEW q \in Positions, Less(p, q)
      PROVE  Cardinality(Below(p)) < Cardinality(Below(q))
  <2>1. Below(p) \subseteq Below(q) /\ p \in Below(q) /\ p \notin Below(p)
    BY <1>2, <1>5 DEF Below
  <2>2. Cardinality(Below(p)) <= Cardinality(Below(q)) /\ Cardinality(Below(p)) # Cardinality(Below(q))
    BY <1>4, <2>1, FS_Subset
  <2>3. Cardinality(Below(p)) \in Nat /\ Cardinality(Below(q)) \in Nat
    BY <1>1, <1>4
  <2> QED
    BY <2>2, <2>3
<1>6. ASSUME NEW p \in Positions, NEW q \in Positions, Cardinality(Below(p)) = Cardinality(Below(q))
      PROVE  p = q
  <2>1. Cardinality(Below(p)) \in Nat /\ Cardinality(Below(q)) \in Nat
    BY <1>1, <1>4
  <2>2. ~Less(p, q) /\ ~Less(q, p)
    BY <1>5, <1>6, <2>1
  <2> QED
    BY <1>2, <2>2
<1>7. \A k \in Positions : \E p \in Positions : Cardinality(Below(p)) = k
  <2> DEFINE f == [ k \in 1 .. Size |-> Cardinality(Below(k - 1)) ]
  <2>1. \A k \in 1 .. Size : k - 1 \in Positions
    BY <1>1
  <2>2. f \in [1 .. Size -> 0 .. Size - 1]
    BY <1>1, <1>4, <2>1
  <2>3. \A j, k \in 1 .. Size : f[j] = f[k] => j = k
    <3> SUFFICES ASSUME NEW j \in 1 .. Size, NEW k \in 1 .. Size, f[j] = f[k] PROVE j = k
      OBVIOUS
    <3>1. j - 1 = k - 1
      BY <1>6, <2>1
    <3> QED
      BY <1>1, <3>1
  <2>4. { f[k] : k \in 1 .. Size } = 0 .. Size - 1
    <3> HIDE DEF f
    <3> QED
      BY <1>1, <2>2, <2>3, OneToOne
  <2> TAKE k \in Positions
  <2>5. PICK j \in 1 .. Size : f[j] = k
    BY <1>1, <2>4
  <2> QED
    BY <2>1, <2>5
<1> QED
  BY <1>4, <1>5, <1>6, <1>7

-----------------------------------------------------------------------------
(* The checks by sorting *)

\* An array is the one that the naive algorithm sorts only if it is sorted.
LEMMA NaiveExact ==
  ASSUME InputInv, NEW s \in [1 .. Size -> 0 .. MaxIndex], NEW naive,
         naive = [ k \in Positions |-> CHOOSE p \in Positions : k = Cardinality(Below(p)) ]
  PROVE  (\A k \in Positions : naive[k] = s[k + 1]) <=> Sorted(s)
<1>1. Size \in Nat /\ Positions = 0 .. Size - 1
  BY DEF InputInv, Positions
<1>2. \A k \in Positions : naive[k] \in Positions /\ Cardinality(Below(naive[k])) = k
  <2> TAKE k \in Positions
  <2>1. \E p \in Positions : k = Cardinality(Below(p))
    BY BelowFacts
  <2> QED
    BY <2>1
<1>3. ASSUME \A k \in Positions : naive[k] = s[k + 1] PROVE Sorted(s)
  <2>1. ASSUME NEW k \in 1 .. Size PROVE s[k] \in Positions /\ Cardinality(Below(s[k])) = k - 1
    <3>1. k - 1 \in Positions /\ (k - 1) + 1 = k
      BY <1>1
    <3> QED
      BY <1>2, <1>3, <3>1, ZenonT(40)
  <2>2. ASSUME NEW k \in 1 .. Size - 1 PROVE Less(s[k], s[k + 1])
    <3>1. k \in 1 .. Size /\ k + 1 \in 1 .. Size
      BY <1>1
    <3>2. /\ s[k] \in Positions /\ Cardinality(Below(s[k])) = k - 1
          /\ s[k + 1] \in Positions /\ Cardinality(Below(s[k + 1])) = k
      <4>1. (k + 1) - 1 = k
        OBVIOUS
      <4> QED
        BY <2>1, <3>1, <4>1
    <3>3. s[k] # s[k + 1] /\ ~Less(s[k + 1], s[k])
      BY <3>2, BelowFacts
    <3>4. s[k] \in 0 .. Size /\ s[k + 1] \in 0 .. Size
      BY <1>1, <3>2
    <3> QED
      BY <3>3, <3>4, LessOrder
  <2>3. s \in [1 .. Size -> Positions]
    BY <2>1
  <2> QED
    BY <2>2, <2>3 DEF Sorted
<1>4. ASSUME Sorted(s), NEW k \in Positions PROVE naive[k] = s[k + 1]
  <2>1. /\ \A j, l \in 1 .. Size : j < l => Less(s[j], s[l])
        /\ \A j, l \in 1 .. Size : s[j] = s[l] => j = l
        /\ { s[j] : j \in 1 .. Size } = Positions
        /\ \A j \in 1 .. Size : s[j] \in Positions
    BY <1>4, SortedFacts DEF Sorted
  <2>2. k + 1 \in 1 .. Size /\ k \in Nat
    BY <1>1
  <2>3. Below(s[k + 1]) = { s[j] : j \in 1 .. k }
    <3>1. ASSUME NEW q \in Below(s[k + 1]) PROVE q \in { s[j] : j \in 1 .. k }
      <4>1. PICK j \in 1 .. Size : q = s[j]
        BY <2>1 DEF Below
      <4>2. q \in 0 .. Size /\ s[k + 1] \in 0 .. Size /\ Less(q, s[k + 1])
        BY <1>1, <2>1, <2>2 DEF Below
      <4>3. ~(k + 1 < j) /\ j # k + 1
        BY <2>1, <2>2, <4>1, <4>2, LessOrder
      <4>4. j \in 1 .. k
        BY <1>1, <2>2, <4>3
      <4> QED
        BY <4>1, <4>4
    <3>2. ASSUME NEW j \in 1 .. k PROVE s[j] \in Below(s[k + 1])
      <4>1. j \in 1 .. Size /\ j < k + 1
        BY <1>1, <2>2
      <4> QED
        BY <2>1, <2>2, <4>1 DEF Below
    <3> QED
      BY <3>1, <3>2
  <2>4. Cardinality({ s[j] : j \in 1 .. k }) = k
    <3> DEFINE f == [ j \in 1 .. k |-> s[j] ]
               T == { s[j] : j \in 1 .. k }
    <3>1. \A j \in 1 .. k : j \in 1 .. Size
      BY <1>1, <2>2
    <3>2. f \in [1 .. k -> T] /\ \A t \in T : \E j \in 1 .. k : f[j] = t
      OBVIOUS
    <3>3. \A j, l \in 1 .. k : f[j] = f[l] => j = l
      BY <2>1, <3>1
    <3> HIDE DEF f, T
    <3>4. f \in Surjection(1 .. k, T) /\ f \in Injection(1 .. k, T)
      BY <3>2, <3>3 DEF Surjection, Injection, IsInjective
    <3>5. IsFiniteSet(1 .. k) /\ Cardinality(1 .. k) = k
      BY <2>2, FS_Interval
    <3>6. Cardinality(T) = k
      BY <3>4, <3>5, FS_Surjection
    <3> QED
      BY <3>6 DEF T
  <2>5. Cardinality(Below(s[k + 1])) = k
    BY <2>3, <2>4
  <2> QED
    BY <1>2, <2>1, <2>2, <2>5, BelowFacts
<1> QED
  BY <1>3, <1>4

\* n different numbers below n, in order, are 0, 1, ..., n - 1.
LEMMA Identity ==
  ASSUME NEW n \in Nat, NEW f \in [0 .. n - 1 -> 0 .. n - 1],
         \A j, k \in 0 .. n - 1 : j < k => f[j] <= f[k],
         \A j, k \in 0 .. n - 1 : f[j] = f[k] => j = k
  PROVE  \A k \in 0 .. n - 1 : f[k] = k
<1>1. \A j, k \in 0 .. n - 1 : j < k => f[j] < f[k]
  <2> SUFFICES ASSUME NEW j \in 0 .. n - 1, NEW k \in 0 .. n - 1, j < k PROVE f[j] < f[k]
    OBVIOUS
  <2>1. f[j] <= f[k] /\ f[j] # f[k] /\ f[j] \in Nat /\ f[k] \in Nat
    OBVIOUS
  <2> QED
    BY <2>1
<1>2. \A k \in 0 .. n - 1 : f[k] \in 0 .. n - 1
  OBVIOUS
<1> DEFINE Low == { k \in 0 .. n - 1 : f[k] < k }
           High == { k \in 0 .. n - 1 : f[n - 1 - k] > n - 1 - k }
<1>3. ASSUME Low # {} PROVE FALSE
  <2>1. PICK k \in Low : \A l \in Low : k <= l
    <3>1. Low \subseteq Nat
      OBVIOUS
    <3> HIDE DEF Low
    <3> QED
      BY <1>3, <3>1, Smallest
  <2>2. k \in 0 .. n - 1 /\ f[k] < k
    OBVIOUS
  <2>3. k - 1 \in 0 .. n - 1 /\ k - 1 < k
    BY <1>2, <2>2
  <2>4. ~(f[k - 1] < k - 1)
    BY <2>1, <2>3
  <2>5. f[k - 1] < f[k] /\ f[k - 1] \in Nat /\ f[k] \in Nat
    BY <1>1, <1>2, <2>2, <2>3
  <2> QED
    BY <2>2, <2>3, <2>4, <2>5
<1>4. ASSUME High # {} PROVE FALSE
  <2>1. PICK k \in High : \A l \in High : k <= l
    <3>1. High \subseteq Nat
      OBVIOUS
    <3> HIDE DEF High
    <3> QED
      BY <1>4, <3>1, Smallest
  <2> DEFINE m == n - 1 - k
  <2>2. k \in 0 .. n - 1 /\ m \in 0 .. n - 1 /\ f[m] > m
    OBVIOUS
  <2>3. m + 1 \in 0 .. n - 1 /\ k - 1 \in 0 .. n - 1 /\ n - 1 - (k - 1) = m + 1 /\ m < m + 1
    BY <1>2, <2>2
  <2>4. ~(f[m + 1] > m + 1)
    <3>1. k - 1 \notin High
      <4> HIDE DEF High, m
      <4>1. k - 1 < k /\ k - 1 \in Nat /\ k \in Nat
        BY <2>2, <2>3
      <4> QED
        BY <2>1, <4>1
    <3>2. ~(f[n - 1 - (k - 1)] > n - 1 - (k - 1))
      BY <2>3, <3>1
    <3> QED
      BY <2>3, <3>2
  <2>5. f[m] < f[m + 1] /\ f[m] \in Nat /\ f[m + 1] \in Nat
    BY <1>1, <1>2, <2>2, <2>3
  <2> QED
    BY <2>2, <2>3, <2>4, <2>5
<1> SUFFICES ASSUME NEW k \in 0 .. n - 1 PROVE f[k] = k
  OBVIOUS
<1>5. ~(f[k] < k)
  BY <1>3
<1>6. ~(f[k] > k)
  <2> DEFINE q == n - 1 - k
  <2>1. q \in 0 .. n - 1 /\ n - 1 - q = k
    OBVIOUS
  <2> HIDE DEF q
  <2>2. q \notin High
    BY <1>4
  <2>3. ~(f[n - 1 - q] > n - 1 - q)
    BY <2>1, <2>2
  <2> QED
    BY <2>1, <2>3
<1> QED
  BY <1>2, <1>5, <1>6

\* The first sort of sa_check_sorter: places in the order of their values.
SortedPlaces(s, place_of) ==
  /\ place_of \in [Positions -> 1 .. Size]
  /\ \A k, l \in Positions : k < l => s[place_of[k]] <= s[place_of[l]]
  /\ \A k, l \in Positions : k # l => place_of[k] # place_of[l]

\* place_of is the inverse of the array.
Inverts(s, place_of) ==
  /\ place_of \in [Positions -> 1 .. Size]
  /\ \A k \in Positions : s[place_of[k]] = k

\* A permutation has position k at the k-th place of that sort.
LEMMA PlacesOfSorted ==
  ASSUME InputInv, NEW s, Sorted(s), NEW place_of, SortedPlaces(s, place_of)
  PROVE  Inverts(s, place_of)
<1>1. Size \in Nat /\ Positions = 0 .. Size - 1
  BY DEF InputInv, Positions
<1>2. /\ place_of \in [Positions -> 1 .. Size]
      /\ \A k, l \in Positions : k < l => s[place_of[k]] <= s[place_of[l]]
      /\ \A k, l \in Positions : k # l => place_of[k] # place_of[l]
  BY DEF SortedPlaces
<1>3. /\ s \in [1 .. Size -> Positions]
      /\ \A j, k \in 1 .. Size : s[j] = s[k] => j = k
  BY SortedFacts DEF Sorted
<1> DEFINE f == [ k \in 0 .. Size - 1 |-> s[place_of[k]] ]
<1>4. f \in [0 .. Size - 1 -> 0 .. Size - 1]
  BY <1>1, <1>2, <1>3
<1>5. \A j, k \in 0 .. Size - 1 : j < k => f[j] <= f[k]
  BY <1>1, <1>2
<1>6. \A j, k \in 0 .. Size - 1 : f[j] = f[k] => j = k
  <2> SUFFICES ASSUME NEW j \in 0 .. Size - 1, NEW k \in 0 .. Size - 1, f[j] = f[k] PROVE j = k
    OBVIOUS
  <2>1. place_of[j] = place_of[k]
    BY <1>1, <1>2, <1>3
  <2> QED
    BY <1>1, <1>2, <2>1
<1>7. \A k \in 0 .. Size - 1 : f[k] = k
  <2> HIDE DEF f
  <2> QED
    BY <1>1, <1>4, <1>5, <1>6, Identity
<1> QED
  BY <1>1, <1>2, <1>7 DEF Inverts

\* An array with an inverse is a permutation of the positions.
LEMMA InverseFacts ==
  ASSUME InputInv, NEW s, NEW place_of, Inverts(s, place_of)
  PROVE  /\ \A x \in 1 .. Size : s[x] \in Positions /\ place_of[s[x]] = x
         /\ \A p \in Positions : place_of[p] \in 1 .. Size /\ s[place_of[p]] = p
         /\ \A p, q \in Positions : place_of[p] = place_of[q] => p = q
<1>1. Size \in Nat /\ Positions = 0 .. Size - 1
  BY DEF InputInv, Positions
<1>2. place_of \in [Positions -> 1 .. Size] /\ \A k \in Positions : s[place_of[k]] = k
  BY DEF Inverts
<1>3. \A p, q \in Positions : place_of[p] = place_of[q] => p = q
  BY <1>2
<1> DEFINE f == [ k \in 1 .. Size |-> place_of[k - 1] - 1 ]
<1>4. \A k \in 1 .. Size : k - 1 \in Positions /\ place_of[k - 1] - 1 \in 0 .. Size - 1
  BY <1>1, <1>2
<1>5. f \in [1 .. Size -> 0 .. Size - 1]
  BY <1>4
<1>6. \A j, k \in 1 .. Size : f[j] = f[k] => j = k
  <2> SUFFICES ASSUME NEW j \in 1 .. Size, NEW k \in 1 .. Size, f[j] = f[k] PROVE j = k
    OBVIOUS
  <2>1. place_of[j - 1] \in Nat /\ place_of[k - 1] \in Nat /\ place_of[j - 1] = place_of[k - 1]
    BY <1>1, <1>2, <1>4
  <2>2. j - 1 = k - 1
    BY <1>3, <1>4, <2>1
  <2> QED
    BY <1>1, <2>2
<1>7. { f[k] : k \in 1 .. Size } = 0 .. Size - 1
  <2> HIDE DEF f
  <2> QED
    BY <1>1, <1>5, <1>6, OneToOne
<1>8. ASSUME NEW x \in 1 .. Size PROVE s[x] \in Positions /\ place_of[s[x]] = x
  <2>1. x - 1 \in 0 .. Size - 1
    BY <1>1
  <2>2. PICK k \in 1 .. Size : f[k] = x - 1
    BY <1>7, <2>1
  <2>3. k - 1 \in Positions /\ place_of[k - 1] = x
    BY <1>1, <1>2, <1>4, <2>2
  <2> QED
    BY <1>2, <2>3
<1> QED
  BY <1>2, <1>3, <1>8

\* The place of the suffix after p, as the triples have it.
Next1(place_of, p) == IF p + 1 < Size THEN place_of[p + 1] ELSE 0

\* The order that the triples stand for.
NotGreater(place_of, p, q) ==
  \/ Char(p) < Char(q)
  \/ Char(p) = Char(q) /\ Next1(place_of, p) <= Next1(place_of, q)

\* If neighbours are in order by the triples then the array is sorted: the
\* triples lead from a pair in the wrong order to a later one.
LEMMA TriplesSort ==
  ASSUME InputInv, NEW s, NEW place_of, Inverts(s, place_of), s \in [1 .. Size -> 0 .. MaxIndex],
         \A k \in 1 .. Size - 1 : NotGreater(place_of, s[k], s[k + 1])
  PROVE  Sorted(s)
<1>1. Size \in Nat /\ Positions = 0 .. Size - 1 /\ \A p \in Positions : Char(p) \in Nat
  BY DEF InputInv, Positions, Char
<1>2. /\ \A x \in 1 .. Size : s[x] \in Positions /\ place_of[s[x]] = x
      /\ \A p \in Positions : place_of[p] \in 1 .. Size /\ s[place_of[p]] = p
      /\ \A p, q \in Positions : place_of[p] = place_of[q] => p = q
  BY InverseFacts
<1>3. \A p \in Positions : Next1(place_of, p) \in Nat
  <2> TAKE p \in Positions
  <2>1. CASE p + 1 < Size
    <3>1. p + 1 \in Positions
      BY <1>1, <2>1
    <3> QED
      BY <1>1, <1>2, <2>1, <3>1 DEF Next1
  <2>2. CASE ~(p + 1 < Size)
    BY <2>2 DEF Next1
  <2> QED
    BY <2>1, <2>2
<1>4. \A p, q, r \in Positions :
        NotGreater(place_of, p, q) /\ NotGreater(place_of, q, r) => NotGreater(place_of, p, r)
  <2> SUFFICES ASSUME NEW p \in Positions, NEW q \in Positions, NEW r \in Positions,
                      NotGreater(place_of, p, q), NotGreater(place_of, q, r)
               PROVE  NotGreater(place_of, p, r)
    OBVIOUS
  <2>1. /\ Char(p) \in Nat /\ Char(q) \in Nat /\ Char(r) \in Nat
        /\ Next1(place_of, p) \in Nat /\ Next1(place_of, q) \in Nat /\ Next1(place_of, r) \in Nat
    BY <1>1, <1>3
  <2> QED
    BY <2>1 DEF NotGreater
<1> HIDE DEF Size, Less, Positions, InputInv, Char
<1>5. \A x, y \in 1 .. Size : x < y => NotGreater(place_of, s[x], s[y])
  <2> DEFINE Bad == { y \in 1 .. Size : \E x \in 1 .. Size : x < y /\ ~NotGreater(place_of, s[x], s[y]) }
  <2>1. ASSUME Bad # {} PROVE FALSE
    <3>1. PICK y \in Bad : \A l \in Bad : y <= l
      <4>1. Bad \subseteq Nat
        BY <1>1
      <4> HIDE DEF Bad
      <4> QED
        BY <2>1, <4>1, Smallest
    <3>2. PICK x \in 1 .. Size : x < y /\ ~NotGreater(place_of, s[x], s[y])
      OBVIOUS
    <3>3. y - 1 \in 1 .. Size - 1 /\ (y - 1) + 1 = y /\ y - 1 \in 1 .. Size
      BY <1>1, <3>2
    <3>4. NotGreater(place_of, s[y - 1], s[y])
      BY <3>3
    <3>5. y - 1 \notin Bad
      BY <1>1, <3>1, <3>3
    <3>6. x # y - 1
      BY <3>2, <3>4
    <3>7. x < y - 1
      BY <1>1, <3>2, <3>6
    <3>8. NotGreater(place_of, s[x], s[y - 1])
      BY <3>3, <3>5, <3>7
    <3>9. s[x] \in Positions /\ s[y - 1] \in Positions /\ s[y] \in Positions
      BY <1>2, <3>3
    <3> QED
      BY <1>4, <3>2, <3>4, <3>8, <3>9
  <2> QED
    BY <2>1
<1>6. ASSUME NEW p \in Positions, NEW q \in Positions, place_of[p] < place_of[q], Less(q, p)
      PROVE  /\ p + 1 \in Positions /\ q + 1 \in Positions
             /\ place_of[p + 1] < place_of[q + 1] /\ Less(q + 1, p + 1)
  <2>1. p \in 0 .. Size /\ q \in 0 .. Size /\ p < Size /\ q < Size /\ p \in Nat /\ q \in Nat
    BY <1>1
  <2>2. NotGreater(place_of, p, q)
    <3>1. /\ place_of[p] \in 1 .. Size /\ place_of[q] \in 1 .. Size
          /\ s[place_of[p]] = p /\ s[place_of[q]] = q
      BY <1>2
    <3> QED
      BY <1>5, <1>6, <3>1
  <2>3. Char(q) < Char(p) \/ (Char(q) = Char(p) /\ Less(q + 1, p + 1))
    BY <1>6, <2>1, LessStep
  <2>4. /\ Char(p) \in Nat /\ Char(q) \in Nat
    BY <1>1
  <2>5. Less(q + 1, p + 1) /\ Next1(place_of, p) <= Next1(place_of, q)
    BY <2>2, <2>3, <2>4 DEF NotGreater
  <2>6. p + 1 \in Positions
    <3>1. p + 1 # Size
      <4>1. p + 1 \in 0 .. Size /\ q + 1 \in 0 .. Size
        BY <1>1, <2>1
      <4> QED
        BY <2>5, <4>1, LessStep
    <3> QED
      BY <1>1, <2>1, <3>1
  <2>7. Next1(place_of, p) = place_of[p + 1] /\ place_of[p + 1] \in 1 .. Size
    BY <1>1, <1>2, <2>6 DEF Next1
  <2>8. q + 1 \in Positions
    <3>1. Next1(place_of, q) # 0
      BY <1>1, <1>3, <2>5, <2>7
    <3> QED
      BY <1>1, <2>1, <3>1 DEF Next1
  <2>9. Next1(place_of, q) = place_of[q + 1] /\ place_of[q + 1] \in 1 .. Size
    BY <1>1, <1>2, <2>8 DEF Next1
  <2>10. p # q
    <3>1. place_of[p] \in Nat
      BY <1>1, <1>2
    <3> QED
      BY <1>6, <3>1
  <2>11. place_of[p + 1] # place_of[q + 1]
    <3>1. p + 1 # q + 1
      BY <2>1, <2>10
    <3> QED
      BY <1>2, <2>6, <2>8, <3>1
  <2>12. place_of[p + 1] < place_of[q + 1]
    <3> DEFINE a == place_of[p + 1]
               c == place_of[q + 1]
    <3>1. a <= c
      BY <2>5, <2>7, <2>9
    <3>2. a \in Nat /\ c \in Nat /\ a # c
      BY <1>1, <2>7, <2>9, <2>11
    <3> HIDE DEF a, c
    <3>3. a < c
      BY <3>1, <3>2
    <3> QED
      BY <3>3 DEF a, c
  <2> QED
    BY <2>5, <2>6, <2>8, <2>12
<1>7. \A p, q \in Positions : place_of[p] < place_of[q] => ~Less(q, p)
  <2> DEFINE Bad == { k \in 0 .. Size : k > 0 /\ \E q \in Positions :
                        place_of[Size - k] < place_of[q] /\ Less(q, Size - k) }
  <2>1. ASSUME Bad # {} PROVE FALSE
    <3>1. PICK k \in Bad : \A l \in Bad : k <= l
      <4>1. Bad \subseteq Nat
        BY <1>1
      <4> HIDE DEF Bad
      <4> QED
        BY <2>1, <4>1, Smallest
    <3>2. k \in 0 .. Size /\ k > 0
      OBVIOUS
    <3> DEFINE p == Size - k
    <3>3. PICK q \in Positions : place_of[p] < place_of[q] /\ Less(q, p)
      OBVIOUS
    <3>4. p \in Positions
      BY <1>1, <3>2
    <3>5. /\ p + 1 \in Positions /\ q + 1 \in Positions
          /\ place_of[p + 1] < place_of[q + 1] /\ Less(q + 1, p + 1)
      BY <1>6, <3>3, <3>4
    <3>6. k - 1 \in 0 .. Size /\ Size - (k - 1) = p + 1 /\ k - 1 > 0
      BY <1>1, <3>2, <3>5
    <3>7. k - 1 \in Bad
      BY <3>5, <3>6
    <3>8. k \in Nat /\ k - 1 \in Nat /\ ~(k <= k - 1)
      BY <1>1, <3>2, <3>6
    <3> HIDE DEF Bad
    <3> QED
      BY <3>1, <3>7, <3>8
  <2> SUFFICES ASSUME NEW p \in Positions, NEW q \in Positions, place_of[p] < place_of[q], Less(q, p)
               PROVE  FALSE
    OBVIOUS
  <2> DEFINE k == Size - p
  <2>2. k \in 0 .. Size /\ k > 0 /\ Size - k = p
    BY <1>1
  <2> HIDE DEF k
  <2>3. k \in Bad
    BY <2>2
  <2> QED
    BY <2>1, <2>3
<1>8. ASSUME NEW k \in 1 .. Size - 1 PROVE Less(s[k], s[k + 1])
  <2>1. k \in 1 .. Size /\ k + 1 \in 1 .. Size /\ k < k + 1
    BY <1>1
  <2>2. /\ s[k] \in Positions /\ s[k + 1] \in Positions
        /\ place_of[s[k]] = k /\ place_of[s[k + 1]] = k + 1
    BY <1>2, <2>1
  <2>3. ~Less(s[k + 1], s[k]) /\ s[k] # s[k + 1]
    BY <1>7, <2>1, <2>2
  <2>4. s[k] \in 0 .. Size /\ s[k + 1] \in 0 .. Size
    BY <1>1, <2>2
  <2> QED
    BY <2>3, <2>4, LessOrder
<1>9. s \in [1 .. Size -> Positions]
  BY <1>2
<1> QED
  BY <1>8, <1>9 DEF Sorted

\* The triples of a sorted array are in order.
LEMMA TriplesSorted ==
  ASSUME InputInv, NEW s, NEW place_of, Sorted(s), Inverts(s, place_of), NEW k \in 1 .. Size - 1
  PROVE  NotGreater(place_of, s[k], s[k + 1])
<1>1. Size \in Nat /\ Positions = 0 .. Size - 1 /\ \A p \in Positions : Char(p) \in Nat
  BY DEF InputInv, Positions, Char
<1>2. /\ \A x \in 1 .. Size : s[x] \in Positions /\ place_of[s[x]] = x
      /\ \A p \in Positions : place_of[p] \in 1 .. Size /\ s[place_of[p]] = p
  BY InverseFacts
<1>3. \A j, l \in 1 .. Size : j < l => Less(s[j], s[l])
  BY SortedFacts
<1>4. \A p \in 0 .. Size : ~Less(p, p)
  BY LessOrder
<1>5. \A p, q, r \in 0 .. Size : Less(p, q) /\ Less(q, r) => Less(p, r)
  BY LessOrder
<1> DEFINE p == s[k]
           q == s[k + 1]
<1>6. p \in Positions /\ q \in Positions /\ Less(p, q)
  <2>1. k \in 1 .. Size /\ k + 1 \in 1 .. Size /\ k < k + 1
    BY <1>1
  <2> QED
    BY <1>2, <1>3, <2>1
<1> HIDE DEF p, q
<1>7. Char(p) < Char(q) \/ (Char(p) = Char(q) /\ Less(p + 1, q + 1))
  <2>1. p \in 0 .. Size /\ q \in 0 .. Size /\ p < Size /\ q < Size
    BY <1>1, <1>6
  <2> QED
    BY <1>6, <2>1, LessStep
<1>8. CASE Char(p) < Char(q)
  BY <1>8 DEF NotGreater, p, q
<1>9. CASE Char(p) = Char(q) /\ Less(p + 1, q + 1)
  <2>1. p + 1 \in 0 .. Size /\ q + 1 \in 0 .. Size
    BY <1>1, <1>6
  <2>2. q + 1 < Size
    <3>1. q + 1 # Size
      BY <1>9, <2>1, LessStep
    <3> QED
      BY <1>1, <1>6, <3>1
  <2>3. q + 1 \in Positions /\ Next1(place_of, q) = place_of[q + 1] /\ place_of[q + 1] \in 1 .. Size
    <3>1. q + 1 \in Positions
      BY <1>1, <1>6, <2>2
    <3> QED
      BY <1>2, <2>2, <3>1 DEF Next1
  <2>4. CASE p + 1 < Size
    <3>1. p + 1 \in Positions /\ Next1(place_of, p) = place_of[p + 1]
      BY <1>1, <1>6, <2>4 DEF Next1
    <3>2. /\ place_of[p + 1] \in 1 .. Size
          /\ s[place_of[p + 1]] = p + 1 /\ s[place_of[q + 1]] = q + 1
      BY <1>2, <2>3, <3>1
    <3>3. ~(place_of[q + 1] < place_of[p + 1])
      <4>1. ASSUME place_of[q + 1] < place_of[p + 1] PROVE FALSE
        <5>1. Less(q + 1, p + 1)
          BY <1>3, <2>3, <3>2, <4>1
        <5> QED
          BY <1>4, <1>5, <1>9, <2>1, <5>1
      <4> QED
        BY <4>1
    <3>4. Next1(place_of, p) <= Next1(place_of, q)
      BY <1>1, <2>3, <3>1, <3>2, <3>3
    <3> QED
      BY <1>9, <3>4 DEF NotGreater, p, q
  <2>5. CASE ~(p + 1 < Size)
    <3>1. Next1(place_of, p) = 0
      BY <2>5 DEF Next1
    <3>2. Next1(place_of, p) <= Next1(place_of, q)
      BY <1>1, <2>3, <3>1
    <3> QED
      BY <1>9, <3>2 DEF NotGreater, p, q
  <2> QED
    BY <2>4, <2>5
<1> QED
  BY <1>7, <1>8, <1>9

-----------------------------------------------------------------------------
(* The checks step by step *)

\* The triples that are compared are in the order that they stand for.
LEMMA Triples ==
  ASSUME InputInv, P \in [Positions -> 1 .. Size], NEW p \in Positions, NEW q \in Positions
  PROVE  sa_check!Greater(sa_check!Triple(p), sa_check!Triple(q)) <=> ~NotGreater(P, p, q)
<1>1. Size \in Nat /\ Positions = 0 .. Size - 1 /\ Char(p) \in Nat /\ Char(q) \in Nat
  BY DEF InputInv, Positions, Char
<1>2. \A r \in Positions : Next1(P, r) \in Nat
  <2> TAKE r \in Positions
  <2>1. r + 1 < Size => r + 1 \in Positions
    BY <1>1
  <2> QED
    BY <1>1, <2>1 DEF Next1
<1>3. /\ sa_check!Triple(p) = << Char(p), Next1(P, p) >>
      /\ sa_check!Triple(q) = << Char(q), Next1(P, q) >>
  BY DEF sa_check!Triple, sa_check!At, sa_check!N, Size, Char, Next1
<1>4. sa_check!Greater(sa_check!Triple(p), sa_check!Triple(q)) <=>
        Char(p) > Char(q) \/ (Char(p) = Char(q) /\ Next1(P, p) > Next1(P, q))
  BY <1>3 DEF sa_check!Greater
<1>5. Next1(P, p) \in Nat /\ Next1(P, q) \in Nat
  BY <1>2
<1> QED
  BY <1>1, <1>4, <1>5 DEF NotGreater

\* What is known before each step of a check.
PermutationInv ==
  /\ check_i \in 0 .. Size
  /\ P = << >> => check_i = 0
  /\ P # << >> => /\ SortedPlaces(sa, P)
                  /\ \A k \in Positions : k < check_i => sa[P[k]] = k

TriplesInv ==
  /\ check_i \in Nat \ {0}
  /\ Size > 0 => Inverts(sa, P)
  /\ \A k \in 1 .. Size - 1 : k < check_i => NotGreater(P, sa[k], sa[k + 1])

NeighboursInv ==
  /\ check_i \in Nat \ {0}
  /\ \A k \in 1 .. Size - 1 :
       k < check_i => sa[k] < Size /\ sa[k + 1] < Size /\ Less(sa[k], sa[k + 1])

Accepted == result = "ok" <=> Sorted(sa)

CheckInv ==
  /\ InputInv
  /\ place # "idle" => sa \in [1 .. Size -> 0 .. MaxIndex]
  /\ place = "idle" => check_i = 0 /\ P = << >>
  /\ place = "begin" => check_i = 0 /\ P = << >> /\ check \in { "naive", "sorter", "fast" }
  /\ place = "sort" => check = "naive"
  /\ place = "permutation" => check = "sorter" /\ PermutationInv
  /\ place = "order" => check = "sorter" /\ TriplesInv
  /\ place = "neighbours" => check = "fast" /\ NeighboursInv
  /\ place = "done" =>
       /\ check \in { "naive", "sorter" } => Accepted
       /\ check = "fast" /\ Size # 1 => Accepted

LEMMA CheckInit == Init => CheckInv
<1> SUFFICES ASSUME Init PROVE CheckInv
  OBVIOUS
<1>1. CharacterValues \in Nat /\ MaxLength \in Nat
  BY ConstructionAssumption DEF alphabet!AlphabetAssumption
<1>2. PICK n \in 0 .. MaxLength : input \in [1 .. n -> 0 .. CharacterValues - 1]
  BY DEF Init, alphabet!Init, alphabet!Character
<1>3. Size = n /\ n \in Nat
  BY <1>1, <1>2 DEF Size
<1>4. InputInv
  <2>1. 0 .. CharacterValues - 1 \subseteq Nat
    BY <1>1
  <2> QED
    BY <1>2, <1>3, <2>1 DEF InputInv
<1>5. place = "idle" /\ check_i = 0 /\ P = << >>
  BY DEF Init
<1> QED
  BY <1>4, <1>5 DEF CheckInv

LEMMA CompareLengthsStep ==
  ASSUME CheckInv, sa_check!CompareLengths PROVE CheckInv'
<1>1. /\ place = "begin" /\ input' = input /\ sa' = sa /\ check' = check /\ P' = P
      /\ check_i' = IF check = "fast" THEN 1 ELSE 0
  BY DEF sa_check!CompareLengths
<1>2. /\ sa \in [1 .. Size -> 0 .. MaxIndex] /\ P = << >>
      /\ check \in { "naive", "sorter", "fast" } /\ InputInv /\ Size \in Nat
  BY <1>1 DEF CheckInv, InputInv
<1>3. Size' = Size /\ InputInv'
  BY <1>1, <1>2 DEF InputInv, Size
<1>4. Len(sa) = sa_check!N
  <2>1. sa_check!N = Size
    BY DEF sa_check!N, Size
  <2> QED
    BY <1>2, <2>1
<1>5. place' = [ naive |-> "sort", sorter |-> "permutation", fast |-> "neighbours" ][check]
  BY <1>1, <1>4 DEF sa_check!CompareLengths
<1>6. sa' \in [1 .. Size' -> 0 .. MaxIndex]
  BY <1>1, <1>2, <1>3
<1>7. CASE check = "naive"
  BY <1>1, <1>3, <1>5, <1>6, <1>7 DEF CheckInv
<1>8. CASE check = "sorter"
  <2>1. PermutationInv'
    BY <1>1, <1>2, <1>3, <1>8 DEF PermutationInv
  <2> QED
    BY <1>1, <1>3, <1>5, <1>6, <1>8, <2>1 DEF CheckInv
<1>9. CASE check = "fast"
  <2>1. NeighboursInv'
    BY <1>1, <1>2, <1>3, <1>9 DEF NeighboursInv
  <2> QED
    BY <1>1, <1>3, <1>5, <1>6, <1>9, <2>1 DEF CheckInv
<1> QED
  BY <1>2, <1>7, <1>8, <1>9

\* A report ends the check; it is right if it says "ok" for sorted arrays.
LEMMA Reported ==
  ASSUME CheckInv, place # "idle", sa_check!Report(result'), UNCHANGED << input, sa, check, P >>,
         (check = "fast" /\ Size = 1) \/ (result' = "ok" <=> Sorted(sa))
  PROVE  CheckInv'
<1>1. place' = "done" /\ input' = input /\ sa' = sa /\ check' = check
  BY DEF sa_check!Report
<1>2. Size' = Size /\ Positions' = Positions
  BY <1>1 DEF Size, Positions
<1>3. Sorted(sa)' <=> Sorted(sa)
  <2>1. \A p, q : Less(p, q)' <=> Less(p, q)
    BY <1>1 DEF Less, sa_check!SuffixLess, sa_check!N, sa_check!At
  <2> QED
    BY <1>1, <1>2, <2>1 DEF Sorted
<1>4. InputInv' /\ sa' \in [1 .. Size' -> 0 .. MaxIndex]
  BY <1>1, <1>2 DEF CheckInv, InputInv
<1>5. CASE check = "fast" /\ Size = 1
  BY <1>1, <1>2, <1>4, <1>5 DEF CheckInv
<1>6. CASE result' = "ok" <=> Sorted(sa)
  <2>1. Accepted'
    BY <1>3, <1>6 DEF Accepted
  <2> QED
    BY <1>1, <1>4, <2>1 DEF CheckInv
<1> QED
  BY <1>5, <1>6

\* The order of the suffixes depends on the input alone.
LEMMA SameText ==
  ASSUME UNCHANGED input
  PROVE  /\ Size' = Size /\ Positions' = Positions
         /\ \A p : Char(p)' = Char(p)
         /\ \A p, q : Less(p, q)' <=> Less(p, q)
BY DEF Size, Positions, Char, Less, sa_check!SuffixLess, sa_check!N, sa_check!At

LEMMA CompareWithSortedStep ==
  ASSUME CheckInv, sa_check!CompareWithSorted PROVE CheckInv'
<1> DEFINE naive == [ k \in Positions |-> CHOOSE p \in Positions : k = Cardinality(Below(p)) ]
<1>1. /\ place = "sort" /\ UNCHANGED << input, sa, check, P >>
      /\ sa_check!Report(result')
  BY DEF sa_check!CompareWithSorted, sa_check!Report
<1>2. result' = IF \A k \in Positions : naive[k] = sa[k + 1] THEN "ok" ELSE "not_suffix_sorted"
  BY Zenon DEF sa_check!CompareWithSorted, sa_check!Report, sa_check!Positions, sa_check!N,
               sa_check!At, sa_check!Cardinality, Cardinality, Size, Positions, Below, Less
<1>3. InputInv /\ sa \in [1 .. Size -> 0 .. MaxIndex] /\ place # "idle"
  BY <1>1 DEF CheckInv
<1>4. (\A k \in Positions : naive[k] = sa[k + 1]) <=> Sorted(sa)
  BY <1>3, NaiveExact
<1> HIDE DEF naive
<1>5. result' = "ok" <=> Sorted(sa)
  BY <1>2, <1>4
<1> QED
  BY <1>1, <1>3, <1>5, Reported

LEMMA SortByPositionStep ==
  ASSUME CheckInv, sa_check!SortByPosition PROVE CheckInv'
<1>1. /\ place = "permutation" /\ P = << >>
      /\ UNCHANGED << input, sa, check, place, check_i, result >>
  BY DEF sa_check!SortByPosition
<1>2. /\ Size' = Size /\ Positions' = Positions
  BY <1>1, SameText
<1>3. /\ P' \in [Positions -> 1 .. Size]
      /\ \A k, l \in Positions : k < l => sa[P'[k] - 1 + 1] <= sa[P'[l] - 1 + 1]
      /\ \A k, l \in Positions : k # l => P'[k] # P'[l]
  BY DEF sa_check!SortByPosition, sa_check!Positions, sa_check!N, sa_check!At, Size, Positions
<1>4. CheckInv /\ InputInv /\ Size \in Nat
  BY DEF CheckInv, InputInv
<1>5. \A k \in Positions : P'[k] - 1 + 1 = P'[k]
  BY <1>3, <1>4
<1>6. SortedPlaces(sa, P')
  BY <1>3, <1>5 DEF SortedPlaces
<1>7. SortedPlaces(sa, P)'
  BY <1>1, <1>2, <1>6 DEF SortedPlaces
<1>8. check = "sorter" /\ check_i = 0 /\ 0 \in 0 .. Size /\ sa \in [1 .. Size -> 0 .. MaxIndex]
  BY <1>1, <1>4 DEF CheckInv, PermutationInv
<1>9. PermutationInv'
  <2>1. \A k \in Positions' : ~(k < check_i')
    BY <1>1, <1>2, <1>4, <1>8 DEF Positions
  <2> QED
    BY <1>1, <1>2, <1>7, <1>8, <2>1 DEF PermutationInv
<1> QED
  BY <1>1, <1>2, <1>4, <1>8, <1>9 DEF CheckInv, InputInv

LEMMA ComparePositionStep ==
  ASSUME CheckInv, sa_check!ComparePosition PROVE CheckInv'
<1>1. /\ place = "permutation" /\ UNCHANGED << input, sa, check, P >>
      /\ Size = 0 \/ P # << >>
  BY DEF sa_check!ComparePosition, sa_check!N, Size
<1>2. /\ Size' = Size /\ Positions' = Positions /\ InputInv'
  BY <1>1, SameText DEF CheckInv, InputInv
<1>3. /\ InputInv /\ Size \in Nat /\ Positions = 0 .. Size - 1
      /\ sa \in [1 .. Size -> 0 .. MaxIndex] /\ check = "sorter" /\ PermutationInv
  BY <1>1 DEF CheckInv, InputInv, Positions
<1>4. /\ check_i \in 0 .. Size
      /\ Size > 0 => /\ SortedPlaces(sa, P) /\ P \in [Positions -> 1 .. Size]
                     /\ \A k \in Positions : k < check_i => sa[P[k]] = k
  BY <1>1, <1>3 DEF PermutationInv, SortedPlaces
<1>5. CASE check_i = Size
  <2>1. place' = "order" /\ check_i' = 1
    BY <1>5 DEF sa_check!ComparePosition, sa_check!N, Size
  <2>2. Size > 0 => Inverts(sa, P)
    BY <1>3, <1>4, <1>5 DEF Inverts
  <2>3. TriplesInv'
    <3>1. \A k \in 1 .. Size - 1 : ~(k < 1)
      BY <1>3
    <3> QED
      BY <1>1, <1>2, <2>1, <2>2, <3>1 DEF TriplesInv, Inverts
  <2> QED
    BY <1>1, <1>2, <1>3, <2>1, <2>3 DEF CheckInv
<1>6. CASE check_i # Size
  <2>1. check_i \in Positions /\ Size > 0 /\ P[check_i] \in 1 .. Size /\ P[check_i] - 1 + 1 = P[check_i]
    BY <1>3, <1>4, <1>6
  <2>2. IF sa[P[check_i]] # check_i
        THEN sa_check!Report(result') /\ result' = "not_a_permutation"
        ELSE check_i' = check_i + 1 /\ UNCHANGED << place, result >>
    BY <1>6, <2>1 DEF sa_check!ComparePosition, sa_check!N, sa_check!At, sa_check!Report, Size
  <2>3. CASE sa[P[check_i]] # check_i
    <3>1. ~Sorted(sa)
      <4>1. ASSUME Sorted(sa) PROVE FALSE
        <5>1. Inverts(sa, P)
          BY <1>3, <1>4, <2>1, <4>1, PlacesOfSorted
        <5> QED
          BY <2>1, <2>3, <5>1 DEF Inverts
      <4> QED
        BY <4>1
    <3>2. result' = "ok" <=> Sorted(sa)
      BY <2>2, <2>3, <3>1
    <3>3. sa_check!Report(result') /\ place # "idle"
      BY <1>1, <2>2, <2>3
    <3> QED
      BY <1>1, <3>2, <3>3, Reported
  <2>4. CASE sa[P[check_i]] = check_i
    <3>1. check_i' = check_i + 1 /\ UNCHANGED place
      BY <2>2, <2>4
    <3>2. check_i' \in 0 .. Size
      BY <1>3, <1>4, <1>6, <3>1
    <3>3. \A k \in Positions : k < check_i' => sa[P[k]] = k
      <4> SUFFICES ASSUME NEW k \in Positions, k < check_i' PROVE sa[P[k]] = k
        OBVIOUS
      <4>1. k < check_i \/ k = check_i
        BY <1>3, <1>4, <3>1
      <4> QED
        BY <1>4, <2>1, <2>4, <4>1
    <3>4. SortedPlaces(sa, P)'
      BY <1>1, <1>2, <1>4, <2>1 DEF SortedPlaces
    <3>5. PermutationInv'
      BY <1>1, <1>2, <2>1, <3>2, <3>3, <3>4 DEF PermutationInv
    <3> QED
      BY <1>1, <1>2, <1>3, <3>1, <3>5 DEF CheckInv
  <2> QED
    BY <2>3, <2>4
<1> QED
  BY <1>5, <1>6

LEMMA CompareTriplesStep ==
  ASSUME CheckInv, sa_check!CompareTriples PROVE CheckInv'
<1>1. place = "order" /\ UNCHANGED << input, sa, check, P >>
  BY DEF sa_check!CompareTriples
<1>2. /\ Size' = Size /\ Positions' = Positions /\ InputInv'
      /\ (\A p : Char(p)' = Char(p)) /\ (\A p, q : Less(p, q)' <=> Less(p, q))
  BY <1>1, SameText DEF CheckInv, InputInv
<1>3. /\ InputInv /\ Size \in Nat /\ Positions = 0 .. Size - 1
      /\ sa \in [1 .. Size -> 0 .. MaxIndex] /\ check = "sorter" /\ TriplesInv
  BY <1>1 DEF CheckInv, InputInv, Positions
<1>4. check_i \in Nat \ {0}
  BY <1>3 DEF TriplesInv
<1>5. Size > 0 => Inverts(sa, P) /\ \A x \in 1 .. Size : sa[x] \in Positions
  <2>1. ASSUME Size > 0 PROVE Inverts(sa, P)
    BY <1>3, <2>1 DEF TriplesInv
  <2> QED
    BY <1>3, <2>1, InverseFacts
<1>6. \A k \in 1 .. Size - 1 : k < check_i => NotGreater(P, sa[k], sa[k + 1])
  BY <1>3 DEF TriplesInv
<1>7. CASE check_i >= Size
  <2>1. sa_check!Report(result') /\ result' = "ok"
    BY <1>7 DEF sa_check!CompareTriples, sa_check!N, sa_check!Report, Size
  <2>2. Sorted(sa)
    <3>1. CASE Size = 0
      BY <1>3, <3>1 DEF Sorted
    <3>2. CASE Size # 0
      <4>1. Inverts(sa, P)
        BY <1>3, <1>5, <3>2
      <4>2. \A k \in 1 .. Size - 1 : NotGreater(P, sa[k], sa[k + 1])
        BY <1>3, <1>4, <1>6, <1>7
      <4> QED
        BY <1>3, <4>1, <4>2, TriplesSort
    <3> QED
      BY <3>1, <3>2
  <2> QED
    BY <1>1, <2>1, <2>2, Reported
<1>8. CASE ~(check_i >= Size)
  <2>1. /\ check_i \in 1 .. Size - 1 /\ check_i \in 1 .. Size /\ check_i + 1 \in 1 .. Size
        /\ check_i - 1 + 1 = check_i
    BY <1>3, <1>4, <1>8
  <2>2. Inverts(sa, P) /\ sa[check_i] \in Positions /\ sa[check_i + 1] \in Positions
    BY <1>3, <1>5, <2>1
  <2>3. sa_check!Greater(sa_check!Triple(sa[check_i]), sa_check!Triple(sa[check_i + 1]))
          <=> ~NotGreater(P, sa[check_i], sa[check_i + 1])
    BY <1>3, <2>2, Triples DEF Inverts
  <2>4. IF ~NotGreater(P, sa[check_i], sa[check_i + 1])
        THEN sa_check!Report(result') /\ result' = "not_suffix_sorted"
        ELSE check_i' = check_i + 1 /\ UNCHANGED place
    <3>1. ~(check_i >= Len(input))
      BY <1>8 DEF Size
    <3> QED
      BY <2>1, <2>3, <3>1 DEF sa_check!CompareTriples, sa_check!N, sa_check!At, sa_check!Report
  <2>5. CASE ~NotGreater(P, sa[check_i], sa[check_i + 1])
    <3>1. ~Sorted(sa)
      BY <1>3, <2>1, <2>2, <2>5, TriplesSorted
    <3>2. sa_check!Report(result') /\ (result' = "ok" <=> Sorted(sa)) /\ place # "idle"
      BY <1>1, <2>4, <2>5, <3>1
    <3> QED
      BY <1>1, <3>2, Reported
  <2>6. CASE NotGreater(P, sa[check_i], sa[check_i + 1])
    <3>1. check_i' = check_i + 1 /\ UNCHANGED place
      BY <2>4, <2>6
    <3>2. \A p, q : NotGreater(P, p, q)' <=> NotGreater(P, p, q)
      BY <1>1, <1>2 DEF NotGreater, Next1
    <3>3. \A k \in 1 .. Size - 1 : k < check_i' => NotGreater(P, sa[k], sa[k + 1])
      <4> SUFFICES ASSUME NEW k \in 1 .. Size - 1, k < check_i'
                   PROVE  NotGreater(P, sa[k], sa[k + 1])
        OBVIOUS
      <4>1. k < check_i \/ k = check_i
        BY <1>3, <1>4, <3>1
      <4> QED
        BY <1>6, <2>6, <4>1
    <3>4. Inverts(sa, P)' /\ check_i' \in Nat \ {0}
      BY <1>1, <1>2, <1>4, <2>2, <3>1 DEF Inverts
    <3>5. \A k \in 1 .. Size' - 1 : k < check_i' => NotGreater(P, sa[k], sa[k + 1])'
      BY <1>1, <1>2, <3>2, <3>3
    <3>6. TriplesInv'
      BY <3>4, <3>5 DEF TriplesInv
    <3> QED
      BY <1>1, <1>2, <1>3, <3>1, <3>6 DEF CheckInv
  <2> QED
    BY <2>5, <2>6
<1> QED
  BY <1>7, <1>8

LEMMA CompareNeighboursStep ==
  ASSUME CheckInv, sa_check!CompareNeighbours PROVE CheckInv'
<1>1. place = "neighbours" /\ UNCHANGED << input, sa, check, P >>
  BY DEF sa_check!CompareNeighbours
<1>2. /\ Size' = Size /\ InputInv' /\ \A p, q : Less(p, q)' <=> Less(p, q)
  BY <1>1, SameText DEF CheckInv, InputInv
<1>3. /\ InputInv /\ Size \in Nat /\ Positions = 0 .. Size - 1
      /\ sa \in [1 .. Size -> 0 .. MaxIndex] /\ check = "fast" /\ NeighboursInv
      /\ MaxIndex \in Nat
  BY <1>1, ConstructionAssumption DEF CheckInv, InputInv, Positions, sa_check!CheckAssumption
<1>4. /\ check_i \in Nat \ {0}
      /\ \A k \in 1 .. Size - 1 :
           k < check_i => sa[k] < Size /\ sa[k + 1] < Size /\ Less(sa[k], sa[k + 1])
  BY <1>3 DEF NeighboursInv
<1>5. \A k \in 1 .. Size : sa[k] \in Nat
  BY <1>3
<1>6. CASE check_i >= Size
  <2>1. sa_check!Report(result') /\ result' = "ok"
    BY <1>6 DEF sa_check!CompareNeighbours, sa_check!N, sa_check!Report, Size
  <2>2. ASSUME Size # 1 PROVE Sorted(sa)
    <3>1. \A k \in 1 .. Size - 1 : sa[k] < Size /\ sa[k + 1] < Size /\ Less(sa[k], sa[k + 1])
      BY <1>3, <1>4, <1>6
    <3>2. ASSUME NEW k \in 1 .. Size PROVE sa[k] < Size
      <4>1. CASE k = Size
        <5>1. k - 1 \in 1 .. Size - 1 /\ (k - 1) + 1 = k
          BY <1>3, <2>2, <4>1
        <5> QED
          BY <3>1, <5>1
      <4>2. CASE k # Size
        <5>1. k \in 1 .. Size - 1
          BY <1>3, <4>2
        <5> QED
          BY <3>1, <5>1
      <4> QED
        BY <4>1, <4>2
    <3>3. \A k \in 1 .. Size : sa[k] \in Positions
      BY <1>3, <1>5, <3>2
    <3> QED
      BY <1>3, <3>1, <3>3 DEF Sorted
  <2>3. (check = "fast" /\ Size = 1) \/ (result' = "ok" <=> Sorted(sa))
    BY <1>3, <2>1, <2>2
  <2> QED
    BY <1>1, <2>1, <2>3, Reported
<1>7. CASE ~(check_i >= Size)
  <2>1. /\ check_i \in 1 .. Size - 1 /\ check_i \in 1 .. Size /\ check_i + 1 \in 1 .. Size
        /\ check_i - 1 + 1 = check_i
    BY <1>3, <1>4, <1>7
  <2> DEFINE p == sa[check_i]
             q == sa[check_i + 1]
  <2>2. IF p >= Size \/ q >= Size THEN sa_check!Report(result') /\ result' = "not_a_permutation"
        ELSE IF ~Less(p, q) THEN sa_check!Report(result') /\ result' = "not_suffix_sorted"
        ELSE check_i' = check_i + 1 /\ UNCHANGED place
    <3>1. ~(check_i >= Len(input))
      BY <1>7 DEF Size
    <3> QED
      BY <2>1, <3>1 DEF sa_check!CompareNeighbours, sa_check!N, sa_check!At, sa_check!Report, Size, Less
  <2>3. p \in Nat /\ q \in Nat
    BY <1>5, <2>1
  <2>4. Sorted(sa) => p \in Positions /\ q \in Positions /\ Less(p, q)
    BY <2>1 DEF Sorted
  <2>5. Sorted(sa) => p < Size /\ q < Size /\ Less(p, q)
    BY <1>3, <2>4
  <2>6. CASE ~(p < Size /\ q < Size /\ Less(p, q))
    <3>1. ~Sorted(sa)
      BY <2>5, <2>6
    <3>2. sa_check!Report(result') /\ result' # "ok"
      <4>1. CASE p >= Size \/ q >= Size
        BY <2>2, <4>1
      <4>2. CASE ~(p >= Size \/ q >= Size)
        BY <1>3, <2>2, <2>3, <2>6, <4>2
      <4> QED
        BY <4>1, <4>2
    <3>3. (result' = "ok" <=> Sorted(sa)) /\ place # "idle"
      BY <1>1, <3>1, <3>2
    <3> QED
      BY <1>1, <3>2, <3>3, Reported
  <2>7. CASE p < Size /\ q < Size /\ Less(p, q)
    <3>1. check_i' = check_i + 1 /\ UNCHANGED place
      <4>1. ~(p >= Size) /\ ~(q >= Size)
        BY <1>3, <2>3, <2>7
      <4> QED
        BY <2>2, <2>7, <4>1
    <3>2. \A k \in 1 .. Size - 1 :
            k < check_i' => sa[k] < Size /\ sa[k + 1] < Size /\ Less(sa[k], sa[k + 1])
      <4> SUFFICES ASSUME NEW k \in 1 .. Size - 1, k < check_i'
                   PROVE  sa[k] < Size /\ sa[k + 1] < Size /\ Less(sa[k], sa[k + 1])
        OBVIOUS
      <4>1. k < check_i \/ k = check_i
        BY <1>3, <1>4, <3>1
      <4> QED
        BY <1>4, <2>7, <4>1
    <3>3. check_i' \in Nat \ {0}
      BY <1>4, <3>1
    <3>4. NeighboursInv'
      BY <1>1, <1>2, <3>2, <3>3 DEF NeighboursInv
    <3> QED
      BY <1>1, <1>2, <1>3, <3>1, <3>4 DEF CheckInv
  <2> QED
    BY <2>6, <2>7
<1> QED
  BY <1>6, <1>7

\* Steps outside a check leave what it reads alone, or find it idle.
LEMMA CheckFrame ==
  ASSUME CheckInv, UNCHANGED << input, check, place, check_i, P, result >>,
         UNCHANGED sa \/ place = "idle"
  PROVE  CheckInv'
<1>1. /\ Size' = Size /\ Positions' = Positions
      /\ (\A p : Char(p)' = Char(p)) /\ (\A p, q : Less(p, q)' <=> Less(p, q))
  BY SameText
<1>2. InputInv'
  BY <1>1 DEF CheckInv, InputInv
<1>3. CASE place = "idle"
  BY <1>2, <1>3 DEF CheckInv
<1>4. CASE UNCHANGED sa
  <2>1. Sorted(sa)' <=> Sorted(sa)
    BY <1>1, <1>4 DEF Sorted
  <2>2. \A p, q : NotGreater(P, p, q)' <=> NotGreater(P, p, q)
    BY <1>1 DEF NotGreater, Next1
  <2>3. PermutationInv => PermutationInv'
    BY <1>1, <1>4 DEF PermutationInv, SortedPlaces
  <2>4. TriplesInv => TriplesInv'
    <3>1. (Inverts(sa, P) => Inverts(sa, P)') /\ UNCHANGED check_i
      BY <1>1, <1>4 DEF Inverts
    <3> QED
      BY <1>1, <1>4, <2>2, <3>1 DEF TriplesInv
  <2>5. NeighboursInv => NeighboursInv'
    BY <1>1, <1>4 DEF NeighboursInv
  <2>6. Accepted => Accepted'
    BY <2>1 DEF Accepted
  <2> QED
    BY <1>1, <1>2, <1>4, <2>3, <2>4, <2>5, <2>6 DEF CheckInv
<1> QED
  BY <1>3, <1>4

LEMMA CheckNext == CheckInv /\ [Next]_vars => CheckInv'
<1> SUFFICES ASSUME CheckInv, [Next]_vars PROVE CheckInv'
  OBVIOUS
<1>1. CASE Prepare
  <2>1. UNCHANGED << input, sa, check, place, check_i, P, result >>
    BY <1>1 DEF Prepare, checkVars, alphabet!MarkCharacter, alphabet!AddUp, alphabet!MapCharacter
  <2> QED
    BY <2>1, CheckFrame
<1>2. CASE ConstructAndCheck
  <2>1. /\ sa' \in [1 .. Size -> 0 .. MaxIndex] /\ place' = "begin"
        /\ check' \in { "naive", "sorter", "fast" } /\ UNCHANGED << input, check_i, P >>
        /\ place = "idle"
    BY <1>2 DEF ConstructAndCheck, Idle, sa_check!Arrays, alphabetVars, Size
  <2>2. Size' = Size /\ InputInv' /\ check_i = 0 /\ P = << >>
    BY <2>1 DEF CheckInv, InputInv, Size
  <2> QED
    BY <2>1, <2>2 DEF CheckInv
<1>3. CASE ConstructAndWrite
  <2>1. UNCHANGED << input, check, place, check_i, P, result >> /\ place = "idle"
    BY <1>3 DEF ConstructAndWrite, Idle, alphabetVars, checkVars
  <2> QED
    BY <2>1, CheckFrame
<1>4. CASE CheckStep
  BY <1>4, CompareLengthsStep, CompareWithSortedStep, SortByPositionStep, ComparePositionStep,
     CompareTriplesStep, CompareNeighboursStep DEF CheckStep
<1>5. CASE WriteStep
  <2>1. UNCHANGED << input, sa, check, place, check_i, P, result >>
    BY <1>5 DEF WriteStep, alphabetVars, checkVars, write_binary!ChooseBits, write_binary!RoundUp,
                write_binary!BeginEntry, write_binary!PutByte, write_binary!EndEntry
  <2> QED
    BY <2>1, CheckFrame
<1>6. CASE UNCHANGED vars
  <2>1. UNCHANGED << input, sa, check, place, check_i, P, result >>
    BY <1>6 DEF vars, alphabetVars, checkVars
  <2> QED
    BY <2>1, CheckFrame
<1> QED
  BY <1>1, <1>2, <1>3, <1>4, <1>5, <1>6 DEF Next, Done

LEMMA CheckInvariance == Spec => []CheckInv
<1>1. Init => CheckInv
  BY CheckInit
<1>2. CheckInv /\ [Next]_vars => CheckInv'
  BY CheckNext
<1> QED
  BY <1>1, <1>2, PTL DEF Spec

\* The checks by sorting (sa_check_naive_sorter and sa_check_sorter) accept
\* suffix arrays of the text and nothing else, whatever the array holds and
\* in whatever order their sort leaves equal values.
THEOREM SorterExact == Spec => []SorterIsExact
<1>1. CheckInv => SorterIsExact
  <2> SUFFICES ASSUME CheckInv, place = "done", check \in { "naive", "sorter" }
               PROVE  result = "ok" <=> sa_check!IsSuffixArray
    BY DEF SorterIsExact, sa_check!SorterIsExact
  <2>1. InputInv /\ sa \in [1 .. Size -> 0 .. MaxIndex] /\ Accepted
    BY DEF CheckInv
  <2> QED
    BY <2>1, SuffixArray DEF Accepted
<1> QED
  BY <1>1, CheckInvariance, PTL

\* So does the comparison of neighbours (sa_check_fast), except for a text of
\* one character.
THEOREM FastExact == Spec => []FastIsExact
<1>1. CheckInv => FastIsExact
  <2> SUFFICES ASSUME CheckInv, place = "done", check = "fast", Size # 1
               PROVE  result = "ok" <=> sa_check!IsSuffixArray
    BY DEF FastIsExact, sa_check!FastIsExact, sa_check!N, Size
  <2>1. InputInv /\ sa \in [1 .. Size -> 0 .. MaxIndex] /\ Accepted
    BY DEF CheckInv
  <2> QED
    BY <2>1, SuffixArray DEF Accepted
<1> QED
  BY <1>1, CheckInvariance, PTL

-----------------------------------------------------------------------------
(* The effective alphabet *)

Chars == 0 .. CharacterValues - 1
Occ == { input[k] : k \in 1 .. Size }

\* The number of a character that occurs, counting from 1.
Rank(c) == Cardinality({ d \in Occ : d <= c })

Marks == [ c \in Chars |-> IF c \in Occ THEN 1 ELSE 0 ]
Numbers == [ c \in Chars |-> Rank(c) ]

AlphabetTypes ==
  /\ CharacterValues \in Nat \ {0}
  /\ Size \in Nat
  /\ input \in [1 .. Size -> Chars]
  /\ Occ # Chars

\* If a character does not occur then no sum wraps around.
LEMMA RankFacts ==
  ASSUME AlphabetTypes
  PROVE  /\ Numbers \in [Chars -> Chars]
         /\ 0 \in Chars /\ Numbers[0] = Marks[0]
         /\ \A c \in Chars \ {0} : c - 1 \in Chars /\ Numbers[c] = Numbers[c - 1] + Marks[c]
         /\ \A a, c \in Occ : a < c => Numbers[a] < Numbers[c]
         /\ \A c \in Occ : Numbers[c] > 0
<1>1. /\ CharacterValues \in Nat /\ CharacterValues > 0
      /\ Occ \subseteq Chars /\ Occ # Chars /\ Chars = 0 .. CharacterValues - 1
      /\ \A c \in Chars : Numbers[c] = Rank(c) /\ Marks[c] = IF c \in Occ THEN 1 ELSE 0
  BY DEF AlphabetTypes, Occ, Chars, Numbers, Marks
<1> DEFINE UpTo(c) == { d \in Occ : d <= c }
<1>2. IsFiniteSet(Chars) /\ Cardinality(Chars) = CharacterValues
  <2>1. 0 \in Int /\ CharacterValues - 1 \in Int
    BY <1>1
  <2>2. /\ IsFiniteSet(0 .. CharacterValues - 1)
        /\ Cardinality(0 .. CharacterValues - 1)
             = IF 0 > CharacterValues - 1 THEN 0 ELSE (CharacterValues - 1) - 0 + 1
    BY <2>1, FS_Interval
  <2> QED
    BY <1>1, <2>2
<1>3. Numbers = [ c \in Chars |-> Rank(c) ] /\ \A c : Rank(c) = Cardinality(UpTo(c))
  BY DEF Numbers, Rank
<1> HIDE DEF Chars, Occ, Numbers, Marks
<1>4. IsFiniteSet(Occ) /\ Cardinality(Occ) \in Nat /\ Cardinality(Occ) < CharacterValues
  <2>1. IsFiniteSet(Occ) /\ Cardinality(Occ) <= CharacterValues /\ Cardinality(Occ) # CharacterValues
    BY <1>1, <1>2, FS_Subset
  <2>2. Cardinality(Occ) \in Nat
    BY <2>1, FS_CardinalityType
  <2> QED
    BY <1>1, <2>1, <2>2
<1>5. ASSUME NEW c \in Chars
      PROVE  IsFiniteSet(UpTo(c)) /\ Rank(c) \in Chars /\ Rank(c) \in Nat
  <2>1. UpTo(c) \subseteq Occ
    OBVIOUS
  <2>2. IsFiniteSet(UpTo(c)) /\ Cardinality(UpTo(c)) <= Cardinality(Occ)
    BY <1>4, <2>1, FS_Subset
  <2>3. Cardinality(UpTo(c)) \in Nat
    BY <2>2, FS_CardinalityType
  <2> HIDE DEF UpTo
  <2> QED
    BY <1>1, <1>3, <1>4, <2>2, <2>3
<1>6. ASSUME NEW a \in Chars, NEW c \in Occ, a < c PROVE Rank(a) < Rank(c)
  <2>1. c \in Chars /\ a \in Nat /\ c \in Nat
    BY <1>1
  <2>2. UpTo(a) \subseteq UpTo(c) /\ UpTo(a) # UpTo(c)
    <3>1. c \in UpTo(c) /\ c \notin UpTo(a)
      BY <1>6, <2>1
    <3>2. UpTo(a) \subseteq UpTo(c)
      <4> SUFFICES ASSUME NEW d \in Occ, d <= a PROVE d <= c
        OBVIOUS
      <4>1. d \in Nat
        BY <1>1
      <4> QED
        BY <1>6, <2>1, <4>1
    <3> HIDE DEF UpTo
    <3> QED
      BY <3>1, <3>2
  <2>3. IsFiniteSet(UpTo(c)) /\ Rank(a) \in Nat /\ Rank(c) \in Nat
    BY <1>5, <2>1
  <2> HIDE DEF UpTo
  <2>4. Cardinality(UpTo(a)) <= Cardinality(UpTo(c)) /\ Cardinality(UpTo(a)) # Cardinality(UpTo(c))
    BY <2>2, <2>3, FS_Subset
  <2> QED
    BY <1>3, <2>3, <2>4
<1>7. ASSUME NEW c \in Chars, c # 0
      PROVE  c - 1 \in Chars /\ Rank(c) = Rank(c - 1) + Marks[c]
  <2>1. c - 1 \in Chars /\ c \in Nat /\ c - 1 \in Nat
    BY <1>1, <1>7
  <2>2. CASE c \in Occ
    <3>1. UpTo(c) = UpTo(c - 1) \cup {c} /\ c \notin UpTo(c - 1)
      <4>1. \A d \in Occ : d <= c <=> (d <= c - 1 \/ d = c)
        BY <1>1, <2>1
      <4>2. ~(c <= c - 1)
        BY <2>1
      <4> QED
        BY <2>1, <2>2, <4>1, <4>2
    <3>2. IsFiniteSet(UpTo(c - 1)) /\ Rank(c - 1) \in Nat
      BY <1>5, <2>1
    <3>3. Marks[c] = 1
      BY <1>1, <2>2
    <3> HIDE DEF UpTo
    <3>4. Cardinality(UpTo(c)) = Cardinality(UpTo(c - 1)) + 1
      BY <3>1, <3>2, FS_AddElement
    <3> QED
      BY <1>3, <2>1, <3>3, <3>4
  <2>3. CASE c \notin Occ
    <3>1. UpTo(c) = UpTo(c - 1)
      <4>1. \A d \in Occ : d \in Nat /\ d # c
        BY <1>1, <2>3
      <4> QED
        BY <2>1, <4>1
    <3>2. Marks[c] = 0 /\ Rank(c - 1) \in Nat
      BY <1>1, <1>5, <2>1, <2>3
    <3> HIDE DEF UpTo
    <3> QED
      BY <1>3, <2>1, <3>1, <3>2
  <2> QED
    BY <2>2, <2>3
<1>8. 0 \in Chars /\ Rank(0) = Marks[0]
  <2>1. 0 \in Chars
    BY <1>1
  <2>2. \A d \in Occ : d <= 0 <=> d = 0
    BY <1>1
  <2>3. CASE 0 \in Occ
    <3>1. UpTo(0) = {0}
      BY <2>2, <2>3
    <3>2. Marks[0] = 1
      BY <1>1, <2>1, <2>3
    <3> HIDE DEF UpTo
    <3>3. Cardinality({0}) = 1
      BY FS_Singleton
    <3> QED
      BY <1>3, <2>1, <3>1, <3>2, <3>3
  <2>4. CASE 0 \notin Occ
    <3>1. UpTo(0) = {}
      BY <2>2, <2>4
    <3>2. Marks[0] = 0
      BY <1>1, <2>1, <2>4
    <3> HIDE DEF UpTo
    <3>3. Cardinality({}) = 0
      BY FS_EmptySet
    <3> QED
      BY <1>3, <2>1, <3>1, <3>2, <3>3
  <2> QED
    BY <2>1, <2>3, <2>4
<1>9. ASSUME NEW c \in Occ PROVE Rank(c) > 0
  <2>1. c \in Chars /\ c \in Nat
    BY <1>1
  <2>2. Rank(c) \in Nat /\ IsFiniteSet(UpTo(c)) /\ c \in UpTo(c)
    BY <1>5, <2>1
  <2> HIDE DEF UpTo
  <2>3. Cardinality(UpTo(c)) # 0
    BY <2>2, FS_EmptySet
  <2> QED
    BY <1>3, <2>2, <2>3
<1>10. Numbers \in [Chars -> Chars]
  BY <1>3, <1>5
<1>11. \A a, c \in Occ : a < c => Numbers[a] < Numbers[c]
  BY <1>1, <1>6
<1>12. \A c \in Chars \ {0} : c - 1 \in Chars /\ Numbers[c] = Numbers[c - 1] + Marks[c]
  BY <1>1, <1>7
<1>13. \A c \in Occ : Numbers[c] > 0
  BY <1>1, <1>9
<1> QED
  BY <1>1, <1>8, <1>10, <1>11, <1>12, <1>13

TextInv(known) ==
  /\ \E extra \in Nat : text \in [1 .. Size + extra -> Nat]
  /\ \A k \in 1 .. Size : text[k] = IF k \in known THEN Numbers[input[k]] ELSE input[k]
  /\ \A k \in 1 .. Len(text) : k > Size => text[k] = 0

AlphabetInv ==
  /\ CharacterValues \in Nat \ {0}
  /\ Size \in Nat
  /\ input \in [1 .. Size -> Chars]
  /\ alphabet_pc \in { "mark", "sum", "map", "construct" }
  /\ Occ # Chars /\ alphabet_pc = "mark" =>
       /\ TextInv({})
       /\ alphabet_i \in 1 .. Size + 1
       /\ effective = [ c \in Chars |->
            IF \E k \in 1 .. Size : k < alphabet_i /\ input[k] = c THEN 1 ELSE 0 ]
  /\ Occ # Chars /\ alphabet_pc = "sum" =>
       /\ TextInv({})
       /\ alphabet_i \in 1 .. CharacterValues
       /\ effective = [ c \in Chars |-> IF c < alphabet_i THEN Numbers[c] ELSE Marks[c] ]
  /\ Occ # Chars /\ alphabet_pc = "map" =>
       /\ TextInv({ k \in 1 .. Size : k < alphabet_i })
       /\ alphabet_i \in 1 .. Size + 1
       /\ effective = Numbers
  /\ Occ # Chars /\ alphabet_pc = "construct" => TextInv(1 .. Size)

LEMMA AlphabetInit == Init => AlphabetInv
<1> SUFFICES ASSUME Init PROVE AlphabetInv
  OBVIOUS
<1>1. CharacterValues \in Nat \ {0} /\ MaxLength \in Nat /\ MaxSentinels \in Nat
  BY ConstructionAssumption DEF alphabet!AlphabetAssumption
<1>2. PICK n \in 0 .. MaxLength : input \in [1 .. n -> Chars]
  BY DEF Init, alphabet!Init, alphabet!Character, Chars
<1>3. Size = n /\ n \in Nat
  BY <1>1, <1>2 DEF Size
<1>4. PICK extra \in 0 .. MaxSentinels :
        text = [ k \in 1 .. Size + extra |-> IF k <= Size THEN input[k] ELSE 0 ]
  BY DEF Init, alphabet!Init, alphabet!text_size, alphabet!SENTINEL, Size
<1>5. /\ effective = [ c \in Chars |-> 0 ] /\ alphabet_i = 1 /\ alphabet_pc = "mark"
  BY DEF Init, alphabet!Init, alphabet!Character, Chars
<1>6. TextInv({})
  <2>1. extra \in Nat /\ \A c \in Chars : c \in Nat
    BY <1>1, <1>4 DEF Chars
  <2>2. \A k \in 1 .. Size + extra : text[k] = IF k <= Size THEN input[k] ELSE 0
    BY <1>4
  <2>3. text \in [1 .. Size + extra -> Nat]
    <3>1. \A k \in 1 .. Size + extra : (IF k <= Size THEN input[k] ELSE 0) \in Nat
      BY <1>2, <1>3, <2>1
    <3> QED
      BY <1>4, <3>1
  <2>4. Len(text) = Size + extra
    BY <1>3, <2>1, <2>3
  <2>5. \A k \in 1 .. Size : text[k] = input[k]
    BY <1>3, <2>1, <2>2
  <2>6. \A k \in 1 .. Len(text) : k > Size => text[k] = 0
    BY <1>3, <2>1, <2>2, <2>4
  <2> QED
    BY <2>1, <2>3, <2>5, <2>6 DEF TextInv
<1>7. effective = [ c \in Chars |->
            IF \E k \in 1 .. Size : k < alphabet_i /\ input[k] = c THEN 1 ELSE 0 ]
  <2>1. ~ \E k \in 1 .. Size : k < alphabet_i
    BY <1>3, <1>5
  <2> QED
    BY <1>5, <2>1
<1>8. alphabet_i \in 1 .. Size + 1
  BY <1>3, <1>5
<1> QED
  BY <1>1, <1>2, <1>3, <1>5, <1>6, <1>7, <1>8 DEF AlphabetInv

LEMMA MarkStep ==
  ASSUME AlphabetInv, alphabet!MarkCharacter PROVE AlphabetInv'
<1>1. /\ alphabet_pc = "mark" /\ UNCHANGED << input, text >>
      /\ IF alphabet_i <= Size
         THEN /\ effective' = [effective EXCEPT ![text[alphabet_i]] = 1]
              /\ alphabet_i' = alphabet_i + 1 /\ alphabet_pc' = "mark"
         ELSE effective' = effective /\ alphabet_i' = 1 /\ alphabet_pc' = "sum"
  BY DEF alphabet!MarkCharacter, alphabet!text_size, Size
<1>2. CharacterValues \in Nat \ {0} /\ Size \in Nat /\ input \in [1 .. Size -> Chars]
  BY DEF AlphabetInv
<1>3. Size' = Size /\ Occ' = Occ /\ Marks' = Marks /\ Numbers' = Numbers
  BY <1>1 DEF Size, Occ, Marks, Numbers, Rank
<1>4. CASE Occ = Chars
  BY <1>1, <1>2, <1>3, <1>4 DEF AlphabetInv
<1>5. CASE Occ # Chars
  <2>1. /\ TextInv({}) /\ alphabet_i \in 1 .. Size + 1
        /\ effective = [ c \in Chars |->
             IF \E k \in 1 .. Size : k < alphabet_i /\ input[k] = c THEN 1 ELSE 0 ]
    BY <1>1, <1>5 DEF AlphabetInv
  <2>2. TextInv({})'
    BY <1>1, <1>3, <2>1 DEF TextInv
  <2>3. CASE alphabet_i <= Size
    <3>1. alphabet_i \in 1 .. Size /\ text[alphabet_i] = input[alphabet_i]
      BY <1>2, <2>1, <2>3 DEF TextInv
    <3>2. effective' = [effective EXCEPT ![input[alphabet_i]] = 1]
      BY <1>1, <2>3, <3>1
    <3>3. alphabet_i' = alphabet_i + 1 /\ alphabet_pc' = "mark"
      BY <1>1, <2>3
    <3>4. ASSUME NEW c \in Chars
          PROVE  (\E k \in 1 .. Size : k < alphabet_i + 1 /\ input[k] = c)
                   <=> \/ \E k \in 1 .. Size : k < alphabet_i /\ input[k] = c
                       \/ c = input[alphabet_i]
      <4>1. \A k \in 1 .. Size : k < alphabet_i + 1 <=> (k < alphabet_i \/ k = alphabet_i)
        BY <1>2, <3>1
      <4> QED
        BY <3>1, <4>1
    <3>5. effective' = [ c \in Chars |->
            IF \E k \in 1 .. Size : k < alphabet_i + 1 /\ input[k] = c THEN 1 ELSE 0 ]
      <4>1. \A c \in Chars : effective'[c] =
              IF \E k \in 1 .. Size : k < alphabet_i + 1 /\ input[k] = c THEN 1 ELSE 0
        <5> TAKE c \in Chars
        <5>1. CASE c = input[alphabet_i]
          <6>1. effective'[c] = 1
            BY <2>1, <3>2, <5>1
          <6> QED
            BY <3>4, <5>1, <6>1
        <5>2. CASE c # input[alphabet_i]
          <6>1. effective'[c] = effective[c]
            BY <2>1, <3>2, <5>2
          <6> QED
            BY <2>1, <3>4, <5>2, <6>1
        <5> QED
          BY <5>1, <5>2
      <4>2. effective' = [ c \in Chars |-> effective'[c] ]
        BY <2>1, <3>2
      <4> QED
        BY <4>1, <4>2
    <3>6. alphabet_i' \in 1 .. Size + 1
      BY <1>2, <3>1, <3>3
    <3> QED
      BY <1>1, <1>2, <1>3, <2>2, <3>3, <3>5, <3>6 DEF AlphabetInv
  <2>4. CASE ~(alphabet_i <= Size)
    <3>1. effective' = effective /\ alphabet_i' = 1 /\ alphabet_pc' = "sum"
      BY <1>1, <2>4
    <3>2. \A k \in 1 .. Size : k < alphabet_i
      BY <1>2, <2>1, <2>4
    <3>3. \A c : (\E k \in 1 .. Size : k < alphabet_i /\ input[k] = c) <=> c \in Occ
      BY <3>2 DEF Occ
    <3>4. effective = Marks
      BY <2>1, <3>3 DEF Marks
    <3>5. Marks = [ c \in Chars |-> IF c < 1 THEN Numbers[c] ELSE Marks[c] ]
      <4>1. AlphabetTypes
        BY <1>2, <1>5 DEF AlphabetTypes
      <4>2. Numbers[0] = Marks[0]
        BY <4>1, RankFacts
      <4>3. \A c \in Chars : c < 1 => c = 0
        BY <1>2 DEF Chars
      <4>4. Marks = [ c \in Chars |-> Marks[c] ]
        BY DEF Marks
      <4> QED
        BY <4>2, <4>3, <4>4
    <3>6. 1 \in 1 .. CharacterValues
      BY <1>2
    <3> QED
      BY <1>1, <1>2, <1>3, <2>2, <3>1, <3>4, <3>5, <3>6 DEF AlphabetInv
  <2> QED
    BY <2>3, <2>4
<1> QED
  BY <1>4, <1>5

LEMMA SumStep ==
  ASSUME AlphabetInv, alphabet!AddUp PROVE AlphabetInv'
<1>1. /\ alphabet_pc = "sum" /\ UNCHANGED << input, text >>
      /\ IF alphabet_i < CharacterValues
         THEN /\ effective' = [effective EXCEPT ![alphabet_i] =
                   (effective[alphabet_i] + effective[alphabet_i - 1]) % CharacterValues]
              /\ alphabet_i' = alphabet_i + 1 /\ alphabet_pc' = "sum"
         ELSE effective' = effective /\ alphabet_i' = 1 /\ alphabet_pc' = "map"
  BY DEF alphabet!AddUp
<1>2. CharacterValues \in Nat \ {0} /\ Size \in Nat /\ input \in [1 .. Size -> Chars]
  BY DEF AlphabetInv
<1>3. Size' = Size /\ Occ' = Occ /\ Marks' = Marks /\ Numbers' = Numbers
  BY <1>1 DEF Size, Occ, Marks, Numbers, Rank
<1>4. CASE Occ = Chars
  BY <1>1, <1>2, <1>3, <1>4 DEF AlphabetInv
<1>5. CASE Occ # Chars
  <2>1. /\ TextInv({}) /\ alphabet_i \in 1 .. CharacterValues
        /\ effective = [ c \in Chars |-> IF c < alphabet_i THEN Numbers[c] ELSE Marks[c] ]
    BY <1>1, <1>5 DEF AlphabetInv
  <2>2. TextInv({})'
    BY <1>1, <1>3, <2>1 DEF TextInv
  <2>3. /\ Numbers \in [Chars -> Chars]
        /\ \A c \in Chars \ {0} : c - 1 \in Chars /\ Numbers[c] = Numbers[c - 1] + Marks[c]
    <3>1. AlphabetTypes
      BY <1>2, <1>5 DEF AlphabetTypes
    <3> QED
      BY <3>1, RankFacts
  <2>4. CASE alphabet_i < CharacterValues
    <3>1. /\ alphabet_i \in Chars \ {0} /\ alphabet_i - 1 \in Chars /\ alphabet_i - 1 < alphabet_i
          /\ ~(alphabet_i < alphabet_i)
      BY <1>2, <2>1, <2>4 DEF Chars
    <3>2. effective[alphabet_i] = Marks[alphabet_i] /\ effective[alphabet_i - 1] = Numbers[alphabet_i - 1]
      BY <2>1, <3>1
    <3>3. Numbers[alphabet_i] = Numbers[alphabet_i - 1] + Marks[alphabet_i]
      BY <2>3, <3>1
    <3>4. effective[alphabet_i] + effective[alphabet_i - 1] = Numbers[alphabet_i]
      <4>1. Numbers[alphabet_i - 1] \in Nat /\ Marks[alphabet_i] \in Nat
        BY <2>3, <3>1 DEF Chars, Marks
      <4> QED
        BY <3>2, <3>3, <4>1
    <3>5. Numbers[alphabet_i] % CharacterValues = Numbers[alphabet_i]
      <4>1. Numbers[alphabet_i] \in 0 .. CharacterValues - 1
        BY <2>3, <3>1 DEF Chars
      <4> QED
        BY <1>2, <4>1
    <3>6. /\ effective' = [effective EXCEPT ![alphabet_i] = Numbers[alphabet_i]]
          /\ alphabet_i' = alphabet_i + 1 /\ alphabet_pc' = "sum"
      BY <1>1, <2>4, <3>4, <3>5
    <3>7. effective' = [ c \in Chars |-> IF c < alphabet_i + 1 THEN Numbers[c] ELSE Marks[c] ]
      <4>1. \A c \in Chars : c < alphabet_i + 1 <=> (c < alphabet_i \/ c = alphabet_i)
        BY <1>2, <3>1 DEF Chars
      <4> QED
        BY <2>1, <3>1, <3>6, <4>1
    <3>8. alphabet_i' \in 1 .. CharacterValues
      BY <1>2, <2>1, <2>4, <3>6
    <3> QED
      BY <1>1, <1>2, <1>3, <2>2, <3>6, <3>7, <3>8 DEF AlphabetInv
  <2>5. CASE ~(alphabet_i < CharacterValues)
    <3>1. effective' = effective /\ alphabet_i' = 1 /\ alphabet_pc' = "map"
      BY <1>1, <2>5
    <3>2. \A c \in Chars : c < alphabet_i
      BY <1>2, <2>1, <2>5 DEF Chars
    <3>3. effective = Numbers
      BY <2>1, <2>3, <3>2
    <3>4. { k \in 1 .. Size : k < 1 } = {} /\ 1 \in 1 .. Size + 1
      BY <1>2
    <3>5. TextInv({ k \in 1 .. Size : k < alphabet_i })'
      BY <1>3, <2>2, <3>1, <3>4
    <3> QED
      BY <1>1, <1>2, <1>3, <3>1, <3>3, <3>4, <3>5 DEF AlphabetInv
  <2> QED
    BY <2>4, <2>5
<1> QED
  BY <1>4, <1>5

LEMMA MapStep ==
  ASSUME AlphabetInv, alphabet!MapCharacter PROVE AlphabetInv'
<1>1. /\ alphabet_pc = "map" /\ UNCHANGED << input, effective >>
      /\ IF alphabet_i <= Size
         THEN /\ text' = [text EXCEPT ![alphabet_i] = effective[text[alphabet_i]]]
              /\ alphabet_i' = alphabet_i + 1 /\ alphabet_pc' = "map"
         ELSE text' = text /\ alphabet_pc' = "construct"
  BY DEF alphabet!MapCharacter, alphabet!text_size, Size
<1>2. CharacterValues \in Nat \ {0} /\ Size \in Nat /\ input \in [1 .. Size -> Chars]
  BY DEF AlphabetInv
<1>3. Size' = Size /\ Occ' = Occ /\ Numbers' = Numbers
  BY <1>1 DEF Size, Occ, Numbers, Rank
<1>4. CASE Occ = Chars
  BY <1>1, <1>2, <1>3, <1>4 DEF AlphabetInv
<1>5. CASE Occ # Chars
  <2>1. /\ TextInv({ k \in 1 .. Size : k < alphabet_i })
        /\ alphabet_i \in 1 .. Size + 1 /\ effective = Numbers
    BY <1>1, <1>5 DEF AlphabetInv
  <2>2. CASE alphabet_i <= Size
    <3>1. alphabet_i \in 1 .. Size /\ alphabet_i \notin { k \in 1 .. Size : k < alphabet_i }
      BY <1>2, <2>1, <2>2
    <3>2. text[alphabet_i] = input[alphabet_i]
      BY <2>1, <3>1 DEF TextInv
    <3>3. /\ text' = [text EXCEPT ![alphabet_i] = Numbers[input[alphabet_i]]]
          /\ alphabet_i' = alphabet_i + 1 /\ alphabet_pc' = "map"
      BY <1>1, <2>1, <2>2, <3>2
    <3>4. \A k \in 1 .. Size : k < alphabet_i + 1 <=> (k < alphabet_i \/ k = alphabet_i)
      BY <1>2, <3>1
    <3>5. PICK extra \in Nat : text \in [1 .. Size + extra -> Nat]
      BY <2>1 DEF TextInv
    <3>6. Numbers[input[alphabet_i]] \in Nat
      <4>1. AlphabetTypes
        BY <1>2, <1>5 DEF AlphabetTypes
      <4> QED
        BY <1>2, <3>1, <4>1, RankFacts DEF Chars
    <3>7. text' \in [1 .. Size + extra -> Nat]
      BY <3>3, <3>5, <3>6
    <3>8. Len(text') = Len(text) /\ Len(text) = Size + extra
      BY <1>2, <3>5, <3>7
    <3>9. \A k \in 1 .. Size + extra :
            text'[k] = IF k = alphabet_i THEN Numbers[input[alphabet_i]] ELSE text[k]
      BY <3>3, <3>5
    <3>10. \A k \in 1 .. Size :
             text'[k] = IF k < alphabet_i + 1 THEN Numbers[input[k]] ELSE input[k]
      <4> SUFFICES ASSUME NEW k \in 1 .. Size
                   PROVE  text'[k] = IF k < alphabet_i + 1 THEN Numbers[input[k]] ELSE input[k]
        OBVIOUS
      <4>1. k \in 1 .. Size + extra
        BY <1>2
      <4>2. text[k] = IF k < alphabet_i THEN Numbers[input[k]] ELSE input[k]
        BY <2>1 DEF TextInv
      <4> QED
        BY <3>4, <3>9, <4>1, <4>2
    <3>11. \A k \in 1 .. Len(text') : k > Size => text'[k] = 0
      <4> SUFFICES ASSUME NEW k \in 1 .. Len(text), k > Size PROVE text'[k] = 0
        BY <3>8
      <4>1. k # alphabet_i /\ k \in 1 .. Size + extra
        BY <1>2, <3>1, <3>8
      <4> QED
        BY <2>1, <3>9, <4>1 DEF TextInv
    <3>12. TextInv({ k \in 1 .. Size : k < alphabet_i })'
      BY <1>1, <1>3, <3>3, <3>7, <3>10, <3>11 DEF TextInv
    <3>13. alphabet_i' \in 1 .. Size + 1
      BY <1>2, <3>1, <3>3
    <3> QED
      BY <1>1, <1>2, <1>3, <2>1, <3>3, <3>12, <3>13 DEF AlphabetInv
  <2>3. CASE ~(alphabet_i <= Size)
    <3>1. text' = text /\ alphabet_pc' = "construct"
      BY <1>1, <2>3
    <3>2. { k \in 1 .. Size : k < alphabet_i } = 1 .. Size
      BY <1>2, <2>1, <2>3
    <3>3. TextInv(1 .. Size)
      BY <2>1, <3>2
    <3>4. TextInv(1 .. Size)'
      BY <1>1, <1>3, <3>1, <3>3 DEF TextInv
    <3> QED
      BY <1>1, <1>2, <1>3, <3>1, <3>4 DEF AlphabetInv
  <2> QED
    BY <2>2, <2>3
<1> QED
  BY <1>4, <1>5

LEMMA AlphabetNext == AlphabetInv /\ [Next]_vars => AlphabetInv'
<1> SUFFICES ASSUME AlphabetInv, [Next]_vars PROVE AlphabetInv'
  OBVIOUS
<1>1. CASE Prepare
  BY <1>1, MarkStep, SumStep, MapStep DEF Prepare
<1>2. ASSUME UNCHANGED alphabetVars PROVE AlphabetInv'
  <2>1. UNCHANGED << input, text, effective, alphabet_i, alphabet_pc >>
    BY <1>2 DEF alphabetVars
  <2>2. Size' = Size /\ Occ' = Occ /\ Marks' = Marks /\ Numbers' = Numbers
    BY <2>1 DEF Size, Occ, Marks, Numbers, Rank
  <2>3. \A known : TextInv(known) => TextInv(known)'
    BY <2>1, <2>2 DEF TextInv
  <2>4. TextInv({ k \in 1 .. Size : k < alphabet_i })
          => TextInv({ k \in 1 .. Size : k < alphabet_i })'
    BY <2>1, <2>2 DEF TextInv
  <2>5. TextInv(1 .. Size) => TextInv(1 .. Size)'
    BY <2>1, <2>2 DEF TextInv
  <2> QED
    BY <2>1, <2>2, <2>3, <2>4, <2>5 DEF AlphabetInv
<1>3. CASE ConstructAndCheck
  BY <1>2, <1>3 DEF ConstructAndCheck
<1>4. CASE ConstructAndWrite
  BY <1>2, <1>4 DEF ConstructAndWrite
<1>5. CASE CheckStep
  BY <1>2, <1>5 DEF CheckStep
<1>6. CASE WriteStep
  BY <1>2, <1>6 DEF WriteStep
<1>7. CASE UNCHANGED vars
  BY <1>2, <1>7 DEF vars
<1> QED
  BY <1>1, <1>3, <1>4, <1>5, <1>6, <1>7 DEF Next, Done

\* The algorithm gets a text whose suffixes are ordered as the input's are:
\* if one character value does not occur, the running sums of
\* prepare_and_construct_sa number the characters in their order without
\* wrapping around, and only the extra sentinels are 0.
THEOREM AlphabetKeepsOrder == Spec => []OrderKept
<1>1. Init => AlphabetInv
  BY AlphabetInit
<1>2. AlphabetInv /\ [Next]_vars => AlphabetInv'
  BY AlphabetNext
<1>3. AlphabetInv => OrderKept
  <2> SUFFICES ASSUME AlphabetInv, alphabet_pc = "construct", Occ # Chars
               PROVE  /\ \A j, k \in 1 .. Size : text[j] < text[k] <=> input[j] < input[k]
                      /\ \A k \in 1 .. Len(text) : text[k] = 0 <=> k > Size
    BY DEF OrderKept, alphabet!OrderKept, alphabet!Occurring, alphabet!Character,
           alphabet!text_size, alphabet!SENTINEL, Occ, Chars, Size
  <2>1. AlphabetTypes /\ TextInv(1 .. Size)
    BY DEF AlphabetInv, AlphabetTypes
  <2>2. \A k \in 1 .. Size : text[k] = Numbers[input[k]]
    BY <2>1 DEF TextInv
  <2>3. \A k \in 1 .. Size : input[k] \in Occ /\ input[k] \in Nat /\ Numbers[input[k]] \in Nat
    <3>1. input \in [1 .. Size -> Chars] /\ Numbers \in [Chars -> Chars]
      BY <2>1, RankFacts DEF AlphabetTypes
    <3>2. \A c \in Chars : c \in Nat
      BY <2>1 DEF AlphabetTypes, Chars
    <3> QED
      BY <3>1, <3>2 DEF Occ
  <2>4. /\ \A a, c \in Occ : a < c => Numbers[a] < Numbers[c]
        /\ \A c \in Occ : Numbers[c] > 0
    BY <2>1, RankFacts
  <2>5. ASSUME NEW j \in 1 .. Size, NEW k \in 1 .. Size
        PROVE  text[j] < text[k] <=> input[j] < input[k]
    <3> DEFINE a == input[j]
               c == input[k]
    <3>1. /\ a \in Nat /\ c \in Nat /\ Numbers[a] \in Nat /\ Numbers[c] \in Nat
          /\ (a < c => Numbers[a] < Numbers[c]) /\ (c < a => Numbers[c] < Numbers[a])
      BY <2>3, <2>4
    <3>2. text[j] = Numbers[a] /\ text[k] = Numbers[c]
      BY <2>2
    <3> HIDE DEF a, c
    <3>3. Numbers[a] < Numbers[c] <=> a < c
      BY <3>1
    <3> QED
      BY <3>2, <3>3 DEF a, c
  <2>6. ASSUME NEW k \in 1 .. Len(text) PROVE text[k] = 0 <=> k > Size
    <3>1. Size \in Nat /\ k \in Nat
      BY <2>1 DEF AlphabetTypes
    <3>2. CASE k > Size
      BY <2>1, <3>2 DEF TextInv
    <3>3. CASE ~(k > Size)
      <4>1. k \in 1 .. Size
        BY <3>1, <3>3
      <4> QED
        BY <2>2, <2>3, <2>4, <3>3, <4>1
    <3> QED
      BY <3>2, <3>3
  <2> QED
    BY <2>5, <2>6
<1> QED
  BY <1>1, <1>2, <1>3, PTL DEF Spec

-----------------------------------------------------------------------------
(* Powers of two *)

\* What holds at 0 and goes over to the next number holds everywhere.
LEMMA Induct ==
  ASSUME NEW T, 0 \in T, \A k \in Nat : k \in T => k + 1 \in T
  PROVE  Nat \subseteq T
<1> DEFINE Missing == { k \in Nat : k \notin T }
<1> SUFFICES ASSUME Missing # {} PROVE FALSE
  OBVIOUS
<1>1. PICK k \in Missing : \A m \in Missing : k <= m
  <2>1. Missing \subseteq Nat
    OBVIOUS
  <2> HIDE DEF Missing
  <2> QED
    BY <2>1, Smallest
<1>2. k # 0 /\ k - 1 \in Nat /\ k - 1 \notin Missing
  BY <1>1
<1> QED
  BY <1>1, <1>2

\* The powers up to the n-th.
Powers(f, n) == f = [ k \in 0 .. n |-> IF k = 0 THEN 1 ELSE 2 * f[k - 1] ]

LEMMA PowersExist == \A n \in Nat : \E f : Powers(f, n)
<1> DEFINE T == { n \in Nat : \E f : Powers(f, n) }
<1>1. 0 \in T
  <2> DEFINE g == [ k \in 0 .. 0 |-> 1 ]
  <2>1. Powers(g, 0)
    BY DEF Powers
  <2> QED
    BY <2>1
<1>2. ASSUME NEW n \in Nat, n \in T PROVE n + 1 \in T
  <2>1. PICK f : Powers(f, n)
    BY <1>2
  <2> DEFINE g == [ k \in 0 .. n + 1 |-> IF k = n + 1 THEN 2 * f[n] ELSE f[k] ]
  <2>2. ASSUME NEW k \in 0 .. n + 1 PROVE g[k] = IF k = 0 THEN 1 ELSE 2 * g[k - 1]
    <3>1. CASE k = n + 1
      <4>1. n \in 0 .. n + 1 /\ n # n + 1 /\ k # 0 /\ k - 1 = n
        BY <3>1
      <4> QED
        BY <3>1, <4>1
    <3>2. CASE k # n + 1
      <4>1. k \in 0 .. n /\ k - 1 # n + 1 /\ (k # 0 => k - 1 \in 0 .. n + 1)
        BY <3>2
      <4>2. f[k] = IF k = 0 THEN 1 ELSE 2 * f[k - 1]
        BY <2>1, <4>1 DEF Powers
      <4>3. g[k] = f[k] /\ (k # 0 => g[k - 1] = f[k - 1])
        BY <3>2, <4>1
      <4> QED
        BY <4>2, <4>3
    <3> QED
      BY <3>1, <3>2
  <2>3. Powers(g, n + 1)
    <3>1. g = [ k \in 0 .. n + 1 |-> g[k] ]
      OBVIOUS
    <3> HIDE DEF g
    <3> QED
      BY <2>2, <3>1 DEF Powers
  <2>4. n + 1 \in Nat
    OBVIOUS
  <2> HIDE DEF g
  <2> QED
    BY <2>3, <2>4
<1> HIDE DEF T
<1>3. Nat \subseteq T
  BY <1>1, <1>2, Induct
<1> QED
  BY <1>3 DEF T

\* Longer lists of powers continue the shorter ones.
LEMMA PowersAgree ==
  ASSUME NEW n \in Nat, NEW f, NEW g, Powers(f, n), Powers(g, n + 1)
  PROVE  \A k \in 0 .. n : f[k] = g[k]
<1> DEFINE T == { k \in Nat : k \in 0 .. n => f[k] = g[k] }
<1>1. 0 \in T
  BY DEF Powers
<1>2. ASSUME NEW k \in Nat, k \in T PROVE k + 1 \in T
  <2> SUFFICES ASSUME k + 1 \in 0 .. n PROVE f[k + 1] = g[k + 1]
    OBVIOUS
  <2>1. k \in 0 .. n /\ k + 1 \in 0 .. n + 1 /\ k + 1 # 0 /\ (k + 1) - 1 = k
    OBVIOUS
  <2>2. f[k + 1] = 2 * f[k] /\ g[k + 1] = 2 * g[k]
    BY <2>1 DEF Powers
  <2> QED
    BY <1>2, <2>1, <2>2
<1> HIDE DEF T
<1>3. Nat \subseteq T
  BY <1>1, <1>2, Induct
<1> QED
  BY <1>3 DEF T

LEMMA PowerOfTwoFacts ==
  /\ write_binary!PowerOfTwo[0] = 1
  /\ \A k \in Nat : /\ write_binary!PowerOfTwo[k] \in Nat \ {0}
                    /\ write_binary!PowerOfTwo[k + 1] = 2 * write_binary!PowerOfTwo[k]
<1> DEFINE Def(f) == f = [ k \in Nat |-> IF k = 0 THEN 1 ELSE 2 * f[k - 1] ]
           list == [ n \in Nat |-> CHOOSE f : Powers(f, n) ]
           g == [ n \in Nat |-> list[n][n] ]
<1>1. \A n \in Nat : Powers(list[n], n)
  BY PowersExist
<1> HIDE DEF list
<1>2. ASSUME NEW k \in Nat PROVE g[k] = IF k = 0 THEN 1 ELSE 2 * g[k - 1]
  <2>1. CASE k = 0
    <3>1. Powers(list[0], 0) /\ 0 \in 0 .. 0
      BY <1>1
    <3>2. list[0][0] = 1
      BY <3>1 DEF Powers
    <3> QED
      BY <2>1, <3>2
  <2>2. CASE k # 0
    <3>1. k - 1 \in Nat /\ (k - 1) + 1 = k /\ k - 1 \in 0 .. k - 1 /\ k \in 0 .. k
      BY <2>2
    <3>2. list[k][k] = 2 * list[k][k - 1]
      BY <1>1, <2>2, <3>1 DEF Powers
    <3>3. list[k - 1][k - 1] = list[k][k - 1]
      BY <1>1, <3>1, PowersAgree
    <3> QED
      BY <2>2, <3>1, <3>2, <3>3
  <2> QED
    BY <2>1, <2>2
<1>3. Def(g)
  <2>1. g = [ k \in Nat |-> g[k] ]
    OBVIOUS
  <2> HIDE DEF g
  <2> QED
    BY <1>2, <2>1
<1> DEFINE at == CHOOSE f : Def(f)
<1>4. Def(at)
  <2> HIDE DEF g, Def
  <2> QED
    BY <1>3
<1>5. write_binary!PowerOfTwo = at
  BY DEF write_binary!PowerOfTwo
<1> HIDE DEF at, g
<1>6. \A k \in Nat : at[k] = IF k = 0 THEN 1 ELSE 2 * at[k - 1]
  BY <1>4
<1>7. at[0] = 1 /\ \A k \in Nat : at[k + 1] = 2 * at[k]
  <2>1. \A k \in Nat : k + 1 \in Nat /\ k + 1 # 0 /\ (k + 1) - 1 = k
    OBVIOUS
  <2> QED
    BY <1>6, <2>1
<1> DEFINE T == { k \in Nat : at[k] \in Nat \ {0} }
<1>8. 0 \in T /\ \A k \in Nat : k \in T => k + 1 \in T
  BY <1>7
<1>9. Nat \subseteq T
  <2> HIDE DEF T
  <2> QED
    BY <1>8, Induct
<1> QED
  BY <1>5, <1>7, <1>9

LEMMA PowerOfSum ==
  ASSUME NEW a \in Nat
  PROVE  \A c \in Nat : write_binary!PowerOfTwo[a + c]
                          = write_binary!PowerOfTwo[a] * write_binary!PowerOfTwo[c]
<1> DEFINE power == write_binary!PowerOfTwo
           T == { c \in Nat : power[a + c] = power[a] * power[c] }
<1>1. /\ power[0] = 1
      /\ \A k \in Nat : power[k] \in Nat \ {0} /\ power[k + 1] = 2 * power[k]
  BY PowerOfTwoFacts
<1> HIDE DEF power
<1>2. 0 \in T
  <2>1. a + 0 = a /\ power[a] \in Nat
    BY <1>1
  <2> QED
    BY <1>1, <2>1
<1>3. ASSUME NEW c \in Nat, c \in T PROVE c + 1 \in T
  <2>1. a + c \in Nat /\ a + (c + 1) = (a + c) + 1
    OBVIOUS
  <2>2. power[a + (c + 1)] = 2 * power[a + c] /\ power[c + 1] = 2 * power[c]
    BY <1>1, <2>1
  <2>3. power[a + c] = power[a] * power[c]
    BY <1>3
  <2>4. \A x, y \in Nat : 2 * (x * y) = x * (2 * y)
    OBVIOUS
  <2>5. power[a + (c + 1)] = power[a] * power[c + 1]
    BY <1>1, <2>2, <2>3, <2>4
  <2> QED
    BY <2>5
<1>4. Nat \subseteq T
  <2> HIDE DEF T
  <2> QED
    BY <1>2, <1>3, Induct
<1> QED
  BY <1>4 DEF power

\* ceil_log2 is defined.
LEMMA CeilLog2Type ==
  ASSUME NEW x \in Nat PROVE write_binary!ceil_log2(x) \in Nat
<1> DEFINE power == write_binary!PowerOfTwo
           T == { k \in Nat : power[k] >= k /\ power[k] >= 1 }
           Enough == { k \in Nat : power[k] >= x }
<1>1. power[0] = 1 /\ \A k \in Nat : power[k] \in Nat \ {0} /\ power[k + 1] = 2 * power[k]
  BY PowerOfTwoFacts
<1> HIDE DEF power
<1>2. 0 \in T /\ \A k \in Nat : k \in T => k + 1 \in T
  BY <1>1
<1>3. Nat \subseteq T
  <2> HIDE DEF T
  <2> QED
    BY <1>2, Induct
<1>4. x \in Enough /\ Enough \subseteq Nat
  BY <1>3
<1>5. PICK k \in Enough : \A m \in Enough : k <= m
  <2> HIDE DEF Enough
  <2> QED
    BY <1>4, Smallest
<1>6. k \in 0 .. x /\ power[k] >= x
  BY <1>4, <1>5
<1>7. ASSUME NEW j \in 0 .. k - 1 PROVE power[j] < x
  <2>1. j \in Nat /\ j < k /\ j \notin Enough
    BY <1>5
  <2>2. power[j] \in Nat
    BY <1>1, <2>1
  <2> QED
    BY <2>1, <2>2
<1>8. write_binary!ceil_log2(x) \in 0 .. x
  BY <1>6, <1>7 DEF write_binary!ceil_log2, power
<1> QED
  BY <1>8

-----------------------------------------------------------------------------
(* The bytes of the entries *)

Bytes == write_binary!BytesOf(bits)
ByteValues == write_binary!ByteValues

\* The first m bytes of entry k stand for sa[k]: rest[j] is what is left of it
\* after j of them.
Digits(k, m, rest) ==
  /\ rest \in [0 .. m -> Nat]
  /\ rest[0] = sa[k]
  /\ \A j \in 1 .. m : /\ out[(k - 1) * Bytes + j] \in Nat
                       /\ rest[j - 1] = out[(k - 1) * Bytes + j] + ByteValues * rest[j]

Written(n) == \A k \in 1 .. n : \E rest : Digits(k, Bytes, rest)

\* m bytes of the entry after the first write_i are written.
InEntry(m) ==
  /\ m \in 0 .. Bytes
  /\ b = (Bytes - m) * ByteBits
  /\ Len(out) = write_i * Bytes + m
  /\ \E rest : Digits(write_i + 1, m, rest) /\ rest[m] = v

WriteInv ==
  /\ write_pc \in { "idle", "width", "round", "entry", "bytes", "done" }
  /\ write_pc # "idle" => sa \in Seq(Nat) /\ bits \in 0 .. BitsModulus - 1
  /\ write_pc \in { "idle", "width", "round" } => out = << >> /\ write_i = 0
  /\ write_pc \in { "entry", "bytes", "done" } =>
       /\ bits % ByteBits = 0
       /\ out \in Seq(Nat)
       /\ write_i \in 0 .. Len(sa)
       /\ Written(write_i)
  /\ write_pc \in { "entry", "done" } => Len(out) = write_i * Bytes
  /\ write_pc = "bytes" => v \in Nat /\ write_i < Len(sa) /\ \E m \in Nat : InEntry(m)
  /\ write_pc = "done" => write_i = Len(sa)

LEMMA Division ==
  ASSUME NEW x \in Nat, NEW d \in Nat \ {0}
  PROVE  x % d \in Nat /\ x \div d \in Nat /\ x = (x % d) + d * (x \div d)
<1>1. x % d \in Nat
  OBVIOUS
<1>2. x \div d \in Nat
  OBVIOUS
<1>3. x = (x % d) + d * (x \div d)
  OBVIOUS
<1> QED
  BY <1>1, <1>2, <1>3

LEMMA WidthFacts ==
  /\ ByteBits \in Nat \ {0} /\ BitsModulus \in Nat \ {0} /\ ByteValues \in Nat \ {0}
  /\ \A x \in Int : x % BitsModulus \in 0 .. BitsModulus - 1
  /\ bits \in Nat /\ bits % ByteBits = 0 => Bytes \in Nat /\ bits = Bytes * ByteBits
<1>1. ByteBits \in Nat \ {0} /\ BitsModulus \in Nat \ {0}
  BY ConstructionAssumption DEF write_binary!WidthAssumption
<1>2. ByteValues \in Nat \ {0}
  BY <1>1, PowerOfTwoFacts DEF ByteValues, write_binary!ByteValues
<1>3. \A x \in Int : x % BitsModulus \in 0 .. BitsModulus - 1
  BY <1>1
<1>4. bits \in Nat /\ bits % ByteBits = 0 => Bytes \in Nat /\ bits = Bytes * ByteBits
  BY <1>1 DEF Bytes, write_binary!BytesOf
<1> QED
  BY <1>1, <1>2, <1>3, <1>4

\* Entries come one after the other.
LEMMA Places ==
  ASSUME NEW n \in Nat, NEW w \in Nat
  PROVE  /\ \A k \in 1 .. w, j \in 1 .. n : (k - 1) * n + j \in 1 .. w * n
         /\ (w + 1) * n = w * n + n
<1>1. ASSUME NEW k \in 1 .. w, NEW j \in 1 .. n PROVE (k - 1) * n + j \in 1 .. w * n
  <2>1. k * n <= w * n /\ (k - 1) * n + n = k * n /\ (k - 1) * n \in Nat
        /\ k * n \in Nat /\ w * n \in Nat
    BY SMTT(30)
  <2> HIDE DEF Places
  <2> QED
    BY <2>1
<1> QED
  BY <1>1

LEMMA WriteInit == Init => WriteInv
  BY DEF Init, WriteInv

LEMMA WriteFrame ==
  ASSUME WriteInv, UNCHANGED writeVars, UNCHANGED sa \/ write_pc = "idle" PROVE WriteInv'
<1>1. UNCHANGED << bits, out, write_i, v, b, write_pc >> /\ Bytes' = Bytes
  BY DEF writeVars, Bytes, write_binary!BytesOf
<1>2. CASE write_pc = "idle"
  BY <1>1, <1>2 DEF WriteInv
<1>3. CASE UNCHANGED sa
  <2>1. \A k, m, rest : Digits(k, m, rest) => Digits(k, m, rest)'
    BY <1>1, <1>3 DEF Digits
  <2>2. Written(write_i) => Written(write_i)'
    BY <1>1, <2>1 DEF Written
  <2>3. \A m \in Nat : InEntry(m) => InEntry(m)'
    BY <1>1, <2>1 DEF InEntry
  <2> QED
    BY <1>1, <1>3, <2>2, <2>3 DEF WriteInv
<1> QED
  BY <1>2, <1>3

LEMMA ConstructAndWriteStep ==
  ASSUME CheckInv, WriteInv, ConstructAndWrite PROVE WriteInv'
<1>1. /\ write_pc = "idle" /\ write_pc' = "width" /\ UNCHANGED << out, write_i >>
      /\ fixed' \in FixedBits /\ bits' = fixed' % BitsModulus /\ sa' \in [1 .. Size -> 0 .. MaxIndex]
  BY DEF ConstructAndWrite, Idle, sa_check!Arrays, Size
<1>2. Size \in Nat /\ MaxIndex \in Nat /\ FixedBits \subseteq Nat
  BY ConstructionAssumption DEF CheckInv, InputInv, write_binary!WidthAssumption,
     sa_check!CheckAssumption
<1>3. sa' \in Seq(Nat)
  <2>1. sa' \in [1 .. Size -> Nat]
    BY <1>1, <1>2
  <2> QED
    BY <1>2, <2>1
<1>4. bits' \in 0 .. BitsModulus - 1
  <2>1. fixed' \in Int
    BY <1>1, <1>2
  <2> QED
    BY <1>1, <2>1, WidthFacts
<1> QED
  BY <1>1, <1>3, <1>4 DEF WriteInv

LEMMA ChooseBitsStep ==
  ASSUME WriteInv, write_binary!ChooseBits PROVE WriteInv'
<1>1. write_pc = "width" /\ write_pc' = "round" /\ UNCHANGED << sa, out, write_i >>
  BY DEF write_binary!ChooseBits
<1>2. sa \in Seq(Nat) /\ bits \in 0 .. BitsModulus - 1
  BY <1>1 DEF WriteInv
<1>3. bits' \in 0 .. BitsModulus - 1
  <2>1. CASE bits # 0
    BY <1>2, <2>1 DEF write_binary!ChooseBits
  <2>2. CASE bits = 0 /\ Len(sa) > 0
    <3>1. Len(sa) - 1 \in Nat
      BY <1>2, <2>2
    <3>2. bits' = write_binary!ceil_log2(Len(sa) - 1) % BitsModulus
      BY <2>2 DEF write_binary!ChooseBits
    <3>3. write_binary!ceil_log2(Len(sa) - 1) \in Int
      BY <3>1, CeilLog2Type
    <3> QED
      BY <3>2, <3>3, WidthFacts
  <2>3. CASE bits = 0 /\ ~(Len(sa) > 0)
    BY <1>2, <2>3 DEF write_binary!ChooseBits
  <2> QED
    BY <2>1, <2>2, <2>3
<1> QED
  BY <1>1, <1>2, <1>3 DEF WriteInv

LEMMA RoundUpStep ==
  ASSUME WriteInv, write_binary!RoundUp PROVE WriteInv'
<1>1. /\ write_pc = "round" /\ write_pc' \in { "entry", "round" }
      /\ write_pc' = "entry" => bits' % ByteBits = 0
      /\ bits' \in { bits, (bits + 1) % BitsModulus }
      /\ UNCHANGED << sa, out, write_i >>
  BY DEF write_binary!RoundUp
<1>2. sa \in Seq(Nat) /\ bits \in 0 .. BitsModulus - 1 /\ out = << >> /\ write_i = 0
  BY <1>1 DEF WriteInv
<1>3. bits' \in 0 .. BitsModulus - 1
  <2>1. bits + 1 \in Int
    BY <1>2
  <2> QED
    BY <1>1, <1>2, <2>1, WidthFacts
<1>4. CASE write_pc' = "round"
  BY <1>1, <1>2, <1>3, <1>4 DEF WriteInv
<1>5. CASE write_pc' = "entry"
  <2>1. bits' \in Nat /\ bits' % ByteBits = 0
    BY <1>1, <1>3, <1>5
  <2>2. Bytes' = bits' \div ByteBits /\ Bytes' \in Nat
    BY <2>1, WidthFacts, Division DEF Bytes, write_binary!BytesOf
  <2>3. Len(out') = write_i' * Bytes'
    <3>1. Len(out') = 0 /\ write_i' = 0
      BY <1>1, <1>2
    <3>2. 0 * Bytes' = 0
      BY <2>2
    <3> QED
      BY <3>1, <3>2
  <2>5. out' \in Seq(Nat)
    BY <1>1, <1>2
  <2>6. write_i' \in 0 .. Len(sa')
    BY <1>1, <1>2
  <2>4. Written(write_i)'
    BY <1>1, <1>2 DEF Written
  <2> QED
    BY <1>1, <1>2, <1>3, <1>5, <2>1, <2>3, <2>4, <2>5, <2>6 DEF WriteInv
<1> QED
  BY <1>1, <1>4, <1>5

LEMMA BeginEntryStep ==
  ASSUME WriteInv, write_binary!BeginEntry PROVE WriteInv'
<1>1. write_pc = "entry" /\ UNCHANGED << sa, bits, out, write_i >> /\ Bytes' = Bytes
  BY DEF write_binary!BeginEntry, Bytes, write_binary!BytesOf
<1>2. /\ sa \in Seq(Nat) /\ bits \in 0 .. BitsModulus - 1 /\ bits % ByteBits = 0
      /\ out \in Seq(Nat) /\ write_i \in 0 .. Len(sa) /\ Written(write_i)
      /\ Len(out) = write_i * Bytes
  BY <1>1 DEF WriteInv
<1>3. Bytes \in Nat /\ bits = Bytes * ByteBits /\ ByteBits \in Nat
  BY <1>2, WidthFacts
<1>4. \A k, m, rest : Digits(k, m, rest) => Digits(k, m, rest)'
  BY <1>1 DEF Digits
<1>5. Written(write_i)'
  BY <1>1, <1>2, <1>4 DEF Written
<1>6. CASE write_i < Len(sa)
  <2>1. v' = sa[write_i + 1] /\ b' = bits /\ write_pc' = "bytes"
    BY <1>6 DEF write_binary!BeginEntry
  <2>2. v' \in Nat
    BY <1>2, <1>6, <2>1
  <2> PICK rest : rest = [ j \in 0 .. 0 |-> v' ]
    OBVIOUS
  <2>3. Digits(write_i + 1, 0, rest)'
    BY <1>1, <2>1, <2>2 DEF Digits
  <2>6. rest[0] = v'
    OBVIOUS
  <2>4. 0 \in 0 .. Bytes /\ b' = (Bytes - 0) * ByteBits /\ Len(out) = write_i * Bytes + 0
    BY <1>2, <1>3, <2>1
  <2>5. InEntry(0)'
    BY <1>1, <2>3, <2>4, <2>6 DEF InEntry
  <2> QED
    BY <1>1, <1>2, <1>5, <1>6, <2>1, <2>2, <2>5 DEF WriteInv
<1>7. CASE ~(write_i < Len(sa))
  <2>1. write_pc' = "done"
    BY <1>7 DEF write_binary!BeginEntry
  <2>2. write_i = Len(sa)
    BY <1>2, <1>7
  <2> QED
    BY <1>1, <1>2, <1>5, <2>1, <2>2 DEF WriteInv
<1> QED
  BY <1>6, <1>7

LEMMA PutByteStep ==
  ASSUME WriteInv, write_binary!PutByte PROVE WriteInv'
<1>1. /\ write_pc = "bytes" /\ b # 0 /\ UNCHANGED << sa, bits, write_i, write_pc >>
      /\ out' = Append(out, v % ByteValues) /\ v' = v \div ByteValues
      /\ b' = (b - ByteBits) % BitsModulus /\ Bytes' = Bytes
  BY DEF write_binary!PutByte, Bytes, ByteValues, write_binary!BytesOf
<1>2. /\ sa \in Seq(Nat) /\ bits \in 0 .. BitsModulus - 1 /\ bits % ByteBits = 0
      /\ out \in Seq(Nat) /\ write_i \in 0 .. Len(sa) /\ Written(write_i)
      /\ v \in Nat /\ write_i < Len(sa)
  BY <1>1 DEF WriteInv
<1>3. PICK m \in Nat : InEntry(m)
  BY <1>1 DEF WriteInv
<1>4. /\ Bytes \in Nat /\ bits = Bytes * ByteBits /\ ByteBits \in Nat \ {0}
      /\ ByteValues \in Nat \ {0} /\ BitsModulus \in Nat \ {0}
  BY <1>2, WidthFacts
<1>5. m \in 0 .. Bytes /\ b = (Bytes - m) * ByteBits /\ Len(out) = write_i * Bytes + m
  BY <1>3 DEF InEntry
<1>6. m < Bytes
  BY <1>1, <1>4, <1>5
<1>7. b' = (Bytes - (m + 1)) * ByteBits
  <2> DEFINE left == (Bytes - (m + 1)) * ByteBits
  <2>1. b - ByteBits = left
    BY <1>4, <1>5
  <2>2. left \in Nat /\ left <= Bytes * ByteBits
    BY <1>4, <1>5, <1>6
  <2> HIDE DEF left
  <2>3. left < BitsModulus
    BY <1>2, <1>4, <2>2
  <2>4. left % BitsModulus = left
    BY <1>4, <2>2, <2>3
  <2> QED
    BY <1>1, <2>1, <2>4 DEF left
<1>8. v % ByteValues \in Nat /\ v' \in Nat /\ v = (v % ByteValues) + ByteValues * v'
  BY <1>1, <1>2, <1>4, Division
<1>9. /\ out' \in Seq(Nat) /\ Len(out') = Len(out) + 1
      /\ out'[Len(out) + 1] = v % ByteValues
      /\ \A p \in 1 .. Len(out) : out'[p] = out[p]
  BY <1>1, <1>2, <1>8
<1>10. write_i * Bytes \in Nat /\ Len(out) \in Nat /\ ByteValues' = ByteValues
  <2>1. write_i \in Nat
    BY <1>2
  <2> QED
    BY <1>2, <1>4, <2>1 DEF ByteValues, write_binary!ByteValues
<1>11. ASSUME NEW k \in 1 .. write_i, NEW rest, Digits(k, Bytes, rest)
       PROVE  Digits(k, Bytes, rest)'
  <2>1. write_i \in Nat
    BY <1>2
  <2>2. \A j \in 1 .. Bytes : (k - 1) * Bytes + j \in 1 .. write_i * Bytes
    BY <1>4, <2>1, Places
  <2>3. \A j \in 1 .. Bytes : (k - 1) * Bytes + j \in 1 .. Len(out)
    BY <1>5, <1>10, <2>2
  <2> QED
    BY <1>1, <1>9, <1>10, <1>11, <2>3 DEF Digits
<1>12. Written(write_i)'
  BY <1>1, <1>2, <1>11 DEF Written
<1>13. PICK rest : Digits(write_i + 1, m, rest) /\ rest[m] = v
  BY <1>3 DEF InEntry
<1> PICK longer : longer = [ j \in 0 .. m + 1 |-> IF j = m + 1 THEN v' ELSE rest[j] ]
  OBVIOUS
<1> DEFINE at(j) == ((write_i + 1) - 1) * Bytes + j
<1>14. \A j \in 1 .. m + 1 : at(j) = write_i * Bytes + j
  BY <1>2
<1>15. /\ rest \in [0 .. m -> Nat] /\ rest[0] = sa[write_i + 1]
       /\ \A j \in 1 .. m : out[at(j)] \in Nat /\ rest[j - 1] = out[at(j)] + ByteValues * rest[j]
  BY <1>13 DEF Digits
<1> HIDE DEF at
<1>16. longer \in [0 .. m + 1 -> Nat] /\ longer[0] = sa[write_i + 1] /\ longer[m + 1] = v'
  BY <1>8, <1>15
<1>17. ASSUME NEW j \in 1 .. m + 1
       PROVE  out'[at(j)] \in Nat /\ longer[j - 1] = out'[at(j)] + ByteValues * longer[j]
  <2>1. CASE j = m + 1
    <3>1. at(j) = Len(out) + 1
      BY <1>5, <1>10, <1>14, <2>1
    <3>2. longer[j] = v' /\ longer[j - 1] = v
      <4>1. j \in 0 .. m + 1 /\ j - 1 = m /\ m \in 0 .. m + 1 /\ m # m + 1
        BY <2>1
      <4> QED
        BY <1>13, <2>1, <4>1
    <3> QED
      BY <1>8, <1>9, <3>1, <3>2
  <2>2. CASE j # m + 1
    <3>1. j \in 1 .. m /\ j \in 0 .. m + 1 /\ j - 1 \in 0 .. m + 1 /\ j - 1 # m + 1
      BY <2>2
    <3>2. longer[j] = rest[j] /\ longer[j - 1] = rest[j - 1]
      BY <2>2, <3>1
    <3>3. at(j) \in 1 .. Len(out)
      BY <1>5, <1>10, <1>14, <3>1
    <3> QED
      BY <1>9, <1>15, <3>1, <3>2, <3>3
  <2> QED
    BY <2>1, <2>2
<1>18. Digits(write_i + 1, m + 1, longer)'
  BY <1>1, <1>10, <1>16, <1>17 DEF Digits, at
<1>19. InEntry(m + 1)'
  <2>1. m + 1 \in 0 .. Bytes /\ Len(out') = write_i * Bytes + (m + 1)
    BY <1>4, <1>5, <1>6, <1>9, <1>10
  <2> QED
    BY <1>1, <1>7, <1>16, <1>18, <2>1 DEF InEntry
<1>20. m + 1 \in Nat
  OBVIOUS
<1> QED
  BY <1>1, <1>2, <1>8, <1>9, <1>12, <1>19, <1>20 DEF WriteInv

LEMMA EndEntryStep ==
  ASSUME WriteInv, write_binary!EndEntry PROVE WriteInv'
<1>1. /\ write_pc = "bytes" /\ b = 0 /\ UNCHANGED << sa, bits, out >> /\ Bytes' = Bytes
      /\ write_pc' = "entry" /\ write_i' = write_i + 1
  BY DEF write_binary!EndEntry, Bytes, write_binary!BytesOf
<1>2. /\ sa \in Seq(Nat) /\ bits \in 0 .. BitsModulus - 1 /\ bits % ByteBits = 0
      /\ out \in Seq(Nat) /\ write_i \in 0 .. Len(sa) /\ Written(write_i) /\ write_i < Len(sa)
  BY <1>1 DEF WriteInv
<1>3. PICK m \in Nat : InEntry(m)
  BY <1>1 DEF WriteInv
<1>4. Bytes \in Nat /\ ByteBits \in Nat \ {0}
  BY <1>2, WidthFacts
<1>5. m \in 0 .. Bytes /\ b = (Bytes - m) * ByteBits /\ Len(out) = write_i * Bytes + m
  BY <1>3 DEF InEntry
<1>6. m = Bytes
  BY <1>1, <1>4, <1>5
<1>7. write_i \in Nat /\ write_i' \in 0 .. Len(sa)
  BY <1>1, <1>2
<1>8. Len(out') = write_i' * Bytes'
  BY <1>1, <1>4, <1>5, <1>6, <1>7, Places
<1>9. \A k, rest : Digits(k, Bytes, rest) => Digits(k, Bytes, rest)'
  BY <1>1 DEF Digits
<1>10. \E rest : Digits(write_i + 1, Bytes, rest)
  BY <1>3, <1>6 DEF InEntry
<1>11. Written(write_i)'
  <2>1. \A k \in 1 .. write_i + 1 : k \in 1 .. write_i \/ k = write_i + 1
    BY <1>7
  <2>2. \A k \in 1 .. write_i + 1 : \E rest : Digits(k, Bytes, rest)
    BY <1>2, <1>10, <2>1 DEF Written
  <2> QED
    BY <1>1, <1>9, <2>2 DEF Written
<1> QED
  BY <1>1, <1>2, <1>7, <1>8, <1>11 DEF WriteInv

LEMMA WriteNext == CheckInv /\ WriteInv /\ [Next]_vars => WriteInv'
<1> SUFFICES ASSUME CheckInv, WriteInv, [Next]_vars PROVE WriteInv'
  OBVIOUS
<1>1. CASE Prepare
  BY <1>1, WriteFrame DEF Prepare
<1>2. CASE ConstructAndCheck
  BY <1>2, WriteFrame DEF ConstructAndCheck, Idle
<1>3. CASE ConstructAndWrite
  BY <1>3, ConstructAndWriteStep
<1>4. CASE CheckStep
  <2>1. UNCHANGED << writeVars, sa >>
    BY <1>4 DEF CheckStep, sa_check!CompareLengths, sa_check!CompareWithSorted,
       sa_check!SortByPosition, sa_check!ComparePosition, sa_check!CompareTriples,
       sa_check!CompareNeighbours
  <2> QED
    BY <2>1, WriteFrame
<1>5. CASE WriteStep
  BY <1>5, ChooseBitsStep, RoundUpStep, BeginEntryStep, PutByteStep, EndEntryStep DEF WriteStep
<1>6. CASE UNCHANGED vars
  BY <1>6, WriteFrame DEF vars
<1> QED
  BY <1>1, <1>2, <1>3, <1>4, <1>5, <1>6 DEF Next, Done

\* What is read: the sum of the bytes, each times the power of its place.
LEMMA EntryValueFacts ==
  ASSUME NEW width, write_binary!BytesOf(width) \in Nat, NEW k
  PROVE  LET value == write_binary!EntryValue(width, k)
             n == write_binary!BytesOf(width)
         IN  /\ value[0] = 0
             /\ \A m \in 0 .. n - 1 :
                  value[m + 1] = value[m] + out[(k - 1) * n + (m + 1)]
                                              * write_binary!PowerOfTwo[ByteBits * m]
<1> DEFINE n == write_binary!BytesOf(width)
           term(m) == out[(k - 1) * n + m] * write_binary!PowerOfTwo[ByteBits * (m - 1)]
           Def(f, l) == f = [ m \in 0 .. l |-> IF m = 0 THEN 0 ELSE f[m - 1] + term(m) ]
           T == { l \in Nat : \E f : Def(f, l) }
<1>1. \A l \in Nat : \E f : Def(f, l)
  <2> HIDE DEF n, term
  <2>1. 0 \in T
    <3> DEFINE g == [ m \in 0 .. 0 |-> 0 ]
    <3>1. Def(g, 0)
      OBVIOUS
    <3> QED
      BY <3>1
  <2>2. ASSUME NEW l \in Nat, l \in T PROVE l + 1 \in T
    <3>1. PICK f : Def(f, l)
      BY <2>2
    <3> DEFINE g == [ m \in 0 .. l + 1 |-> IF m = l + 1 THEN f[l] + term(l + 1) ELSE f[m] ]
    <3>2. ASSUME NEW m \in 0 .. l + 1 PROVE g[m] = IF m = 0 THEN 0 ELSE g[m - 1] + term(m)
      <4>1. CASE m = l + 1
        <5>1. l \in 0 .. l + 1 /\ l # l + 1 /\ m # 0 /\ m - 1 = l
          BY <4>1
        <5> QED
          BY <4>1, <5>1
      <4>2. CASE m # l + 1
        <5>1. m \in 0 .. l /\ m - 1 # l + 1 /\ (m # 0 => m - 1 \in 0 .. l + 1)
          BY <4>2
        <5>2. f[m] = IF m = 0 THEN 0 ELSE f[m - 1] + term(m)
          BY <3>1, <5>1
        <5>3. g[m] = f[m] /\ (m # 0 => g[m - 1] = f[m - 1])
          BY <4>2, <5>1
        <5> QED
          BY <5>2, <5>3
      <4> QED
        BY <4>1, <4>2
    <3>3. Def(g, l + 1)
      <4>1. g = [ m \in 0 .. l + 1 |-> g[m] ]
        OBVIOUS
      <4> HIDE DEF g
      <4> QED
        BY <3>2, <4>1
    <3>4. l + 1 \in Nat
      OBVIOUS
    <3> HIDE DEF g, Def
    <3> QED
      BY <3>3, <3>4
  <2> HIDE DEF T
  <2>3. Nat \subseteq T
    BY <2>1, <2>2, Induct
  <2> QED
    BY <2>3 DEF T
<1> DEFINE at == CHOOSE f : Def(f, n)
<1>2. Def(at, n)
  <2>1. \E f : Def(f, n)
    BY <1>1
  <2> HIDE DEF Def
  <2> QED
    BY <2>1
<1>3. write_binary!EntryValue(width, k) = at
  BY DEF write_binary!EntryValue
<1> HIDE DEF at, term
<1>4. at[0] = 0 /\ \A m \in 0 .. n - 1 : at[m + 1] = at[m] + term(m + 1)
  <2>1. n \in Nat
    OBVIOUS
  <2> HIDE DEF n
  <2>2. \A m \in 0 .. n : at[m] = IF m = 0 THEN 0 ELSE at[m - 1] + term(m)
    BY <1>2
  <2>3. \A m \in 0 .. n - 1 : m + 1 \in 0 .. n /\ m + 1 # 0 /\ (m + 1) - 1 = m
    BY <2>1
  <2>4. 0 \in 0 .. n
    BY <2>1
  <2> QED
    BY <2>2, <2>3, <2>4
<1>5. \A m \in 0 .. n - 1 :
        term(m + 1) = out[(k - 1) * n + (m + 1)] * write_binary!PowerOfTwo[ByteBits * m]
  <2>1. \A m \in 0 .. n - 1 : (m + 1) - 1 = m
    OBVIOUS
  <2> QED
    BY <2>1 DEF term
<1> QED
  BY <1>3, <1>4, <1>5

\* The bytes of an entry are those of its value, if it has no more of them.
LEMMA EntryReadBack ==
  ASSUME bits \in Nat, bits % ByteBits = 0, NEW k, NEW rest, Digits(k, Bytes, rest),
         sa[k] < write_binary!PowerOfTwo[bits]
  PROVE  write_binary!EntryValue(bits, k)[Bytes] = sa[k]
<1> DEFINE power == write_binary!PowerOfTwo
           value == write_binary!EntryValue(bits, k)
           byte(m) == out[(k - 1) * Bytes + m]
           weight(m) == power[ByteBits * m]
<1>1. Bytes \in Nat /\ bits = Bytes * ByteBits /\ ByteBits \in Nat
  BY WidthFacts
<1>2. \A m \in Nat : weight(m) \in Nat \ {0} /\ weight(m + 1) = ByteValues * weight(m)
  <2> SUFFICES ASSUME NEW m \in Nat
               PROVE  weight(m) \in Nat \ {0} /\ weight(m + 1) = ByteValues * weight(m)
    OBVIOUS
  <2>1. ByteBits * m \in Nat /\ ByteBits * (m + 1) = ByteBits + ByteBits * m
    BY <1>1
  <2>2. power[ByteBits + ByteBits * m] = power[ByteBits] * power[ByteBits * m]
    BY <1>1, <2>1, PowerOfSum
  <2> QED
    BY <2>1, <2>2, PowerOfTwoFacts DEF ByteValues, write_binary!ByteValues
<1>3. /\ rest \in [0 .. Bytes -> Nat] /\ rest[0] = sa[k]
      /\ \A j \in 1 .. Bytes : byte(j) \in Nat /\ rest[j - 1] = byte(j) + ByteValues * rest[j]
  BY DEF Digits
<1>4. value[0] = 0 /\ \A m \in 0 .. Bytes - 1 : value[m + 1] = value[m] + byte(m + 1) * weight(m)
  BY <1>1, EntryValueFacts DEF Bytes
<1>5. weight(0) = 1
  <2>1. ByteBits * 0 = 0
    BY <1>1
  <2> QED
    BY <2>1, PowerOfTwoFacts
<1>6. weight(Bytes) = power[bits]
  <2>1. ByteBits * Bytes = bits
    BY <1>1
  <2> QED
    BY <2>1
<1>7. ByteValues \in Nat
  BY WidthFacts
<1> HIDE DEF value, byte, weight, power
<1> DEFINE T == { m \in Nat : m \in 0 .. Bytes =>
                    value[m] \in Nat /\ value[m] + rest[m] * weight(m) = sa[k] }
<1>8. 0 \in T
  BY <1>1, <1>3, <1>4, <1>5
<1>9. ASSUME NEW m \in Nat, m \in T PROVE m + 1 \in T
  <2> SUFFICES ASSUME m + 1 \in 0 .. Bytes
               PROVE  /\ value[m + 1] \in Nat
                      /\ value[m + 1] + rest[m + 1] * weight(m + 1) = sa[k]
    OBVIOUS
  <2>1. m \in 0 .. Bytes - 1 /\ m \in 0 .. Bytes /\ m + 1 \in 1 .. Bytes /\ (m + 1) - 1 = m
    BY <1>1
  <2>2. value[m] \in Nat /\ value[m] + rest[m] * weight(m) = sa[k]
    BY <1>9, <2>1
  <2>3. byte(m + 1) \in Nat /\ rest[m] = byte(m + 1) + ByteValues * rest[m + 1]
    BY <1>3, <2>1
  <2>4. value[m + 1] = value[m] + byte(m + 1) * weight(m)
    BY <1>4, <2>1
  <2>5. weight(m) \in Nat /\ weight(m + 1) = ByteValues * weight(m) /\ rest[m + 1] \in Nat
    BY <1>2, <1>3
  <2>6. \A p, q, r, s, t \in Nat :
          p + (q + r * s) * t = (p + q * t) + s * (r * t) /\ p + q * t \in Nat
    BY SMTT(30)
  <2> QED
    BY <1>7, <2>2, <2>3, <2>4, <2>5, <2>6
<1>10. Nat \subseteq T
  <2> HIDE DEF T
  <2> QED
    BY <1>8, <1>9, Induct
<1>11. /\ value[Bytes] \in Nat /\ value[Bytes] + rest[Bytes] * weight(Bytes) = sa[k]
       /\ rest[Bytes] \in Nat /\ weight(Bytes) \in Nat \ {0} /\ sa[k] < weight(Bytes)
  <2>1. Bytes \in T /\ Bytes \in 0 .. Bytes
    BY <1>1, <1>10
  <2>2. sa[k] < weight(Bytes)
    BY <1>6 DEF power
  <2> QED
    BY <1>1, <1>2, <1>3, <2>1, <2>2
<1>12. \A x, y \in Nat, z \in Nat \ {0} : x + y * z < z => y = 0
  BY SMTT(30)
<1>13. rest[Bytes] = 0
  BY <1>11, <1>12
<1> QED
  BY <1>11, <1>13 DEF value

\* A reader who takes the rounded width gets the array back, lowest byte
\* first, for every array whose values have no more bits than that: the
\* counter neither runs past the end of an entry nor stops before it.
THEOREM WritesReadable == Spec => []EntriesReadBack
<1>1. Init => CheckInv /\ WriteInv
  BY CheckInit, WriteInit
<1>2. CheckInv /\ WriteInv /\ [Next]_vars => (CheckInv /\ WriteInv)'
  BY CheckNext, WriteNext
<1>3. WriteInv => EntriesReadBack
  <2> SUFFICES ASSUME WriteInv, write_pc = "done", write_binary!Representable
               PROVE  write_binary!Readable(bits)
    BY DEF EntriesReadBack, write_binary!EntriesReadBack
  <2>1. /\ sa \in Seq(Nat) /\ bits \in 0 .. BitsModulus - 1 /\ bits % ByteBits = 0
        /\ write_i = Len(sa) /\ Len(out) = write_i * Bytes /\ Written(write_i)
    BY DEF WriteInv
  <2>2. bits \in Nat
    BY <2>1, WidthFacts
  <2>3. \A k \in 1 .. Len(sa) : write_binary!EntryValue(bits, k)[Bytes] = sa[k]
    BY <2>1, <2>2, EntryReadBack DEF Written, write_binary!Representable
  <2>4. write_binary!ReadBack(bits) = sa
    BY <2>1, <2>3 DEF write_binary!ReadBack, Bytes
  <2> QED
    BY <2>1, <2>4 DEF write_binary!Readable, Bytes
<1> QED
  BY <1>1, <1>2, <1>3, PTL DEF Spec

=============================================================================
