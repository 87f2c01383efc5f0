------------------------ MODULE ParallelHelpers_proofs ------------------------
(***************************************************************************)
(* Proofs about the parallel routines that the constructors call: the two  *)
(* prefix sums (PrefixSum, PrefixSumEff), for every size of the input,     *)
(* every cutoff and every number of iterations in progress, and the merges *)
(* (ParallelMerge), for all arrays, teams and orders of the pieces.        *)
(*                                                                         *)
(* For the tree, the inductive invariant is SumInv: after a level of the   *)
(* up pass every node of it has the addends of the leaves below it; after  *)
(* a level of the down pass every node of it has the addends of the leaves *)
(* to the left of it, and the levels below still have what the up pass     *)
(* left there; and what an iteration in progress stores does not depend on *)
(* the others.  That the levels fit into each other needs tree_size to be  *)
(* a power of two; the first section is about those.                       *)
(*                                                                         *)
(* For the sums in place, it is EffInv.                                    *)
(*                                                                         *)
(* For the merges, it is MergeInv (from the section on loops on): an entry *)
(* that has been written stands where it belongs, which is said without    *)
(* the merged array, by the entries of the two arrays on either side of    *)
(* it; and a cell that has not been written belongs to exactly one of the  *)
(* pieces that are left, or to the copies of a stretch, one by each thread.*)
(* Most of the work is to show that every way of dividing a piece keeps    *)
(* that: the searches find cuts of the two arrays, cuts follow each other, *)
(* and the cells between them are the pieces'.                             *)
(***************************************************************************)
EXTENDS PrefixSumEff, ParallelMerge, FiniteSetTheorems, SequenceTheorems,
        FunctionTheorems, WellFoundedInduction, TLAPS

-----------------------------------------------------------------------------
(* Powers of two *)

\* A set of naturals that is not empty has a smallest element.
LEMMA Smallest ==
  ASSUME NEW T, T \subseteq Nat, T # {}
  PROVE  \E x \in T : \A y \in T : x <= y
<1>1. PICK x \in T : \A y \in T : ~ << y, x >> \in OpToRel(<, Nat)
  BY NatLessThanWellFounded, WFMin, Zenon
<1>2. ASSUME NEW y \in T PROVE ~(y < x)
  <2>1. x \in Nat /\ y \in Nat
    OBVIOUS
  <2> QED BY <1>1, <2>1, Zenon DEF OpToRel
<1> QED BY <1>2

\* Division without remainder, as a product.
LEMMA Divides ==
  ASSUME NEW d \in Nat \ {0}, NEW p \in Nat
  PROVE  /\ (p % d) = 0 <=> \E k \in Nat : p = d * k
         /\ \A k \in Nat : p = d * k => p \div d = k
<1>1. \A k \in Nat : (d * k) % d = 0 /\ (d * k) \div d = k
  BY SMT
<1>2. (p % d) = 0 => \E k \in Nat : p = d * k
  BY SMT
<1> QED BY <1>1, <1>2

\* A power of two but 1 is twice a power of two.
LEMMA PowerHalf ==
  ASSUME NEW p \in Nat, p > 1, is_power_of_two(p)
  PROVE  \E q \in Nat : q >= 1 /\ p = 2 * q /\ is_power_of_two(q)
<1>1. p = p * 1 /\ p \in 2 .. p
  OBVIOUS
<1>2. (p % p) = 0
  BY Divides
<1>3. (p % 2) = 0
  BY <1>1, <1>2 DEF is_power_of_two
<1>4. PICK q \in Nat : p = 2 * q
  BY <1>3
<1>5. ASSUME NEW d \in 2 .. q, (q % d) = 0 PROVE (d % 2) = 0
  <2>0. d \in Nat \ {0}
    OBVIOUS
  <2>1. PICK k \in Nat : q = d * k
    BY <1>5, <2>0, Divides
  <2>2. p = d * (2 * k) /\ 2 * k \in Nat
    BY <1>4, <2>1
  <2>3. (p % d) = 0
    BY <2>0, <2>2, Divides
  <2> QED BY <1>4, <2>3 DEF is_power_of_two
<1> QED BY <1>4, <1>5 DEF is_power_of_two

\* Twice a power of two is a power of two: an odd divisor of 2 * p divides p.
LEMMA PowerTwice ==
  ASSUME NEW p \in Nat \ {0}, is_power_of_two(p)
  PROVE  is_power_of_two(2 * p)
<1> SUFFICES ASSUME NEW d \in 2 .. 2 * p, ((2 * p) % d) = 0, (d % 2) # 0 PROVE FALSE
  BY DEF is_power_of_two
<1>1. PICK k \in Nat : 2 * p = d * k
  BY Divides
<1>2. PICK a \in Nat : d = 2 * a + 1
  BY SMT
<1>3. 2 * p = 2 * (a * k) + k /\ a * k \in Nat
  BY <1>1, <1>2
<1>4. PICK m \in Nat : k = 2 * m
  <2> DEFINE ak == a * k
  <2>1. ak \in Nat /\ 2 * p = 2 * ak + k
    BY <1>3
  <2> HIDE DEF ak
  <2>2. p - ak \in Nat /\ k = 2 * (p - ak)
    BY <2>1
  <2> QED BY <2>2
<1>5. p = d * m
  BY <1>1, <1>4
<1>6. (p % d) = 0
  <2>1. m \in Nat /\ d \in Nat \ {0}
    BY <1>4
  <2> QED BY <1>5, <2>1, Divides
<1>7. d \in 2 .. p
  <2>1. m >= 1
    BY <1>5
  <2> QED BY <1>5, <2>1
<1> QED BY <1>6, <1>7 DEF is_power_of_two

\* A divisor of a power of two is one.
LEMMA PowerDivisor ==
  ASSUME NEW o \in Nat \ {0}, NEW h \in Nat \ {0}, is_power_of_two(o * h)
  PROVE  is_power_of_two(o)
<1> SUFFICES ASSUME NEW d \in 2 .. o, (o % d) = 0 PROVE (d % 2) = 0
  BY DEF is_power_of_two
<1>1. PICK k \in Nat : o = d * k
  BY Divides
<1>2. o * h = d * (k * h) /\ k * h \in Nat /\ o * h \in Nat
  BY <1>1
<1>3. ((o * h) % d) = 0
  <2> DEFINE p == o * h
  <2>1. p \in Nat /\ d \in Nat \ {0} /\ k * h \in Nat /\ p = d * (k * h)
    BY <1>2
  <2> HIDE DEF p
  <2>2. (p % d) = 0
    BY <2>1, Divides
  <2> QED BY <2>2 DEF p
<1>4. o <= o * h
  BY SMT
<1>5. d \in 2 .. o * h
  BY <1>2, <1>4
<1> QED BY <1>3, <1>5 DEF is_power_of_two

\* The larger of two powers of two is at least twice the smaller one.
LEMMA PowersApart ==
  ASSUME NEW p \in Nat \ {0}, NEW q \in Nat, p < q, is_power_of_two(p), is_power_of_two(q)
  PROVE  2 * p <= q
<1> DEFINE Bad == { x \in Nat \ {0} : \E y \in Nat :
                      x < y /\ y < 2 * x /\ is_power_of_two(x) /\ is_power_of_two(y) }
<1>1. ASSUME Bad # {} PROVE FALSE
  <2>1. PICK x \in Bad : \A y \in Bad : x <= y
    <3>1. Bad \subseteq Nat
      OBVIOUS
    <3> HIDE DEF Bad
    <3> QED BY <1>1, <3>1, Smallest
  <2>2. PICK y \in Nat : x < y /\ y < 2 * x /\ is_power_of_two(x) /\ is_power_of_two(y)
    OBVIOUS
  <2>3. x \in Nat /\ x > 1 /\ y > 1
    BY <2>2
  <2>4. PICK a \in Nat : a >= 1 /\ x = 2 * a /\ is_power_of_two(a)
    BY <2>2, <2>3, PowerHalf
  <2>5. PICK b \in Nat : b >= 1 /\ y = 2 * b /\ is_power_of_two(b)
    BY <2>2, <2>3, PowerHalf
  <2>6. a \in Bad
    BY <2>2, <2>4, <2>5
  <2> QED BY <2>1, <2>4, <2>6
<1> QED BY <1>1

\* next_power_of_two returns one that is at least v and less than twice v.
LEMMA NextPower ==
  ASSUME NEW v \in Nat \ {0}
  PROVE  /\ next_power_of_two(v) \in v .. 2 * v - 1
         /\ is_power_of_two(next_power_of_two(v))
<1> DEFINE Bad == { x \in Nat \ {0} : \A p \in x .. 2 * x - 1 : ~is_power_of_two(p) }
<1>1. ASSUME Bad # {} PROVE FALSE
  <2>1. PICK x \in Bad : \A y \in Bad : x <= y
    <3>1. Bad \subseteq Nat
      OBVIOUS
    <3> HIDE DEF Bad
    <3> QED BY <1>1, <3>1, Smallest
  <2>2. is_power_of_two(1)
    BY DEF is_power_of_two
  <2>3. x > 1
    BY <2>2
  <2>4. PICK u \in Nat : u >= 1 /\ u < x /\ (x = 2 * u \/ x = 2 * u - 1)
    <3>1. (x % 2) = 0 \/ (x % 2) = 1
      OBVIOUS
    <3>2. CASE (x % 2) = 0
      <4>1. x \div 2 \in Nat /\ x = 2 * (x \div 2) /\ x \div 2 >= 1 /\ x \div 2 < x
        BY <2>3, <3>2
      <4> QED BY <4>1
    <3>3. CASE (x % 2) = 1
      <4> DEFINE u == x \div 2 + 1
      <4>1. u \in Nat /\ x = 2 * u - 1 /\ u >= 1 /\ u < x
        BY <2>3, <3>3
      <4> HIDE DEF u
      <4> QED BY <4>1
    <3> QED BY <3>1, <3>2, <3>3
  <2>5. PICK p \in u .. 2 * u - 1 : is_power_of_two(p)
    <3>1. u \notin Bad
      BY <2>1, <2>4
    <3> QED BY <2>4, <3>1
  <2>6. p \in Nat \ {0}
    BY <2>4, <2>5
  <2>7. is_power_of_two(2 * p)
    BY <2>5, <2>6, PowerTwice
  <2>8. 2 * p \notin x .. 2 * x - 1
    BY <2>7
  <2>9. x = 2 * u - 1 /\ p = 2 * u - 1
    BY <2>4, <2>5, <2>6, <2>8
  <2>10. is_power_of_two(x)
    BY <2>5, <2>9
  <2> QED BY <2>3, <2>10
<1>2. \E p \in v .. 2 * v - 1 : is_power_of_two(p)
  BY <1>1
<1> QED BY <1>2 DEF next_power_of_two

-----------------------------------------------------------------------------
(* The inductive invariant                                                 *)
(*                                                                         *)
(* A level of the tree has o nodes, o .. 2 * o - 1, each of which stands   *)
(* for h leaves; leaves beyond the input stand for no addend.              *)

Level(o, h) == o \in Nat \ {0} /\ h \in Nat \ {0} /\ o * h = tree_size

Clip(x) == AtMost(x, size)

\* The addends under node j of a level, and those to the left of it.
Sum(h, j) == Addends(Clip(j * h), Clip((j + 1) * h))
Before(h, j) == Addends(0, Clip(j * h))

Span == tree_size \div offset

\* What the up pass has left in the levels from from on.
SumsFrom(from) ==
  \A o, h \in 1 .. tree_size :
    Level(o, h) /\ o >= from =>
      \A j \in 0 .. o - 1 : o + j \in Nodes => tree[o + j] = Sum(h, j)

\* What an iteration of the current loop stores.
Stores(i) ==
  [ node \in WritesOf(phase, offset, i) |->
      IF phase = "up" THEN Sum(2 * Span, node - offset \div 2)
      ELSE Before(Span \div 2, node - 2 * offset) ]

Iterations == IF phase = "up" THEN UpIterations(offset) ELSE 0 .. layer_size(offset) - 1

\* The iterations are in todo, in running, or have stored their results.
LoopInv ==
  phase \in { "up", "down" } =>
    /\ Level(offset, Span)
    /\ todo \subseteq Iterations
    /\ \A st \in running : \E i \in Iterations \ todo : st = Stores(i)
    /\ tree_size > 1 =>
         \A i \in Iterations \ todo : Stores(i) \notin running =>
           \A node \in WritesOf(phase, offset, i) : tree[node] = Stores(i)[node]

UpInv ==
  phase = "up" =>
    /\ tree_size > 1 => offset > 1
    /\ SumsFrom(offset)
    /\ \A k \in Nodes : k < offset \div 2 => tree[k] = identity
    /\ \A j \in 0 .. offset \div 2 - 1 :
         2 * j >= corrected_len => tree[offset \div 2 + j] = identity

DownInv ==
  phase = "down" =>
    /\ offset < tree_size
    /\ SumsFrom(2 * offset + 1)
    /\ \A j \in 0 .. offset - 1 : tree[offset + j] = Before(Span, j)
    /\ \A i \in todo : \A node \in WritesOf(phase, offset, i) :
         tree[node] = Sum(Span \div 2, node - 2 * offset)

CopyInv ==
  phase = "copy" => \A i \in 0 .. size - 1 : tree[tree_size + i] = Before(1, i)

SumInv ==
  /\ size \in Sizes /\ inclusive \in BOOLEAN
  /\ phase \in { "up", "down", "copy", "done" }
  /\ tree \in [ Nodes -> Seq(Nat) ]
  /\ tree_size = 1 /\ phase = "up" => todo = {} /\ running = {}
  /\ phase \in { "copy", "done" } => todo = {} /\ running = {}
  /\ LoopInv /\ UpInv /\ DownInv /\ CopyInv
  /\ EqualsSequential

-----------------------------------------------------------------------------
(* Sizes and levels *)

\* corrected_len is even, and the tree has room for it.
LEMMA SizeFacts ==
  ASSUME size \in Sizes
  PROVE  /\ size \in Nat \ {0}
         /\ corrected_len \in Nat /\ corrected_len \in { size, size + 1 }
         /\ (corrected_len % 2) = 0
         /\ corrected_len >= 2
         /\ tree_size \in size .. 2 * size - 1 /\ tree_size \in Nat \ {0}
         /\ is_power_of_two(tree_size)
         /\ tree_size > 1 => (tree_size % 2) = 0 /\ corrected_len <= tree_size
         /\ Nodes = 0 .. corrected_len + tree_size - 1
<1>1. size \in Nat \ {0}
  BY SizesAssumption
<1>2. /\ corrected_len \in Nat /\ corrected_len \in { size, size + 1 }
      /\ (corrected_len % 2) = 0 /\ corrected_len >= 2
  BY <1>1 DEF corrected_len
<1>3. tree_size \in size .. 2 * size - 1 /\ is_power_of_two(tree_size)
  BY <1>1, NextPower DEF tree_size
<1>4. ASSUME tree_size > 1 PROVE (tree_size % 2) = 0 /\ corrected_len <= tree_size
  <2>1. PICK q \in Nat : tree_size = 2 * q
    BY <1>1, <1>3, <1>4, PowerHalf
  <2> QED BY <1>1, <1>2, <1>3, <2>1
<1> QED BY <1>1, <1>2, <1>3, <1>4 DEF Nodes

\* A level, and those next to it.
LEMMA LevelFacts ==
  ASSUME size \in Sizes, NEW o, NEW h, Level(o, h)
  PROVE  /\ o \in 1 .. tree_size /\ h \in 1 .. tree_size
         /\ tree_size \div o = h
         /\ is_power_of_two(o)
         /\ o > 1 => \E q \in Nat \ {0} : o = 2 * q /\ Level(q, 2 * h)
         /\ o < tree_size => \E q \in Nat \ {0} : h = 2 * q /\ Level(2 * o, q)
         /\ \A p, q : Level(p, q) /\ o < p => 2 * o <= p
<1>1. o \in Nat \ {0} /\ h \in Nat \ {0} /\ o * h = tree_size /\ tree_size \in Nat \ {0}
  BY SizeFacts DEF Level
<1>2. o \in 1 .. tree_size /\ h \in 1 .. tree_size
  <2>1. o <= o * h /\ h <= o * h
    BY <1>1, SMT
  <2> QED BY <1>1, <2>1
<1>3. tree_size \div o = h
  BY <1>1, Divides
<1>4. is_power_of_two(o) /\ is_power_of_two(h)
  <2>1. is_power_of_two(o * h) /\ is_power_of_two(h * o)
    BY <1>1, SizeFacts
  <2> QED BY <1>1, <2>1, PowerDivisor
<1>5. ASSUME o > 1 PROVE \E q \in Nat \ {0} : o = 2 * q /\ Level(q, 2 * h)
  <2>1. PICK q \in Nat : q >= 1 /\ o = 2 * q
    BY <1>1, <1>4, <1>5, PowerHalf
  <2>2. q * (2 * h) = tree_size
    BY <1>1, <2>1
  <2> QED BY <1>1, <2>1, <2>2 DEF Level
<1>6. ASSUME o < tree_size PROVE \E q \in Nat \ {0} : h = 2 * q /\ Level(2 * o, q)
  <2>1. h > 1
    BY <1>1, <1>6
  <2>2. PICK q \in Nat : q >= 1 /\ h = 2 * q
    BY <1>1, <1>4, <2>1, PowerHalf
  <2>3. (2 * o) * q = tree_size
    BY <1>1, <2>2
  <2> QED BY <1>1, <2>2, <2>3 DEF Level
<1>7. ASSUME NEW p, NEW q, Level(p, q), o < p PROVE 2 * o <= p
  <2>1. p \in Nat \ {0} /\ q \in Nat \ {0} /\ is_power_of_two(p * q)
    BY <1>7, SizeFacts DEF Level
  <2>2. is_power_of_two(p)
    BY <2>1, PowerDivisor
  <2> QED BY <1>1, <1>4, <1>7, <2>1, <2>2, PowersApart
<1> QED BY <1>2, <1>3, <1>4, <1>5, <1>6, <1>7

-----------------------------------------------------------------------------
(* Sums *)

\* The addends from a up to b.
LEMMA AddendsFacts ==
  ASSUME NEW a \in Nat, NEW b \in Nat, a <= b
  PROVE  /\ Addends(a, b) \in Seq(Nat)
         /\ Len(Addends(a, b)) = b - a
         /\ \A k \in 1 .. b - a : Addends(a, b)[k] = a + k - 1
<1>1. b - a \in Nat /\ \A k \in 1 .. b - a : a + k - 1 \in Nat
  OBVIOUS
<1>2. Addends(a, b) \in [ 1 .. b - a -> Nat ]
  BY <1>1 DEF Addends
<1> QED BY <1>1, <1>2 DEF Addends

\* Addends that follow each other join.
LEMMA AddendsJoin ==
  ASSUME NEW a \in Nat, NEW b \in Nat, NEW c \in Nat, a <= b, b <= c
  PROVE  /\ add(Addends(a, b), Addends(b, c)) = Addends(a, c)
         /\ Addends(a, a) = identity
<1> DEFINE x == Addends(a, b)
           y == Addends(b, c)
           z == Addends(a, c)
<1>1. x \in Seq(Nat) /\ Len(x) = b - a /\ \A k \in 1 .. b - a : x[k] = a + k - 1
  BY AddendsFacts
<1>2. y \in Seq(Nat) /\ Len(y) = c - b /\ \A k \in 1 .. c - b : y[k] = b + k - 1
  BY AddendsFacts
<1>3. z \in Seq(Nat) /\ Len(z) = c - a /\ \A k \in 1 .. c - a : z[k] = a + k - 1
  <2>1. a <= c
    OBVIOUS
  <2> QED BY <2>1, AddendsFacts
<1> HIDE DEF x, y, z
<1>4. x \o y = z
  <2>1. /\ x \o y \in Seq(Nat)
        /\ Len(x \o y) = Len(x) + Len(y)
        /\ \A k \in 1 .. Len(x) + Len(y) :
             (x \o y)[k] = IF k <= Len(x) THEN x[k] ELSE y[k - Len(x)]
    BY <1>1, <1>2, ConcatProperties
  <2>2. Len(x) + Len(y) = c - a
    BY <1>1, <1>2
  <2>3. ASSUME NEW k \in 1 .. c - a PROVE (x \o y)[k] = z[k]
    <3>1. CASE k <= b - a
      <4>1. k \in 1 .. b - a /\ (x \o y)[k] = x[k]
        BY <1>1, <2>1, <2>2, <3>1
      <4> QED BY <1>1, <1>3, <4>1
    <3>2. CASE k > b - a
      <4>1. k - (b - a) \in 1 .. c - b /\ (x \o y)[k] = y[k - (b - a)]
        BY <1>1, <2>1, <2>2, <3>2
      <4> QED BY <1>2, <1>3, <4>1
    <3>3. k <= b - a \/ k > b - a
      OBVIOUS
    <3> QED BY <3>1, <3>2, <3>3, Zenon
  <2> QED BY <1>3, <2>1, <2>2, <2>3, SeqEqual
<1>5. Addends(a, a) = << >>
  <2>1. Addends(a, a) \in Seq(Nat) /\ Len(Addends(a, a)) = 0
    BY AddendsFacts
  <2> QED BY <2>1, EmptySeq
<1> QED BY <1>4, <1>5 DEF add, identity, x, y, z

\* A node's addends are those of its children, one after the other; what is to
\* the left of a right child is what is to the left of its parent and below its
\* left neighbour.
LEMMA SumFacts ==
  ASSUME size \in Sizes, NEW h \in Nat, NEW j \in Nat
  PROVE  /\ Sum(h, j) \in Seq(Nat) /\ Before(h, j) \in Seq(Nat)
         /\ add(Sum(h, 2 * j), Sum(h, 2 * j + 1)) = Sum(2 * h, j)
         /\ add(Before(h, j), Sum(h, j)) = Before(h, j + 1)
         /\ Before(h, 2 * j) = Before(2 * h, j)
         /\ j * h >= size => Sum(h, j) = identity
         /\ Before(h, 0) = identity
<1>1. size \in Nat
  BY SizeFacts
<1>2. /\ \A x \in Nat : Clip(x) \in Nat
      /\ \A x, y \in Nat : x <= y => Clip(x) <= Clip(y)
      /\ \A x \in Nat : 0 <= Clip(x)
  BY <1>1 DEF Clip, AtMost
<1>3. /\ j * h \in Nat /\ (j + 1) * h \in Nat /\ j * h <= (j + 1) * h
      /\ (2 * j) * h \in Nat /\ (2 * j + 1) * h \in Nat /\ (2 * j + 1 + 1) * h \in Nat
      /\ (2 * j) * h <= (2 * j + 1) * h /\ (2 * j + 1) * h <= (2 * j + 1 + 1) * h
      /\ (2 * j) * h = j * (2 * h) /\ (2 * j + 1 + 1) * h = (j + 1) * (2 * h)
  BY SMT
<1>4. Sum(h, j) \in Seq(Nat) /\ Before(h, j) \in Seq(Nat)
  <2>1. /\ Clip(j * h) \in Nat /\ Clip((j + 1) * h) \in Nat
        /\ Clip(j * h) <= Clip((j + 1) * h) /\ 0 <= Clip(j * h)
    BY <1>2, <1>3
  <2> QED BY <2>1, AddendsFacts DEF Sum, Before
<1>5. add(Sum(h, 2 * j), Sum(h, 2 * j + 1)) = Sum(2 * h, j)
  BY <1>1, <1>2, <1>3, AddendsJoin DEF Sum
<1>6. add(Before(h, j), Sum(h, j)) = Before(h, j + 1)
  BY <1>1, <1>2, <1>3, AddendsJoin DEF Sum, Before
<1>7. Before(h, 2 * j) = Before(2 * h, j)
  BY <1>3 DEF Before
<1>8. ASSUME j * h >= size PROVE Sum(h, j) = identity
  <2>1. Clip(j * h) = size /\ Clip((j + 1) * h) = size
    BY <1>3, <1>8, SizeFacts DEF Clip, AtMost
  <2> QED BY <2>1, SizeFacts, AddendsJoin DEF Sum
<1>9. Before(h, 0) = identity
  <2>1. Clip(0 * h) = 0
    BY SizeFacts DEF Clip, AtMost
  <2> QED BY <2>1, AddendsJoin DEF Before
<1> QED BY <1>4, <1>5, <1>6, <1>7, <1>8, <1>9

-----------------------------------------------------------------------------
(* The nodes of an iteration *)

\* An iteration of the up pass adds two neighbours of its level into their parent.
LEMMA UpNodes ==
  ASSUME size \in Sizes, NEW h, Level(offset, h), offset > 1, NEW i \in UpIterations(offset)
  PROVE  \E j \in Nat :
           /\ i = 2 * j /\ 2 * j + 1 < offset /\ 2 * j + 1 < corrected_len
           /\ (offset % 2) = 0 /\ offset \div 2 + j < offset
           /\ parent_of_child(offset + i) = offset \div 2 + j
           /\ WritesOf("up", offset, i) = { offset \div 2 + j }
           /\ ReadsOf("up", offset, i) = { offset + 2 * j, offset + 2 * j + 1 }
           /\ offset + 2 * j \in Nodes /\ offset + 2 * j + 1 \in Nodes
           /\ offset \div 2 + j \in Nodes
<1>1. PICK o \in Nat \ {0} : offset = 2 * o
  BY LevelFacts
<1>2. PICK j \in Nat : i = 2 * j
  <2>1. i \in Nat /\ (i % 2) = 0
    BY <1>1, SizeFacts DEF UpIterations, AtMost
  <2> QED BY <2>1
<1>3. 2 * j < offset /\ 2 * j < corrected_len
  BY <1>1, <1>2, SizeFacts DEF UpIterations, AtMost
<1>4. 2 * j + 1 < offset /\ 2 * j + 1 < corrected_len
  <2>1. PICK c \in Nat : corrected_len = 2 * c
    BY SizeFacts
  <2> QED BY <1>1, <1>3, <2>1
<1>5. offset \div 2 = o /\ (offset % 2) = 0 /\ (offset + i) \div 2 = o + j /\ o + j < offset
  BY <1>1, <1>2, <1>4
<1>6. offset + 2 * j + 1 <= corrected_len + tree_size - 1 /\ o + j <= corrected_len + tree_size - 1
  <2>1. offset <= tree_size /\ tree_size \in Nat
    BY LevelFacts, SizeFacts
  <2> QED BY <1>1, <1>4, <1>5, <2>1, SizeFacts
<1>7. offset + 2 * j \in Nodes /\ offset + 2 * j + 1 \in Nodes /\ o + j \in Nodes
  BY <1>1, <1>6, SizeFacts
<1>8. /\ parent_of_child(offset + i) = o + j
      /\ WritesOf("up", offset, i) = { o + j }
      /\ ReadsOf("up", offset, i) = { offset + 2 * j, offset + 2 * j + 1 }
  BY <1>2, <1>5 DEF WritesOf, ReadsOf, parent_of_child
<1> QED BY <1>2, <1>4, <1>5, <1>7, <1>8

\* An iteration of the down pass goes from a node to its children.
LEMMA DownNodes ==
  ASSUME size \in Sizes, NEW o, NEW h, Level(o, h), o < tree_size,
         NEW i \in 0 .. layer_size(o) - 1
  PROVE  \E j \in Nat :
           /\ j = layer_size(o) - i - 1 /\ i = layer_size(o) - j - 1
           /\ 2 * j + 1 < 2 * o /\ j < o
           /\ o + layer_size(o) - i - 1 = o + j
           /\ WritesOf("down", o, i) = { 2 * (o + j), 2 * (o + j) + 1 }
           /\ ReadsOf("down", o, i) = { o + j, 2 * (o + j) }
           /\ 2 * (o + j) \in Nodes /\ 2 * (o + j) + 1 \in Nodes
           /\ o + j \in Nodes
<1>1. /\ o \in Nat \ {0} /\ tree_size \in Nat \ {0} /\ tree_size > 1
      /\ corrected_len \in Nat /\ corrected_len <= tree_size
  BY LevelFacts, SizeFacts DEF Level
<1>2. PICK g \in Nat \ {0} : h = 2 * g /\ Level(2 * o, g)
  BY LevelFacts
<1>3. /\ layer_size(o) \in Nat /\ layer_size(o) <= o
      /\ 2 * o + 2 * layer_size(o) <= corrected_len + tree_size
  <2>1. CASE o = tree_size \div 2
    <3>1. tree_size = 2 * o
      BY <1>1, <2>1, SizeFacts
    <3>2. PICK c \in Nat : corrected_len = 2 * c
      BY SizeFacts
    <3>3. layer_size(o) = c
      BY <2>1, <3>2 DEF layer_size
    <3> QED BY <1>1, <3>1, <3>2, <3>3
  <2>2. CASE o # tree_size \div 2
    <3>1. layer_size(o) = o
      BY <2>2 DEF layer_size
    <3>2. 2 * o # tree_size
      BY <1>1, <2>2
    <3>3. 2 * o < tree_size
      BY <1>2, <1>1, <3>2, LevelFacts
    <3>4. PICK f \in Nat \ {0} : Level(2 * (2 * o), f)
      BY <1>2, <3>3, LevelFacts
    <3>5. 2 * (2 * o) <= tree_size
      BY <3>4, LevelFacts
    <3> QED BY <1>1, <3>1, <3>5
  <2> QED BY <2>1, <2>2
<1> DEFINE j == layer_size(o) - i - 1
<1>4. j \in Nat /\ i = layer_size(o) - j - 1 /\ j < o /\ j + 1 <= layer_size(o)
  BY <1>1, <1>3
<1>5. o + layer_size(o) - i - 1 = o + j
  BY <1>1, <1>3
<1> HIDE DEF j
<1>6. 2 * (o + j) + 1 <= corrected_len + tree_size - 1
  BY <1>1, <1>3, <1>4
<1>7. 2 * (o + j) \in Nodes /\ 2 * (o + j) + 1 \in Nodes /\ o + j \in Nodes
  BY <1>1, <1>4, <1>6, SizeFacts
<1>8. /\ WritesOf("down", o, i) = { 2 * (o + j), 2 * (o + j) + 1 }
      /\ ReadsOf("down", o, i) = { o + j, 2 * (o + j) }
  BY <1>5 DEF WritesOf, ReadsOf, left_child, right_child
<1>9. j = layer_size(o) - i - 1 /\ 2 * j + 1 < 2 * o
  BY <1>1, <1>4 DEF j
<1> QED BY <1>4, <1>5, <1>7, <1>8, <1>9

\* Two iterations of a loop write different nodes, and read none that the other
\* writes (par_prefix_sum's parallel loops).
LEMMA IterationsApart ==
  ASSUME size \in Sizes, NEW h, Level(offset, h),
         (phase = "up" /\ offset > 1) \/ (phase = "down" /\ offset < tree_size),
         NEW i \in Iterations
  PROVE  /\ WritesOf(phase, offset, i) \cup ReadsOf(phase, offset, i) \subseteq Nodes
         /\ \A j \in Iterations \ { i } :
              WritesOf(phase, offset, i) \cap
                (WritesOf(phase, offset, j) \cup ReadsOf(phase, offset, j)) = {}
<1>1. offset \in Nat \ {0}
  BY DEF Level
<1>2. CASE phase = "up" /\ offset > 1
  <2>1. Iterations = UpIterations(offset)
    BY <1>2 DEF Iterations
  <2>2. PICK x \in Nat : /\ i = 2 * x /\ offset \div 2 + x < offset
                         /\ WritesOf("up", offset, i) = { offset \div 2 + x }
                         /\ ReadsOf("up", offset, i) = { offset + 2 * x, offset + 2 * x + 1 }
                         /\ offset + 2 * x \in Nodes /\ offset + 2 * x + 1 \in Nodes
                         /\ offset \div 2 + x \in Nodes
    BY <1>2, <2>1, UpNodes
  <2>3. ASSUME NEW j \in Iterations \ { i }
        PROVE  WritesOf("up", offset, i) \cap
                 (WritesOf("up", offset, j) \cup ReadsOf("up", offset, j)) = {}
    <3>1. PICK y \in Nat : /\ j = 2 * y
                           /\ WritesOf("up", offset, j) = { offset \div 2 + y }
                           /\ ReadsOf("up", offset, j) = { offset + 2 * y, offset + 2 * y + 1 }
      BY <1>2, <2>1, UpNodes
    <3>2. x # y /\ offset \div 2 \in Nat
      BY <1>1, <2>2, <3>1
    <3>3. offset \div 2 + x # offset \div 2 + y /\ offset \div 2 + x # offset + 2 * y
          /\ offset \div 2 + x # offset + 2 * y + 1
      BY <1>1, <2>2, <3>2
    <3> QED BY <2>2, <3>1, <3>3
  <2> QED BY <1>2, <2>2, <2>3
<1>3. CASE phase = "down" /\ offset < tree_size
  <2>1. Iterations = 0 .. layer_size(offset) - 1
    BY <1>3 DEF Iterations
  <2>2. PICK x \in Nat : /\ i = layer_size(offset) - x - 1
                         /\ WritesOf("down", offset, i) = { 2 * (offset + x), 2 * (offset + x) + 1 }
                         /\ ReadsOf("down", offset, i) = { offset + x, 2 * (offset + x) }
                         /\ 2 * (offset + x) \in Nodes /\ 2 * (offset + x) + 1 \in Nodes
                         /\ offset + x \in Nodes
    BY <1>3, <2>1, DownNodes
  <2>3. ASSUME NEW j \in Iterations \ { i }
        PROVE  WritesOf("down", offset, i) \cap
                 (WritesOf("down", offset, j) \cup ReadsOf("down", offset, j)) = {}
    <3>1. PICK y \in Nat : /\ j = layer_size(offset) - y - 1 /\ y < offset
                           /\ WritesOf("down", offset, j) = { 2 * (offset + y), 2 * (offset + y) + 1 }
                           /\ ReadsOf("down", offset, j) = { offset + y, 2 * (offset + y) }
      BY <1>3, <2>1, DownNodes
    <3>2. x # y
      BY <2>2, <3>1
    <3>3. \A u \in { 2 * (offset + x), 2 * (offset + x) + 1 } :
            \A v \in { 2 * (offset + y), 2 * (offset + y) + 1, offset + y } : u # v
      BY <1>1, <2>2, <3>1, <3>2
    <3> QED BY <2>2, <3>1, <3>3
  <2> QED BY <1>3, <2>2, <2>3
<1> QED BY <1>2, <1>3

-----------------------------------------------------------------------------
(* The steps *)

\* While the input stays the same, so do the tree's shape and the sums.
LEMMA SameInput ==
  ASSUME UNCHANGED size
  PROVE  /\ tree_size' = tree_size /\ corrected_len' = corrected_len /\ Nodes' = Nodes
         /\ \A o, h : Level(o, h)' <=> Level(o, h)
         /\ \A h, j : Sum(h, j)' = Sum(h, j) /\ Before(h, j)' = Before(h, j)
         /\ \A o : layer_size(o)' = layer_size(o) /\ UpIterations(o)' = UpIterations(o)
<1>1. tree_size' = tree_size /\ corrected_len' = corrected_len
  BY DEF tree_size, corrected_len
<1> QED BY <1>1 DEF Nodes, Level, Sum, Before, Clip, AtMost, layer_size, UpIterations

\* Within a loop, so do the iterations and their results.
LEMMA SameLoop ==
  ASSUME UNCHANGED << size, phase, offset >>
  PROVE  /\ Span' = Span /\ Iterations' = Iterations
         /\ \A ph, o, i : WritesOf(ph, o, i)' = WritesOf(ph, o, i)
         /\ \A i : Stores(i)' = Stores(i)
<1>1. tree_size' = tree_size
      /\ \A h, j : Sum(h, j)' = Sum(h, j) /\ Before(h, j)' = Before(h, j)
      /\ \A o : layer_size(o)' = layer_size(o) /\ UpIterations(o)' = UpIterations(o)
  BY SameInput
<1>2. Span' = Span /\ Iterations' = Iterations
  BY <1>1 DEF Span, Iterations
<1>3. \A ph, o, i : WritesOf(ph, o, i)' = WritesOf(ph, o, i)
  BY <1>1 DEF WritesOf, parent_of_child, left_child, right_child
<1>4. \A i : Stores(i)' = Stores(i)
  BY <1>1, <1>2, <1>3 DEF Stores
<1> QED BY <1>2, <1>3, <1>4

\* What an iteration stores are sums.
LEMMA StoresFacts ==
  ASSUME size \in Sizes, NEW i \in Iterations, Level(offset, Span),
         (phase = "up" /\ offset > 1) \/ (phase = "down" /\ offset < tree_size)
  PROVE  /\ DOMAIN Stores(i) = WritesOf(phase, offset, i)
         /\ \A node \in WritesOf(phase, offset, i) : Stores(i)[node] \in Seq(Nat)
<1>1. DOMAIN Stores(i) = WritesOf(phase, offset, i)
  BY DEF Stores
<1>2. ASSUME phase = "up", offset > 1, NEW node \in WritesOf(phase, offset, i)
      PROVE  Stores(i)[node] \in Seq(Nat)
  <2>1. PICK j \in Nat : WritesOf("up", offset, i) = { offset \div 2 + j }
    BY <1>2, UpNodes DEF Iterations
  <2>2. node - offset \div 2 = j /\ Span \in Nat /\ 2 * Span \in Nat
    BY <1>2, <2>1 DEF Level
  <2>3. Stores(i)[node] = Sum(2 * Span, j)
    BY <1>2, <2>2 DEF Stores
  <2> QED BY <2>2, <2>3, SumFacts
<1>3. ASSUME phase = "down", offset < tree_size, NEW node \in WritesOf(phase, offset, i)
      PROVE  Stores(i)[node] \in Seq(Nat)
  <2>1. PICK j \in Nat : WritesOf("down", offset, i) = { 2 * (offset + j), 2 * (offset + j) + 1 }
    BY <1>3, DownNodes DEF Iterations
  <2>2. node - 2 * offset \in Nat /\ Span \div 2 \in Nat
    BY <1>3, <2>1 DEF Level
  <2>3. Stores(i)[node] = Before(Span \div 2, node - 2 * offset)
    BY <1>3 DEF Stores
  <2> QED BY <2>2, <2>3, SumFacts
<1> QED BY <1>1, <1>2, <1>3

\* The leaves are the input.
LEMMA InitEstablishes == Init => SumInv
<1> SUFFICES ASSUME Init PROVE SumInv
  OBVIOUS
<1>1. /\ size \in Sizes /\ inclusive \in BOOLEAN /\ phase = "up" /\ offset = tree_size
      /\ tree = [ k \in Nodes |->
                    IF k - tree_size \in 0 .. size - 1 THEN in[k - tree_size] ELSE identity ]
      /\ todo = (IF tree_size = 1 THEN {} ELSE UpIterations(tree_size)) /\ running = {}
  BY DEF Init
<1>2. /\ tree_size \in Nat \ {0} /\ size \in Nat \ {0} /\ size <= tree_size
      /\ corrected_len \in Nat /\ size <= corrected_len
      /\ Nodes = 0 .. corrected_len + tree_size - 1
  BY <1>1, SizeFacts
<1>3. Level(tree_size, 1) /\ Span = 1
  <2>1. Level(tree_size, 1)
    BY <1>2 DEF Level
  <2> QED BY <1>1, <2>1, LevelFacts DEF Span
<1>4. \A k \in 0 .. size - 1 : tree_size + k \in Nodes /\ tree[tree_size + k] = << k >>
  <2> TAKE k \in 0 .. size - 1
  <2>1. tree_size + k \in Nodes /\ (tree_size + k) - tree_size = k
    BY <1>2
  <2> QED BY <1>1, <2>1 DEF in
<1>5. \A k \in Nodes : (k < tree_size \/ k >= tree_size + size) => tree[k] = identity
  BY <1>1, <1>2
<1>6. \A k \in 0 .. size - 1 : Sum(1, k) = << k >>
  <2> TAKE k \in 0 .. size - 1
  <2>1. Clip(k * 1) = k /\ Clip((k + 1) * 1) = k + 1
    BY <1>2 DEF Clip, AtMost
  <2>2. Addends(k, k + 1) \in Seq(Nat) /\ Len(Addends(k, k + 1)) = 1 /\ Addends(k, k + 1)[1] = k
    <3>1. k \in Nat /\ k + 1 \in Nat /\ k <= k + 1 /\ (k + 1) - k = 1
      OBVIOUS
    <3>2. /\ Addends(k, k + 1) \in Seq(Nat) /\ Len(Addends(k, k + 1)) = (k + 1) - k
          /\ \A m \in 1 .. (k + 1) - k : Addends(k, k + 1)[m] = k + m - 1
      BY <3>1, AddendsFacts
    <3> QED BY <3>1, <3>2
  <2> QED BY <2>1, <2>2 DEF Sum
<1>7. tree \in [ Nodes -> Seq(Nat) ]
  <2>1. identity \in Seq(Nat)
    BY EmptySeq DEF identity
  <2>2. \A k \in 0 .. size - 1 : << k >> \in Seq(Nat)
    BY <1>2
  <2>3. \A k \in Nodes : tree[k] \in Seq(Nat)
    <3> TAKE k \in Nodes
    <3>1. CASE k < tree_size \/ k >= tree_size + size
      BY <1>5, <2>1, <3>1
    <3>2. CASE k >= tree_size /\ k < tree_size + size
      <4>1. k - tree_size \in 0 .. size - 1 /\ tree_size + (k - tree_size) = k
        BY <1>2, <3>2
      <4> QED BY <1>4, <2>2, <4>1
    <3> QED BY <1>2, <3>1, <3>2
  <2> QED BY <1>1, <2>3
<1>8. SumsFrom(offset)
  <2> SUFFICES ASSUME NEW o \in 1 .. tree_size, NEW h \in 1 .. tree_size, Level(o, h), o >= offset,
                      NEW j \in 0 .. o - 1, o + j \in Nodes
               PROVE  tree[o + j] = Sum(h, j)
    BY DEF SumsFrom
  <2>1. o = tree_size
    BY <1>1, <1>2
  <2>2. h = 1
    BY <1>2, <2>1 DEF Level
  <2>3. CASE j < size
    <3>1. j \in 0 .. size - 1
      BY <1>2, <2>1, <2>3
    <3>2. tree[tree_size + j] = << j >> /\ Sum(1, j) = << j >>
      BY <1>4, <1>6, <3>1, Zenon
    <3> QED BY <2>1, <2>2, <3>2, Zenon
  <2>4. CASE j >= size
    <3>1. tree[o + j] = identity
      BY <1>2, <1>5, <2>1, <2>4
    <3>2. j * h >= size
      BY <2>2, <2>4
    <3>3. h \in Nat /\ j \in Nat
      OBVIOUS
    <3> QED BY <1>1, <3>1, <3>2, <3>3, SumFacts
  <2> QED BY <1>2, <2>3, <2>4
<1>9. UpInv
  <2>1. \A k \in Nodes : k < offset \div 2 => tree[k] = identity
    BY <1>1, <1>2, <1>5
  <2>2. \A j \in 0 .. offset \div 2 - 1 : tree[offset \div 2 + j] = identity
    <3> TAKE j \in 0 .. offset \div 2 - 1
    <3>1. offset \div 2 + j \in Nodes /\ offset \div 2 + j < tree_size
      BY <1>1, <1>2
    <3> QED BY <1>5, <3>1
  <2> QED BY <1>1, <1>8, <2>1, <2>2 DEF UpInv
<1>10. LoopInv
  <2>1. tree_size > 1 => todo = Iterations
    BY <1>1 DEF Iterations
  <2>2. todo \subseteq Iterations
    BY <1>1 DEF Iterations
  <2> QED BY <1>1, <1>3, <2>1, <2>2 DEF LoopInv
<1> QED BY <1>1, <1>7, <1>9, <1>10 DEF SumInv, DownInv, CopyInv, EqualsSequential

\* An iteration that starts will store what Stores says.
LEMMA StartPreserves ==
  ASSUME SumInv, NEW i \in todo, phase \in { "up", "down" }, Start(i, Stores(i))
  PROVE  SumInv'
<1>1. /\ todo' = todo \ { i } /\ running' = running \cup { Stores(i) }
      /\ UNCHANGED << size, inclusive, tree, out, phase, offset >>
  BY DEF Start
<1>2. /\ size \in Sizes /\ inclusive \in BOOLEAN /\ phase \in { "up", "down", "copy", "done" }
      /\ tree \in [ Nodes -> Seq(Nat) ]
      /\ tree_size = 1 /\ phase = "up" => todo = {} /\ running = {}
      /\ phase \in { "copy", "done" } => todo = {} /\ running = {}
      /\ LoopInv /\ UpInv /\ DownInv /\ CopyInv /\ EqualsSequential
  BY DEF SumInv
<1>3. /\ tree_size' = tree_size /\ corrected_len' = corrected_len /\ Nodes' = Nodes
      /\ \A o, h : Level(o, h)' <=> Level(o, h)
      /\ \A h, j : Sum(h, j)' = Sum(h, j) /\ Before(h, j)' = Before(h, j)
      /\ Span' = Span /\ Iterations' = Iterations
      /\ \A ph, o, x : WritesOf(ph, o, x)' = WritesOf(ph, o, x)
      /\ \A x : Stores(x)' = Stores(x)
  BY <1>1, SameInput, SameLoop
<1>4. LoopInv'
  BY <1>1, <1>2, <1>3 DEF LoopInv
<1>5. UpInv'
  BY <1>1, <1>2, <1>3 DEF UpInv, SumsFrom, identity
<1>6. DownInv'
  BY <1>1, <1>2, <1>3 DEF DownInv, SumsFrom
<1> QED BY <1>1, <1>2, <1>3, <1>4, <1>5, <1>6 DEF SumInv, CopyInv, EqualsSequential

\* UpLoad: the sums of two neighbours make up that of their parent.
LEMMA UpLoadPreserves == SumInv /\ UpLoad => SumInv'
<1> SUFFICES ASSUME SumInv, UpLoad PROVE SumInv'
  OBVIOUS
<1>1. PICK i \in todo :
        /\ phase = "up"
        /\ Start(i, [ node \in { parent_of_child(offset + i) } |->
                        add(tree[offset + i], tree[offset + i + 1]) ])
  BY DEF UpLoad
<1>2. /\ size \in Sizes /\ LoopInv /\ UpInv
      /\ Level(offset, Span) /\ i \in UpIterations(offset) /\ offset > 1
      /\ SumsFrom(offset)
  BY <1>1, SizeFacts DEF SumInv, LoopInv, UpInv, Iterations
<1>3. /\ offset \in 1 .. tree_size /\ Span \in 1 .. tree_size /\ Span \in Nat
      /\ offset \in Nat
  BY <1>2, LevelFacts DEF Level
<1>4. PICK j \in Nat :
        /\ i = 2 * j /\ 2 * j + 1 < offset
        /\ parent_of_child(offset + i) = offset \div 2 + j
        /\ WritesOf("up", offset, i) = { offset \div 2 + j }
        /\ offset + 2 * j \in Nodes /\ offset + 2 * j + 1 \in Nodes
  BY <1>2, UpNodes
<1>5. tree[offset + i] = Sum(Span, 2 * j) /\ tree[offset + i + 1] = Sum(Span, 2 * j + 1)
  <2>1. 2 * j \in 0 .. offset - 1 /\ 2 * j + 1 \in 0 .. offset - 1
        /\ offset + (2 * j + 1) = offset + 2 * j + 1 /\ offset >= offset
    BY <1>3, <1>4
  <2> QED BY <1>2, <1>3, <1>4, <2>1 DEF SumsFrom
<1>6. add(tree[offset + i], tree[offset + i + 1]) = Sum(2 * Span, j)
  BY <1>2, <1>3, <1>5, SumFacts
<1>7. Stores(i) = [ node \in { parent_of_child(offset + i) } |->
                      add(tree[offset + i], tree[offset + i + 1]) ]
  <2>1. (offset \div 2 + j) - offset \div 2 = j
    BY <1>3
  <2> QED BY <1>1, <1>4, <1>6, <2>1 DEF Stores
<1> QED BY <1>1, <1>7, StartPreserves

\* DownLoad: a left child gets what is to the left of its parent, a right child
\* that and what is below its left neighbour.
LEMMA DownLoadPreserves == SumInv /\ DownLoad => SumInv'
<1> SUFFICES ASSUME SumInv, DownLoad PROVE SumInv'
  OBVIOUS
<1>1. PICK i \in todo :
        LET j == layer_size(offset) - i - 1
            from_left == tree[offset + j]
            left_sum == tree[left_child(offset + j)]
        IN  /\ phase = "down"
            /\ Start(i, [ node \in { right_child(offset + j), left_child(offset + j) } |->
                            IF node = right_child(offset + j) THEN add(from_left, left_sum)
                            ELSE from_left ])
  BY DEF DownLoad
<1>2. /\ size \in Sizes /\ LoopInv /\ DownInv
      /\ Level(offset, Span) /\ i \in 0 .. layer_size(offset) - 1 /\ offset < tree_size
      /\ \A x \in 0 .. offset - 1 : tree[offset + x] = Before(Span, x)
      /\ \A node \in WritesOf("down", offset, i) : tree[node] = Sum(Span \div 2, node - 2 * offset)
  BY <1>1 DEF SumInv, LoopInv, DownInv, Iterations
<1>3. offset \in Nat \ {0} /\ Span \in Nat
  BY <1>2 DEF Level
<1>4. PICK h \in Nat \ {0} : Span = 2 * h
  BY <1>2, LevelFacts
<1>5. PICK j \in Nat :
        /\ j = layer_size(offset) - i - 1 /\ j < offset
        /\ WritesOf("down", offset, i) = { 2 * (offset + j), 2 * (offset + j) + 1 }
  BY <1>2, DownNodes
<1>6. tree[offset + j] = Before(h, 2 * j) /\ tree[2 * (offset + j)] = Sum(h, 2 * j)
  <2>1. Span \div 2 = h /\ 2 * (offset + j) - 2 * offset = 2 * j /\ j \in 0 .. offset - 1
    BY <1>3, <1>4, <1>5
  <2>2. tree[offset + j] = Before(2 * h, j)
    BY <1>2, <1>4, <2>1
  <2>3. tree[2 * (offset + j)] = Sum(h, 2 * j)
    BY <1>2, <1>5, <2>1
  <2> QED BY <1>2, <1>4, <2>2, <2>3, SumFacts
<1>7. add(tree[offset + j], tree[2 * (offset + j)]) = Before(h, 2 * j + 1)
  BY <1>2, <1>4, <1>6, SumFacts
<1>8. Stores(i) = [ node \in { 2 * (offset + j) + 1, 2 * (offset + j) } |->
                      IF node = 2 * (offset + j) + 1
                        THEN add(tree[offset + j], tree[2 * (offset + j)])
                        ELSE tree[offset + j] ]
  <2>1. /\ (2 * (offset + j)) - 2 * offset = 2 * j
        /\ (2 * (offset + j) + 1) - 2 * offset = 2 * j + 1
        /\ 2 * (offset + j) # 2 * (offset + j) + 1
        /\ Span \div 2 = h /\ phase # "up"
    BY <1>1, <1>3, <1>4
  <2>2. { 2 * (offset + j), 2 * (offset + j) + 1 } = { 2 * (offset + j) + 1, 2 * (offset + j) }
    OBVIOUS
  <2> DEFINE a == 2 * (offset + j)
             b == 2 * (offset + j) + 1
  <2>3. Stores(i) = [ node \in { b, a } |-> Before(h, node - 2 * offset) ]
    BY <1>1, <1>5, <2>1, <2>2 DEF Stores
  <2>4. /\ Before(h, b - 2 * offset) = add(tree[offset + j], tree[a])
        /\ Before(h, a - 2 * offset) = tree[offset + j]
        /\ a # b
    BY <1>6, <1>7, <2>1
  <2> HIDE DEF a, b
  <2>5. Stores(i) = [ node \in { b, a } |-> IF node = b THEN add(tree[offset + j], tree[a])
                                            ELSE tree[offset + j] ]
    BY <2>3, <2>4
  <2> QED BY <2>5 DEF a, b
<1>9. phase = "down" /\ Start(i, Stores(i))
  BY <1>1, <1>5, <1>8 DEF left_child, right_child
<1> QED BY <1>9, StartPreserves


\* Store: the nodes an iteration writes are its own.
LEMMA StorePreserves == SumInv /\ Store => SumInv'
<1> SUFFICES ASSUME SumInv, Store PROVE SumInv'
  OBVIOUS
<1>1. PICK st \in running :
        /\ tree' = [ k \in Nodes |-> IF k \in DOMAIN st THEN st[k] ELSE tree[k] ]
        /\ running' = running \ { st }
        /\ UNCHANGED << size, inclusive, out, phase, offset, todo >>
  BY DEF Store
<1>2. /\ size \in Sizes /\ inclusive \in BOOLEAN /\ phase \in { "up", "down", "copy", "done" }
      /\ tree \in [ Nodes -> Seq(Nat) ]
      /\ tree_size = 1 /\ phase = "up" => todo = {} /\ running = {}
      /\ phase \in { "copy", "done" } => todo = {} /\ running = {}
      /\ LoopInv /\ UpInv /\ DownInv /\ CopyInv /\ EqualsSequential
  BY DEF SumInv
<1>3. /\ tree_size' = tree_size /\ corrected_len' = corrected_len /\ Nodes' = Nodes
      /\ \A o, h : Level(o, h)' <=> Level(o, h)
      /\ \A h, j : Sum(h, j)' = Sum(h, j) /\ Before(h, j)' = Before(h, j)
      /\ Span' = Span /\ Iterations' = Iterations
      /\ \A ph, o, x : WritesOf(ph, o, x)' = WritesOf(ph, o, x)
      /\ \A x : Stores(x)' = Stores(x)
  BY <1>1, SameInput, SameLoop
<1>4. phase \in { "up", "down" }
  BY <1>1, <1>2
<1>5. /\ tree_size \in Nat \ {0} /\ offset \in Nat \ {0} /\ Span \in Nat \ {0}
      /\ offset \in 1 .. tree_size /\ Level(offset, Span)
  BY <1>2, <1>4, SizeFacts, LevelFacts DEF LoopInv, Level
<1>6. (phase = "up" /\ offset > 1) \/ (phase = "down" /\ offset < tree_size)
  <2>1. phase = "up" => offset > 1
    BY <1>1, <1>2, <1>5 DEF UpInv
  <2>2. phase = "down" => offset < tree_size
    BY <1>2 DEF DownInv
  <2>3. CASE phase = "up"
    BY <1>5, <2>1, <2>3
  <2>4. CASE phase = "down"
    BY <2>2, <2>4
  <2> QED BY <1>4, <2>3, <2>4
<1>7. PICK i \in Iterations \ todo : st = Stores(i)
  BY <1>1, <1>2, <1>4 DEF LoopInv
<1>8. /\ DOMAIN st = WritesOf(phase, offset, i)
      /\ \A node \in WritesOf(phase, offset, i) : st[node] \in Seq(Nat)
      /\ WritesOf(phase, offset, i) \subseteq Nodes
  BY <1>2, <1>5, <1>6, <1>7, StoresFacts, IterationsApart
<1>9. /\ \A k \in WritesOf(phase, offset, i) : tree'[k] = Stores(i)[k]
      /\ \A k \in Nodes \ WritesOf(phase, offset, i) : tree'[k] = tree[k]
      /\ tree' \in [ Nodes -> Seq(Nat) ]
  BY <1>1, <1>2, <1>7, <1>8
<1>10. \A x \in Iterations \ { i } :
         /\ WritesOf(phase, offset, x) \subseteq Nodes \ WritesOf(phase, offset, i)
         /\ \A node \in WritesOf(phase, offset, x) : tree'[node] = tree[node]
  <2> TAKE x \in Iterations \ { i }
  <2>1. /\ WritesOf(phase, offset, x) \subseteq Nodes
        /\ WritesOf(phase, offset, i) \cap WritesOf(phase, offset, x) = {}
    BY <1>2, <1>5, <1>6, <1>7, IterationsApart
  <2> QED BY <1>9, <2>1
<1>11. ASSUME tree_size > 1, NEW x \in Iterations \ todo, Stores(x) \notin running \ { st },
              NEW node \in WritesOf(phase, offset, x)
       PROVE  tree'[node] = Stores(x)[node]
  <2>1. CASE x = i
    BY <1>9, <1>11, <2>1
  <2>2. CASE x # i
    <3>1. tree'[node] = tree[node]
      BY <1>10, <1>11, <2>2
    <3>2. CASE Stores(x) \in running
      <4>1. Stores(x) = Stores(i)
        BY <1>7, <1>11, <3>2
      <4>2. WritesOf(phase, offset, x) = WritesOf(phase, offset, i)
        BY <1>2, <1>5, <1>6, <1>7, <1>11, <4>1, StoresFacts
      <4> QED BY <1>9, <1>11, <4>1, <4>2
    <3>3. CASE Stores(x) \notin running
      BY <1>2, <1>4, <1>11, <3>1, <3>3 DEF LoopInv
    <3> QED BY <3>2, <3>3
  <2> QED BY <2>1, <2>2
<1>12. LoopInv'
  <2>1. \A s \in running' : \E x \in Iterations \ todo : s = Stores(x)
    BY <1>1, <1>2, <1>4 DEF LoopInv
  <2>2. Level(offset, Span)'
    BY <1>1, <1>3, <1>5
  <2>3. todo' \subseteq Iterations'
    BY <1>1, <1>2, <1>3, <1>4 DEF LoopInv
  <2>4. (\A s \in running : \E x \in Iterations \ todo : s = Stores(x))'
    BY <1>1, <1>3, <2>1
  <2>5. (tree_size > 1 =>
          \A x \in Iterations \ todo : Stores(x) \notin running =>
            \A node \in WritesOf(phase, offset, x) : tree[node] = Stores(x)[node])'
    BY <1>1, <1>3, <1>11
  <2> QED BY <2>2, <2>3, <2>4, <2>5 DEF LoopInv
<1>13. ASSUME phase = "up" PROVE UpInv'
  <2>1. PICK j \in Nat :
          /\ 2 * j + 1 < offset /\ 2 * j + 1 < corrected_len
          /\ (offset % 2) = 0 /\ offset \div 2 + j < offset
          /\ WritesOf("up", offset, i) = { offset \div 2 + j }
    BY <1>2, <1>5, <1>6, <1>7, <1>13, UpNodes DEF Iterations
  <2>2. \A k \in Nodes : k # offset \div 2 + j => tree'[k] = tree[k]
    BY <1>9, <1>13, <2>1
  <2>3. ASSUME NEW o \in 1 .. tree_size, NEW h \in 1 .. tree_size, Level(o, h), o >= offset,
               NEW x \in 0 .. o - 1, o + x \in Nodes
        PROVE  tree'[o + x] = Sum(h, x)
    <3>1. o + x # offset \div 2 + j
      BY <1>5, <2>1, <2>3
    <3>2. tree[o + x] = Sum(h, x)
      BY <1>2, <1>13, <2>3 DEF UpInv, SumsFrom
    <3> QED BY <2>2, <2>3, <3>1, <3>2
  <2>4. SumsFrom(offset)'
    BY <1>1, <1>3, <2>3 DEF SumsFrom
  <2>5. ASSUME NEW k \in Nodes, k < offset \div 2 PROVE tree'[k] = identity
    <3>1. k # offset \div 2 + j
      BY <1>5, <2>1, <2>5, SizeFacts, <1>2
    <3> QED BY <1>2, <1>13, <2>2, <2>5, <3>1 DEF UpInv
  <2>6. ASSUME NEW x \in 0 .. offset \div 2 - 1, 2 * x >= corrected_len
        PROVE  tree'[offset \div 2 + x] = identity
    <3>1. offset \div 2 + x # offset \div 2 + j /\ offset \div 2 + x \in Nodes
      <4>1. corrected_len \in Nat /\ Nodes = 0 .. corrected_len + tree_size - 1
        BY <1>2, SizeFacts
      <4>2. offset \div 2 + x <= tree_size - 1 /\ offset \div 2 + x \in Nat
        BY <1>5, <2>1
      <4> QED BY <1>5, <2>1, <2>6, <4>1, <4>2
    <3> QED BY <1>2, <1>13, <2>2, <2>6, <3>1 DEF UpInv
  <2> QED BY <1>1, <1>2, <1>3, <1>13, <2>4, <2>5, <2>6 DEF UpInv, identity
<1>14. ASSUME phase = "down" PROVE DownInv'
  <2>0. offset < tree_size /\ Iterations = 0 .. layer_size(offset) - 1
    BY <1>6, <1>14 DEF Iterations
  <2>1. PICK j \in Nat :
          /\ 2 * j + 1 < 2 * offset /\ j < offset
          /\ WritesOf("down", offset, i) = { 2 * (offset + j), 2 * (offset + j) + 1 }
    <3>1. i \in 0 .. layer_size(offset) - 1
      BY <1>7, <2>0
    <3>2. size \in Sizes /\ Level(offset, Span) /\ offset < tree_size
      BY <1>2, <1>5, <2>0
    <3> QED BY <3>1, <3>2, DownNodes
  <2>2. \A k \in Nodes : k < 2 * offset \/ k >= 4 * offset => tree'[k] = tree[k]
    BY <1>5, <1>9, <1>14, <2>1
  <2>3. ASSUME NEW o \in 1 .. tree_size, NEW h \in 1 .. tree_size, Level(o, h), o >= 2 * offset + 1,
               NEW x \in 0 .. o - 1, o + x \in Nodes
        PROVE  tree'[o + x] = Sum(h, x)
    <3>1. PICK q \in Nat \ {0} : Level(2 * offset, q)
      BY <1>2, <1>5, <2>0, LevelFacts
    <3>2. 2 * (2 * offset) <= o
      <4>1. 2 * offset < o
        BY <1>5, <2>3
      <4> QED BY <1>2, <2>3, <3>1, <4>1, LevelFacts
    <3>3. o + x >= 4 * offset
      BY <1>5, <3>2
    <3>4. tree[o + x] = Sum(h, x)
      BY <1>2, <1>14, <2>3 DEF DownInv, SumsFrom
    <3> QED BY <2>2, <2>3, <3>3, <3>4
  <2>4. SumsFrom(2 * offset + 1)'
    BY <1>1, <1>3, <2>3 DEF SumsFrom
  <2>5. ASSUME NEW x \in 0 .. offset - 1 PROVE tree'[offset + x] = Before(Span, x)
    <3>1. offset + x \in Nodes /\ offset + x < 2 * offset
      <4>1. corrected_len \in Nat /\ Nodes = 0 .. corrected_len + tree_size - 1
        BY <1>2, SizeFacts
      <4>2. PICK q \in Nat \ {0} : Level(2 * offset, q)
        BY <1>2, <1>5, <2>0, LevelFacts
      <4>3. 2 * offset <= tree_size
        BY <1>2, <4>2, LevelFacts
      <4> QED BY <1>5, <4>1, <4>3
    <3> QED BY <1>2, <1>14, <2>2, <3>1 DEF DownInv
  <2>6. \A x \in todo : \A node \in WritesOf(phase, offset, x) :
          tree'[node] = Sum(Span \div 2, node - 2 * offset)
    <3> TAKE x \in todo
    <3>1. x \in Iterations \ { i }
      BY <1>2, <1>4, <1>7 DEF LoopInv
    <3> QED BY <1>2, <1>10, <1>14, <3>1 DEF DownInv
  <2> QED BY <1>1, <1>2, <1>3, <1>14, <2>0, <2>4, <2>5, <2>6 DEF DownInv
<1>15. UpInv' /\ DownInv'
  BY <1>1, <1>4, <1>13, <1>14 DEF UpInv, DownInv
<1> QED
  BY <1>1, <1>2, <1>3, <1>4, <1>9, <1>12, <1>15 DEF SumInv, CopyInv, EqualsSequential

\* UpNext: a level is complete; nodes beyond the iterations have no addends.
LEMMA UpNextPreserves == SumInv /\ UpNext => SumInv'
<1> SUFFICES ASSUME SumInv, UpNext PROVE SumInv'
  OBVIOUS
<1>1. /\ phase = "up" /\ offset > 2 /\ todo = {} /\ running = {}
      /\ offset' = offset \div 2 /\ todo' = UpIterations(offset \div 2)
      /\ UNCHANGED << size, inclusive, tree, out, phase, running >>
  BY DEF UpNext, LoopDone
<1>2. /\ size \in Sizes /\ inclusive \in BOOLEAN /\ tree \in [ Nodes -> Seq(Nat) ]
      /\ Level(offset, Span) /\ UpInv /\ EqualsSequential
      /\ tree_size > 1 =>
           \A i \in Iterations : \A node \in WritesOf(phase, offset, i) : tree[node] = Stores(i)[node]
  BY <1>1 DEF SumInv, LoopInv
<1>3. /\ tree_size' = tree_size /\ corrected_len' = corrected_len /\ Nodes' = Nodes
      /\ \A x, h : Level(x, h)' <=> Level(x, h)
      /\ \A h, j : Sum(h, j)' = Sum(h, j) /\ Before(h, j)' = Before(h, j)
      /\ \A x : UpIterations(x)' = UpIterations(x)
  BY <1>1, SameInput
<1>4. /\ tree_size \in Nat \ {0} /\ corrected_len \in Nat /\ size \in Nat /\ size <= corrected_len
      /\ Nodes = 0 .. corrected_len + tree_size - 1
      /\ offset \in 1 .. tree_size /\ Span \in Nat \ {0} /\ tree_size > 1
  <2>1. offset \in 1 .. tree_size
    BY <1>2, LevelFacts
  <2>2. Span \in Nat \ {0}
    BY <1>2 DEF Level
  <2>3. /\ tree_size \in Nat \ {0} /\ corrected_len \in Nat /\ size \in Nat /\ size <= corrected_len
        /\ Nodes = 0 .. corrected_len + tree_size - 1
    BY <1>2, SizeFacts
  <2> QED BY <1>1, <2>1, <2>2, <2>3
<1>5. PICK o \in Nat \ {0} : offset = 2 * o /\ Level(o, 2 * Span)
  BY <1>1, <1>2, LevelFacts
<1>6. offset \div 2 = o /\ offset' = o /\ o > 1 /\ o < tree_size
  BY <1>1, <1>4, <1>5
<1>7. Span' = 2 * Span /\ Level(offset, Span)'
  <2>1. tree_size \div o = 2 * Span
    BY <1>2, <1>5, LevelFacts
  <2> QED BY <1>3, <1>5, <1>6, <2>1 DEF Span
<1>8. ASSUME NEW j \in 0 .. o - 1 PROVE tree[o + j] = Sum(2 * Span, j)
  <2>1. CASE 2 * j < corrected_len
    <3>1. 2 * j \in UpIterations(offset) /\ Iterations = UpIterations(offset)
      BY <1>1, <1>4, <1>5, <2>1 DEF UpIterations, AtMost, Iterations
    <3>2. WritesOf(phase, offset, 2 * j) = { o + j }
      <4>1. (offset + 2 * j) \div 2 = o + j
        BY <1>5
      <4> QED BY <1>1, <4>1 DEF WritesOf, parent_of_child
    <3>3. tree[o + j] = Stores(2 * j)[o + j]
      BY <1>2, <1>4, <3>1, <3>2
    <3>4. (o + j) - offset \div 2 = j
      BY <1>5, <1>6
    <3> QED BY <1>1, <3>2, <3>3, <3>4 DEF Stores
  <2>2. CASE 2 * j >= corrected_len
    <3>1. tree[o + j] = identity
      BY <1>1, <1>2, <1>6, <2>2 DEF UpInv
    <3>2. j * (2 * Span) >= size
      <4>1. (2 * j) * Span >= 2 * j /\ j * (2 * Span) = (2 * j) * Span
        BY <1>4, SMT
      <4>2. (2 * j) * Span \in Nat /\ 2 * j \in Nat
        BY <1>4
      <4> DEFINE p == (2 * j) * Span
      <4> HIDE DEF p
      <4>3. p >= size
        BY <1>4, <2>2, <4>1, <4>2 DEF p
      <4> QED BY <4>1, <4>3 DEF p
    <3>3. 2 * Span \in Nat /\ j \in Nat
      BY <1>4
    <3>4. Sum(2 * Span, j) = identity
      BY <1>2, <3>2, <3>3, SumFacts
    <3> QED BY <3>1, <3>4
  <2> QED BY <1>4, <2>1, <2>2
<1>9. ASSUME NEW x \in 1 .. tree_size, NEW h \in 1 .. tree_size, Level(x, h), x >= o,
             NEW j \in 0 .. x - 1, x + j \in Nodes
      PROVE  tree[x + j] = Sum(h, j)
  <2>1. CASE x = o
    <3>1. h = 2 * Span
      <4>1. tree_size \div x = h
        BY <1>2, <1>9, LevelFacts
      <4>2. tree_size \div o = 2 * Span
        BY <1>2, <1>5, LevelFacts
      <4> QED BY <2>1, <4>1, <4>2
    <3> QED BY <1>8, <2>1, <3>1
  <2>2. CASE o < x
    <3>1. 2 * o <= x
      BY <1>2, <1>5, <1>9, <2>2, LevelFacts
    <3>2. x >= offset
      BY <1>5, <3>1
    <3> QED BY <1>1, <1>2, <1>9, <3>2 DEF UpInv, SumsFrom
  <2> QED BY <1>5, <1>9, <2>1, <2>2
<1>10. SumsFrom(offset)'
  BY <1>1, <1>3, <1>6, <1>9 DEF SumsFrom
<1>11. \A k \in Nodes : k < offset' => tree[k] = identity
  BY <1>1, <1>2, <1>6 DEF UpInv
<1>12. UpInv'
  <2>1. ASSUME NEW k \in Nodes, k < o \div 2 PROVE tree[k] = identity
    <3>1. k < o
      BY <1>4, <1>5, <2>1
    <3> QED BY <1>6, <1>11, <3>1
  <2>2. ASSUME NEW j \in 0 .. o \div 2 - 1 PROVE tree[o \div 2 + j] = identity
    <3>1. o \div 2 + j \in Nodes /\ o \div 2 + j < o
      BY <1>4, <1>5, <1>6
    <3> QED BY <1>6, <1>11, <3>1
  <2> QED BY <1>1, <1>3, <1>6, <1>10, <2>1, <2>2 DEF UpInv, identity
<1>13. LoopInv'
  <2>1. todo' = Iterations'
    BY <1>1, <1>3, <1>6 DEF Iterations
  <2> QED BY <1>1, <1>7, <2>1 DEF LoopInv
<1>14. tree_size' # 1
  BY <1>3, <1>4
<1>15. phase' = "up" /\ (size \in Sizes)' /\ (inclusive \in BOOLEAN)' /\ tree' \in [ Nodes' -> Seq(Nat) ]
  BY <1>1, <1>2, <1>3
<1>16. DownInv' /\ CopyInv' /\ EqualsSequential'
  BY <1>15 DEF DownInv, CopyInv, EqualsSequential
<1> QED BY <1>12, <1>13, <1>14, <1>15, <1>16 DEF SumInv

\* TurnAround: the root has nothing to its left.
LEMMA TurnAroundPreserves == SumInv /\ TurnAround => SumInv'
<1> SUFFICES ASSUME SumInv, TurnAround PROVE SumInv'
  OBVIOUS
<1>1. /\ phase = "up" /\ offset <= 2 /\ todo = {} /\ running = {}
      /\ tree' = [ tree EXCEPT ![1] = identity ]
      /\ offset' = 1
      /\ phase' = (IF tree_size = 1 THEN "copy" ELSE "down")
      /\ todo' = (IF tree_size = 1 THEN {} ELSE 0 .. layer_size(1) - 1)
      /\ UNCHANGED << size, inclusive, out, running >>
  BY DEF TurnAround, LoopDone
<1>2. /\ size \in Sizes /\ inclusive \in BOOLEAN /\ tree \in [ Nodes -> Seq(Nat) ]
      /\ Level(offset, Span) /\ UpInv
  BY <1>1 DEF SumInv, LoopInv
<1>3. /\ tree_size' = tree_size /\ corrected_len' = corrected_len /\ Nodes' = Nodes
      /\ \A x, h : Level(x, h)' <=> Level(x, h)
      /\ \A h, j : Sum(h, j)' = Sum(h, j) /\ Before(h, j)' = Before(h, j)
      /\ \A x : layer_size(x)' = layer_size(x)
  BY <1>1, SameInput
<1>4. /\ tree_size \in Nat \ {0} /\ corrected_len \in Nat /\ size \in Nat \ {0}
      /\ size <= tree_size /\ corrected_len >= 2
      /\ Nodes = 0 .. corrected_len + tree_size - 1
      /\ offset \in 1 .. tree_size /\ Span \in Nat \ {0}
  <2>1. offset \in 1 .. tree_size
    BY <1>2, LevelFacts
  <2>2. Span \in Nat \ {0}
    BY <1>2 DEF Level
  <2> QED BY <1>2, <2>1, <2>2, SizeFacts
<1>5. /\ 1 \in Nodes /\ tree'[1] = identity
      /\ \A k \in Nodes : k # 1 => tree'[k] = tree[k]
      /\ tree' \in [ Nodes -> Seq(Nat) ]
  <2>1. 1 \in Nodes
    BY <1>4
  <2>2. identity \in Seq(Nat)
    BY EmptySeq DEF identity
  <2> QED BY <1>1, <1>2, <2>1, <2>2
<1>6. Level(1, tree_size) /\ Span' = tree_size
  <2>1. Level(1, tree_size)
    BY <1>4 DEF Level
  <2> QED BY <1>1, <1>2, <1>3, <2>1, LevelFacts DEF Span
<1>7. CASE tree_size = 1
  <2>1. phase' = "copy" /\ todo' = {} /\ running' = {}
    BY <1>1, <1>7
  <2>2. CopyInv'
    <3>1. size' = 1 /\ tree_size' = 1
      BY <1>1, <1>3, <1>4, <1>7
    <3>2. tree'[1] = Before(1, 0)
      BY <1>2, <1>5, SumFacts
    <3>3. \A i \in 0 .. size' - 1 : tree'[tree_size' + i] = Before(1, i)
      BY <3>1, <3>2
    <3> QED BY <1>3, <3>3 DEF CopyInv
  <2> QED
    BY <1>1, <1>2, <1>3, <1>5, <2>1, <2>2
       DEF SumInv, LoopInv, UpInv, DownInv, EqualsSequential
<1>8. CASE tree_size # 1
  <2>1. phase' = "down" /\ todo' = 0 .. layer_size(1) - 1 /\ running' = {}
    BY <1>1, <1>8
  <2>2. offset = 2 /\ SumsFrom(2)
    <3>1. offset > 1
      BY <1>1, <1>2, <1>4, <1>8 DEF UpInv
    <3>2. offset = 2
      BY <1>1, <1>4, <3>1
    <3> QED BY <1>1, <1>2, <3>2 DEF UpInv
  <2>3. PICK h \in Nat \ {0} : tree_size = 2 * h /\ Level(2, h)
    <3>1. 1 < tree_size /\ 2 * 1 = 2
      BY <1>4, <1>8
    <3> QED BY <1>2, <1>6, <3>1, LevelFacts
  <2>4. ASSUME NEW x \in 1 .. tree_size, NEW g \in 1 .. tree_size, Level(x, g), x >= 2,
               NEW j \in 0 .. x - 1, x + j \in Nodes
        PROVE  tree'[x + j] = Sum(g, j)
    <3>1. x + j # 1
      BY <2>4
    <3> QED BY <1>5, <2>2, <2>4, <3>1 DEF SumsFrom
  <2>5. SumsFrom(2 * offset + 1)'
    <3>1. 2 * offset' + 1 = 3
      BY <1>1
    <3>2. \A x \in 1 .. tree_size : x >= 3 => x >= 2
      BY <1>4
    <3> QED BY <1>1, <1>3, <2>4, <3>1, <3>2 DEF SumsFrom
  <2>6. \A j \in 0 .. offset' - 1 : tree'[offset' + j] = Before(Span', j)
    <3>1. Before(tree_size, 0) = identity
      BY <1>2, <1>4, SumFacts
    <3>2. \A j \in 0 .. 1 - 1 : j = 0 /\ 1 + j = 1
      OBVIOUS
    <3> QED BY <1>1, <1>5, <1>6, <3>1, <3>2
  <2>7. ASSUME NEW i \in todo', NEW node \in WritesOf("down", 1, i)
        PROVE  tree'[node] = Sum(h, node - 2)
    <3>1. 1 < tree_size /\ i \in 0 .. layer_size(1) - 1
      BY <1>4, <1>8, <2>1, <2>7
    <3>2. PICK j \in Nat : /\ 2 * j + 1 < 2 * 1
                           /\ WritesOf("down", 1, i) = { 2 * (1 + j), 2 * (1 + j) + 1 }
                           /\ 2 * (1 + j) \in Nodes /\ 2 * (1 + j) + 1 \in Nodes
      BY <1>2, <1>6, <3>1, DownNodes
    <3>3. node \in { 2, 3 } /\ node \in Nodes
      BY <2>7, <3>2
    <3>4. node - 2 \in 0 .. 2 - 1 /\ 2 + (node - 2) = node
      BY <3>3
    <3>5. 2 \in 1 .. tree_size /\ h \in 1 .. tree_size
      BY <1>4, <2>3
    <3> QED BY <2>3, <2>4, <3>3, <3>4, <3>5
  <2>8. \A i \in todo' : \A node \in WritesOf(phase, offset, i)' :
          tree'[node] = Sum(Span' \div 2, node - 2 * offset')
    <3>1. \A i : WritesOf("down", 1, i)' = WritesOf("down", 1, i)
      BY <1>3 DEF WritesOf, left_child, right_child
    <3>2. \A i : WritesOf(phase, offset, i)' = WritesOf("down", 1, i)
      BY <1>1, <1>3, <2>1 DEF WritesOf, left_child, right_child
    <3>3. Span' \div 2 = h /\ 2 * offset' = 2
      BY <1>1, <1>6, <2>3
    <3> QED BY <2>7, <3>2, <3>3
  <2>9. DownInv'
    <3>1. offset' < tree_size'
      BY <1>1, <1>3, <1>4, <1>8
    <3> QED BY <1>3, <2>5, <2>6, <2>8, <3>1 DEF DownInv
  <2>10. LoopInv'
    <3>1. todo' = Iterations'
      BY <1>1, <1>3, <2>1 DEF Iterations
    <3>2. Level(offset, Span)'
      BY <1>1, <1>3, <1>6
    <3> QED BY <2>1, <3>1, <3>2 DEF LoopInv
  <2> QED
    BY <1>1, <1>2, <1>3, <1>5, <2>1, <2>9, <2>10 DEF SumInv, UpInv, CopyInv, EqualsSequential
<1> QED BY <1>7, <1>8

\* DownNext: a level is complete; the next one's children still have what the up
\* pass left in them.
LEMMA DownNextPreserves == SumInv /\ DownNext => SumInv'
<1> SUFFICES ASSUME SumInv, DownNext PROVE SumInv'
  OBVIOUS
<1> DEFINE next == 2 * offset
<1>1. /\ phase = "down" /\ todo = {} /\ running = {}
      /\ offset' = next
      /\ phase' = (IF next = tree_size THEN "copy" ELSE "down")
      /\ todo' = (IF next = tree_size THEN {} ELSE 0 .. layer_size(next) - 1)
      /\ UNCHANGED << size, inclusive, tree, out, running >>
  BY DEF DownNext, LoopDone
<1>2. /\ size \in Sizes /\ inclusive \in BOOLEAN /\ tree \in [ Nodes -> Seq(Nat) ]
      /\ Level(offset, Span) /\ offset < tree_size /\ SumsFrom(next + 1)
      /\ tree_size > 1 =>
           \A i \in Iterations : \A node \in WritesOf("down", offset, i) : tree[node] = Stores(i)[node]
  BY <1>1 DEF SumInv, LoopInv, DownInv
<1>3. /\ tree_size' = tree_size /\ corrected_len' = corrected_len /\ Nodes' = Nodes
      /\ \A x, h : Level(x, h)' <=> Level(x, h)
      /\ \A h, j : Sum(h, j)' = Sum(h, j) /\ Before(h, j)' = Before(h, j)
      /\ \A x : layer_size(x)' = layer_size(x)
  BY <1>1, SameInput
<1>4. /\ tree_size \in Nat \ {0} /\ tree_size > 1 /\ offset \in Nat \ {0}
      /\ size \in Nat \ {0} /\ corrected_len \in { size, size + 1 } /\ (corrected_len % 2) = 0
      /\ Iterations = 0 .. layer_size(offset) - 1
  <2>1. offset \in Nat \ {0}
    BY <1>2 DEF Level
  <2> QED BY <1>1, <1>2, <2>1, SizeFacts DEF Iterations
<1>5. PICK h \in Nat \ {0} : Span = 2 * h /\ Level(next, h)
  BY <1>2, LevelFacts
<1>6. next \in Nat \ {0} /\ Span \div 2 = h /\ tree_size \div next = h
  BY <1>2, <1>4, <1>5, LevelFacts
<1>7. ASSUME NEW k \in Nat, k < 2 * layer_size(offset)
      PROVE  tree[next + k] = Before(h, k)
  <2> DEFINE j == k \div 2
             i == layer_size(offset) - j - 1
  <2>1. layer_size(offset) \in Nat
    BY <1>4 DEF layer_size
  <2>2. j \in Nat /\ (k = 2 * j \/ k = 2 * j + 1) /\ j < layer_size(offset)
    BY <1>7, <2>1
  <2>3. i \in Iterations
    BY <1>4, <2>1, <2>2
  <2>4. offset + layer_size(offset) - i - 1 = offset + j
    BY <1>4, <2>1, <2>2
  <2>5. WritesOf("down", offset, i) = { 2 * (offset + j), 2 * (offset + j) + 1 }
    BY <2>4 DEF WritesOf, left_child, right_child
  <2>6. next + k \in WritesOf("down", offset, i)
    BY <1>4, <2>2, <2>5
  <2> HIDE DEF i, j
  <2>7. tree[next + k] = Stores(i)[next + k]
    BY <1>2, <1>4, <2>3, <2>6
  <2>8. (next + k) - 2 * offset = k
    BY <1>4
  <2> QED BY <1>1, <1>6, <2>6, <2>7, <2>8 DEF Stores
<1>8. CASE next = tree_size
  <2>1. phase' = "copy" /\ todo' = {} /\ running' = {}
    BY <1>1, <1>8
  <2>2. h = 1
    BY <1>4, <1>6, <1>8
  <2>3. 2 * layer_size(offset) = corrected_len
    <3>1. offset = tree_size \div 2
      BY <1>4, <1>8
    <3>2. layer_size(offset) = corrected_len \div 2
      BY <3>1 DEF layer_size
    <3> QED BY <1>4, <3>2
  <2>4. \A i \in 0 .. size - 1 : tree[tree_size + i] = Before(1, i)
    <3> TAKE i \in 0 .. size - 1
    <3>1. i \in Nat /\ i < 2 * layer_size(offset)
      BY <1>4, <2>3
    <3> QED BY <1>7, <1>8, <2>2, <3>1
  <2>5. CopyInv'
    BY <1>1, <1>3, <2>4 DEF CopyInv
  <2> QED
    BY <1>1, <1>2, <1>3, <2>1, <2>5 DEF SumInv, LoopInv, UpInv, DownInv, EqualsSequential
<1>9. CASE next # tree_size
  <2>1. phase' = "down" /\ todo' = 0 .. layer_size(next) - 1 /\ running' = {}
    BY <1>1, <1>9
  <2>2. next < tree_size
    <3>1. next <= tree_size
      <4>1. next \in 1 .. tree_size
        BY <1>2, <1>5, LevelFacts
      <4> QED BY <1>4, <4>1
    <3> QED BY <1>4, <1>6, <1>9, <3>1
  <2>3. layer_size(offset) = offset
    <3>1. offset # tree_size \div 2
      <4>1. (tree_size % 2) = 0
        BY <1>2, <1>4, SizeFacts
      <4> QED BY <1>4, <1>9, <4>1
    <3> QED BY <3>1 DEF layer_size
  <2>4. Span' = h /\ Level(offset, Span)'
    BY <1>1, <1>3, <1>5, <1>6 DEF Span
  <2>5. PICK g \in Nat \ {0} : h = 2 * g /\ Level(2 * next, g)
    BY <1>2, <1>5, <2>2, LevelFacts
  <2>6. SumsFrom(2 * offset + 1)'
    <3>1. 2 * offset' + 1 = 2 * next + 1
      BY <1>1
    <3>2. \A x \in 1 .. tree_size : x >= 2 * next + 1 => x >= next + 1
      BY <1>4, <1>6
    <3> QED BY <1>1, <1>2, <1>3, <3>1, <3>2 DEF SumsFrom
  <2>7. \A j \in 0 .. next - 1 : tree[next + j] = Before(h, j)
    <3> TAKE j \in 0 .. next - 1
    <3>1. j \in Nat /\ j < 2 * layer_size(offset)
      BY <1>4, <2>3
    <3> QED BY <1>7, <3>1
  <2>8. ASSUME NEW i \in todo', NEW node \in WritesOf("down", next, i)
        PROVE  tree[node] = Sum(g, node - 2 * next)
    <3>1. i \in 0 .. layer_size(next) - 1
      BY <2>1
    <3>2. PICK j \in Nat : /\ 2 * j + 1 < 2 * next
                           /\ WritesOf("down", next, i) = { 2 * (next + j), 2 * (next + j) + 1 }
                           /\ 2 * (next + j) \in Nodes /\ 2 * (next + j) + 1 \in Nodes
      BY <1>2, <1>5, <2>2, <3>1, DownNodes
    <3>3. node - 2 * next \in 0 .. 2 * next - 1 /\ 2 * next + (node - 2 * next) = node
          /\ node \in Nodes /\ 2 * next >= next + 1
      BY <1>6, <2>8, <3>2
    <3>4. 2 * next \in 1 .. tree_size /\ g \in 1 .. tree_size
      BY <1>2, <2>5, LevelFacts
    <3> HIDE DEF next
    <3> QED BY <1>2, <2>5, <3>3, <3>4 DEF SumsFrom
  <2>9. \A i \in todo' : \A node \in WritesOf(phase, offset, i)' :
          tree'[node] = Sum(Span' \div 2, node - 2 * offset')
    <3>1. \A i : WritesOf(phase, offset, i)' = WritesOf("down", next, i)
      BY <1>1, <1>3, <2>1 DEF WritesOf, left_child, right_child
    <3>2. Span' \div 2 = g
      BY <2>4, <2>5
    <3> QED BY <1>1, <2>8, <3>1, <3>2
  <2>10. DownInv'
    <3>1. offset' < tree_size'
      BY <1>1, <1>3, <2>2
    <3> QED BY <1>1, <1>3, <2>4, <2>6, <2>7, <2>9, <3>1 DEF DownInv
  <2>11. LoopInv'
    <3>1. todo' = Iterations'
      BY <1>1, <1>3, <2>1 DEF Iterations
    <3> QED BY <2>1, <2>4, <3>1 DEF LoopInv
  <2> QED
    BY <1>1, <1>2, <1>3, <2>1, <2>10, <2>11 DEF SumInv, UpInv, CopyInv, EqualsSequential
<1> QED BY <1>8, <1>9

\* CopyOut: the leaves have become the result.
LEMMA CopyOutPreserves == SumInv /\ CopyOut => SumInv'
<1> SUFFICES ASSUME SumInv, CopyOut PROVE SumInv'
  OBVIOUS
<1>1. /\ phase = "copy" /\ phase' = "done"
      /\ out' = [ i \in 0 .. size - 1 |->
                    IF inclusive THEN add(in[i], tree[tree_size + i])
                    ELSE tree[tree_size + i] ]
      /\ UNCHANGED << size, inclusive, tree, offset, todo, running >>
  BY DEF CopyOut
<1>2. /\ size \in Sizes /\ inclusive \in BOOLEAN /\ tree \in [ Nodes -> Seq(Nat) ]
      /\ todo = {} /\ running = {}
      /\ \A i \in 0 .. size - 1 : tree[tree_size + i] = Before(1, i)
  BY <1>1 DEF SumInv, CopyInv
<1>3. size \in Nat \ {0}
  BY <1>2, SizeFacts
<1>4. \A i \in 0 .. size - 1 : tree[tree_size + i] = Addends(0, i)
  <2> TAKE i \in 0 .. size - 1
  <2>1. Clip(i * 1) = i
    BY <1>3 DEF Clip, AtMost
  <2> QED BY <1>2, <2>1 DEF Before
<1>5. ASSUME NEW i \in 0 .. size - 1, inclusive
      PROVE  Len(out'[i]) = i + 1 /\ \A k \in 0 .. i : \E j \in 1 .. i + 1 : out'[i][j] = k
  <2> DEFINE a == Addends(0, i)
             b == << i >>
  <2>1. i \in Nat /\ 0 <= i
    BY <1>3
  <2>2. a \in Seq(Nat) /\ Len(a) = i /\ \A k \in 1 .. i : a[k] = k - 1
    <3>1. /\ a \in Seq(Nat) /\ Len(a) = i - 0
          /\ \A k \in 1 .. i - 0 : a[k] = 0 + k - 1
      BY <2>1, AddendsFacts
    <3> QED BY <2>1, <3>1
  <2>3. b \in Seq(Nat) /\ Len(b) = 1 /\ b[1] = i
    BY <2>1
  <2>4. out'[i] = b \o a
    BY <1>1, <1>4, <1>5 DEF add, in
  <2> HIDE DEF a, b
  <2>5. /\ Len(b \o a) = Len(b) + Len(a)
        /\ \A k \in 1 .. Len(b) + Len(a) :
             (b \o a)[k] = IF k <= Len(b) THEN b[k] ELSE a[k - Len(b)]
    BY <2>2, <2>3, ConcatProperties
  <2>6. Len(b \o a) = i + 1 /\ (b \o a)[1] = i
    BY <2>1, <2>2, <2>3, <2>5
  <2>7. ASSUME NEW k \in 0 .. i PROVE \E j \in 1 .. i + 1 : (b \o a)[j] = k
    <3>1. CASE k = i
      BY <2>1, <2>6, <3>1
    <3>2. CASE k < i
      <4>1. k + 2 \in 1 .. Len(b) + Len(a) /\ ~(k + 2 <= Len(b)) /\ (k + 2) - Len(b) = k + 1
        BY <2>1, <2>2, <2>3, <3>2
      <4>2. (b \o a)[k + 2] = a[k + 1]
        BY <2>5, <4>1
      <4>3. a[k + 1] = k /\ k + 2 \in 1 .. i + 1
        BY <2>1, <2>2, <3>2
      <4> QED BY <4>2, <4>3
    <3>3. k = i \/ k < i
      BY <2>1
    <3> QED BY <3>1, <3>2, <3>3, Zenon
  <2> QED BY <2>4, <2>6, <2>7
<1>6. ASSUME NEW i \in 0 .. size - 1, ~inclusive PROVE out'[i] = Addends(0, i)
  BY <1>1, <1>4, <1>6
<1>7. EqualsSequential'
  <2> SUFFICES ASSUME NEW i \in 0 .. size - 1
               PROVE  IF inclusive
                        THEN /\ Len(out'[i]) = i + 1
                             /\ \A k \in 0 .. i : \E j \in 1 .. i + 1 : out'[i][j] = k
                        ELSE out'[i] = Addends(0, i)
    BY <1>1 DEF EqualsSequential, Addends
  <2>1. CASE inclusive
    BY <1>5, <2>1
  <2>2. CASE ~inclusive
    BY <1>6, <2>2
  <2> QED BY <2>1, <2>2
<1>8. Nodes' = Nodes
  BY <1>1, SameInput
<1> QED BY <1>1, <1>2, <1>7, <1>8 DEF SumInv, LoopInv, UpInv, DownInv, CopyInv

\* Every step preserves the invariant.
LEMMA NextPreserves == SumInv /\ [Next]_vars => SumInv'
<1> SUFFICES ASSUME SumInv, [Next]_vars PROVE SumInv'
  OBVIOUS
<1>1. CASE UNCHANGED vars
  <2>1. UNCHANGED << size, inclusive, tree, out, phase, offset, todo, running >>
    BY <1>1 DEF vars
  <2>2. /\ tree_size' = tree_size /\ corrected_len' = corrected_len /\ Nodes' = Nodes
        /\ \A o, h : Level(o, h)' <=> Level(o, h)
        /\ \A h, j : Sum(h, j)' = Sum(h, j) /\ Before(h, j)' = Before(h, j)
        /\ Span' = Span /\ Iterations' = Iterations
        /\ \A ph, o, x : WritesOf(ph, o, x)' = WritesOf(ph, o, x)
        /\ \A x : Stores(x)' = Stores(x)
    BY <2>1, SameInput, SameLoop
  <2>3. LoopInv'
    BY <2>1, <2>2 DEF SumInv, LoopInv
  <2>4. UpInv' /\ DownInv' /\ CopyInv'
    BY <2>1, <2>2 DEF SumInv, UpInv, DownInv, CopyInv, SumsFrom, identity
  <2>5. EqualsSequential'
    BY <2>1 DEF SumInv, EqualsSequential, Addends
  <2> QED BY <2>1, <2>2, <2>3, <2>4, <2>5 DEF SumInv
<1>2. CASE Terminating
  BY <1>1, <1>2 DEF Terminating
<1> QED
  BY <1>1, <1>2, UpLoadPreserves, DownLoadPreserves, StorePreserves, UpNextPreserves,
     TurnAroundPreserves, DownNextPreserves, CopyOutPreserves DEF Next

-----------------------------------------------------------------------------
(* The theorems *)

\* Every level of the tree has what the passes over it have left there, whatever
\* the order in which the iterations of a loop load and store.
THEOREM SumInvariance == Spec => []SumInv
<1>1. Init => SumInv
  BY InitEstablishes
<1>2. SumInv /\ [Next]_vars => SumInv'
  BY NextPreserves
<1> QED BY <1>1, <1>2, PTL DEF Spec

\* par_prefix_sum's result is that of the sequential prefix sum, for an operation
\* that need not be commutative if the sums are exclusive.
THEOREM PrefixSumsCorrect == Spec => []EqualsSequential
<1>1. SumInv => EqualsSequential
  BY DEF SumInv
<1> QED BY <1>1, SumInvariance, PTL

\* The iterations of a parallel loop stay in the array and out of each other's
\* way (the loops of par_prefix_sum have no locks).
THEOREM LoopsRaceFree == Spec => []IterationsIndependent
<1>1. SumInv => IterationsIndependent
  <2> SUFFICES ASSUME SumInv, phase \in { "up", "down" }, todo # {}, NEW i \in todo
               PROVE  /\ WritesOf(phase, offset, i) \cup ReadsOf(phase, offset, i) \subseteq Nodes
                      /\ \A j \in todo \ { i } :
                           WritesOf(phase, offset, i) \cap
                             (WritesOf(phase, offset, j) \cup ReadsOf(phase, offset, j)) = {}
    BY DEF IterationsIndependent
  <2>1. /\ size \in Sizes /\ LoopInv /\ UpInv /\ DownInv
        /\ phase = "up" => tree_size # 1
    BY DEF SumInv
  <2>2. Level(offset, Span) /\ todo \subseteq Iterations
    BY <2>1 DEF LoopInv
  <2>3. tree_size \in Nat \ {0}
    BY <2>1, SizeFacts
  <2>4. offset \in Nat /\ (phase = "up" => offset > 1)
    BY <2>1, <2>2, <2>3 DEF UpInv, Level
  <2>5. phase = "down" => offset < tree_size
    BY <2>1 DEF DownInv
  <2>6. (phase = "up" /\ offset > 1) \/ (phase = "down" /\ offset < tree_size)
    <3>1. CASE phase = "up"
      BY <2>4, <3>1
    <3>2. CASE phase = "down"
      BY <2>5, <3>2
    <3> QED BY <3>1, <3>2
  <2>7. i \in Iterations
    BY <2>2
  <2> QED BY <2>1, <2>2, <2>6, <2>7, IterationsApart
<1> QED BY <1>1, SumInvariance, PTL

-----------------------------------------------------------------------------
(* The sums in place: multiples of powers of two *)

\* The smaller of two powers of two divides half of the larger one.
LEMMA PowersNest ==
  ASSUME NEW d \in Nat \ {0}, NEW e \in Nat, d < e, is_power_of_two(d), is_power_of_two(e)
  PROVE  \E h \in Nat \ {0} : e = (2 * h) * d
<1> DEFINE Bad == { x \in Nat : d < x /\ is_power_of_two(x) /\ \A h \in Nat \ {0} : x # (2 * h) * d }
<1>1. ASSUME Bad # {} PROVE FALSE
  <2>1. PICK x \in Bad : \A y \in Bad : x <= y
    <3>1. Bad \subseteq Nat
      OBVIOUS
    <3> HIDE DEF Bad
    <3> QED BY <1>1, <3>1, Smallest
  <2>2. x \in Nat /\ d < x /\ is_power_of_two(x) /\ \A h \in Nat \ {0} : x # (2 * h) * d
    OBVIOUS
  <2>3. PICK q \in Nat : q >= 1 /\ x = 2 * q /\ is_power_of_two(q)
    BY <2>2, PowerHalf
  <2>4. d <= q
    <3>1. 2 * d <= x
      BY <2>2, PowersApart
    <3> QED BY <2>3, <3>1
  <2>5. d # q
    <3>1. x # (2 * 1) * d
      BY <2>2
    <3> QED BY <2>3, <3>1
  <2>6. q \notin Bad
    BY <2>1, <2>2, <2>3
  <2>7. PICK h \in Nat \ {0} : q = (2 * h) * d
    BY <2>3, <2>4, <2>5, <2>6
  <2>8. x = (2 * (2 * h)) * d /\ 2 * h \in Nat \ {0}
    BY <2>3, <2>7
  <2> QED BY <2>2, <2>8
<1> QED BY <1>1

\* An odd multiple of d is no multiple of an even multiple of d.
LEMMA OddApart ==
  ASSUME NEW d \in Nat \ {0}, NEW h \in Nat, NEW i \in Nat, NEW j \in Nat, i % 2 = 1
  PROVE  i * d # j * ((2 * h) * d)
<1> SUFFICES ASSUME i * d = j * ((2 * h) * d) PROVE FALSE
  OBVIOUS
<1> DEFINE k == j * (2 * h)
<1>1. k \in Nat /\ k = 2 * (j * h) /\ j * h \in Nat
  OBVIOUS
<1>2. i * d = d * k /\ i * d = d * i
  OBVIOUS
<1>3. i = k
  <2>1. (d * i) \div d = i /\ (d * k) \div d = k
    <3> HIDE DEF k
    <3> QED BY <1>1, Divides
  <2> QED BY <1>2, <2>1
<1> QED BY <1>1, <1>3

\* Multiplication keeps order.
LEMMA TimesOrder ==
  ASSUME NEW f \in Nat \ {0}, NEW a \in Nat, NEW b \in Nat
  PROVE  /\ a <= b <=> a * f <= b * f
         /\ a = b <=> a * f = b * f
         /\ (a + 1) * f = a * f + f
         /\ a * f \in Nat
<1>1. ASSUME NEW x \in Nat, NEW y \in Nat, x < y PROVE x * f < y * f
  <2> DEFINE c == y - x
  <2>1. c \in Nat \ {0} /\ y = x + c
    BY <1>1
  <2> HIDE DEF c
  <2> DEFINE u == x * f
             v == c * f
  <2>2. y * f = u + v
    BY <2>1
  <2>3. v > 0 /\ v \in Nat /\ u \in Nat
    BY <2>1
  <2>4. u < u + v
    <3> HIDE DEF u, v
    <3> QED BY <2>3
  <2> QED BY <2>2, <2>4
<1>2. a < b => a * f < b * f
  BY <1>1
<1>3. b < a => b * f < a * f
  BY <1>1
<1>4. a * f \in Nat /\ b * f \in Nat /\ (a + 1) * f = a * f + f
  OBVIOUS
<1> QED BY <1>2, <1>3, <1>4

\* The places of stride f in the input.
LEMMA PlacesOfStride ==
  ASSUME NEW n \in Nat, NEW f \in Nat \ {0}
  PROVE  /\ n \div f \in Nat
         /\ \A i \in Nat : i <= n \div f <=> i * f <= n
<1> DEFINE q == n \div f
<1>1. q \in Nat /\ q * f <= n /\ n < q * f + f
  BY SMT
<1> HIDE DEF q
<1>2. ASSUME NEW i \in Nat PROVE i <= q <=> i * f <= n
  <2>1. i <= q => i * f <= q * f
    BY <1>1, TimesOrder
  <2>2. q + 1 <= i => (q + 1) * f <= i * f
    <3>1. q + 1 \in Nat
      BY <1>1
    <3> QED BY <3>1, TimesOrder
  <2>3. (q + 1) * f = q * f + f /\ q * f \in Nat /\ i * f \in Nat
    BY <1>1, TimesOrder
  <2> QED BY <1>1, <2>1, <2>2, <2>3
<1> QED BY <1>1, <1>2 DEF q

-----------------------------------------------------------------------------
(* The sums in place: the inductive invariant                              *)
(*                                                                         *)
(* The element at the end of i * d elements, d a power of two and i odd,   *)
(* gets the sum of the last d of them at the level of stride d; no later   *)
(* level touches it on the way into the recursion.  On the way out of it,  *)
(* the level of stride 2 * d completes it, with the sum of what is before  *)
(* those d elements.                                                       *)

\* Sums of pairs that have no part in the levels of stride e or more.
OddSums(e) ==
  \A d, i \in 1 .. size :
    is_power_of_two(d) /\ d < e /\ i % 2 = 1 /\ i * d <= size =>
      array[i * d - 1] = Addends(i * d - d, i * d)

\* The elements of stride e, on the way into the recursion and out of it.
PairSums(e) ==
  \A i \in 1 .. size : i * e <= size => array[i * e - 1] = Addends(i * e - e, i * e)

Prefixes(e) ==
  \A i \in 1 .. size : i * e <= size => array[i * e - 1] = Addends(0, i * e)

\* The iterations of the current loop, where they store, and what.
EffIterations ==
  IF stage = "pairs" THEN 1 .. number_of_even_idx
  ELSE IF stage = "complete" THEN 1 .. number_of_even_idx - 1
  ELSE 2 .. size - 1

Place(i) ==
  IF stage = "pairs" THEN i * factor - 1
  ELSE IF stage = "complete" THEN i * factor + prev_factor - 1
  ELSE i

Value(i) ==
  IF stage = "pairs" THEN Addends(i * factor - factor, i * factor)
  ELSE IF stage = "complete" THEN Addends(0, i * factor + prev_factor)
  ELSE Addends(0, i)

\* The iterations are in eff_todo, in eff_running, or have stored.
EffLoopInv ==
  IF stage \in { "pairs", "complete", "shift" }
    THEN /\ eff_todo \subseteq EffIterations
         /\ \A st \in eff_running : \E i \in EffIterations \ eff_todo : st = << Place(i), Value(i) >>
         /\ \A i \in EffIterations \ eff_todo :
              << Place(i), Value(i) >> \notin eff_running => array[Place(i)] = Value(i)
    ELSE eff_todo = {} /\ eff_running = {}

\* A call begins with what the level before has left.
EnterInv ==
  stage = "enter" => prev_factor <= size /\ OddSums(prev_factor) /\ PairSums(prev_factor)

\* A pair that no iteration has taken has its two sums of the level before.
PairsInv ==
  stage = "pairs" =>
    /\ factor <= size
    /\ OddSums(factor)
    /\ \A i \in eff_todo :
         array[i * factor - 1] = Addends(i * factor - prev_factor, i * factor)

\* The recursive call has summed the elements of the stride.
ReturnInv ==
  stage = "return" => factor <= size /\ OddSums(factor) /\ Prefixes(factor)

\* Whether or not the last element of the level has a partner, it is still to
\* be completed.
CompleteInv ==
  stage = "complete" =>
    /\ factor <= size
    /\ factor = 2 => inclusive
    /\ OddSums(prev_factor)
    /\ Prefixes(factor)
    /\ array[prev_factor - 1] = Addends(0, prev_factor)
    /\ \A i \in eff_todo \cup { number_of_even_idx } :
         i * factor + prev_factor <= size =>
           array[i * factor + prev_factor - 1] = Addends(i * factor, i * factor + prev_factor)

\* The copy has every sum that the shift reads.
ShiftInv ==
  stage = "shift" =>
    /\ factor = 2 /\ size >= 2 /\ ~inclusive
    /\ array[0] = Addends(0, 0) /\ array[1] = Addends(0, 1)
    /\ \A i \in 2 .. size - 1 :
         IF i % 2 = 0 THEN tmp[i - 1] = Addends(0, i)
         ELSE tmp[i - 2] = Addends(0, i - 1) /\ tmp[i - 1] = Addends(i - 1, i)

\* The inductive invariant of the sums in place.
EffInv ==
  /\ size \in Sizes /\ inclusive \in BOOLEAN
  /\ stage \in { "enter", "pairs", "return", "complete", "shift", "done" }
  /\ array \in [ 0 .. size - 1 -> Seq(Nat) ]
  /\ stage # "done" => factor \in Nat /\ factor >= 2 /\ is_power_of_two(factor)
  /\ EffLoopInv /\ EnterInv /\ PairsInv /\ ReturnInv /\ CompleteInv /\ ShiftInv
  /\ InPlaceEqualsSequential

-----------------------------------------------------------------------------
(* The sums in place: the steps *)

\* The stride of the level before is half the stride, a power of two as well.
LEMMA FactorFacts ==
  ASSUME factor \in Nat, factor >= 2, is_power_of_two(factor)
  PROVE  /\ prev_factor \in Nat \ {0} /\ factor \in Nat \ {0}
         /\ factor = 2 * prev_factor
         /\ is_power_of_two(prev_factor) /\ is_power_of_two(2 * factor)
<1>1. PICK q \in Nat : q >= 1 /\ factor = 2 * q /\ is_power_of_two(q)
  BY PowerHalf
<1>2. prev_factor = q
  BY <1>1 DEF prev_factor
<1>3. is_power_of_two(2 * factor)
  BY PowerTwice
<1> QED BY <1>1, <1>2, <1>3

\* The iterations of a loop store at different places, in the array.
LEMMA PlaceFacts ==
  ASSUME size \in Sizes, factor \in Nat, factor >= 2, is_power_of_two(factor),
         stage \in { "pairs", "complete", "shift" }, NEW i \in EffIterations
  PROVE  /\ i \in Nat \ {0} /\ Place(i) \in 0 .. size - 1
         /\ Value(i) \in Seq(Nat)
         /\ \A j \in EffIterations : Place(j) = Place(i) => j = i
<1>1. size \in Nat \ {0}
  BY SizesAssumption
<1>2. prev_factor \in Nat \ {0} /\ factor \in Nat \ {0} /\ factor = 2 * prev_factor
  BY FactorFacts
<1>3. /\ number_of_even_idx \in Nat
      /\ \A k \in Nat : k <= number_of_even_idx <=> k * factor <= size
  BY <1>1, <1>2, PlacesOfStride DEF number_of_even_idx
<1>4. CASE stage = "pairs"
  <2>1. EffIterations = 1 .. number_of_even_idx
    BY <1>4 DEF EffIterations
  <2>2. /\ \A j : Place(j) = j * factor - 1
        /\ Value(i) = Addends(i * factor - factor, i * factor)
    BY <1>4 DEF Place, Value
  <2>3. i \in Nat /\ i >= 1 /\ i * factor <= size
    BY <1>3, <2>1
  <2>4. factor <= i * factor /\ i * factor \in Nat
    <3>1. 1 * factor <= i * factor
      BY <1>2, <2>3, TimesOrder
    <3> QED BY <1>2, <2>3, <3>1
  <2>5. Value(i) \in Seq(Nat)
    <3> DEFINE x == i * factor
    <3>1. x \in Nat /\ factor <= x /\ factor \in Nat
      BY <1>2, <2>4
    <3> HIDE DEF x
    <3>2. x - factor \in Nat /\ x - factor <= x
      BY <3>1
    <3>3. Addends(x - factor, x) \in Seq(Nat)
      BY <3>1, <3>2, AddendsFacts
    <3> QED BY <2>2, <3>3 DEF x
  <2>6. ASSUME NEW j \in EffIterations, Place(j) = Place(i) PROVE j = i
    <3>1. j \in Nat
      BY <1>3, <2>1
    <3>2. j * factor \in Nat
      BY <1>2, <3>1
    <3>3. j * factor = i * factor
      BY <2>2, <2>4, <2>6, <3>2
    <3> QED BY <1>2, <2>3, <3>1, <3>3, TimesOrder
  <2>7. Place(i) \in 0 .. size - 1
    BY <1>1, <1>2, <2>2, <2>3, <2>4
  <2> QED BY <2>3, <2>5, <2>6, <2>7
<1>5. CASE stage = "complete"
  <2>1. EffIterations = 1 .. number_of_even_idx - 1
    BY <1>5 DEF EffIterations
  <2>2. /\ \A j : Place(j) = j * factor + prev_factor - 1
        /\ Value(i) = Addends(0, i * factor + prev_factor)
    BY <1>5 DEF Place, Value
  <2>3. i \in Nat /\ i >= 1 /\ i + 1 \in Nat /\ (i + 1) * factor <= size
    <3>1. i \in Nat /\ i >= 1 /\ i + 1 \in Nat /\ i + 1 <= number_of_even_idx
      BY <1>3, <2>1
    <3> QED BY <1>3, <3>1
  <2>4. i * factor + factor <= size /\ i * factor \in Nat
    BY <1>2, <2>3, TimesOrder
  <2>5. Value(i) \in Seq(Nat)
    <3>1. i * factor + prev_factor \in Nat /\ 0 <= i * factor + prev_factor
      BY <1>2, <2>4
    <3>2. Addends(0, i * factor + prev_factor) \in Seq(Nat)
      BY <3>1, AddendsFacts
    <3> QED BY <2>2, <3>2
  <2>6. ASSUME NEW j \in EffIterations, Place(j) = Place(i) PROVE j = i
    <3>1. j \in Nat
      BY <1>3, <2>1
    <3>2. j * factor \in Nat
      BY <1>2, <3>1
    <3>3. j * factor = i * factor
      BY <1>2, <2>2, <2>4, <2>6, <3>2
    <3> QED BY <1>2, <2>3, <3>1, <3>3, TimesOrder
  <2>7. Place(i) \in 0 .. size - 1
    BY <1>1, <1>2, <2>2, <2>4
  <2> QED BY <2>3, <2>5, <2>6, <2>7
<1>6. CASE stage = "shift"
  <2>1. i \in 2 .. size - 1 /\ EffIterations = 2 .. size - 1
    BY <1>6 DEF EffIterations
  <2>2. (\A j : Place(j) = j) /\ Value(i) = Addends(0, i)
    BY <1>6 DEF Place, Value
  <2>3. i \in Nat /\ 0 <= i
    BY <1>1, <2>1
  <2>4. Addends(0, i) \in Seq(Nat)
    BY <2>3, AddendsFacts
  <2> QED BY <1>1, <2>1, <2>2, <2>3, <2>4
<1> QED BY <1>4, <1>5, <1>6

\* What is in the array does not depend on the loop.
LEMMA SameArray ==
  ASSUME UNCHANGED << size, array >>
  PROVE  \A e, f : f = e => /\ OddSums(e) => OddSums(f)'
                            /\ PairSums(e) => PairSums(f)'
                            /\ Prefixes(e) => Prefixes(f)'
BY ZenonT(40) DEF OddSums, PairSums, Prefixes, Addends, is_power_of_two

\* An iteration that has loaded what it must.
LEMMA LoadKeeps ==
  ASSUME EffInv, stage \in { "pairs", "complete", "shift" }, NEW i \in eff_todo,
         EffStart(i, << Place(i), Value(i) >>)
  PROVE  EffInv'
<1>1. /\ eff_todo' = eff_todo \ { i }
      /\ eff_running' = eff_running \cup { << Place(i), Value(i) >> }
      /\ UNCHANGED << size, inclusive, array, tmp, factor, stage >>
  BY DEF EffStart
<1>2. /\ number_of_even_idx' = number_of_even_idx /\ prev_factor' = prev_factor
      /\ EffIterations' = EffIterations
  BY <1>1 DEF number_of_even_idx, prev_factor, EffIterations
<1>3. \A j : Place(j)' = Place(j) /\ Value(j)' = Value(j)
  BY <1>1, <1>2 DEF Place, Value, Addends
<1>4. /\ eff_todo \subseteq EffIterations
      /\ \A st \in eff_running : \E j \in EffIterations \ eff_todo : st = << Place(j), Value(j) >>
      /\ \A j \in EffIterations \ eff_todo :
           << Place(j), Value(j) >> \notin eff_running => array[Place(j)] = Value(j)
  BY DEF EffInv, EffLoopInv
<1>5. eff_todo' \subseteq EffIterations
  BY <1>1, <1>4
<1>6. ASSUME NEW st \in eff_running'
      PROVE  \E j \in EffIterations \ eff_todo' : st = << Place(j), Value(j) >>
  BY <1>1, <1>4
<1>7. ASSUME NEW j \in EffIterations \ eff_todo', << Place(j), Value(j) >> \notin eff_running'
      PROVE  array[Place(j)] = Value(j)
  BY <1>1, <1>4, <1>7
<1>8. EffLoopInv'
  BY <1>1, <1>2, <1>3, <1>5, <1>6, <1>7 DEF EffLoopInv
<1>9. EnterInv' /\ ReturnInv' /\ PairsInv' /\ CompleteInv' /\ ShiftInv'
  <2>1. EnterInv' /\ ReturnInv'
    BY <1>1 DEF EnterInv, ReturnInv
  <2>2. PairsInv'
    BY <1>1, <1>2 DEF EffInv, PairsInv, OddSums, is_power_of_two, Addends
  <2>3. CompleteInv'
    <3> SUFFICES ASSUME stage = "complete" PROVE CompleteInv'
      BY <1>1 DEF CompleteInv
    <3>1. CompleteInv
      BY DEF EffInv
    <3>2. (OddSums(prev_factor) => OddSums(prev_factor)') /\ (Prefixes(factor) => Prefixes(factor)')
      BY <1>1, <1>2, SameArray
    <3>3. ASSUME NEW j \in eff_todo' \cup { number_of_even_idx }, j * factor + prev_factor <= size
          PROVE  array[j * factor + prev_factor - 1] = Addends(j * factor, j * factor + prev_factor)
      BY <1>1, <3>1, <3>3 DEF CompleteInv
    <3>4. /\ factor <= size /\ (factor = 2 => inclusive)
          /\ array[prev_factor - 1] = Addends(0, prev_factor)
      BY <3>1 DEF CompleteInv
    <3>5. \A a, b : Addends(a, b)' = Addends(a, b)
      BY DEF Addends
    <3>6. OddSums(prev_factor) /\ Prefixes(factor)
      BY <3>1 DEF CompleteInv
    <3> QED BY <1>1, <1>2, <3>2, <3>3, <3>4, <3>5, <3>6 DEF CompleteInv
  <2>4. ShiftInv'
    BY <1>1, <1>2 DEF EffInv, ShiftInv, Addends
  <2> QED BY <2>1, <2>2, <2>3, <2>4
<1>10. InPlaceEqualsSequential'
  BY <1>1 DEF InPlaceEqualsSequential
<1> QED BY <1>1, <1>8, <1>9, <1>10 DEF EffInv, is_power_of_two

\* A product bounds its factors.
LEMMA TimesBounds ==
  ASSUME NEW i \in Nat \ {0}, NEW d \in Nat \ {0}, NEW n \in Nat, i * d <= n
  PROVE  i \in 1 .. n /\ d \in 1 .. n
<1>1. i * 1 <= i * d /\ 1 * d <= i * d /\ i * d \in Nat
  <2>1. 1 * d <= i * d /\ i * d \in Nat
    BY TimesOrder
  <2>2. 1 * i <= d * i
    BY TimesOrder
  <2>3. d * i = i * d /\ 1 * i = i * 1
    OBVIOUS
  <2> QED BY <2>1, <2>2, <2>3
<1>2. i * 1 = i /\ 1 * d = d
  OBVIOUS
<1> QED BY <1>1, <1>2

\* PairLoad: the element in the middle of the stretch has the pair sum of the
\* level before, the one at its end the other.
LEMMA PairLoadPreserves == EffInv /\ PairLoad => EffInv'
<1> SUFFICES ASSUME EffInv, PairLoad PROVE EffInv'
  OBVIOUS
<1>1. PICK i \in eff_todo :
        /\ stage = "pairs"
        /\ EffStart(i, << i * factor - 1,
                          add(array[i * factor - 1 - prev_factor], array[i * factor - 1]) >>)
  BY DEF PairLoad
<1>2. /\ size \in Sizes /\ size \in Nat \ {0}
      /\ factor \in Nat /\ factor >= 2 /\ is_power_of_two(factor)
      /\ i \in EffIterations
  BY <1>1, SizesAssumption DEF EffInv, EffLoopInv
<1>3. /\ prev_factor \in Nat \ {0} /\ factor \in Nat \ {0} /\ factor = 2 * prev_factor
      /\ is_power_of_two(prev_factor)
  BY <1>2, FactorFacts
<1>4. i \in Nat /\ i >= 1 /\ i * factor \in Nat /\ i * factor <= size /\ factor <= i * factor
  <2>1. i \in Nat \ {0} /\ i <= number_of_even_idx
    <3>1. i \in Nat \ {0}
      BY <1>1, <1>2, PlaceFacts
    <3>2. i \in 1 .. number_of_even_idx
      BY <1>1, <1>2 DEF EffIterations
    <3> QED BY <3>1, <3>2
  <2>2. i * factor <= size
    BY <1>2, <1>3, <2>1, PlacesOfStride DEF number_of_even_idx
  <2>3. 1 * factor <= i * factor /\ i * factor \in Nat
    BY <1>3, <2>1, TimesOrder
  <2> QED BY <1>3, <2>1, <2>2, <2>3
<1> DEFINE x == i * factor
<1>5. array[x - 1] = Addends(x - prev_factor, x)
  BY <1>1 DEF EffInv, PairsInv
<1>6. array[x - prev_factor - 1] = Addends(x - factor, x - prev_factor)
  <2> DEFINE j == 2 * i - 1
  <2>1. j \in Nat \ {0} /\ j % 2 = 1
    BY <1>4
  <2>2. j * prev_factor = x - prev_factor
    <3>1. j + 1 = 2 * i /\ (2 * i) * prev_factor = x
      BY <1>3, <1>4
    <3>2. (j + 1) * prev_factor = j * prev_factor + prev_factor /\ j * prev_factor \in Nat
      <4> HIDE DEF j
      <4> QED BY <1>3, <2>1, TimesOrder
    <3> HIDE DEF j, x
    <3> QED BY <1>3, <3>1, <3>2
  <2>3. j * prev_factor <= size
    <3> HIDE DEF j, x
    <3> QED BY <1>2, <1>3, <1>4, <2>2 DEF x
  <2>4. j \in 1 .. size /\ prev_factor \in 1 .. size
    <3> HIDE DEF j
    <3> QED BY <1>2, <1>3, <2>1, <2>3, TimesBounds
  <2>5. OddSums(factor) /\ prev_factor < factor
    BY <1>1, <1>3 DEF EffInv, PairsInv
  <2>6. array[j * prev_factor - 1] = Addends(j * prev_factor - prev_factor, j * prev_factor)
    <3> HIDE DEF j
    <3> QED BY <1>3, <2>1, <2>3, <2>4, <2>5 DEF OddSums
  <2>7. x - prev_factor - prev_factor = x - factor
    <3> HIDE DEF x
    <3> QED BY <1>3, <1>4 DEF x
  <2> QED BY <2>2, <2>6, <2>7
<1>7. Place(i) = x - 1 /\ Value(i) = Addends(x - factor, x)
  BY <1>1 DEF Place, Value
<1>8. add(array[x - prev_factor - 1], array[x - 1]) = Value(i)
  <2>1. x \in Nat /\ factor <= x
    BY <1>4
  <2> HIDE DEF x
  <2>2. /\ x - factor \in Nat /\ x - prev_factor \in Nat
        /\ x - factor <= x - prev_factor /\ x - prev_factor <= x
    BY <1>3, <2>1
  <2>3. add(Addends(x - factor, x - prev_factor), Addends(x - prev_factor, x)) = Addends(x - factor, x)
    BY <2>1, <2>2, AddendsJoin
  <2> QED BY <1>5, <1>6, <1>7, <2>3
<1>9. x - 1 - prev_factor = x - prev_factor - 1
  <2>1. x \in Nat
    BY <1>4
  <2> HIDE DEF x
  <2> QED BY <1>3, <2>1
<1>10. EffStart(i, << Place(i), Value(i) >>)
  BY <1>1, <1>7, <1>8, <1>9
<1> QED BY <1>1, <1>10, LoadKeeps

\* CompleteLoad: the sum of what is before the stretch, and of the stretch.
LEMMA CompleteLoadPreserves == EffInv /\ CompleteLoad => EffInv'
<1> SUFFICES ASSUME EffInv, CompleteLoad PROVE EffInv'
  OBVIOUS
<1>1. PICK i \in eff_todo :
        /\ stage = "complete"
        /\ EffStart(i, << i * factor - 1 + prev_factor,
                          add(array[i * factor - 1], array[i * factor - 1 + prev_factor]) >>)
  BY DEF CompleteLoad
<1>2. /\ size \in Sizes /\ size \in Nat \ {0}
      /\ factor \in Nat /\ factor >= 2 /\ is_power_of_two(factor)
      /\ i \in EffIterations
  BY <1>1, SizesAssumption DEF EffInv, EffLoopInv
<1>3. /\ prev_factor \in Nat \ {0} /\ factor \in Nat \ {0} /\ factor = 2 * prev_factor
  BY <1>2, FactorFacts
<1>4. i \in Nat \ {0} /\ i * factor \in Nat
  BY <1>1, <1>2, <1>3, PlaceFacts, TimesOrder
<1>5. Place(i) = i * factor + prev_factor - 1 /\ Value(i) = Addends(0, i * factor + prev_factor)
  BY <1>1 DEF Place, Value
<1>6. i * factor + prev_factor <= size
  <2>1. Place(i) \in 0 .. size - 1
    BY <1>1, <1>2, PlaceFacts
  <2> QED BY <1>2, <1>3, <1>4, <1>5, <2>1
<1>7. array[i * factor + prev_factor - 1] = Addends(i * factor, i * factor + prev_factor)
  BY <1>1, <1>6 DEF EffInv, CompleteInv
<1>8. array[i * factor - 1] = Addends(0, i * factor)
  <2>1. i * factor <= size
    BY <1>2, <1>3, <1>4, <1>6
  <2>2. i \in 1 .. size
    BY <1>2, <1>3, <1>4, <2>1, TimesBounds
  <2>3. Prefixes(factor)
    BY <1>1 DEF EffInv, CompleteInv
  <2> QED BY <2>1, <2>2, <2>3 DEF Prefixes
<1>9. add(array[i * factor - 1], array[i * factor + prev_factor - 1]) = Value(i)
  <2> DEFINE x == i * factor
  <2>1. x \in Nat
    BY <1>4
  <2>2. add(Addends(0, x), Addends(x, x + prev_factor)) = Addends(0, x + prev_factor)
    <3> HIDE DEF x
    <3>1. x + prev_factor \in Nat /\ 0 <= x /\ x <= x + prev_factor
      BY <1>3, <2>1
    <3> QED BY <2>1, <3>1, AddendsJoin
  <2> QED BY <1>5, <1>7, <1>8, <2>2
<1>10. i * factor - 1 + prev_factor = i * factor + prev_factor - 1
  BY <1>3, <1>4
<1>11. EffStart(i, << Place(i), Value(i) >>)
  BY <1>1, <1>5, <1>9, <1>10
<1> QED BY <1>1, <1>11, LoadKeeps

\* ShiftLoad: the sum of the elements before the place, out of the copy.
LEMMA ShiftLoadPreserves == EffInv /\ ShiftLoad => EffInv'
<1> SUFFICES ASSUME EffInv, ShiftLoad PROVE EffInv'
  OBVIOUS
<1>1. PICK i \in eff_todo :
        /\ stage = "shift"
        /\ EffStart(i, << i, IF i % 2 = 0 THEN tmp[i - 1] ELSE add(tmp[i - 2], tmp[i - 1]) >>)
  BY DEF ShiftLoad
<1>2. i \in 2 .. size - 1 /\ size \in Nat
  BY <1>1, SizesAssumption DEF EffInv, EffLoopInv, EffIterations
<1>3. Place(i) = i /\ Value(i) = Addends(0, i)
  BY <1>1 DEF Place, Value
<1>4. IF i % 2 = 0 THEN tmp[i - 1] = Addends(0, i)
      ELSE tmp[i - 2] = Addends(0, i - 1) /\ tmp[i - 1] = Addends(i - 1, i)
  BY <1>1, <1>2 DEF EffInv, ShiftInv
<1>5. add(Addends(0, i - 1), Addends(i - 1, i)) = Addends(0, i)
  <2>1. i \in Nat /\ i - 1 \in Nat /\ 0 <= i - 1 /\ i - 1 <= i
    BY <1>2
  <2> QED BY <2>1, AddendsJoin
<1>6. EffStart(i, << Place(i), Value(i) >>)
  <2>1. (IF i % 2 = 0 THEN tmp[i - 1] ELSE add(tmp[i - 2], tmp[i - 1])) = Value(i)
    BY <1>3, <1>4, <1>5
  <2> QED BY <1>1, <1>3, <2>1
<1> QED BY <1>1, <1>6, LoadKeeps

\* A store at a multiple of e leaves the sums of smaller strides.
LEMMA OddSumsKept ==
  ASSUME size \in Nat, NEW e \in Nat, NEW k \in Nat, is_power_of_two(e), OddSums(e),
         \A q \in 0 .. size - 1 : q # k * e - 1 => array'[q] = array[q]
  PROVE  \A d, j \in 1 .. size :
           is_power_of_two(d) /\ d < e /\ j % 2 = 1 /\ j * d <= size =>
             array'[j * d - 1] = Addends(j * d - d, j * d)
<1> SUFFICES ASSUME NEW d \in 1 .. size, NEW j \in 1 .. size,
                    is_power_of_two(d), d < e, j % 2 = 1, j * d <= size
             PROVE  array'[j * d - 1] = Addends(j * d - d, j * d)
  OBVIOUS
<1>1. d \in Nat \ {0} /\ j \in Nat \ {0}
  OBVIOUS
<1>2. PICK h \in Nat \ {0} : e = (2 * h) * d
  BY <1>1, PowersNest
<1>3. j * d # k * e
  BY <1>1, <1>2, OddApart
<1> DEFINE x == j * d
           y == k * e
<1>4. x \in Nat /\ y \in Nat /\ x >= 1 /\ x <= size /\ x # y
  <2>1. 1 * d <= x /\ x \in Nat
    BY <1>1, TimesOrder
  <2>2. y \in Nat
    OBVIOUS
  <2> HIDE DEF x, y
  <2> QED BY <1>1, <1>3, <2>1, <2>2 DEF x, y
<1>5. x - 1 # y - 1 /\ x - 1 \in 0 .. size - 1
  <2> HIDE DEF x, y
  <2> QED BY <1>4
<1>6. array[j * d - 1] = Addends(j * d - d, j * d)
  BY DEF OddSums
<1> QED BY <1>5, <1>6

\* EffStore: an iteration stores where no other one does, and nothing that a
\* later level reads.
LEMMA EffStorePreserves == EffInv /\ EffStore => EffInv'
<1> SUFFICES ASSUME EffInv, EffStore PROVE EffInv'
  OBVIOUS
<1>1. PICK store \in eff_running :
        /\ array' = [ array EXCEPT ![store[1]] = store[2] ]
        /\ eff_running' = eff_running \ { store }
        /\ UNCHANGED << size, inclusive, tmp, factor, stage, eff_todo >>
  BY DEF EffStore
<1>2. stage \in { "pairs", "complete", "shift" }
  BY <1>1 DEF EffInv, EffLoopInv
<1>3. /\ size \in Sizes /\ size \in Nat \ {0}
      /\ array \in [ 0 .. size - 1 -> Seq(Nat) ]
      /\ factor \in Nat /\ factor >= 2 /\ is_power_of_two(factor)
      /\ eff_todo \subseteq EffIterations
  BY <1>2, SizesAssumption DEF EffInv, EffLoopInv
<1>4. /\ prev_factor \in Nat \ {0} /\ factor \in Nat \ {0} /\ factor = 2 * prev_factor
      /\ is_power_of_two(prev_factor)
  BY <1>3, FactorFacts
<1>5. PICK i \in EffIterations \ eff_todo : store = << Place(i), Value(i) >>
  BY <1>2 DEF EffInv, EffLoopInv
<1>6. /\ i \in Nat \ {0} /\ Place(i) \in 0 .. size - 1 /\ Value(i) \in Seq(Nat)
      /\ \A j \in EffIterations : j # i => Place(j) # Place(i)
      /\ \A j \in EffIterations : Place(j) \in 0 .. size - 1
  BY <1>2, <1>3, PlaceFacts
<1>7. /\ array'[Place(i)] = Value(i)
      /\ \A q \in 0 .. size - 1 : q # Place(i) => array'[q] = array[q]
      /\ array' \in [ 0 .. size - 1 -> Seq(Nat) ]
  BY <1>1, <1>3, <1>5, <1>6
<1>8. /\ number_of_even_idx' = number_of_even_idx /\ prev_factor' = prev_factor
      /\ EffIterations' = EffIterations
  BY <1>1 DEF number_of_even_idx, prev_factor, EffIterations
<1>9. \A j : Place(j)' = Place(j) /\ Value(j)' = Value(j)
  BY <1>1, <1>8 DEF Place, Value, Addends
<1>10. \A a, b : Addends(a, b)' = Addends(a, b)
  BY DEF Addends
<1>11. EffLoopInv'
  <2>1. \A st \in eff_running' : \E j \in EffIterations \ eff_todo : st = << Place(j), Value(j) >>
    BY <1>1, <1>2 DEF EffInv, EffLoopInv
  <2>2. ASSUME NEW j \in EffIterations \ eff_todo, << Place(j), Value(j) >> \notin eff_running'
        PROVE  array'[Place(j)] = Value(j)
    <3>1. CASE j = i
      BY <1>7, <3>1
    <3>2. CASE j # i
      <4>1. Place(j) # Place(i) /\ Place(j) \in 0 .. size - 1
        BY <1>6, <3>2
      <4>2. << Place(j), Value(j) >> \notin eff_running
        BY <1>1, <1>5, <2>2, <4>1
      <4>3. array[Place(j)] = Value(j)
        BY <1>2, <4>2 DEF EffInv, EffLoopInv
      <4> QED BY <1>7, <4>1, <4>3
    <3> QED BY <3>1, <3>2
  <2> QED BY <1>1, <1>2, <1>3, <1>8, <1>9, <2>1, <2>2 DEF EffLoopInv
<1>12. ASSUME NEW e \in Nat, NEW k \in Nat, is_power_of_two(e), OddSums(e), Place(i) = k * e - 1
       PROVE  \A d, j \in 1 .. size :
                is_power_of_two(d) /\ d < e /\ j % 2 = 1 /\ j * d <= size =>
                  array'[j * d - 1] = Addends(j * d - d, j * d)
  <2>1. \A q \in 0 .. size - 1 : q # k * e - 1 => array'[q] = array[q]
    BY <1>7, <1>12
  <2>2. size \in Nat
    BY <1>3
  <2> QED BY <1>12, <2>1, <2>2, OddSumsKept
<1>13. PairsInv'
  <2> SUFFICES ASSUME stage = "pairs" PROVE PairsInv'
    BY <1>1 DEF PairsInv
  <2>1. /\ factor <= size /\ OddSums(factor)
        /\ \A j \in eff_todo :
             array[j * factor - 1] = Addends(j * factor - prev_factor, j * factor)
    BY DEF EffInv, PairsInv
  <2>2. \A j : Place(j) = j * factor - 1
    BY DEF Place
  <2>3. \A d, j \in 1 .. size :
          is_power_of_two(d) /\ d < factor /\ j % 2 = 1 /\ j * d <= size =>
            array'[j * d - 1] = Addends(j * d - d, j * d)
    <3>1. Place(i) = i * factor - 1 /\ i \in Nat
      BY <1>6, <2>2
    <3> QED BY <1>3, <1>12, <2>1, <3>1
  <2>4. ASSUME NEW j \in eff_todo
        PROVE  array'[j * factor - 1] = Addends(j * factor - prev_factor, j * factor)
    <3>1. j \in EffIterations /\ j # i
      BY <1>3
    <3>2. j * factor - 1 # Place(i) /\ j * factor - 1 \in 0 .. size - 1
      BY <1>6, <2>2, <3>1
    <3> QED BY <1>7, <2>1, <3>2
  <2>5. OddSums(factor)'
    BY <1>1, <1>10, <2>3 DEF OddSums, is_power_of_two
  <2> QED BY <1>1, <1>8, <1>10, <2>1, <2>4, <2>5 DEF PairsInv
<1>14. CompleteInv'
  <2> SUFFICES ASSUME stage = "complete" PROVE CompleteInv'
    BY <1>1 DEF CompleteInv
  <2>1. /\ factor <= size /\ (factor = 2 => inclusive)
        /\ OddSums(prev_factor) /\ Prefixes(factor)
        /\ array[prev_factor - 1] = Addends(0, prev_factor)
        /\ \A j \in eff_todo \cup { number_of_even_idx } :
             j * factor + prev_factor <= size =>
               array[j * factor + prev_factor - 1] = Addends(j * factor, j * factor + prev_factor)
    BY DEF EffInv, CompleteInv
  <2>2. Place(i) = i * factor + prev_factor - 1 /\ i * factor \in Nat
    BY <1>4, <1>6 DEF Place
  <2> DEFINE k == 2 * i + 1
  <2>3. k \in Nat /\ k % 2 = 1 /\ k * prev_factor = i * factor + prev_factor
    <3>1. 2 * i \in Nat /\ (2 * i + 1) * prev_factor = (2 * i) * prev_factor + prev_factor
      BY <1>4, <1>6, TimesOrder
    <3>2. (2 * i) * prev_factor = i * factor
      BY <1>4, <1>6
    <3> QED BY <1>6, <3>1, <3>2
  <2> HIDE DEF k
  <2>4. \A d, j \in 1 .. size :
          is_power_of_two(d) /\ d < prev_factor /\ j % 2 = 1 /\ j * d <= size =>
            array'[j * d - 1] = Addends(j * d - d, j * d)
    <3>1. Place(i) = k * prev_factor - 1
      <4> DEFINE y == i * factor
      <4>1. y \in Nat /\ Place(i) = y + prev_factor - 1 /\ k * prev_factor = y + prev_factor
        BY <2>2, <2>3
      <4> HIDE DEF y
      <4> QED BY <1>4, <4>1
    <3> QED BY <1>4, <1>12, <2>1, <2>3, <3>1
  <2>5. ASSUME NEW j \in 1 .. size, j * factor <= size
        PROVE  array'[j * factor - 1] = Addends(0, j * factor)
    <3>1. j \in Nat \ {0} /\ j * factor \in Nat /\ j * factor >= 1
      <4>1. j \in Nat \ {0} /\ 1 \in Nat /\ 1 <= j
        BY <1>3
      <4>2. 1 * factor <= j * factor /\ j * factor \in Nat
        BY <1>4, <4>1, TimesOrder
      <4> DEFINE x == j * factor
      <4>3. 1 * factor <= x /\ x \in Nat
        BY <4>2
      <4> HIDE DEF x
      <4>4. x >= 1
        BY <1>4, <4>3
      <4> QED BY <4>1, <4>3, <4>4 DEF x
    <3>2. k * prev_factor # j * ((2 * 1) * prev_factor)
      BY <1>4, <2>3, <3>1, OddApart
    <3>3. j * ((2 * 1) * prev_factor) = j * factor
      BY <1>4
    <3> DEFINE x == j * factor
    <3>4. x - 1 # Place(i) /\ x - 1 \in 0 .. size - 1
      <4>1. x # k * prev_factor
        BY <3>2, <3>3
      <4>2. Place(i) = k * prev_factor - 1 /\ k * prev_factor \in Nat
        BY <1>4, <2>2, <2>3
      <4>3. x \in Nat /\ x >= 1 /\ x <= size
        BY <2>5, <3>1
      <4> HIDE DEF x
      <4> QED BY <1>3, <4>1, <4>2, <4>3
    <3> QED BY <1>7, <2>1, <2>5, <3>4 DEF Prefixes
  <2>6. array'[prev_factor - 1] = Addends(0, prev_factor)
    <3>1. 1 * factor <= i * factor
      BY <1>4, <1>6, TimesOrder
    <3>2. prev_factor - 1 # Place(i) /\ prev_factor - 1 \in 0 .. size - 1
      <4> DEFINE y == i * factor
      <4>1. factor <= y /\ y \in Nat /\ Place(i) = y + prev_factor - 1
        BY <1>4, <2>2, <3>1
      <4>2. factor <= size
        BY <2>1
      <4> HIDE DEF y
      <4> QED BY <1>3, <1>4, <4>1, <4>2
    <3> QED BY <1>7, <2>1, <3>2
  <2>7. ASSUME NEW j \in eff_todo \cup { number_of_even_idx }, j * factor + prev_factor <= size
        PROVE  array'[j * factor + prev_factor - 1] = Addends(j * factor, j * factor + prev_factor)
    <3>1. number_of_even_idx \in Nat
      BY <1>3, <1>4, PlacesOfStride DEF number_of_even_idx
    <3>2. i \in 1 .. number_of_even_idx - 1
      BY DEF EffIterations
    <3>3. j \in Nat /\ j # i
      BY <1>3, <1>6, <3>1, <3>2 DEF EffIterations
    <3>4. j * factor \in Nat /\ j * factor # i * factor
      BY <1>4, <1>6, <3>3, TimesOrder
    <3>5. j * factor + prev_factor - 1 # Place(i) /\ j * factor + prev_factor - 1 \in 0 .. size - 1
      BY <1>3, <1>4, <2>2, <2>7, <3>4
    <3> QED BY <1>7, <2>1, <2>7, <3>5
  <2>8. OddSums(prev_factor)'
    BY <1>1, <1>8, <1>10, <2>4 DEF OddSums, is_power_of_two
  <2>9. Prefixes(factor)'
    BY <1>1, <1>10, <2>5 DEF Prefixes
  <2> QED BY <1>1, <1>8, <1>10, <2>1, <2>6, <2>7, <2>8, <2>9 DEF CompleteInv
<1>15. ShiftInv'
  <2> SUFFICES ASSUME stage = "shift" PROVE ShiftInv'
    BY <1>1 DEF ShiftInv
  <2>1. /\ factor = 2 /\ size >= 2 /\ ~inclusive
        /\ array[0] = Addends(0, 0) /\ array[1] = Addends(0, 1)
        /\ \A j \in 2 .. size - 1 :
             IF j % 2 = 0 THEN tmp[j - 1] = Addends(0, j)
             ELSE tmp[j - 2] = Addends(0, j - 1) /\ tmp[j - 1] = Addends(j - 1, j)
    BY DEF EffInv, ShiftInv
  <2>2. Place(i) = i /\ i >= 2
    BY DEF Place, EffIterations
  <2>3. array'[0] = Addends(0, 0) /\ array'[1] = Addends(0, 1)
    <3>1. 0 # Place(i) /\ 1 # Place(i) /\ 0 \in 0 .. size - 1 /\ 1 \in 0 .. size - 1
      BY <1>3, <2>1, <2>2
    <3> QED BY <1>7, <2>1, <3>1
  <2> QED BY <1>1, <1>10, <2>1, <2>3 DEF ShiftInv
<1>16. EnterInv' /\ ReturnInv' /\ InPlaceEqualsSequential'
  BY <1>1, <1>2 DEF EnterInv, ReturnInv, InPlaceEqualsSequential
<1> QED BY <1>1, <1>3, <1>7, <1>11, <1>13, <1>14, <1>15, <1>16 DEF EffInv, is_power_of_two

\* A single addend.
LEMMA AddendsOne ==
  ASSUME NEW a \in Nat
  PROVE  Addends(a, a + 1) = << a >>
<1> DEFINE x == Addends(a, a + 1)
           y == << a >>
<1>1. a + 1 \in Nat /\ a <= a + 1 /\ (a + 1) - a = 1
  OBVIOUS
<1>2. x \in Seq(Nat) /\ Len(x) = (a + 1) - a /\ \A k \in 1 .. (a + 1) - a : x[k] = a + k - 1
  BY <1>1, AddendsFacts
<1>3. y \in Seq(Nat) /\ Len(y) = 1 /\ y[1] = a
  OBVIOUS
<1>4. x[1] = a
  BY <1>1, <1>2
<1> HIDE DEF x, y
<1>5. Len(x) = Len(y) /\ \A k \in 1 .. Len(x) : x[k] = y[k]
  BY <1>1, <1>2, <1>3, <1>4
<1>6. x = y
  BY <1>2, <1>3, <1>5, SeqEqual
<1> QED BY <1>6 DEF x, y

\* EffInit: every element is the sum of itself.
LEMMA EffInitEstablishes == EffInit => EffInv
<1> SUFFICES ASSUME EffInit PROVE EffInv
  OBVIOUS
<1>1. /\ size \in Sizes /\ size \in Nat \ {0} /\ inclusive \in BOOLEAN
      /\ array = [ i \in 0 .. size - 1 |-> << i >> ]
      /\ factor = 2 /\ stage = "enter" /\ eff_todo = {} /\ eff_running = {}
  BY SizesAssumption DEF EffInit, in
<1>2. array \in [ 0 .. size - 1 -> Seq(Nat) ]
  <2>1. \A i \in 0 .. size - 1 : << i >> \in Seq(Nat)
    BY <1>1
  <2> QED BY <1>1, <2>1
<1>3. prev_factor = 1 /\ is_power_of_two(factor)
  BY <1>1 DEF prev_factor, is_power_of_two
<1>4. OddSums(1)
  BY <1>1 DEF OddSums
<1>5. PairSums(1)
  <2> SUFFICES ASSUME NEW i \in 1 .. size PROVE array[i * 1 - 1] = Addends(i * 1 - 1, i * 1)
    BY DEF PairSums
  <2>1. i - 1 \in Nat /\ i * 1 = i /\ (i - 1) + 1 = i /\ i - 1 \in 0 .. size - 1
    BY <1>1
  <2>2. Addends(i - 1, (i - 1) + 1) = << i - 1 >>
    BY <2>1, AddendsOne
  <2>3. array[i - 1] = << i - 1 >>
    BY <1>1, <2>1
  <2> QED BY <2>1, <2>2, <2>3
<1>6. EnterInv
  BY <1>1, <1>3, <1>4, <1>5 DEF EnterInv
<1>7. EffLoopInv
  BY <1>1 DEF EffLoopInv
<1> QED
  BY <1>1, <1>2, <1>3, <1>6, <1>7
     DEF EffInv, PairsInv, ReturnInv, CompleteInv, ShiftInv, InPlaceEqualsSequential

\* Sequential: seq_prefix_sum.
LEMMA SequentialPreserves == EffInv /\ Sequential => EffInv'
<1> SUFFICES ASSUME EffInv, Sequential PROVE EffInv'
  OBVIOUS
<1>1. /\ stage = "enter" /\ stage' = "done"
      /\ array' = [ i \in 0 .. size - 1 |-> SumAt(i) ]
      /\ UNCHANGED << size, inclusive, tmp, factor, eff_todo, eff_running >>
  BY DEF Sequential
<1>2. /\ size \in Sizes /\ size \in Nat \ {0} /\ inclusive \in BOOLEAN
      /\ eff_todo = {} /\ eff_running = {}
  BY <1>1, SizesAssumption DEF EffInv, EffLoopInv
<1>3. \A i \in 0 .. size - 1 : SumAt(i) \in Seq(Nat)
  <2> TAKE i \in 0 .. size - 1
  <2>1. i \in Nat /\ i + 1 \in Nat /\ 0 <= i /\ 0 <= i + 1 /\ 0 \in Nat
    BY <1>2
  <2>2. Addends(0, i) \in Seq(Nat)
    BY <2>1, AddendsFacts
  <2>3. Addends(0, i + 1) \in Seq(Nat)
    BY <2>1, AddendsFacts
  <2> QED BY <2>2, <2>3 DEF SumAt
<1>4. array' \in [ 0 .. size - 1 -> Seq(Nat) ]
  BY <1>1, <1>3
<1>5. InPlaceEqualsSequential'
  BY <1>1 DEF InPlaceEqualsSequential, SumAt, Addends
<1>6. EffLoopInv'
  BY <1>1, <1>2 DEF EffLoopInv
<1> QED
  BY <1>1, <1>2, <1>4, <1>5, <1>6
     DEF EffInv, EnterInv, PairsInv, ReturnInv, CompleteInv, ShiftInv

\* EnterLevel: the levels before have left the pair sums that this one adds.
LEMMA EnterLevelPreserves == EffInv /\ EnterLevel => EffInv'
<1> SUFFICES ASSUME EffInv, EnterLevel PROVE EffInv'
  OBVIOUS
<1>1. /\ stage = "enter" /\ stage' = "pairs" /\ factor <= size
      /\ eff_todo' = 1 .. number_of_even_idx
      /\ UNCHANGED << size, inclusive, array, tmp, factor, eff_running >>
  BY DEF EnterLevel
<1>2. /\ size \in Sizes /\ size \in Nat \ {0} /\ inclusive \in BOOLEAN
      /\ eff_todo = {} /\ eff_running = {}
      /\ factor \in Nat /\ factor >= 2 /\ is_power_of_two(factor)
      /\ OddSums(prev_factor) /\ PairSums(prev_factor)
  BY <1>1, SizesAssumption DEF EffInv, EffLoopInv, EnterInv
<1>3. /\ prev_factor \in Nat \ {0} /\ factor \in Nat \ {0} /\ factor = 2 * prev_factor
      /\ is_power_of_two(prev_factor)
  BY <1>2, FactorFacts
<1>4. /\ number_of_even_idx' = number_of_even_idx /\ prev_factor' = prev_factor
      /\ EffIterations' = 1 .. number_of_even_idx
  BY <1>1 DEF number_of_even_idx, prev_factor, EffIterations
<1>5. OddSums(factor)
  <2> SUFFICES ASSUME NEW d \in 1 .. size, NEW i \in 1 .. size,
                      is_power_of_two(d), d < factor, i % 2 = 1, i * d <= size
               PROVE  array[i * d - 1] = Addends(i * d - d, i * d)
    BY DEF OddSums
  <2>1. d <= prev_factor
    <3>1. prev_factor < d => 2 * prev_factor <= d
      BY <1>3, PowersApart
    <3> QED BY <1>3, <3>1
  <2>2. CASE d < prev_factor
    BY <1>2, <2>2 DEF OddSums
  <2>3. CASE d = prev_factor
    BY <1>2, <2>3 DEF PairSums
  <2> QED BY <1>3, <2>1, <2>2, <2>3
<1>6. ASSUME NEW i \in 1 .. number_of_even_idx
      PROVE  array[i * factor - 1] = Addends(i * factor - prev_factor, i * factor)
  <2>1. i \in Nat \ {0} /\ i * factor <= size
    <3>1. number_of_even_idx \in Nat
      BY <1>2, <1>3, PlacesOfStride DEF number_of_even_idx
    <3>2. i \in Nat \ {0} /\ i <= number_of_even_idx
      BY <3>1
    <3> QED BY <1>2, <1>3, <3>2, PlacesOfStride DEF number_of_even_idx
  <2>2. (2 * i) * prev_factor = i * factor
    BY <1>3, <2>1
  <2>3. 2 * i \in Nat \ {0}
    BY <2>1
  <2>4. 2 * i \in 1 .. size
    <3> DEFINE j == 2 * i
    <3>1. j \in Nat \ {0} /\ j * prev_factor <= size /\ size \in Nat
      BY <1>2, <2>1, <2>2, <2>3
    <3> HIDE DEF j
    <3>2. j \in 1 .. size
      BY <1>3, <3>1, TimesBounds
    <3> QED BY <3>2 DEF j
  <2> QED BY <1>2, <2>1, <2>2, <2>4 DEF PairSums
<1>7. PairsInv'
  <2>1. OddSums(factor)'
    BY <1>1, <1>5, SameArray
  <2> QED BY <1>1, <1>4, <1>6, <2>1 DEF PairsInv, Addends
<1>8. EffLoopInv'
  BY <1>1, <1>2, <1>4 DEF EffLoopInv
<1> QED
  BY <1>1, <1>2, <1>7, <1>8
     DEF EffInv, EnterInv, ReturnInv, CompleteInv, ShiftInv, InPlaceEqualsSequential, is_power_of_two

\* Recurse: every pair of the level has its sum.
LEMMA RecursePreserves == EffInv /\ Recurse => EffInv'
<1> SUFFICES ASSUME EffInv, Recurse PROVE EffInv'
  OBVIOUS
<1>1. /\ stage = "pairs" /\ stage' = "enter" /\ eff_todo = {} /\ eff_running = {}
      /\ factor' = 2 * factor
      /\ UNCHANGED << size, inclusive, array, tmp, eff_todo, eff_running >>
  BY DEF Recurse, EffLoopDone
<1>2. /\ size \in Sizes /\ size \in Nat \ {0} /\ inclusive \in BOOLEAN
      /\ factor \in Nat /\ factor >= 2 /\ is_power_of_two(factor)
      /\ factor <= size /\ OddSums(factor)
  BY <1>1, SizesAssumption DEF EffInv, PairsInv
<1>3. factor \in Nat \ {0} /\ is_power_of_two(2 * factor)
  BY <1>2, FactorFacts
<1>4. prev_factor' = factor
  BY <1>1, <1>2 DEF prev_factor
<1>5. PairSums(factor)
  <2> SUFFICES ASSUME NEW i \in 1 .. size, i * factor <= size
               PROVE  array[i * factor - 1] = Addends(i * factor - factor, i * factor)
    BY DEF PairSums
  <2>1. i \in EffIterations
    <3>1. i <= number_of_even_idx /\ number_of_even_idx \in Nat
      BY <1>2, <1>3, PlacesOfStride DEF number_of_even_idx
    <3> QED BY <1>1, <3>1 DEF EffIterations
  <2> QED BY <1>1, <2>1 DEF EffInv, EffLoopInv, Place, Value
<1>6. EnterInv'
  <2>1. OddSums(prev_factor)' /\ PairSums(prev_factor)'
    BY <1>1, <1>2, <1>4, <1>5, SameArray
  <2> QED BY <1>1, <1>2, <1>4, <2>1 DEF EnterInv
<1>7. factor' \in Nat /\ factor' >= 2 /\ is_power_of_two(factor)'
  BY <1>1, <1>2, <1>3 DEF is_power_of_two
<1>8. EffLoopInv'
  BY <1>1 DEF EffLoopInv
<1> QED
  BY <1>1, <1>2, <1>6, <1>7, <1>8
     DEF EffInv, PairsInv, ReturnInv, CompleteInv, ShiftInv, InPlaceEqualsSequential

\* TurnBack: the one pair of the level before is a sum from the beginning.
LEMMA TurnBackPreserves == EffInv /\ TurnBack => EffInv'
<1> SUFFICES ASSUME EffInv, TurnBack PROVE EffInv'
  OBVIOUS
<1>1. /\ stage = "enter" /\ stage' = "return" /\ size >= Cutoff /\ factor > size
      /\ factor' = prev_factor
      /\ UNCHANGED << size, inclusive, array, tmp, eff_todo, eff_running >>
  BY DEF TurnBack
<1>2. /\ size \in Sizes /\ size \in Nat \ {0} /\ inclusive \in BOOLEAN
      /\ eff_todo = {} /\ eff_running = {}
      /\ factor \in Nat /\ factor >= 2 /\ is_power_of_two(factor)
      /\ prev_factor <= size /\ OddSums(prev_factor) /\ PairSums(prev_factor)
  BY <1>1, SizesAssumption DEF EffInv, EffLoopInv, EnterInv
<1>3. /\ prev_factor \in Nat \ {0} /\ factor = 2 * prev_factor /\ is_power_of_two(prev_factor)
  BY <1>2, FactorFacts
<1>4. prev_factor >= 2
  BY <1>1, <1>2, <1>3, CutoffAssumption
<1>5. Prefixes(prev_factor)
  <2> SUFFICES ASSUME NEW i \in 1 .. size, i * prev_factor <= size
               PROVE  array[i * prev_factor - 1] = Addends(0, i * prev_factor)
    BY DEF Prefixes
  <2>1. i \in Nat /\ 2 \in Nat
    BY <1>2
  <2>2. ~(2 <= i)
    <3>1. 2 <= i => 2 * prev_factor <= i * prev_factor
      BY <1>3, <2>1, TimesOrder
    <3>2. i * prev_factor \in Nat
      BY <1>3, <2>1
    <3> QED BY <1>1, <1>2, <1>3, <3>1, <3>2
  <2>3. i = 1
    BY <1>2, <2>1, <2>2
  <2>4. i * prev_factor - prev_factor = 0
    BY <1>3, <2>3
  <2>5. array[i * prev_factor - 1] = Addends(i * prev_factor - prev_factor, i * prev_factor)
    BY <1>2 DEF PairSums
  <2> QED BY <2>4, <2>5
<1>6. ReturnInv'
  <2>1. OddSums(factor)' /\ Prefixes(factor)'
    BY <1>1, <1>2, <1>5, SameArray
  <2> QED BY <1>1, <1>2, <2>1 DEF ReturnInv
<1>7. factor' \in Nat /\ factor' >= 2 /\ is_power_of_two(factor)'
  BY <1>1, <1>3, <1>4 DEF is_power_of_two
<1>8. EffLoopInv'
  BY <1>1, <1>2 DEF EffLoopInv
<1> QED
  BY <1>1, <1>2, <1>6, <1>7, <1>8
     DEF EffInv, EnterInv, PairsInv, CompleteInv, ShiftInv, InPlaceEqualsSequential

\* BeginCompletion: the elements that the level did not touch have the pair sums
\* of the level before.
LEMMA BeginCompletionPreserves == EffInv /\ BeginCompletion => EffInv'
<1> SUFFICES ASSUME EffInv, BeginCompletion PROVE EffInv'
  OBVIOUS
<1>1. /\ stage = "return" /\ stage' = "complete" /\ (factor > 2 \/ inclusive)
      /\ eff_todo' = 1 .. number_of_even_idx - 1
      /\ UNCHANGED << size, inclusive, array, tmp, factor, eff_running >>
  BY DEF BeginCompletion
<1>2. /\ size \in Sizes /\ size \in Nat \ {0} /\ inclusive \in BOOLEAN
      /\ eff_todo = {} /\ eff_running = {}
      /\ factor \in Nat /\ factor >= 2 /\ is_power_of_two(factor)
      /\ factor <= size /\ OddSums(factor) /\ Prefixes(factor)
  BY <1>1, SizesAssumption DEF EffInv, EffLoopInv, ReturnInv
<1>3. /\ prev_factor \in Nat \ {0} /\ factor \in Nat \ {0} /\ factor = 2 * prev_factor
      /\ is_power_of_two(prev_factor)
  BY <1>2, FactorFacts
<1>4. /\ number_of_even_idx' = number_of_even_idx /\ prev_factor' = prev_factor
      /\ EffIterations' = 1 .. number_of_even_idx - 1
  BY <1>1 DEF number_of_even_idx, prev_factor, EffIterations
<1>5. OddSums(prev_factor)
  <2>1. \A d \in 1 .. size : d < prev_factor => d < factor
    BY <1>2, <1>3
  <2> QED BY <1>2, <2>1 DEF OddSums
<1>6. ASSUME NEW i \in Nat, i * factor + prev_factor <= size
      PROVE  array[i * factor + prev_factor - 1] = Addends(i * factor, i * factor + prev_factor)
  <2> DEFINE j == 2 * i + 1
             x == i * factor
  <2>1. j \in Nat \ {0} /\ j % 2 = 1 /\ x \in Nat
    BY <1>3
  <2>2. j * prev_factor = x + prev_factor
    <3>1. 2 * i \in Nat /\ (2 * i + 1) * prev_factor = (2 * i) * prev_factor + prev_factor
      BY <1>3, TimesOrder
    <3>2. (2 * i) * prev_factor = x
      BY <1>3
    <3> QED BY <3>1, <3>2
  <2> HIDE DEF j
  <2>3. j * prev_factor <= size
    BY <1>6, <2>2
  <2>4. j \in 1 .. size /\ prev_factor \in 1 .. size
    BY <1>2, <1>3, <2>1, <2>3, TimesBounds
  <2>5. prev_factor < factor
    BY <1>3
  <2>6. array[j * prev_factor - 1] = Addends(j * prev_factor - prev_factor, j * prev_factor)
    BY <1>2, <1>3, <2>1, <2>3, <2>4, <2>5 DEF OddSums
  <2> HIDE DEF x
  <2>7. (x + prev_factor) - prev_factor = x /\ (x + prev_factor) - 1 = x + prev_factor - 1
    BY <1>3, <2>1
  <2>8. array[x + prev_factor - 1] = Addends(x, x + prev_factor)
    BY <2>2, <2>6, <2>7
  <2> QED BY <2>8 DEF x
<1>7. array[prev_factor - 1] = Addends(0, prev_factor)
  <2>1. 0 * factor = 0 /\ 0 * factor + prev_factor = prev_factor
    BY <1>3
  <2>2. 0 * factor + prev_factor <= size /\ 0 * factor + prev_factor - 1 = prev_factor - 1
    BY <1>2, <1>3, <2>1
  <2>3. array[0 * factor + prev_factor - 1] = Addends(0 * factor, 0 * factor + prev_factor)
    BY <1>6, <2>2
  <2> QED BY <2>1, <2>2, <2>3
<1>8. number_of_even_idx \in Nat
  BY <1>2, <1>3, PlacesOfStride DEF number_of_even_idx
<1>9. CompleteInv'
  <2>1. OddSums(prev_factor)' /\ Prefixes(factor)'
    BY <1>1, <1>2, <1>4, <1>5, SameArray
  <2>2. ASSUME NEW i \in eff_todo' \cup { number_of_even_idx }, i * factor + prev_factor <= size
        PROVE  array[i * factor + prev_factor - 1] = Addends(i * factor, i * factor + prev_factor)
    <3>1. i \in Nat
      BY <1>1, <1>8
    <3> QED BY <1>6, <2>2, <3>1
  <2>3. factor = 2 => inclusive
    BY <1>1
  <2>4. \A a, b : Addends(a, b)' = Addends(a, b)
    BY DEF Addends
  <2> QED BY <1>1, <1>2, <1>4, <1>7, <2>1, <2>2, <2>3, <2>4 DEF CompleteInv
<1>10. EffLoopInv'
  BY <1>1, <1>2, <1>4 DEF EffLoopInv
<1> QED
  BY <1>1, <1>2, <1>9, <1>10
     DEF EffInv, EnterInv, PairsInv, ReturnInv, ShiftInv, InPlaceEqualsSequential, is_power_of_two

\* BeginShift: every sum is in the copy.
LEMMA BeginShiftPreserves == EffInv /\ BeginShift => EffInv'
<1> SUFFICES ASSUME EffInv, BeginShift PROVE EffInv'
  OBVIOUS
<1>1. /\ stage = "return" /\ stage' = "shift" /\ factor = 2 /\ ~inclusive
      /\ tmp' = array
      /\ array' = [ array EXCEPT ![0] = identity, ![1] = array[0] ]
      /\ eff_todo' = 2 .. size - 1
      /\ UNCHANGED << size, inclusive, factor, eff_running >>
  BY DEF BeginShift
<1>2. /\ size \in Sizes /\ size \in Nat \ {0} /\ inclusive \in BOOLEAN
      /\ eff_todo = {} /\ eff_running = {}
      /\ array \in [ 0 .. size - 1 -> Seq(Nat) ]
      /\ factor <= size /\ OddSums(factor) /\ Prefixes(factor)
  BY <1>1, SizesAssumption DEF EffInv, EffLoopInv, ReturnInv
<1>3. size >= 2 /\ 0 \in 0 .. size - 1 /\ 1 \in 0 .. size - 1
  BY <1>1, <1>2
<1>4. is_power_of_two(1) /\ is_power_of_two(2)
  BY DEF is_power_of_two
<1>5. ASSUME NEW i \in 1 .. size, i % 2 = 1
      PROVE  array[i - 1] = Addends(i - 1, i)
  <2>1. i * 1 = i /\ 1 \in 1 .. size /\ i <= size
    BY <1>2
  <2>2. 1 < factor
    BY <1>1
  <2>3. i * 1 <= size
    BY <2>1
  <2>4. array[i * 1 - 1] = Addends(i * 1 - 1, i * 1)
    BY <1>2, <1>4, <1>5, <2>1, <2>2, <2>3 DEF OddSums
  <2> QED BY <2>1, <2>4
<1>6. ASSUME NEW i \in 2 .. size, i % 2 = 0
      PROVE  array[i - 1] = Addends(0, i)
  <2>1. PICK k \in Nat : i = k * 2
    BY <1>2, <1>6
  <2>2. k \in 1 .. size
    BY <1>2, <2>1
  <2>3. array[k * 2 - 1] = Addends(0, k * 2)
    BY <1>1, <1>2, <2>1, <2>2 DEF Prefixes
  <2> QED BY <2>1, <2>3
<1>7. identity = Addends(0, 0) /\ identity \in Seq(Nat)
  <2>1. 0 \in Nat /\ 0 <= 0
    OBVIOUS
  <2> QED BY <2>1, AddendsJoin, AddendsFacts, Zenon
<1>8. array'[0] = Addends(0, 0) /\ array'[1] = Addends(0, 1)
  <2>1. array[0] = Addends(0, 1)
    <3>1. 1 \in 1 .. size /\ 1 * 1 = 1 /\ 1 - 1 = 0 /\ 1 % 2 = 1 /\ 1 < 2
      BY <1>2
    <3>2. array[1 * 1 - 1] = Addends(1 * 1 - 1, 1 * 1)
      BY <1>1, <1>2, <1>4, <3>1, SMTT(30) DEF OddSums
    <3> QED BY <3>1, <3>2
  <2>2. array'[0] = identity /\ array'[1] = array[0]
    BY <1>1, <1>2, <1>3
  <2> QED BY <1>7, <2>1, <2>2
<1>9. array' \in [ 0 .. size - 1 -> Seq(Nat) ]
  BY <1>1, <1>2, <1>3, <1>7
<1>10. ASSUME NEW i \in 2 .. size - 1
       PROVE  IF i % 2 = 0 THEN tmp'[i - 1] = Addends(0, i)
              ELSE tmp'[i - 2] = Addends(0, i - 1) /\ tmp'[i - 1] = Addends(i - 1, i)
  <2>1. CASE i % 2 = 0
    <3>1. i \in 2 .. size
      BY <1>2
    <3> QED BY <1>1, <1>6, <2>1, <3>1
  <2>2. CASE i % 2 = 1
    <3>1. i \in 1 .. size /\ i - 1 \in 2 .. size /\ (i - 1) % 2 = 0 /\ (i - 1) - 1 = i - 2
      <4>1. PICK k \in Nat : i = 2 * k + 1
        BY <1>2, <2>2
      <4>2. (i - 1) % 2 = 0 /\ k >= 1
        BY <1>2, <4>1
      <4> QED BY <1>2, <4>1, <4>2
    <3>2. array[i - 1] = Addends(i - 1, i)
      BY <1>5, <2>2, <3>1
    <3>3. array[(i - 1) - 1] = Addends(0, i - 1)
      BY <1>6, <3>1
    <3> QED BY <1>1, <2>2, <3>1, <3>2, <3>3
  <2>3. i % 2 = 0 \/ i % 2 = 1
    BY <1>2
  <2> QED BY <2>1, <2>2, <2>3
<1>11. ShiftInv'
  BY <1>1, <1>3, <1>8, <1>10 DEF ShiftInv, Addends
<1>12. EffLoopInv'
  BY <1>1, <1>2 DEF EffLoopInv, EffIterations
<1>13. factor' \in Nat /\ factor' >= 2 /\ is_power_of_two(factor)'
  BY <1>1, <1>4 DEF is_power_of_two
<1> QED
  BY <1>1, <1>2, <1>9, <1>11, <1>12, <1>13
     DEF EffInv, EnterInv, PairsInv, ReturnInv, CompleteInv, InPlaceEqualsSequential

\* ShiftDone: every iteration has stored.
LEMMA ShiftDonePreserves == EffInv /\ ShiftDone => EffInv'
<1> SUFFICES ASSUME EffInv, ShiftDone PROVE EffInv'
  OBVIOUS
<1>1. /\ stage = "shift" /\ stage' = "done" /\ eff_todo = {} /\ eff_running = {}
      /\ UNCHANGED << size, inclusive, array, tmp, factor, eff_todo, eff_running >>
  BY DEF ShiftDone, EffLoopDone
<1>2. /\ ~inclusive /\ array[0] = Addends(0, 0) /\ array[1] = Addends(0, 1)
      /\ size \in Nat
  BY <1>1, SizesAssumption DEF EffInv, ShiftInv
<1>3. ASSUME NEW i \in 0 .. size - 1 PROVE array[i] = Addends(0, i)
  <2>1. CASE i \in 2 .. size - 1
    <3>1. i \in EffIterations
      BY <1>1, <2>1 DEF EffIterations
    <3>2. Place(i) = i /\ Value(i) = Addends(0, i)
      BY <1>1 DEF Place, Value
    <3>3. array[Place(i)] = Value(i)
      BY <1>1, <3>1 DEF EffInv, EffLoopInv
    <3> QED BY <3>2, <3>3
  <2>2. i = 0 \/ i = 1 \/ i \in 2 .. size - 1
    BY <1>2
  <2> QED BY <1>2, <2>1, <2>2
<1>4. InPlaceEqualsSequential'
  BY <1>1, <1>2, <1>3 DEF InPlaceEqualsSequential, SumAt, Addends
<1>5. EffLoopInv'
  BY <1>1 DEF EffLoopInv
<1> QED
  BY <1>1, <1>4, <1>5
     DEF EffInv, EnterInv, PairsInv, ReturnInv, CompleteInv, ShiftInv

\* Residue: every element of the level before has its sum, the last one too.
LEMMA ResiduePreserves == EffInv /\ Residue => EffInv'
<1> SUFFICES ASSUME EffInv, Residue PROVE EffInv'
  OBVIOUS
<1> DEFINE E == number_of_even_idx
           last == E * factor + prev_factor - 1
<1>1. /\ stage = "complete" /\ eff_todo = {} /\ eff_running = {}
      /\ array' = IF residue = 1
                    THEN [ array EXCEPT ![E * factor - 1 + prev_factor] =
                             add(array[E * factor - 1], array[E * factor - 1 + prev_factor]) ]
                    ELSE array
      /\ factor' = prev_factor
      /\ stage' = IF factor = 2 THEN "done" ELSE "return"
      /\ UNCHANGED << size, inclusive, tmp, eff_todo, eff_running >>
  BY DEF Residue, EffLoopDone
<1>2. /\ size \in Sizes /\ size \in Nat \ {0} /\ inclusive \in BOOLEAN
      /\ array \in [ 0 .. size - 1 -> Seq(Nat) ]
      /\ factor \in Nat /\ factor >= 2 /\ is_power_of_two(factor)
      /\ factor <= size /\ (factor = 2 => inclusive)
      /\ OddSums(prev_factor) /\ Prefixes(factor)
      /\ array[prev_factor - 1] = Addends(0, prev_factor)
  BY <1>1, SizesAssumption DEF EffInv, CompleteInv
<1>3. /\ prev_factor \in Nat \ {0} /\ factor \in Nat \ {0} /\ factor = 2 * prev_factor
      /\ is_power_of_two(prev_factor)
  BY <1>2, FactorFacts
<1>4. /\ E \in Nat \ {0} /\ E * factor \in Nat /\ E * factor <= size
      /\ \A k \in Nat : k <= E <=> k * factor <= size
  <2>1. E \in Nat /\ \A k \in Nat : k <= E <=> k * factor <= size
    BY <1>2, <1>3, PlacesOfStride DEF number_of_even_idx
  <2> HIDE DEF E
  <2>2. 1 * factor <= size /\ 1 \in Nat
    BY <1>2
  <2>3. 1 <= E
    BY <2>1, <2>2
  <2> QED BY <1>3, <2>1, <2>3, TimesOrder
<1> HIDE DEF E
\* The odd multiples of the stride of the level before.
<1>5. ASSUME NEW k \in Nat PROVE (2 * k + 1) * prev_factor = k * factor + prev_factor /\ k * factor \in Nat
  <2>1. 2 * k \in Nat /\ (2 * k + 1) * prev_factor = (2 * k) * prev_factor + prev_factor
    BY <1>3, TimesOrder
  <2>2. (2 * k) * prev_factor = k * factor /\ k * factor \in Nat
    BY <1>3
  <2> QED BY <2>1, <2>2
<1>6. residue = 1 <=> E * factor + prev_factor <= size
  <2> DEFINE Q == size \div prev_factor
             y == E * factor
  <2>1. Q \in Nat /\ \A k \in Nat : k <= Q <=> k * prev_factor <= size
    BY <1>2, <1>3, PlacesOfStride
  <2>2. residue = Q % 2
    BY DEF residue
  <2>3. (2 * E) * prev_factor = y /\ (2 * E + 1) * prev_factor = y + prev_factor
    BY <1>3, <1>4, <1>5
  <2>4. (2 * E + 2) * prev_factor = (E + 1) * factor
    BY <1>3, <1>4
  <2> HIDE DEF Q, y
  <2>5. 2 * E \in Nat /\ 2 * E + 1 \in Nat /\ 2 * E + 2 \in Nat /\ E + 1 \in Nat
    BY <1>4
  <2>6. 2 * E <= Q
    BY <1>4, <2>1, <2>3, <2>5 DEF y
  <2>7. ~(2 * E + 2 <= Q)
    <3>1. ~(E + 1 <= E)
      BY <1>4
    <3>2. ~((E + 1) * factor <= size)
      BY <1>4, <2>5, <3>1
    <3>3. ~((2 * E + 2) * prev_factor <= size)
      BY <2>4, <3>2
    <3> QED BY <2>1, <2>5, <3>3
  <2>8. 2 * E + 1 <= Q <=> y + prev_factor <= size
    BY <2>1, <2>3, <2>5
  <2>9. Q = 2 * E \/ Q = 2 * E + 1
    BY <1>4, <2>1, <2>6, <2>7
  <2>10. Q % 2 = 1 <=> 2 * E + 1 <= Q
    BY <1>4, <2>1, <2>9
  <2> QED BY <2>2, <2>8, <2>10 DEF y
<1>7. last = E * factor - 1 + prev_factor /\ last \in Nat
  <2> DEFINE y == E * factor
  <2>1. y \in Nat /\ last = y + prev_factor - 1 /\ E * factor - 1 + prev_factor = y - 1 + prev_factor
    BY <1>4
  <2> HIDE DEF y, last
  <2> QED BY <1>3, <2>1
<1>8. /\ \A q \in 0 .. size - 1 : q # last => array'[q] = array[q]
      /\ residue = 1 => last \in 0 .. size - 1 /\ array'[last] = Addends(0, E * factor + prev_factor)
      /\ array' \in [ 0 .. size - 1 -> Seq(Nat) ]
  <2>1. CASE residue # 1
    BY <1>1, <1>2, <2>1
  <2>2. CASE residue = 1
    <3> DEFINE y == E * factor
    <3>1. y \in Nat /\ y + prev_factor <= size
      BY <1>4, <1>6, <2>2
    <3>2. array[y - 1] = Addends(0, y)
      <4>1. E \in 1 .. size
        BY <1>2, <1>3, <1>4, TimesBounds
      <4> QED BY <1>2, <1>4, <4>1 DEF Prefixes
    <3>3. array[last] = Addends(y, y + prev_factor)
      <4>1. CompleteInv /\ E \in eff_todo \cup { number_of_even_idx }
        BY DEF EffInv, E
      <4> QED BY <1>1, <3>1, <4>1 DEF CompleteInv
    <3>4. last \in 0 .. size - 1
      <4>1. last = y + prev_factor - 1
        OBVIOUS
      <4> HIDE DEF y, last
      <4> QED BY <1>2, <1>3, <3>1, <4>1
    <3>5. /\ add(Addends(0, y), Addends(y, y + prev_factor)) = Addends(0, y + prev_factor)
          /\ Addends(0, y + prev_factor) \in Seq(Nat)
      <4> HIDE DEF y
      <4>1. y + prev_factor \in Nat /\ 0 \in Nat /\ 0 <= y /\ y <= y + prev_factor /\ 0 <= y + prev_factor
        BY <1>3, <3>1
      <4>2. add(Addends(0, y), Addends(y, y + prev_factor)) = Addends(0, y + prev_factor)
        BY <3>1, <4>1, AddendsJoin
      <4>3. Addends(0, y + prev_factor) \in Seq(Nat)
        BY <4>1, AddendsFacts
      <4> QED BY <4>2, <4>3
    <3>6. array' = [ array EXCEPT ![last] = add(array[y - 1], array[last]) ]
      BY <1>1, <1>7, <2>2
    <3>7. array' = [ array EXCEPT ![last] = Addends(0, y + prev_factor) ]
      BY <3>2, <3>3, <3>5, <3>6
    <3> HIDE DEF y, last
    <3>8. array' \in [ 0 .. size - 1 -> Seq(Nat) ]
      BY <1>2, <3>4, <3>5, <3>7
    <3>9. array'[last] = Addends(0, y + prev_factor)
      BY <1>2, <3>4, <3>7
    <3>10. \A q \in 0 .. size - 1 : q # last => array'[q] = array[q]
      BY <1>2, <3>7
    <3> QED BY <3>4, <3>8, <3>9, <3>10 DEF y
  <2> QED BY <2>1, <2>2
<1>9. \A d, j \in 1 .. size :
        is_power_of_two(d) /\ d < prev_factor /\ j % 2 = 1 /\ j * d <= size =>
          array'[j * d - 1] = Addends(j * d - d, j * d)
  <2> DEFINE k == 2 * E + 1
  <2>1. k \in Nat /\ k * prev_factor = E * factor + prev_factor
    BY <1>4, <1>5
  <2>2. last = k * prev_factor - 1
    <3> DEFINE y == E * factor
    <3>1. y \in Nat /\ last = y + prev_factor - 1 /\ k * prev_factor = y + prev_factor
      BY <1>4, <2>1
    <3> HIDE DEF y, last, k
    <3> QED BY <1>3, <3>1
  <2> HIDE DEF k, last
  <2>3. \A q \in 0 .. size - 1 : q # k * prev_factor - 1 => array'[q] = array[q]
    BY <1>8, <2>2
  <2> QED BY <1>2, <1>3, <2>1, <2>3, OddSumsKept
<1>10. ASSUME NEW j \in 1 .. size, j * prev_factor <= size
       PROVE  array'[j * prev_factor - 1] = Addends(0, j * prev_factor)
  <2>0. j \in Nat \ {0} /\ (j % 2 = 0 \/ j % 2 = 1)
    BY <1>2
  <2>1. CASE j % 2 = 0
    <3>1. PICK i \in Nat : j = 2 * i
      BY <2>0, <2>1
    <3>2. i \in Nat \ {0} /\ j * prev_factor = i * factor
      BY <1>3, <2>0, <3>1
    <3> DEFINE x == i * factor
    <3>3. x \in Nat /\ x <= size /\ factor <= x
      <4>1. 1 * factor <= x /\ x \in Nat
        BY <1>3, <3>2, TimesOrder
      <4> QED BY <1>3, <1>10, <3>2, <4>1
    <3>4. i \in 1 .. size
      BY <1>2, <1>3, <3>2, <3>3, TimesBounds
    <3>5. array[x - 1] = Addends(0, x)
      BY <1>2, <3>3, <3>4 DEF Prefixes
    <3>6. x # E * factor + prev_factor
      <4>1. 2 * E + 1 \in Nat /\ (2 * E + 1) % 2 = 1
        BY <1>4
      <4>2. (2 * E + 1) * prev_factor # i * ((2 * 1) * prev_factor)
        BY <1>3, <3>2, <4>1, OddApart
      <4>3. i * ((2 * 1) * prev_factor) = x
        BY <1>3
      <4> QED BY <1>4, <1>5, <4>2, <4>3
    <3>7. x - 1 # last /\ x - 1 \in 0 .. size - 1
      <4> DEFINE y == E * factor
      <4>1. y \in Nat /\ last = y + prev_factor - 1 /\ x # y + prev_factor
        BY <1>4, <3>6
      <4> HIDE DEF x, y, last
      <4> QED BY <1>2, <1>3, <3>3, <4>1
    <3> QED BY <1>8, <3>2, <3>5, <3>7
  <2>2. CASE j % 2 = 1
    <3>1. PICK i \in Nat : j = 2 * i + 1
      BY <2>0, <2>2
    <3> DEFINE x == i * factor
    <3>2. j * prev_factor = x + prev_factor /\ x \in Nat /\ x + prev_factor <= size
      BY <1>5, <1>10, <3>1
    <3>3. i <= E
      <4>1. x <= size
        <5> HIDE DEF x
        <5> QED BY <1>2, <1>3, <3>2
      <4> QED BY <1>4, <4>1
    <3>4. CASE i = E
      <4>1. residue = 1
        BY <1>6, <3>2, <3>4
      <4>2. array'[last] = Addends(0, x + prev_factor)
        BY <1>8, <3>4, <4>1
      <4>3. j * prev_factor - 1 = last
        <5>1. j * prev_factor = x + prev_factor /\ last = x + prev_factor - 1
          BY <3>2, <3>4
        <5> HIDE DEF x, last
        <5> QED BY <1>3, <3>2, <5>1
      <4> QED BY <3>2, <4>2, <4>3
    <3>5. CASE i < E
      <4>1. x - 1 + prev_factor # last /\ x - 1 + prev_factor \in 0 .. size - 1
            /\ x - 1 + prev_factor = j * prev_factor - 1
        <5> DEFINE y == E * factor
        <5>1. x # y
          BY <1>3, <1>4, <3>5, TimesOrder
        <5>2. y \in Nat /\ last = y + prev_factor - 1
          BY <1>4
        <5> HIDE DEF x, y, last
        <5> QED BY <1>2, <1>3, <3>2, <5>1, <5>2
      <4>2. array[j * prev_factor - 1] = Addends(0, j * prev_factor)
        <5>1. CASE i = 0
          <6>1. j * prev_factor = prev_factor
            BY <1>3, <3>1, <5>1
          <6> QED BY <1>2, <6>1
        <5>2. CASE i # 0
          <6>1. i \in EffIterations
            BY <1>1, <1>4, <3>5, <5>2 DEF EffIterations, E
          <6>2. array[Place(i)] = Value(i)
            BY <1>1, <6>1 DEF EffInv, EffLoopInv
          <6>3. Place(i) = x + prev_factor - 1 /\ Value(i) = Addends(0, x + prev_factor)
            BY <1>1 DEF Place, Value
          <6>4. x + prev_factor - 1 = j * prev_factor - 1
            <7> HIDE DEF x
            <7> QED BY <1>3, <3>2
          <6> QED BY <3>2, <6>2, <6>3, <6>4
        <5> QED BY <5>1, <5>2
      <4> QED BY <1>8, <4>1, <4>2
    <3>6. i = E \/ i < E
      BY <1>4, <3>3
    <3> QED BY <3>4, <3>5, <3>6
  <2> QED BY <2>0, <2>1, <2>2
<1>11. \A a, b : Addends(a, b)' = Addends(a, b)
  BY DEF Addends
<1>12. CASE factor = 2
  <2>1. stage' = "done" /\ inclusive /\ inclusive'
    BY <1>1, <1>2, <1>12
  <2>2. prev_factor = 1
    BY <1>3, <1>12
  <2>3. ASSUME NEW q \in 0 .. size - 1 PROVE array'[q] = Addends(0, q + 1)
    <3>1. q + 1 \in 1 .. size /\ (q + 1) * 1 = q + 1 /\ (q + 1) - 1 = q /\ q + 1 <= size
      BY <1>2
    <3>2. array'[(q + 1) * 1 - 1] = Addends(0, (q + 1) * 1)
      BY <1>10, <2>2, <3>1
    <3> QED BY <3>1, <3>2
  <2>4. InPlaceEqualsSequential'
    BY <1>1, <1>11, <2>1, <2>3 DEF InPlaceEqualsSequential, SumAt
  <2>5. EffLoopInv'
    BY <1>1, <2>1 DEF EffLoopInv
  <2> QED
    BY <1>1, <1>2, <1>8, <2>1, <2>4, <2>5
       DEF EffInv, EnterInv, PairsInv, ReturnInv, CompleteInv, ShiftInv
<1>13. CASE factor # 2
  <2>1. stage' = "return"
    BY <1>1, <1>13
  <2>2. prev_factor >= 2 /\ prev_factor <= size
    BY <1>2, <1>3, <1>13
  <2>3. OddSums(factor)'
    BY <1>1, <1>9, <1>11 DEF OddSums, is_power_of_two
  <2>4. Prefixes(factor)'
    BY <1>1, <1>10, <1>11 DEF Prefixes
  <2>5. ReturnInv'
    BY <1>1, <2>1, <2>2, <2>3, <2>4 DEF ReturnInv
  <2>6. factor' \in Nat /\ factor' >= 2 /\ is_power_of_two(factor)'
    BY <1>1, <1>3, <2>2 DEF is_power_of_two
  <2>7. EffLoopInv'
    BY <1>1, <2>1 DEF EffLoopInv
  <2> QED
    BY <1>1, <1>2, <1>8, <2>1, <2>5, <2>6, <2>7
       DEF EffInv, EnterInv, PairsInv, CompleteInv, ShiftInv, InPlaceEqualsSequential
<1> QED BY <1>12, <1>13

\* Every step preserves the invariant of the sums in place.
LEMMA EffNextPreserves == EffInv /\ [EffNext]_effVars => EffInv'
<1> SUFFICES ASSUME EffInv, [EffNext]_effVars PROVE EffInv'
  OBVIOUS
<1>1. CASE UNCHANGED effVars
  <2>1. UNCHANGED << size, inclusive, array, tmp, factor, stage, eff_todo, eff_running >>
    BY <1>1 DEF effVars
  <2>2. /\ number_of_even_idx' = number_of_even_idx /\ prev_factor' = prev_factor
        /\ EffIterations' = EffIterations
        /\ \A a, b : Addends(a, b)' = Addends(a, b)
    BY <2>1 DEF number_of_even_idx, prev_factor, EffIterations, Addends
  <2>3. \A j : Place(j)' = Place(j) /\ Value(j)' = Value(j) /\ SumAt(j)' = SumAt(j)
    BY <2>1, <2>2 DEF Place, Value, SumAt
  <2>4. \A e, f : f = e => /\ OddSums(e) => OddSums(f)'
                           /\ PairSums(e) => PairSums(f)'
                           /\ Prefixes(e) => Prefixes(f)'
    BY <2>1, SameArray
  <2>5. EffLoopInv'
    BY <2>1, <2>2, <2>3 DEF EffInv, EffLoopInv
  <2>6. EnterInv' /\ ReturnInv'
    BY <2>1, <2>2, <2>4 DEF EffInv, EnterInv, ReturnInv
  <2>7. PairsInv'
    BY <2>1, <2>2, <2>4 DEF EffInv, PairsInv
  <2>8. CompleteInv'
    BY <2>1, <2>2, <2>4 DEF EffInv, CompleteInv
  <2>9. ShiftInv' /\ InPlaceEqualsSequential'
    BY <2>1, <2>2, <2>3 DEF EffInv, ShiftInv, InPlaceEqualsSequential
  <2> QED BY <2>1, <2>5, <2>6, <2>7, <2>8, <2>9 DEF EffInv, is_power_of_two
<1>2. CASE EffTerminating
  BY <1>1, <1>2 DEF EffTerminating
<1> QED
  BY <1>1, <1>2, SequentialPreserves, EnterLevelPreserves, PairLoadPreserves, RecursePreserves,
     TurnBackPreserves, BeginCompletionPreserves, CompleteLoadPreserves, ResiduePreserves,
     BeginShiftPreserves, ShiftLoadPreserves, ShiftDonePreserves, EffStorePreserves DEF EffNext

\* The levels of the sum in place fit into each other, whatever the order in
\* which the iterations of a loop load and store.
THEOREM InPlaceInvariance == EffSpec => []EffInv
<1>1. EffInit => EffInv
  BY EffInitEstablishes
<1>2. EffInv /\ [EffNext]_effVars => EffInv'
  BY EffNextPreserves
<1> QED BY <1>1, <1>2, PTL DEF EffSpec

\* par_prefix_sum_eff's result is that of the sequential prefix sum, for an
\* operation that need not be commutative.
THEOREM InPlaceSumsCorrect == EffSpec => []InPlaceEqualsSequential
<1>1. EffInv => InPlaceEqualsSequential
  BY DEF EffInv
<1> QED BY <1>1, InPlaceInvariance, PTL

-----------------------------------------------------------------------------
(* Loops *)

\* What holds at 0 and goes over to the next number holds up to n.
LEMMA Induct ==
  ASSUME NEW n \in Nat, NEW P, 0 \in P, \A k \in 0 .. n - 1 : k \in P => k + 1 \in P
  PROVE  \A k \in 0 .. n : k \in P
<1> DEFINE T == { k \in 0 .. n : k \notin P }
<1> SUFFICES ASSUME T # {} PROVE FALSE
  OBVIOUS
<1>1. PICK k \in T : \A m \in T : k <= m
  <2>1. T \subseteq Nat
    OBVIOUS
  <2> HIDE DEF T
  <2> QED BY <2>1, Smallest
<1>2. k # 0 /\ k - 1 \in 0 .. n - 1 /\ k - 1 \notin T
  BY <1>1
<1> QED BY <1>1, <1>2

\* The states of a loop: the first one, and each from the one before.
LEMMA IteratesFacts ==
  ASSUME NEW step, NEW start, NEW n \in Nat
  PROVE  /\ Iterates(step, start, n)[0] = start
         /\ \A k \in 0 .. n - 1 :
              Iterates(step, start, n)[k + 1] = step[Iterates(step, start, n)[k]]
<1> DEFINE Def(f, m) == f = [ k \in 0 .. m |-> IF k = 0 THEN start ELSE step[f[k - 1]] ]
           P == { m \in Nat : \E f : Def(f, m) }
<1>1. 0 \in P
  <2> DEFINE g == [ k \in 0 .. 0 |-> start ]
  <2>1. Def(g, 0)
    OBVIOUS
  <2> QED BY <2>1
<1>2. ASSUME NEW m \in 0 .. n - 1, m \in P PROVE m + 1 \in P
  <2>1. PICK f : Def(f, m)
    BY <1>2
  <2> DEFINE g == [ k \in 0 .. m + 1 |-> IF k = m + 1 THEN step[f[m]] ELSE f[k] ]
  <2>2. ASSUME NEW k \in 0 .. m + 1 PROVE g[k] = IF k = 0 THEN start ELSE step[g[k - 1]]
    <3>1. CASE k = m + 1
      <4>1. m \in 0 .. m + 1 /\ m # m + 1 /\ k # 0 /\ k - 1 = m
        BY <3>1
      <4> QED BY <3>1, <4>1
    <3>2. CASE k # m + 1
      <4>1. k \in 0 .. m /\ k - 1 # m + 1 /\ (k # 0 => k - 1 \in 0 .. m + 1)
        BY <3>2
      <4>2. f[k] = IF k = 0 THEN start ELSE step[f[k - 1]]
        BY <2>1, <4>1
      <4>3. g[k] = f[k] /\ (k # 0 => g[k - 1] = f[k - 1])
        BY <3>2, <4>1
      <4> QED BY <4>2, <4>3
    <3> QED BY <3>1, <3>2
  <2>3. Def(g, m + 1)
    <3>1. g = [ k \in 0 .. m + 1 |-> g[k] ]
      OBVIOUS
    <3> HIDE DEF g
    <3> QED BY <2>2, <3>1
  <2>4. m + 1 \in Nat
    OBVIOUS
  <2> HIDE DEF g, Def
  <2> QED BY <2>3, <2>4
<1>3. n \in P
  <2> HIDE DEF P
  <2>1. \A k \in 0 .. n : k \in P
    BY <1>1, <1>2, Induct
  <2> QED BY <2>1
<1> DEFINE at == CHOOSE f : Def(f, n)
<1>4. Def(at, n)
  BY <1>3
<1>5. Iterates(step, start, n) = at
  BY DEF Iterates
<1>6. /\ at[0] = start
      /\ \A k \in 0 .. n - 1 : at[k + 1] = step[at[k]]
  <2>1. \A k \in 0 .. n : at[k] = IF k = 0 THEN start ELSE step[at[k - 1]]
    <3> HIDE DEF at
    <3> QED BY <1>4
  <2> HIDE DEF at, Def
  <2>2. ASSUME NEW k \in 0 .. n - 1 PROVE at[k + 1] = step[at[k]]
    <3>1. k + 1 \in 0 .. n /\ k + 1 # 0 /\ (k + 1) - 1 = k
      OBVIOUS
    <3> QED BY <2>1, <3>1
  <2> QED BY <2>1, <2>2
<1> QED BY <1>5, <1>6

-----------------------------------------------------------------------------
(* Searches *)

Sorted(x) == x \in Seq(Int) /\ \A i, j \in 1 .. Len(x) : i <= j => x[i] <= x[j]

\* The entries left of i come before key, those from i on after it.
Around(arr, l, r, key, swapped) ==
  /\ l > 0 => ~ KeyFirst(arr, l - 1, key, swapped)
  /\ r < Len(arr) => KeyFirst(arr, r, key, swapped)

LEMMA SortedFacts ==
  ASSUME NEW x, Sorted(x)
  PROVE  /\ Len(x) \in Nat
         /\ \A i \in 0 .. Len(x) - 1 : At(x, i) \in Int
         /\ \A i, j \in 0 .. Len(x) - 1 : i <= j => At(x, i) <= At(x, j)
<1>1. x \in Seq(Int)
  BY DEF Sorted
<1>2. Len(x) \in Nat /\ \A i \in 1 .. Len(x) : x[i] \in Int
  BY <1>1, LenProperties
<1>3. \A i \in 0 .. Len(x) - 1 : i + 1 \in 1 .. Len(x)
  BY <1>2
<1> QED BY <1>2, <1>3 DEF Sorted, At

LEMMA KeyFirstGrows ==
  ASSUME NEW arr, Sorted(arr), NEW key \in Int, NEW swapped \in BOOLEAN,
         NEW i \in 0 .. Len(arr) - 1, NEW j \in 0 .. Len(arr) - 1, i <= j,
         KeyFirst(arr, i, key, swapped)
  PROVE  KeyFirst(arr, j, key, swapped)
<1>1. At(arr, i) \in Int /\ At(arr, j) \in Int /\ At(arr, i) <= At(arr, j)
  BY SortedFacts
<1>2. CASE swapped
  BY <1>1, <1>2 DEF KeyFirst
<1>3. CASE ~ swapped
  BY <1>1, <1>3 DEF KeyFirst
<1> QED BY <1>2, <1>3

\* A span that the key lies around, within the one the search began with.
Spans(arr, left, right, key, swapped) ==
  { s \in Nat \X Nat : /\ left <= s[1] /\ s[1] <= s[2] /\ s[2] <= right
                       /\ Around(arr, s[1], s[2], key, swapped) }

LEMMA HalveKeeps ==
  ASSUME NEW arr, Sorted(arr), NEW key \in Int, NEW swapped \in BOOLEAN,
         NEW left \in Nat, NEW right \in 0 .. Len(arr),
         NEW s \in Spans(arr, left, right, key, swapped)
  PROVE  LET h == Halve(arr, key, swapped, s)
         IN  /\ h \in Spans(arr, left, right, key, swapped)
             /\ s[1] + 1 >= s[2] => h = s
             /\ s[1] + 1 < s[2] => h[2] - h[1] < s[2] - s[1]
<1> DEFINE m == (s[1] + s[2]) \div 2
           F(i) == KeyFirst(arr, i, key, swapped)
<1>0. Len(arr) \in Nat
  BY SortedFacts
<1>1. s[1] \in Nat /\ s[2] \in Nat /\ left <= s[1] /\ s[1] <= s[2] /\ s[2] <= right
  BY DEF Spans
<1>2. (s[1] > 0 => ~ F(s[1] - 1)) /\ (s[2] < Len(arr) => F(s[2]))
  BY DEF Spans, Around
<1>3. CASE s[1] + 1 >= s[2]
  BY <1>1, <1>3 DEF Halve
<1>4. CASE s[1] + 1 < s[2]
  <2>1. m \in Nat /\ s[1] < m /\ m < s[2]
    BY <1>1, <1>4
  <2>2. m \in 0 .. Len(arr) - 1 /\ m - 1 \in 0 .. Len(arr) - 1
    BY <2>1, <1>1, <1>0
  <2> HIDE DEF m, F
  <2>3. CASE F(m)
    <3>1. Halve(arr, key, swapped, s) = << s[1], m >>
      BY <2>3, <1>1, <1>4 DEF Halve, m, F
    <3>2. << s[1], m >> \in Spans(arr, left, right, key, swapped)
      <4>1. Around(arr, s[1], m, key, swapped)
        BY <1>2, <2>3 DEF Around, F
      <4> QED BY <4>1, <1>1, <2>1 DEF Spans
    <3> QED BY <3>1, <3>2, <1>1, <1>4, <2>1
  <2>4. CASE ~ F(m)
    <3>1. Halve(arr, key, swapped, s) = << m, s[2] >>
      BY <2>4, <1>1, <1>4 DEF Halve, m, F
    <3>2. ~ F(m - 1)
      BY <2>2, <2>1, <2>4, KeyFirstGrows DEF F
    <3>3. << m, s[2] >> \in Spans(arr, left, right, key, swapped)
      <4>1. Around(arr, m, s[2], key, swapped)
        BY <1>2, <3>2 DEF Around, F
      <4> QED BY <4>1, <1>1, <2>1 DEF Spans
    <3> QED BY <3>1, <3>3, <1>1, <1>4, <2>1
  <2> QED BY <2>3, <2>4
<1> QED BY <1>1, <1>3, <1>4

\* The place a search finds.
LEMMA SearchFinds ==
  ASSUME NEW arr, Sorted(arr), NEW key \in Int, NEW swapped \in BOOLEAN,
         NEW left \in Nat, NEW right \in 0 .. Len(arr), left <= right,
         Around(arr, left, right, key, swapped)
  PROVE  LET q == binarysearch(arr, left, right, key, swapped)
         IN  q \in left .. right /\ Around(arr, q, q, key, swapped)
<1> DEFINE step == [ s \in Nat \X Nat |-> Halve(arr, key, swapped, s) ]
           n == right - left
           at == Iterates(step, << left, right >>, n)
           S == Spans(arr, left, right, key, swapped)
           F(i) == KeyFirst(arr, i, key, swapped)
           P == { k \in 0 .. n : at[k] \in S /\ (at[k][2] - at[k][1] <= 1 \/ at[k][2] - at[k][1] <= n - k) }
<1>0. Len(arr) \in Nat /\ n \in Nat
  BY SortedFacts
<1>1. at[0] = << left, right >> /\ \A k \in 0 .. n - 1 : at[k + 1] = step[at[k]]
  <2> HIDE DEF step, n
  <2> QED BY <1>0, IteratesFacts
<1>2. 0 \in P
  <2>1. << left, right >> \in S
    BY <1>0 DEF Spans
  <2> HIDE DEF S, at
  <2> QED BY <1>0, <1>1, <2>1
<1>3. ASSUME NEW k \in 0 .. n - 1, k \in P PROVE k + 1 \in P
  <2>1. at[k] \in S /\ at[k] \in Nat \X Nat
    BY <1>3 DEF Spans
  <2>2. at[k + 1] = Halve(arr, key, swapped, at[k])
    <3> HIDE DEF at, S, n
    <3> QED BY <1>1, <2>1
  <2> HIDE DEF at, step, n
  <2>3. /\ at[k + 1] \in S
        /\ at[k][1] + 1 >= at[k][2] => at[k + 1] = at[k]
        /\ at[k][1] + 1 < at[k][2] => at[k + 1][2] - at[k + 1][1] < at[k][2] - at[k][1]
    BY <2>1, <2>2, HalveKeeps
  <2>4. at[k + 1] \in Nat \X Nat
    BY <2>3 DEF Spans
  <2> HIDE DEF S
  <2>5. k + 1 \in 0 .. n /\ (at[k][2] - at[k][1] <= 1 \/ at[k][2] - at[k][1] <= n - k)
    BY <1>0, <1>3
  <2>6. at[k + 1][2] - at[k + 1][1] <= 1 \/ at[k + 1][2] - at[k + 1][1] <= n - (k + 1)
    <3>1. CASE at[k][1] + 1 >= at[k][2]
      BY <3>1, <2>3, <2>1
    <3>2. CASE at[k][1] + 1 < at[k][2]
      <4> DEFINE a1 == at[k][1]  a2 == at[k][2]  b1 == at[k + 1][1]  b2 == at[k + 1][2]
      <4>1. a1 \in Nat /\ a2 \in Nat /\ b1 \in Nat /\ b2 \in Nat
        BY <2>1, <2>4
      <4>2. b2 - b1 < a2 - a1 /\ (a2 - a1 <= n - k) /\ k \in Nat
        <5>1. b2 - b1 < a2 - a1
          BY <2>3, <3>2
        <5>2. ~ (a2 - a1 <= 1)
          <6> HIDE DEF a1, a2
          <6>1. a1 + 1 < a2
            BY <3>2 DEF a1, a2
          <6> QED BY <4>1, <6>1
        <5> QED BY <5>1, <5>2, <2>5
      <4> HIDE DEF a1, a2, b1, b2
      <4>3. b2 - b1 <= n - (k + 1)
        BY <4>1, <4>2, <1>0
      <4> QED BY <4>3 DEF b1, b2
    <3> QED BY <3>1, <3>2, <2>1
  <2> QED BY <2>3, <2>5, <2>6
<1>4. n \in P
  <2> HIDE DEF P, n
  <2>1. \A k \in 0 .. n : k \in P
    BY <1>0, <1>2, <1>3, Induct
  <2> QED BY <2>1, <1>0
<1> DEFINE l == at[n][1]
           r == at[n][2]
<1>5. /\ l \in Nat /\ r \in Nat /\ left <= l /\ l <= r /\ r <= right /\ r <= l + 1
      /\ Around(arr, l, r, key, swapped)
  <2>1. at[n] \in S /\ (at[n][2] - at[n][1] <= 1 \/ at[n][2] - at[n][1] <= n - n)
    <3> HIDE DEF S, at, n
    <3> QED BY <1>4
  <2> HIDE DEF at, n
  <2> QED BY <2>1, <1>0 DEF Spans
<1>6. binarysearch(arr, left, right, key, swapped) = IF l < r /\ ~ F(l) THEN l + 1 ELSE l
  BY DEF binarysearch
<1> HIDE DEF l, r, at, n, S, P, step
<1>7. CASE l < r /\ ~ F(l)
  <2>1. r = l + 1
    BY <1>5, <1>7
  <2>2. Around(arr, l + 1, l + 1, key, swapped)
    BY <1>5, <1>7, <2>1 DEF Around
  <2> QED BY <1>5, <1>6, <1>7, <2>1, <2>2
<1>8. CASE l < r /\ F(l)
  <2>1. Around(arr, l, l, key, swapped)
    BY <1>5, <1>8 DEF Around
  <2> QED BY <1>5, <1>6, <1>8, <2>1
<1>9. CASE ~ (l < r)
  <2>1. r = l
    BY <1>5, <1>9
  <2> QED BY <1>5, <1>6, <1>9, <2>1
<1> QED BY <1>7, <1>8, <1>9

\* Kruskal's search finds the same.
LEMMA ParallelSearchFinds ==
  ASSUME NEW arr, Sorted(arr), NEW key \in Int,
         NEW left \in Nat, NEW right \in 0 .. Len(arr), left <= right,
         Around(arr, left, right, key, FALSE)
  PROVE  LET q == binarysearch_parallel(arr, left, right, key)
         IN  q \in left .. right /\ Around(arr, q, q, key, FALSE)
<1> DEFINE no == FALSE
<1>a. no \in BOOLEAN /\ Around(arr, left, right, key, no)
  BY Zenon
<1>b. \A l, r : binarysearch(arr, l, r, key, FALSE) = binarysearch(arr, l, r, key, no)
  BY Zenon
<1>c. \A q : Around(arr, q, q, key, no) => Around(arr, q, q, key, FALSE)
  BY Zenon
<1>d. \A s : Halve(arr, key, FALSE, s) = Halve(arr, key, no, s)
  BY Zenon
<1> HIDE DEF no
<1> DEFINE step == [ s \in Nat \X Nat |->
                       IF s[2] - s[1] < SEARCH_LIMIT THEN s ELSE Halve(arr, key, no, s) ]
           n == right - left
           at == Iterates(step, << left, right >>, n)
           S == Spans(arr, left, right, key, no)
           P == { k \in 0 .. n : at[k] \in S }
<1>0. Len(arr) \in Nat /\ n \in Nat
  BY SortedFacts
<1>1. at[0] = << left, right >> /\ \A k \in 0 .. n - 1 : at[k + 1] = step[at[k]]
  <2> HIDE DEF step, n
  <2> QED BY <1>0, IteratesFacts
<1>2. 0 \in P
  <2>1. << left, right >> \in S
    BY <1>0, <1>a DEF Spans
  <2> HIDE DEF S, at
  <2> QED BY <1>0, <1>1, <2>1
<1>3. ASSUME NEW k \in 0 .. n - 1, k \in P PROVE k + 1 \in P
  <2>1. at[k] \in S /\ at[k] \in Nat \X Nat
    BY <1>3 DEF Spans
  <2>2. at[k + 1] = at[k] \/ at[k + 1] = Halve(arr, key, no, at[k])
    <3> HIDE DEF at, S, n
    <3> QED BY <1>1, <2>1
  <2> HIDE DEF at, step, n
  <2>3. Halve(arr, key, no, at[k]) \in S
    BY <1>a, <2>1, HalveKeeps
  <2> HIDE DEF S
  <2> QED BY <2>1, <2>2, <2>3, <1>0
<1>4. n \in P
  <2> HIDE DEF P, n
  <2>1. \A k \in 0 .. n : k \in P
    BY <1>0, <1>2, <1>3, Induct
  <2> QED BY <2>1, <1>0
<1> DEFINE l == at[n][1]
           r == at[n][2]
<1>5. /\ l \in Nat /\ r \in 0 .. Len(arr) /\ left <= l /\ l <= r /\ r <= right
      /\ Around(arr, l, r, key, no)
  <2>1. at[n] \in S
    <3> HIDE DEF S, at, n
    <3> QED BY <1>4
  <2> HIDE DEF at, n
  <2> QED BY <2>1, <1>0 DEF Spans
<1>6. binarysearch_parallel(arr, left, right, key) = binarysearch(arr, l, r, key, no)
  <2>1. binarysearch_parallel(arr, left, right, key) = binarysearch(arr, l, r, key, FALSE)
    BY DEF binarysearch_parallel, no
  <2> QED BY <2>1, <1>b
<1> HIDE DEF l, r, at, n, S, P, step
<1>7. LET q == binarysearch(arr, l, r, key, no)
      IN  q \in l .. r /\ Around(arr, q, q, key, no)
  BY <1>a, <1>5, SearchFinds
<1> DEFINE q == binarysearch_parallel(arr, left, right, key)
<1>8. q \in l .. r /\ Around(arr, q, q, key, no)
  BY <1>6, <1>7
<1> HIDE DEF q
<1>9. q \in left .. right /\ Around(arr, q, q, key, FALSE)
  <2>1. q \in left .. right
    BY <1>0, <1>5, <1>8
  <2> QED BY <2>1, <1>8, <1>c, Zenon
<1> QED BY <1>9, Zenon DEF q

\* Where a key of the first array belongs in the second, behind the entries
\* that are not larger, and where one of the second belongs in the first.
Behind(y, q, key) ==
  /\ q \in 0 .. Len(y)
  /\ q > 0 => At(y, q - 1) <= key
  /\ q < Len(y) => key < At(y, q)

Ahead(x, q, key) ==
  /\ q \in 0 .. Len(x)
  /\ q > 0 => At(x, q - 1) < key
  /\ q < Len(x) => key <= At(x, q)

LEMMA SearchBehind ==
  ASSUME NEW y, Sorted(y), NEW key \in Int,
         NEW l \in Nat, NEW r \in 0 .. Len(y), l <= r,
         l > 0 => At(y, l - 1) <= key, r < Len(y) => key < At(y, r)
  PROVE  /\ binarysearch(y, l, r, key, FALSE) \in l .. r
         /\ Behind(y, binarysearch(y, l, r, key, FALSE), key)
         /\ binarysearch_parallel(y, l, r, key) \in l .. r
         /\ Behind(y, binarysearch_parallel(y, l, r, key), key)
<1> DEFINE no == FALSE
           q == binarysearch(y, l, r, key, no)
           q2 == binarysearch_parallel(y, l, r, key)
<1>0. no \in BOOLEAN
  OBVIOUS
<1>1. \A a \in 0 .. Len(y), b \in 0 .. Len(y) :
        Around(y, a, b, key, no) <=> (a > 0 => At(y, a - 1) <= key) /\ (b < Len(y) => key < At(y, b))
  <2> SUFFICES ASSUME NEW a \in 0 .. Len(y), NEW b \in 0 .. Len(y)
               PROVE  Around(y, a, b, key, no)
                        <=> (a > 0 => At(y, a - 1) <= key) /\ (b < Len(y) => key < At(y, b))
    OBVIOUS
  <2>1. Len(y) \in Nat
    BY SortedFacts
  <2>2. a > 0 => a - 1 \in 0 .. Len(y) - 1 /\ At(y, a - 1) \in Int
    BY <2>1, SortedFacts
  <2>3. b < Len(y) => b \in 0 .. Len(y) - 1
    BY <2>1
  <2>4. \A i : KeyFirst(y, i, key, no) = (key < At(y, i))
    BY DEF KeyFirst
  <2> HIDE DEF no
  <2>5. Around(y, a, b, key, no)
          <=> (a > 0 => ~ (key < At(y, a - 1))) /\ (b < Len(y) => key < At(y, b))
    BY <2>4 DEF Around
  <2>6. a > 0 => (At(y, a - 1) <= key <=> ~ (key < At(y, a - 1)))
    BY <2>2
  <2> QED BY <2>5, <2>6
<1>2. Around(y, l, r, key, no)
  <2>1. Len(y) \in Nat /\ l \in 0 .. Len(y)
    BY SortedFacts
  <2> HIDE DEF no
  <2> QED BY <2>1, <1>1
<1>3. q2 \in l .. r /\ Around(y, q2, q2, key, no)
  BY <1>2, ParallelSearchFinds, Zenon
<1> HIDE DEF no
<1>4. q \in l .. r /\ Around(y, q, q, key, no)
  BY <1>0, <1>2, SearchFinds
<1> HIDE DEF q, q2
<1>5. \A a \in l .. r : a \in 0 .. Len(y)
  BY SortedFacts
<1>6. Behind(y, q, key) /\ Behind(y, q2, key)
  BY <1>1, <1>3, <1>4, <1>5 DEF Behind
<1> QED BY <1>3, <1>4, <1>6, Zenon DEF q, q2, no

LEMMA SearchAhead ==
  ASSUME NEW x, Sorted(x), NEW key \in Int,
         NEW l \in Nat, NEW r \in 0 .. Len(x), l <= r,
         l > 0 => At(x, l - 1) < key, r < Len(x) => key <= At(x, r)
  PROVE  /\ binarysearch(x, l, r, key, TRUE) \in l .. r
         /\ Ahead(x, binarysearch(x, l, r, key, TRUE), key)
<1> DEFINE yes == TRUE
           q == binarysearch(x, l, r, key, yes)
<1>0. yes \in BOOLEAN
  OBVIOUS
<1>1. \A a \in 0 .. Len(x), b \in 0 .. Len(x) :
        Around(x, a, b, key, yes) <=> (a > 0 => At(x, a - 1) < key) /\ (b < Len(x) => key <= At(x, b))
  <2> SUFFICES ASSUME NEW a \in 0 .. Len(x), NEW b \in 0 .. Len(x)
               PROVE  Around(x, a, b, key, yes)
                        <=> (a > 0 => At(x, a - 1) < key) /\ (b < Len(x) => key <= At(x, b))
    OBVIOUS
  <2>1. Len(x) \in Nat
    BY SortedFacts
  <2>2. b < Len(x) => b \in 0 .. Len(x) - 1 /\ At(x, b) \in Int
    BY <2>1, SortedFacts
  <2>4. \A i : KeyFirst(x, i, key, yes) = ~ (At(x, i) < key)
    BY DEF KeyFirst
  <2> HIDE DEF yes
  <2>5. Around(x, a, b, key, yes)
          <=> (a > 0 => At(x, a - 1) < key) /\ (b < Len(x) => ~ (At(x, b) < key))
    BY <2>4 DEF Around
  <2>6. b < Len(x) => (key <= At(x, b) <=> ~ (At(x, b) < key))
    BY <2>2
  <2> QED BY <2>5, <2>6
<1>2. Around(x, l, r, key, yes)
  <2>1. Len(x) \in Nat /\ l \in 0 .. Len(x)
    BY SortedFacts
  <2> HIDE DEF yes
  <2> QED BY <2>1, <1>1
<1> HIDE DEF yes
<1>4. q \in l .. r /\ Around(x, q, q, key, yes)
  BY <1>0, <1>2, SearchFinds
<1> HIDE DEF q
<1>5. \A a \in l .. r : a \in 0 .. Len(x)
  BY SortedFacts
<1>6. Ahead(x, q, key)
  BY <1>1, <1>4, <1>5 DEF Ahead
<1> QED BY <1>4, <1>6, Zenon DEF q, yes

-----------------------------------------------------------------------------
(* Cuts                                                                    *)
(*                                                                         *)
(* A cut divides both arrays into what comes first in the merged array and *)
(* what comes last.  Entry i of the first array stands at cell i + j when  *)
(* the arrays can be cut in front of it and behind it at j entries of the  *)
(* second one.                                                             *)

Cut(x, y, i, j) ==
  /\ i \in 0 .. Len(x) /\ j \in 0 .. Len(y)
  /\ i > 0 /\ j < Len(y) => At(x, i - 1) < At(y, j)
  /\ j > 0 /\ i < Len(x) => At(y, j - 1) <= At(x, i)

Stands(x, y, c, w) ==
  \/ w[1] = 1 /\ Cut(x, y, w[2], c - w[2]) /\ Cut(x, y, w[2] + 1, c - w[2])
  \/ w[1] = 2 /\ Cut(x, y, c - w[2], w[2]) /\ Cut(x, y, c - w[2], w[2] + 1)

\* Cuts do not cross.
LEMMA CutsOrdered ==
  ASSUME NEW x, NEW y, Sorted(x), Sorted(y), NEW i, NEW j, NEW k, NEW l,
         Cut(x, y, i, j), Cut(x, y, k, l)
  PROVE  /\ i < k => j <= l
         /\ j < l => i <= k
         /\ i + j <= k + l => i <= k /\ j <= l
         /\ i + j = k + l => i = k /\ j = l
<1>1. ASSUME NEW a, NEW b, NEW c, NEW d, Cut(x, y, a, b), Cut(x, y, c, d), a < c, d < b
      PROVE  FALSE
  <2>0. Len(x) \in Nat /\ Len(y) \in Nat
    BY SortedFacts
  <2>1. a \in 0 .. Len(x) - 1 /\ c - 1 \in 0 .. Len(x) - 1 /\ a <= c - 1
    BY <1>1, <2>0 DEF Cut
  <2>2. d \in 0 .. Len(y) - 1 /\ b - 1 \in 0 .. Len(y) - 1 /\ d <= b - 1
    BY <1>1, <2>0 DEF Cut
  <2>3. At(x, a) <= At(x, c - 1) /\ At(x, a) \in Int /\ At(x, c - 1) \in Int
    BY <2>1, SortedFacts
  <2>4. At(y, d) <= At(y, b - 1) /\ At(y, d) \in Int /\ At(y, b - 1) \in Int
    BY <2>2, SortedFacts
  <2>5. At(x, c - 1) < At(y, d)
    BY <1>1, <2>0, <2>1, <2>2 DEF Cut
  <2>6. At(y, b - 1) <= At(x, a)
    BY <1>1, <2>0, <2>1, <2>2 DEF Cut
  <2> QED BY <2>3, <2>4, <2>5, <2>6
<1>2. i \in Int /\ j \in Int /\ k \in Int /\ l \in Int
  BY SortedFacts DEF Cut
<1>3. ~ (i < k /\ l < j) /\ ~ (k < i /\ j < l)
  BY <1>1
<1> QED BY <1>2, <1>3

\* Between two cuts at the same place of one array lie cuts.
LEMMA CutBetween ==
  ASSUME NEW x, NEW y, Sorted(x), Sorted(y), NEW i, NEW j, NEW k, Cut(x, y, i, j)
  PROVE  /\ Cut(x, y, k, j) => \A m \in i .. k : Cut(x, y, m, j)
         /\ Cut(x, y, i, k) => \A m \in j .. k : Cut(x, y, i, m)
<1>0. Len(x) \in Nat /\ Len(y) \in Nat /\ i \in 0 .. Len(x) /\ j \in 0 .. Len(y)
  BY SortedFacts DEF Cut
<1>1. ASSUME Cut(x, y, k, j), NEW m \in i .. k PROVE Cut(x, y, m, j)
  <2>0. k \in 0 .. Len(x) /\ m \in 0 .. Len(x) /\ i <= m /\ m <= k
    BY <1>0, <1>1 DEF Cut
  <2>1. ASSUME m > 0, j < Len(y) PROVE At(x, m - 1) < At(y, j)
    <3>1. m - 1 \in 0 .. Len(x) - 1 /\ k - 1 \in 0 .. Len(x) - 1 /\ m - 1 <= k - 1 /\ j \in 0 .. Len(y) - 1
      BY <1>0, <2>0, <2>1
    <3>2. At(x, m - 1) <= At(x, k - 1) /\ At(x, m - 1) \in Int /\ At(x, k - 1) \in Int /\ At(y, j) \in Int
      BY <3>1, SortedFacts
    <3>3. At(x, k - 1) < At(y, j)
      BY <1>1, <2>1, <2>0, <3>1 DEF Cut
    <3> QED BY <3>2, <3>3
  <2>2. ASSUME j > 0, m < Len(x) PROVE At(y, j - 1) <= At(x, m)
    <3>1. m \in 0 .. Len(x) - 1 /\ i \in 0 .. Len(x) - 1 /\ i <= m /\ j - 1 \in 0 .. Len(y) - 1
      BY <1>0, <2>0, <2>2
    <3>2. At(x, i) <= At(x, m) /\ At(x, m) \in Int /\ At(x, i) \in Int /\ At(y, j - 1) \in Int
      BY <3>1, SortedFacts
    <3>3. At(y, j - 1) <= At(x, i)
      BY <2>2, <3>1 DEF Cut
    <3> QED BY <3>2, <3>3
  <2> QED BY <1>0, <2>0, <2>1, <2>2 DEF Cut
<1>2. ASSUME Cut(x, y, i, k), NEW m \in j .. k PROVE Cut(x, y, i, m)
  <2>0. k \in 0 .. Len(y) /\ m \in 0 .. Len(y) /\ j <= m /\ m <= k
    BY <1>0, <1>2 DEF Cut
  <2>1. ASSUME i > 0, m < Len(y) PROVE At(x, i - 1) < At(y, m)
    <3>1. m \in 0 .. Len(y) - 1 /\ j \in 0 .. Len(y) - 1 /\ j <= m /\ i - 1 \in 0 .. Len(x) - 1
      BY <1>0, <2>0, <2>1
    <3>2. At(y, j) <= At(y, m) /\ At(y, j) \in Int /\ At(y, m) \in Int /\ At(x, i - 1) \in Int
      BY <3>1, SortedFacts
    <3>3. At(x, i - 1) < At(y, j)
      BY <2>1, <3>1 DEF Cut
    <3> QED BY <3>2, <3>3
  <2>2. ASSUME m > 0, i < Len(x) PROVE At(y, m - 1) <= At(x, i)
    <3>1. m - 1 \in 0 .. Len(y) - 1 /\ k - 1 \in 0 .. Len(y) - 1 /\ m - 1 <= k - 1 /\ i \in 0 .. Len(x) - 1
      BY <1>0, <2>0, <2>2
    <3>2. At(y, m - 1) <= At(y, k - 1) /\ At(y, m - 1) \in Int /\ At(y, k - 1) \in Int /\ At(x, i) \in Int
      BY <3>1, SortedFacts
    <3>3. At(y, k - 1) <= At(x, i)
      BY <1>2, <2>2, <2>0, <3>1 DEF Cut
    <3> QED BY <3>2, <3>3
  <2> QED BY <1>0, <2>0, <2>1, <2>2 DEF Cut
<1> QED BY <1>1, <1>2

\* A key is cut off at its place.
LEMMA PlaceIsCut ==
  ASSUME NEW x, NEW y, Sorted(x), Sorted(y)
  PROVE  /\ \A i \in 0 .. Len(x) - 1 : \A q : Behind(y, q, At(x, i)) => Cut(x, y, i, q) /\ Cut(x, y, i + 1, q)
         /\ \A j \in 0 .. Len(y) - 1 : \A q : Ahead(x, q, At(y, j)) => Cut(x, y, q, j) /\ Cut(x, y, q, j + 1)
<1>0. Len(x) \in Nat /\ Len(y) \in Nat
  BY SortedFacts
<1>1. ASSUME NEW i \in 0 .. Len(x) - 1, NEW q, Behind(y, q, At(x, i))
      PROVE  Cut(x, y, i, q) /\ Cut(x, y, i + 1, q)
  <2>1. q \in 0 .. Len(y) /\ At(x, i) \in Int /\ i \in 0 .. Len(x) /\ i + 1 \in 0 .. Len(x) /\ (i + 1) - 1 = i
    BY <1>0, <1>1, SortedFacts DEF Behind
  <2>2. q > 0 => At(y, q - 1) <= At(x, i) /\ At(y, q - 1) \in Int
    <3>1. q > 0 => q - 1 \in 0 .. Len(y) - 1
      BY <2>1, <1>0
    <3> QED BY <3>1, <1>1, SortedFacts DEF Behind
  <2>3. q < Len(y) => At(x, i) < At(y, q) /\ At(y, q) \in Int
    <3>1. q < Len(y) => q \in 0 .. Len(y) - 1
      BY <2>1, <1>0
    <3> QED BY <3>1, <1>1, SortedFacts DEF Behind
  <2>4. i > 0 => At(x, i - 1) \in Int /\ At(x, i - 1) <= At(x, i)
    <3>1. i > 0 => i - 1 \in 0 .. Len(x) - 1 /\ i - 1 <= i
      BY <1>0
    <3> QED BY <3>1, SortedFacts
  <2>5. i + 1 < Len(x) => At(x, i + 1) \in Int /\ At(x, i) <= At(x, i + 1)
    <3>1. i + 1 < Len(x) => i + 1 \in 0 .. Len(x) - 1 /\ i <= i + 1
      BY <1>0
    <3> QED BY <3>1, SortedFacts
  <2>6. Cut(x, y, i, q)
    BY <2>1, <2>2, <2>3, <2>4 DEF Cut
  <2>7. Cut(x, y, i + 1, q)
    <3>1. i + 1 > 0 /\ q < Len(y) => At(x, (i + 1) - 1) < At(y, q)
      BY <2>1, <2>3
    <3>2. q > 0 /\ i + 1 < Len(x) => At(y, q - 1) <= At(x, i + 1)
      BY <2>1, <2>2, <2>5
    <3> QED BY <2>1, <3>1, <3>2 DEF Cut
  <2> QED BY <2>6, <2>7
<1>2. ASSUME NEW j \in 0 .. Len(y) - 1, NEW q, Ahead(x, q, At(y, j))
      PROVE  Cut(x, y, q, j) /\ Cut(x, y, q, j + 1)
  <2>1. q \in 0 .. Len(x) /\ At(y, j) \in Int /\ j \in 0 .. Len(y) /\ j + 1 \in 0 .. Len(y) /\ (j + 1) - 1 = j
    BY <1>0, <1>2, SortedFacts DEF Ahead
  <2>2. q > 0 => At(x, q - 1) < At(y, j) /\ At(x, q - 1) \in Int
    <3>1. q > 0 => q - 1 \in 0 .. Len(x) - 1
      BY <2>1, <1>0
    <3> QED BY <3>1, <1>2, SortedFacts DEF Ahead
  <2>3. q < Len(x) => At(y, j) <= At(x, q) /\ At(x, q) \in Int
    <3>1. q < Len(x) => q \in 0 .. Len(x) - 1
      BY <2>1, <1>0
    <3> QED BY <3>1, <1>2, SortedFacts DEF Ahead
  <2>4. j > 0 => At(y, j - 1) \in Int /\ At(y, j - 1) <= At(y, j)
    <3>1. j > 0 => j - 1 \in 0 .. Len(y) - 1 /\ j - 1 <= j
      BY <1>0
    <3> QED BY <3>1, SortedFacts
  <2>5. j + 1 < Len(y) => At(y, j + 1) \in Int /\ At(y, j) <= At(y, j + 1)
    <3>1. j + 1 < Len(y) => j + 1 \in 0 .. Len(y) - 1 /\ j <= j + 1
      BY <1>0
    <3> QED BY <3>1, SortedFacts
  <2>6. Cut(x, y, q, j)
    BY <2>1, <2>2, <2>3, <2>4 DEF Cut
  <2>7. Cut(x, y, q, j + 1)
    <3>1. q > 0 /\ j + 1 < Len(y) => At(x, q - 1) < At(y, j + 1)
      BY <2>1, <2>2, <2>5
    <3>2. j + 1 > 0 /\ q < Len(x) => At(y, (j + 1) - 1) <= At(x, q)
      BY <2>1, <2>3
    <3> QED BY <2>1, <3>1, <3>2 DEF Cut
  <2> QED BY <2>6, <2>7
<1> QED BY <1>1, <1>2

-----------------------------------------------------------------------------
(* Pieces of work and what they write *)

Kinds == { "clrs", "kruskal", "copy", "from_left", "from_right" }

\* A piece lies between two cuts and its cells are those of its entries; a
\* copy's are all of the first array.
PieceOk(x, y, t) ==
  /\ t.kind \in Kinds
  /\ t.kind = "copy" => t.yl = t.yr
  /\ t.swapped \in BOOLEAN
  /\ t.xl <= t.xr /\ t.yl <= t.yr
  /\ t.out = t.xl + t.yl
  /\ Cut(x, y, t.xl, t.yl)
  /\ Cut(x, y, t.xr, t.yr)

\* The writes fill the cells lo .. hi - 1 with the entries that stand there.
Fills(x, y, writes, lo, hi) ==
  /\ \A w \in writes : w[1] \in lo .. hi - 1 /\ Stands(x, y, w[1], << w[2], w[3] >>)
  /\ \A c \in lo .. hi - 1 : \E w \in writes : w[1] = c

LEMMA PieceFacts ==
  ASSUME NEW x, NEW y, NEW t, Sorted(x), Sorted(y), PieceOk(x, y, t)
  PROVE  /\ Len(x) \in Nat /\ Len(y) \in Nat
         /\ t.xl \in 0 .. Len(x) /\ t.xr \in 0 .. Len(x)
         /\ t.yl \in 0 .. Len(y) /\ t.yr \in 0 .. Len(y)
         /\ t.xl <= t.xr /\ t.yl <= t.yr /\ t.out = t.xl + t.yl
         /\ Size(t) \in Nat /\ t.out + Size(t) = t.xr + t.yr
BY SortedFacts DEF PieceOk, Cut, Size

LEMMA PieceNumbers ==
  ASSUME NEW x, NEW y, NEW t, Sorted(x), Sorted(y), PieceOk(x, y, t)
  PROVE  /\ t.xl \in Nat /\ t.xr \in Nat /\ t.yl \in Nat /\ t.yr \in Nat /\ t.out \in Nat
         /\ t.xr - t.xl \in Nat /\ t.yr - t.yl \in Nat
BY SortedFacts DEF PieceOk, Cut

LEMMA FillsJoin ==
  ASSUME NEW x, NEW y, NEW v, NEW w, NEW lo \in Int, NEW mid \in Int, NEW hi \in Int,
         lo <= mid, mid <= hi, Fills(x, y, v, lo, mid), Fills(x, y, w, mid, hi)
  PROVE  Fills(x, y, v \cup w, lo, hi)
<1>1. ASSUME NEW u \in v \cup w
      PROVE  u[1] \in lo .. hi - 1 /\ Stands(x, y, u[1], << u[2], u[3] >>)
  <2>1. CASE u \in v
    <3>1. u[1] \in lo .. mid - 1 /\ Stands(x, y, u[1], << u[2], u[3] >>)
      BY <2>1 DEF Fills
    <3> QED BY <3>1
  <2>2. CASE u \in w
    <3>1. u[1] \in mid .. hi - 1 /\ Stands(x, y, u[1], << u[2], u[3] >>)
      BY <2>2 DEF Fills
    <3> QED BY <3>1
  <2> QED BY <2>1, <2>2
<1>2. ASSUME NEW c \in lo .. hi - 1 PROVE \E u \in v \cup w : u[1] = c
  <2>1. c \in lo .. mid - 1 \/ c \in mid .. hi - 1
    OBVIOUS
  <2>2. (\E u \in v : u[1] = c) \/ (\E u \in w : u[1] = c)
    BY <2>1 DEF Fills
  <2> QED BY <2>2
<1> QED BY <1>1, <1>2 DEF Fills

LEMMA FillsOne ==
  ASSUME NEW x, NEW y, NEW c \in Int, NEW s, NEW k, Stands(x, y, c, << s, k >>)
  PROVE  Fills(x, y, { << c, s, k >> }, c, c + 1)
<1> DEFINE w == << c, s, k >>
<1>1. w[1] = c /\ << w[2], w[3] >> = << s, k >>
  OBVIOUS
<1>2. \A d \in c .. (c + 1) - 1 : d = c
  OBVIOUS
<1>3. c \in c .. (c + 1) - 1
  OBVIOUS
<1> HIDE DEF w
<1>4. Fills(x, y, { w }, c, c + 1)
  BY <1>1, <1>2, <1>3 DEF Fills
<1> QED BY <1>4 DEF w

\* Copies of a span at one place of the other array.
LEMMA CopyFills ==
  ASSUME NEW x, NEW y, Sorted(x), Sorted(y), NEW l, NEW r, NEW q, NEW cell, l <= r, cell = l + q
  PROVE  /\ Cut(x, y, l, q) /\ Cut(x, y, r, q) => Fills(x, y, Copy(1, l, r, cell), cell, cell + (r - l))
         /\ Cut(x, y, q, l) /\ Cut(x, y, q, r) => Fills(x, y, Copy(2, l, r, cell), cell, cell + (r - l))
<1>0. Len(x) \in Nat /\ Len(y) \in Nat
  BY SortedFacts
<1>1. ASSUME NEW s, l \in Int, r \in Int, q \in Int,
             \A k \in l .. r - 1 : Stands(x, y, cell + (k - l), << s, k >>)
      PROVE  Fills(x, y, Copy(s, l, r, cell), cell, cell + (r - l))
  <2>1. ASSUME NEW w \in Copy(s, l, r, cell)
        PROVE  w[1] \in cell .. (cell + (r - l)) - 1 /\ Stands(x, y, w[1], << w[2], w[3] >>)
    <3>1. PICK k \in l .. r - 1 : w = << cell + k - l, s, k >>
      BY DEF Copy
    <3>2. w[1] = cell + (k - l) /\ << w[2], w[3] >> = << s, k >> /\ cell + (k - l) \in cell .. (cell + (r - l)) - 1
      BY <3>1, <1>1
    <3> QED BY <3>2, <1>1
  <2>2. ASSUME NEW c \in cell .. (cell + (r - l)) - 1 PROVE \E w \in Copy(s, l, r, cell) : w[1] = c
    <3> DEFINE k == c - cell + l
               w == << cell + k - l, s, k >>
    <3>1. k \in l .. r - 1 /\ w[1] = c
      BY <1>1
    <3> HIDE DEF k
    <3>2. w \in Copy(s, l, r, cell)
      BY <3>1 DEF Copy
    <3> QED BY <3>1, <3>2
  <2> QED BY <2>1, <2>2 DEF Fills
<1>2. ASSUME Cut(x, y, l, q), Cut(x, y, r, q) PROVE Fills(x, y, Copy(1, l, r, cell), cell, cell + (r - l))
  <2>1. l \in Int /\ r \in Int /\ q \in Int
    BY <1>0, <1>2 DEF Cut
  <2>2. ASSUME NEW k \in l .. r - 1 PROVE Stands(x, y, cell + (k - l), << 1, k >>)
    <3>1. k \in l .. r /\ k + 1 \in l .. r /\ (cell + (k - l)) - k = q
      BY <2>1
    <3>2. Cut(x, y, k, q) /\ Cut(x, y, k + 1, q)
      BY <3>1, <1>2, CutBetween
    <3> QED BY <3>1, <3>2 DEF Stands
  <2> QED BY <2>1, <2>2, <1>1
<1>3. ASSUME Cut(x, y, q, l), Cut(x, y, q, r) PROVE Fills(x, y, Copy(2, l, r, cell), cell, cell + (r - l))
  <2>1. l \in Int /\ r \in Int /\ q \in Int
    BY <1>0, <1>3 DEF Cut
  <2>2. ASSUME NEW k \in l .. r - 1 PROVE Stands(x, y, cell + (k - l), << 2, k >>)
    <3>1. k \in l .. r /\ k + 1 \in l .. r /\ (cell + (k - l)) - k = q
      BY <2>1
    <3>2. Cut(x, y, q, k) /\ Cut(x, y, q, k + 1)
      BY <3>1, <1>3, CutBetween
    <3> QED BY <3>1, <3>2 DEF Stands
  <2> QED BY <2>1, <2>2, <1>1
<1> QED BY <1>2, <1>3

-----------------------------------------------------------------------------
(* The standard merge *)

\* A cut within a piece.
Inside(x, y, t, i, j) ==
  /\ t.xl <= i /\ i <= t.xr /\ t.yl <= j /\ j <= t.yr
  /\ Cut(x, y, i, j)

\* The entry taken next moves the cut on.
LEMMA LeftStep ==
  ASSUME NEW x, NEW y, NEW t, Sorted(x), Sorted(y), PieceOk(x, y, t),
         NEW i, NEW j, Inside(x, y, t, i, j), i + j < t.xr + t.yr
  PROVE  IF TakesFirst(x, y, t, << i, j >>) THEN Inside(x, y, t, i + 1, j)
                                            ELSE Inside(x, y, t, i, j + 1)
<1>0. /\ Len(x) \in Nat /\ Len(y) \in Nat
      /\ t.xl \in 0 .. Len(x) /\ t.xr \in 0 .. Len(x)
      /\ t.yl \in 0 .. Len(y) /\ t.yr \in 0 .. Len(y)
  BY PieceFacts
<1>1. /\ i \in 0 .. Len(x) /\ j \in 0 .. Len(y) /\ Cut(x, y, i, j)
      /\ t.xl <= i /\ i <= t.xr /\ t.yl <= j /\ j <= t.yr
  BY <1>0 DEF Inside, Cut
<1>2. Cut(x, y, t.xr, t.yr)
  BY DEF PieceOk
<1> DEFINE First == TakesFirst(x, y, t, << i, j >>)
<1>3. First <=> i < t.xr /\ (j = t.yr \/ At(x, i) < At(y, j))
  BY DEF TakesFirst
<1> HIDE DEF First
<1>4. CASE First /\ j = t.yr
  <2>1. i + 1 \in i .. t.xr /\ i < t.xr
    BY <1>0, <1>1, <1>3, <1>4
  <2>2. Cut(x, y, i + 1, j)
    BY <1>1, <1>2, <1>4, <2>1, CutBetween
  <2>3. Inside(x, y, t, i + 1, j)
    BY <1>1, <2>1, <2>2, <1>0 DEF Inside
  <2> QED BY <1>4, <2>3 DEF First
<1>5. CASE First /\ j # t.yr
  <2>1. i < t.xr /\ At(x, i) < At(y, j) /\ i \in 0 .. Len(x) - 1
    BY <1>0, <1>1, <1>3, <1>5
  <2>2. Behind(y, j, At(x, i))
    BY <1>1, <2>1 DEF Behind, Cut
  <2>3. Cut(x, y, i + 1, j)
    BY <2>1, <2>2, PlaceIsCut
  <2>4. Inside(x, y, t, i + 1, j)
    BY <1>1, <2>1, <2>3, <1>0 DEF Inside
  <2> QED BY <1>5, <2>4 DEF First
<1>6. CASE ~ First /\ i = t.xr
  <2>1. j + 1 \in j .. t.yr /\ j < t.yr
    BY <1>0, <1>1, <1>6
  <2>2. Cut(x, y, i, j + 1)
    BY <1>1, <1>2, <1>6, <2>1, CutBetween
  <2>3. Inside(x, y, t, i, j + 1)
    BY <1>1, <2>1, <2>2, <1>0 DEF Inside
  <2> QED BY <1>6, <2>3 DEF First
<1>7. CASE ~ First /\ i # t.xr
  <2>1. i < t.xr /\ j < t.yr /\ ~ (At(x, i) < At(y, j))
    BY <1>0, <1>1, <1>3, <1>7
  <2>2. j \in 0 .. Len(y) - 1 /\ i \in 0 .. Len(x) - 1
    BY <1>0, <1>1, <2>1
  <2>3. At(y, j) <= At(x, i)
    BY <2>1, <2>2, SortedFacts
  <2>4. Ahead(x, i, At(y, j))
    <3>1. i > 0 => At(x, i - 1) < At(y, j)
      BY <1>1, <2>2, <1>0 DEF Cut
    <3> QED BY <1>1, <2>3, <3>1 DEF Ahead
  <2>5. Cut(x, y, i, j + 1)
    BY <2>2, <2>4, PlaceIsCut
  <2>6. Inside(x, y, t, i, j + 1)
    BY <1>1, <2>1, <2>5, <1>0 DEF Inside
  <2> QED BY <1>7, <2>6 DEF First
<1> QED BY <1>4, <1>5, <1>6, <1>7

LEMMA RightStep ==
  ASSUME NEW x, NEW y, NEW t, Sorted(x), Sorted(y), PieceOk(x, y, t),
         NEW i, NEW j, Inside(x, y, t, i, j), t.xl + t.yl < i + j
  PROVE  IF TakesLast(x, y, t, << i, j >>) THEN Inside(x, y, t, i - 1, j)
                                           ELSE Inside(x, y, t, i, j - 1)
<1>0. /\ Len(x) \in Nat /\ Len(y) \in Nat
      /\ t.xl \in 0 .. Len(x) /\ t.xr \in 0 .. Len(x)
      /\ t.yl \in 0 .. Len(y) /\ t.yr \in 0 .. Len(y)
  BY PieceFacts
<1>1. /\ i \in 0 .. Len(x) /\ j \in 0 .. Len(y) /\ Cut(x, y, i, j)
      /\ t.xl <= i /\ i <= t.xr /\ t.yl <= j /\ j <= t.yr
  BY <1>0 DEF Inside, Cut
<1>2. Cut(x, y, t.xl, t.yl)
  BY DEF PieceOk
<1> DEFINE Last == TakesLast(x, y, t, << i, j >>)
<1>3. Last <=> i > t.xl /\ (j = t.yl \/ ~ (At(x, i - 1) < At(y, j - 1)))
  BY DEF TakesLast
<1> HIDE DEF Last
<1>4. CASE Last /\ j = t.yl
  <2>1. i - 1 \in t.xl .. i /\ i > t.xl
    BY <1>0, <1>1, <1>3, <1>4
  <2>2. Cut(x, y, i - 1, j)
    BY <1>1, <1>2, <1>4, <2>1, CutBetween
  <2>3. Inside(x, y, t, i - 1, j)
    BY <1>1, <2>1, <2>2, <1>0 DEF Inside
  <2> QED BY <1>4, <2>3 DEF Last
<1>5. CASE Last /\ j # t.yl
  <2>1. i > t.xl /\ j > t.yl /\ ~ (At(x, i - 1) < At(y, j - 1))
    BY <1>0, <1>1, <1>3, <1>5
  <2>2. i - 1 \in 0 .. Len(x) - 1 /\ j - 1 \in 0 .. Len(y) - 1 /\ (i - 1) + 1 = i
    BY <1>0, <1>1, <2>1
  <2>3. At(y, j - 1) <= At(x, i - 1)
    BY <2>1, <2>2, SortedFacts
  <2>4. Behind(y, j, At(x, i - 1))
    <3>1. j < Len(y) => At(x, i - 1) < At(y, j)
      BY <1>1, <2>2, <1>0 DEF Cut
    <3> QED BY <1>1, <2>3, <3>1 DEF Behind
  <2>5. Cut(x, y, i - 1, j)
    BY <2>2, <2>4, PlaceIsCut
  <2>6. Inside(x, y, t, i - 1, j)
    BY <1>1, <2>1, <2>5, <1>0 DEF Inside
  <2> QED BY <1>5, <2>6 DEF Last
<1>6. CASE ~ Last /\ i = t.xl
  <2>1. j - 1 \in t.yl .. j /\ j > t.yl
    BY <1>0, <1>1, <1>6
  <2>2. Cut(x, y, i, j - 1)
    BY <1>1, <1>2, <1>6, <2>1, CutBetween
  <2>3. Inside(x, y, t, i, j - 1)
    BY <1>1, <2>1, <2>2, <1>0 DEF Inside
  <2> QED BY <1>6, <2>3 DEF Last
<1>7. CASE ~ Last /\ i # t.xl
  <2>1. i > t.xl /\ j > t.yl /\ At(x, i - 1) < At(y, j - 1)
    BY <1>0, <1>1, <1>3, <1>7
  <2>2. j - 1 \in 0 .. Len(y) - 1 /\ i - 1 \in 0 .. Len(x) - 1
    BY <1>0, <1>1, <2>1
  <2>4. Ahead(x, i, At(y, j - 1))
    <3>1. i < Len(x) => At(y, j - 1) <= At(x, i)
      BY <1>1, <2>2, <1>0 DEF Cut
    <3> QED BY <1>1, <2>1, <3>1 DEF Ahead
  <2>5. Cut(x, y, i, j - 1)
    BY <2>2, <2>4, PlaceIsCut
  <2>6. Inside(x, y, t, i, j - 1)
    BY <1>1, <2>1, <2>5, <1>0 DEF Inside
  <2> QED BY <1>7, <2>6 DEF Last
<1> QED BY <1>4, <1>5, <1>6, <1>7

LEMMA MergeFromLeftFills ==
  ASSUME NEW x, NEW y, NEW t, Sorted(x), Sorted(y), PieceOk(x, y, t), NEW steps \in 0 .. Size(t)
  PROVE  Fills(x, y, merge_from_left(x, y, t, steps), t.out, t.out + steps)
<1> DEFINE step == [ s \in Nat \X Nat |->
                       IF TakesFirst(x, y, t, s) THEN << s[1] + 1, s[2] >> ELSE << s[1], s[2] + 1 >> ]
           at == Iterates(step, << t.xl, t.yl >>, steps)
           Ok(k, s) == s \in Nat \X Nat /\ Inside(x, y, t, s[1], s[2]) /\ s[1] + s[2] = t.out + k
           P == { k \in 0 .. steps : Ok(k, at[k]) }
           First(k) == TakesFirst(x, y, t, at[k])
           w(k) == IF First(k) THEN << t.out + k, 1, at[k][1] >> ELSE << t.out + k, 2, at[k][2] >>
<1>0. /\ Len(x) \in Nat /\ Len(y) \in Nat
      /\ t.xl \in 0 .. Len(x) /\ t.xr \in 0 .. Len(x)
      /\ t.yl \in 0 .. Len(y) /\ t.yr \in 0 .. Len(y)
      /\ t.xl <= t.xr /\ t.yl <= t.yr /\ t.out = t.xl + t.yl
      /\ Size(t) \in Nat /\ t.out + Size(t) = t.xr + t.yr
  BY PieceFacts
<1>1. at[0] = << t.xl, t.yl >> /\ \A k \in 0 .. steps - 1 : at[k + 1] = step[at[k]]
  <2>1. steps \in Nat
    BY <1>0
  <2> HIDE DEF step
  <2> QED BY <2>1, IteratesFacts
<1> HIDE DEF at, step
<1>2. ASSUME NEW k \in 0 .. steps - 1, Ok(k, at[k])
      PROVE  /\ Ok(k + 1, at[k + 1])
             /\ First(k) => at[k + 1] = << at[k][1] + 1, at[k][2] >>
             /\ ~ First(k) => at[k + 1] = << at[k][1], at[k][2] + 1 >>
  <2> DEFINE i == at[k][1]
             j == at[k][2]
  <2>1. i \in Nat /\ j \in Nat /\ at[k] = << i, j >> /\ Inside(x, y, t, i, j) /\ i + j = t.out + k
    BY <1>2
  <2>2. at[k + 1] = IF First(k) THEN << i + 1, j >> ELSE << i, j + 1 >>
    <3>1. at[k + 1] = step[at[k]] /\ at[k] \in Nat \X Nat
      BY <1>1, <1>2
    <3> QED BY <3>1 DEF step
  <2> HIDE DEF i, j
  <2>3. i + j < t.xr + t.yr
    BY <1>0, <2>1
  <2>4. IF TakesFirst(x, y, t, << i, j >>) THEN Inside(x, y, t, i + 1, j) ELSE Inside(x, y, t, i, j + 1)
    BY <2>1, <2>3, LeftStep
  <2>5. CASE First(k)
    <3>1. at[k + 1] = << i + 1, j >> /\ Inside(x, y, t, i + 1, j)
      BY <2>1, <2>2, <2>4, <2>5
    <3>2. Ok(k + 1, << i + 1, j >>)
      <4> DEFINE s == << i + 1, j >>
      <4>1. s \in Nat \X Nat /\ s[1] = i + 1 /\ s[2] = j
        BY <2>1
      <4>2. s[1] + s[2] = t.out + (k + 1)
        <5>1. i \in Nat /\ j \in Nat /\ i + j = t.out + k
          BY <2>1
        <5>2. t.out \in Nat /\ k \in Nat
          BY <1>0
        <5> QED BY <4>1, <5>1, <5>2
      <4> HIDE DEF s
      <4>3. Ok(k + 1, s)
        BY <4>1, <4>2, <3>1
      <4> QED BY <4>3 DEF s
    <3> QED BY <3>1, <3>2, <2>5 DEF i, j
  <2>6. CASE ~ First(k)
    <3>1. at[k + 1] = << i, j + 1 >> /\ Inside(x, y, t, i, j + 1)
      BY <2>1, <2>2, <2>4, <2>6
    <3>2. Ok(k + 1, << i, j + 1 >>)
      <4> DEFINE s == << i, j + 1 >>
      <4>1. s \in Nat \X Nat /\ s[1] = i /\ s[2] = j + 1
        BY <2>1
      <4>2. s[1] + s[2] = t.out + (k + 1)
        <5>1. i \in Nat /\ j \in Nat /\ i + j = t.out + k
          BY <2>1
        <5>2. t.out \in Nat /\ k \in Nat
          BY <1>0
        <5> QED BY <4>1, <5>1, <5>2
      <4> HIDE DEF s
      <4>3. Ok(k + 1, s)
        BY <4>1, <4>2, <3>1
      <4> QED BY <4>3 DEF s
    <3> QED BY <3>1, <3>2, <2>6 DEF i, j
  <2> QED BY <2>5, <2>6
<1>3. \A k \in 0 .. steps : Ok(k, at[k])
  <2>1. 0 \in P
    <3>1. Ok(0, << t.xl, t.yl >>)
      BY <1>0 DEF Inside, PieceOk
    <3> QED BY <1>0, <1>1, <3>1
  <2>2. \A k \in 0 .. steps - 1 : k \in P => k + 1 \in P
    <3> SUFFICES ASSUME NEW k \in 0 .. steps - 1, k \in P PROVE k + 1 \in P
      OBVIOUS
    <3> HIDE DEF Ok
    <3>1. Ok(k, at[k]) /\ k + 1 \in 0 .. steps
      BY <1>0
    <3> QED BY <3>1, <1>2
  <2>3. steps \in Nat
    BY <1>0
  <2> HIDE DEF P
  <2>4. \A k \in 0 .. steps : k \in P
    BY <2>1, <2>2, <2>3, Induct
  <2> QED BY <2>4 DEF P
<1>4. merge_from_left(x, y, t, steps) = { w(k) : k \in 0 .. steps - 1 }
  BY DEF merge_from_left, at, step
<1>5. ASSUME NEW k \in 0 .. steps - 1
      PROVE  w(k)[1] = t.out + k /\ Stands(x, y, w(k)[1], << w(k)[2], w(k)[3] >>)
  <2> DEFINE i == at[k][1]
             j == at[k][2]
  <2>1. Ok(k, at[k]) /\ Ok(k + 1, at[k + 1])
    <3>1. k \in 0 .. steps /\ k + 1 \in 0 .. steps
      BY <1>0
    <3> HIDE DEF Ok
    <3> QED BY <1>3, <3>1
  <2>2. Cut(x, y, i, j) /\ i \in Nat /\ j \in Nat /\ i + j = t.out + k
    BY <2>1 DEF Inside
  <2>3. CASE First(k)
    <3>1. at[k + 1] = << i + 1, j >>
      <4> HIDE DEF Ok, First
      <4> QED BY <2>1, <2>3, <1>2
    <3>2. Cut(x, y, i + 1, j)
      BY <2>1, <3>1 DEF Inside
    <3> HIDE DEF i, j
    <3>3. (t.out + k) - i = j
      BY <2>2, <1>0
    <3>4. Stands(x, y, t.out + k, << 1, i >>)
      BY <2>2, <3>2, <3>3 DEF Stands
    <3>5. w(k) = << t.out + k, 1, i >>
      BY <2>3 DEF i
    <3> QED BY <3>4, <3>5
  <2>4. CASE ~ First(k)
    <3>1. at[k + 1] = << i, j + 1 >>
      <4> HIDE DEF Ok, First
      <4> QED BY <2>1, <2>4, <1>2
    <3>2. Cut(x, y, i, j + 1)
      BY <2>1, <3>1 DEF Inside
    <3> HIDE DEF i, j
    <3>3. (t.out + k) - j = i
      BY <2>2, <1>0
    <3>4. Stands(x, y, t.out + k, << 2, j >>)
      BY <2>2, <3>2, <3>3 DEF Stands
    <3>5. w(k) = << t.out + k, 2, j >>
      BY <2>4 DEF j
    <3> QED BY <3>4, <3>5
  <2> QED BY <2>3, <2>4
<1> HIDE DEF w, Ok, P, First
<1>6. ASSUME NEW u \in merge_from_left(x, y, t, steps)
      PROVE  u[1] \in t.out .. (t.out + steps) - 1 /\ Stands(x, y, u[1], << u[2], u[3] >>)
  <2>1. PICK k \in 0 .. steps - 1 : u = w(k)
    BY <1>4
  <2>2. t.out + k \in t.out .. (t.out + steps) - 1
    BY <1>0
  <2> QED BY <2>1, <2>2, <1>5
<1>7. ASSUME NEW c \in t.out .. (t.out + steps) - 1
      PROVE  \E u \in merge_from_left(x, y, t, steps) : u[1] = c
  <2>1. c - t.out \in 0 .. steps - 1 /\ t.out + (c - t.out) = c
    BY <1>0
  <2>2. w(c - t.out) \in merge_from_left(x, y, t, steps)
    BY <2>1, <1>4
  <2> QED BY <2>1, <2>2, <1>5
<1> QED BY <1>6, <1>7 DEF Fills

LEMMA MergeFromRightFills ==
  ASSUME NEW x, NEW y, NEW t, Sorted(x), Sorted(y), PieceOk(x, y, t), NEW steps \in 0 .. Size(t)
  PROVE  Fills(x, y, merge_from_right(x, y, t, steps), t.out + Size(t) - steps, t.out + Size(t))
<1> DEFINE step == [ s \in Nat \X Nat |->
                       IF TakesLast(x, y, t, s) THEN << s[1] - 1, s[2] >> ELSE << s[1], s[2] - 1 >> ]
           at == Iterates(step, << t.xr, t.yr >>, steps)
           end == t.out + Size(t)
           Ok(k, s) == s \in Nat \X Nat /\ Inside(x, y, t, s[1], s[2]) /\ s[1] + s[2] = end - k
           P == { k \in 0 .. steps : Ok(k, at[k]) }
           Last(k) == TakesLast(x, y, t, at[k])
           cell(k) == t.out + Size(t) - 1 - k
           w(k) == IF Last(k) THEN << cell(k), 1, at[k][1] - 1 >> ELSE << cell(k), 2, at[k][2] - 1 >>
<1>0. /\ Len(x) \in Nat /\ Len(y) \in Nat
      /\ t.xl \in 0 .. Len(x) /\ t.xr \in 0 .. Len(x)
      /\ t.yl \in 0 .. Len(y) /\ t.yr \in 0 .. Len(y)
      /\ t.xl <= t.xr /\ t.yl <= t.yr /\ t.out = t.xl + t.yl
      /\ Size(t) \in Nat /\ end \in Nat /\ end = t.xr + t.yr /\ steps \in Nat
      /\ end - steps >= t.xl + t.yl
  BY PieceFacts
<1>1. at[0] = << t.xr, t.yr >> /\ \A k \in 0 .. steps - 1 : at[k + 1] = step[at[k]]
  <2> HIDE DEF step
  <2> QED BY <1>0, IteratesFacts, SMTT(30)
<1>4. merge_from_right(x, y, t, steps) = { w(k) : k \in 0 .. steps - 1 }
  BY DEF merge_from_right
<1>c. \A k \in Int : cell(k) = end - 1 - k
  BY <1>0, SMTT(30)
<1>e. t.out + Size(t) - steps = end - steps
  BY <1>0
<1> HIDE DEF at, step, end, cell
<1>2. ASSUME NEW k \in 0 .. steps - 1, Ok(k, at[k])
      PROVE  /\ Ok(k + 1, at[k + 1])
             /\ Last(k) => at[k + 1] = << at[k][1] - 1, at[k][2] >>
             /\ ~ Last(k) => at[k + 1] = << at[k][1], at[k][2] - 1 >>
  <2> DEFINE i == at[k][1]
             j == at[k][2]
  <2>1. i \in Nat /\ j \in Nat /\ at[k] = << i, j >> /\ Inside(x, y, t, i, j) /\ i + j = end - k
    BY <1>2
  <2>2. at[k + 1] = IF Last(k) THEN << i - 1, j >> ELSE << i, j - 1 >>
    <3>1. at[k + 1] = step[at[k]] /\ at[k] \in Nat \X Nat
      BY <1>1, <1>2
    <3> QED BY <3>1 DEF step
  <2> HIDE DEF i, j
  <2>3. t.xl + t.yl < i + j
    BY <1>0, <2>1, SMTT(30)
  <2>4. IF TakesLast(x, y, t, << i, j >>) THEN Inside(x, y, t, i - 1, j) ELSE Inside(x, y, t, i, j - 1)
    BY <2>1, <2>3, RightStep
  <2>0. i \in Nat /\ j \in Nat /\ i + j = end - k /\ end \in Nat /\ k \in Nat
    BY <1>0, <2>1
  <2>5. CASE Last(k)
    <3>1. at[k + 1] = << i - 1, j >> /\ Inside(x, y, t, i - 1, j)
      BY <2>1, <2>2, <2>4, <2>5
    <3>2. Ok(k + 1, << i - 1, j >>)
      <4> DEFINE s == << i - 1, j >>
      <4>0. i - 1 \in Nat
        BY <3>1, <1>0, <2>0, SMTT(30) DEF Inside
      <4>1. s \in Nat \X Nat /\ s[1] = i - 1 /\ s[2] = j
        BY <4>0, <2>0
      <4>2. s[1] + s[2] = end - (k + 1)
        BY <4>1, <2>0
      <4> HIDE DEF s
      <4>3. Ok(k + 1, s)
        BY <4>1, <4>2, <3>1
      <4> QED BY <4>3 DEF s
    <3> QED BY <3>1, <3>2, <2>5 DEF i, j
  <2>6. CASE ~ Last(k)
    <3>1. at[k + 1] = << i, j - 1 >> /\ Inside(x, y, t, i, j - 1)
      BY <2>1, <2>2, <2>4, <2>6
    <3>2. Ok(k + 1, << i, j - 1 >>)
      <4> DEFINE s == << i, j - 1 >>
      <4>0. j - 1 \in Nat
        BY <3>1, <1>0, <2>0, SMTT(30) DEF Inside
      <4>1. s \in Nat \X Nat /\ s[1] = i /\ s[2] = j - 1
        BY <4>0, <2>0
      <4>2. s[1] + s[2] = end - (k + 1)
        BY <4>1, <2>0
      <4> HIDE DEF s
      <4>3. Ok(k + 1, s)
        BY <4>1, <4>2, <3>1
      <4> QED BY <4>3 DEF s
    <3> QED BY <3>1, <3>2, <2>6 DEF i, j
  <2> QED BY <2>5, <2>6
<1>3. \A k \in 0 .. steps : Ok(k, at[k])
  <2>1. 0 \in P
    <3>1. Ok(0, << t.xr, t.yr >>)
      BY <1>0 DEF Inside, PieceOk
    <3> QED BY <1>0, <1>1, <3>1, SMTT(30)
  <2>2. \A k \in 0 .. steps - 1 : k \in P => k + 1 \in P
    <3> SUFFICES ASSUME NEW k \in 0 .. steps - 1, k \in P PROVE k + 1 \in P
      OBVIOUS
    <3> HIDE DEF Ok
    <3>1. Ok(k, at[k]) /\ k + 1 \in 0 .. steps
      BY <1>0
    <3> QED BY <3>1, <1>2
  <2> HIDE DEF P
  <2>4. \A k \in 0 .. steps : k \in P
    BY <2>1, <2>2, <1>0, Induct
  <2> QED BY <2>4 DEF P
<1>5. ASSUME NEW k \in 0 .. steps - 1
      PROVE  w(k)[1] = cell(k) /\ Stands(x, y, w(k)[1], << w(k)[2], w(k)[3] >>)
  <2> DEFINE i == at[k][1]
             j == at[k][2]
  <2>1. Ok(k, at[k]) /\ Ok(k + 1, at[k + 1])
    <3>1. k \in 0 .. steps /\ k + 1 \in 0 .. steps
      BY <1>0
    <3> HIDE DEF Ok
    <3> QED BY <1>3, <3>1
  <2>2. Cut(x, y, i, j) /\ i \in Nat /\ j \in Nat /\ i + j = end - k /\ end \in Nat /\ k \in Nat
    <3>1. Cut(x, y, i, j) /\ at[k] \in Nat \X Nat /\ i + j = end - k
      BY <2>1, Zenon DEF Inside
    <3>2. i \in Nat /\ j \in Nat
      BY <3>1
    <3> QED BY <3>1, <3>2, <1>0
  <2>3. CASE Last(k)
    <3>1. at[k + 1] = << i - 1, j >>
      <4> HIDE DEF Ok, Last
      <4> QED BY <2>1, <2>3, <1>2
    <3>2. Cut(x, y, i - 1, j)
      BY <2>1, <3>1 DEF Inside
    <3>5. w(k) = << cell(k), 1, i - 1 >>
      BY <2>3 DEF i
    <3> HIDE DEF i, j
    <3>3. cell(k) - (i - 1) = j /\ (i - 1) + 1 = i
      BY <2>2, <1>c
    <3>4. Stands(x, y, cell(k), << 1, i - 1 >>)
      BY <2>2, <3>2, <3>3 DEF Stands
    <3> HIDE DEF w
    <3> QED BY <3>4, <3>5
  <2>4. CASE ~ Last(k)
    <3>1. at[k + 1] = << i, j - 1 >>
      <4> HIDE DEF Ok, Last
      <4> QED BY <2>1, <2>4, <1>2
    <3>2. Cut(x, y, i, j - 1)
      BY <2>1, <3>1 DEF Inside
    <3>5. w(k) = << cell(k), 2, j - 1 >>
      BY <2>4 DEF j
    <3> HIDE DEF i, j
    <3>3. cell(k) - (j - 1) = i /\ (j - 1) + 1 = j
      BY <2>2, <1>c
    <3>4. Stands(x, y, cell(k), << 2, j - 1 >>)
      BY <2>2, <3>2, <3>3 DEF Stands
    <3> HIDE DEF w
    <3> QED BY <3>4, <3>5
  <2> QED BY <2>3, <2>4
<1> HIDE DEF w, Ok, P, Last
<1>6. ASSUME NEW u \in merge_from_right(x, y, t, steps)
      PROVE  u[1] \in end - steps .. end - 1 /\ Stands(x, y, u[1], << u[2], u[3] >>)
  <2>1. PICK k \in 0 .. steps - 1 : u = w(k)
    BY <1>4
  <2>0. cell(k) = end - 1 - k
    BY <1>c
  <2>2. cell(k) \in end - steps .. end - 1
    BY <1>0, <2>0
  <2> QED BY <2>1, <2>2, <1>5
<1>7. ASSUME NEW c \in end - steps .. end - 1
      PROVE  \E u \in merge_from_right(x, y, t, steps) : u[1] = c
  <2> DEFINE k == end - 1 - c
  <2>0. k \in 0 .. steps - 1 /\ end - 1 - k = c
    BY <1>0, SMTT(30)
  <2> HIDE DEF k
  <2>1. k \in 0 .. steps - 1 /\ cell(k) = c
    BY <2>0, <1>c
  <2>2. w(k) \in merge_from_right(x, y, t, steps)
    BY <2>1, <1>4
  <2> QED BY <2>1, <2>2, <1>5
<1>8. Fills(x, y, merge_from_right(x, y, t, steps), end - steps, end)
  BY <1>6, <1>7 DEF Fills
<1> QED BY <1>8, <1>e DEF end

-----------------------------------------------------------------------------
(* A merge in progress: what has been written stands where it belongs, and *)
(* what has not is left to a piece; only copies of one stretch share cells.*)

Unwritten(cells, t) ==
  \A c \in Cells(t) : cells[c] = None \/ (t.kind = "copy" /\ cells[c] = Copied(t, c))

Apart(ts) == \A t \in ts : \A u \in ts : t # u => Cells(t) \cap Cells(u) = {} \/ SameCopy(t, u)

WorkInv(x, y, cells, ts) ==
  /\ cells = [ c \in 0 .. Len(x) + Len(y) - 1 |-> cells[c] ]
  /\ \A t \in ts : PieceOk(x, y, t) /\ Unwritten(cells, t)
  /\ Apart(ts)
  /\ \A c \in 0 .. Len(x) + Len(y) - 1 :
       \/ cells[c] = None /\ \E t \in ts : c \in Cells(t)
       \/ cells[c] \in {1, 2} \X Nat /\ Stands(x, y, c, cells[c])

\* What a piece is divided into: its cells are written, or left to pieces that
\* are apart.  A copy writes them all.
DividesInto(x, y, t, writes, pieces) ==
  /\ \A w \in writes : w[1] \in Cells(t) /\ Stands(x, y, w[1], << w[2], w[3] >>)
  /\ \A u \in pieces : PieceOk(x, y, u) /\ Cells(u) \subseteq Cells(t)
  /\ \A u \in pieces : \A c \in Cells(u) : ~ \E w \in writes : w[1] = c
  /\ Apart(pieces)
  /\ t.kind = "copy" => pieces = {} /\ \A w \in writes : << w[2], w[3] >> = Copied(t, w[1])
  /\ \A c \in Cells(t) : (\E w \in writes : w[1] = c) \/ \E u \in pieces : c \in Cells(u)

LEMMA CellsRange ==
  ASSUME NEW x, NEW y, NEW t, Sorted(x), Sorted(y), PieceOk(x, y, t)
  PROVE  /\ Cells(t) \subseteq 0 .. Len(x) + Len(y) - 1
         /\ Cells(t) \subseteq t.out .. t.out + Size(t) - 1
         /\ t.kind \in {"clrs", "kruskal", "copy"} => Cells(t) = t.out .. t.out + Size(t) - 1
<1>1. /\ Len(x) \in Nat /\ Len(y) \in Nat
      /\ t.xl \in 0 .. Len(x) /\ t.xr \in 0 .. Len(x)
      /\ t.yl \in 0 .. Len(y) /\ t.yr \in 0 .. Len(y)
      /\ t.xl <= t.xr /\ t.yl <= t.yr /\ t.out = t.xl + t.yl
      /\ Size(t) \in Nat /\ t.out + Size(t) = t.xr + t.yr
  BY PieceFacts
<1>2. Size(t) = (t.xr - t.xl) + (t.yr - t.yl)
  BY DEF Size
<1>3. Cells(t) \subseteq t.out .. t.out + Size(t) - 1
  <2>1. CASE t.kind = "from_left"
    <3>1. Cells(t) = t.out .. t.out + (t.xr - t.xl) - 1
      BY <2>1 DEF Cells
    <3> QED BY <3>1, <1>1, <1>2, SMTT(30)
  <2>2. CASE t.kind = "from_right"
    <3>1. Cells(t) = t.out + (t.xr - t.xl) .. t.out + Size(t) - 1
      BY <2>2 DEF Cells
    <3> QED BY <3>1, <1>1, <1>2
  <2>3. CASE t.kind # "from_left" /\ t.kind # "from_right"
    BY <2>3 DEF Cells
  <2> QED BY <2>1, <2>2, <2>3
<1>4. t.out .. t.out + Size(t) - 1 \subseteq 0 .. Len(x) + Len(y) - 1
  BY <1>1
<1>5. t.kind \in {"clrs", "kruskal", "copy"} => Cells(t) = t.out .. t.out + Size(t) - 1
  BY DEF Cells
<1> QED BY <1>3, <1>4, <1>5

LEMMA CellsEnd ==
  ASSUME NEW x, NEW y, NEW t, Sorted(x), Sorted(y), PieceOk(x, y, t), t.kind \in {"clrs", "kruskal", "copy"}
  PROVE  Cells(t) = t.out .. (t.xr + t.yr) - 1
<1>1. Cells(t) = t.out .. t.out + Size(t) - 1
  BY CellsRange
<1>2. Size(t) \in Nat /\ t.out \in Nat /\ t.out + Size(t) = t.xr + t.yr
  BY PieceFacts, PieceNumbers, Zenon
<1>3. t.out + Size(t) - 1 = (t.out + Size(t)) - 1
  BY <1>2
<1> QED BY <1>1, <1>2, <1>3, Zenon

LEMMA StandsType ==
  ASSUME NEW x, NEW y, Sorted(x), Sorted(y), NEW c \in Int, NEW s, NEW k, Stands(x, y, c, << s, k >>)
  PROVE  << s, k >> \in {1, 2} \X Nat
<1> DEFINE w == << s, k >>
<1>1. w[1] = s /\ w[2] = k
  OBVIOUS
<1> HIDE DEF w
<1>2. s \in {1, 2} /\ k \in Nat
  BY <1>1, SortedFacts DEF w, Stands, Cut
<1> QED BY <1>2

\* A piece is replaced by what it is divided into.
LEMMA WorkGoesOn ==
  ASSUME NEW x, NEW y, NEW cells, NEW ts, NEW t \in ts, NEW writes, NEW pieces,
         Sorted(x), Sorted(y), WorkInv(x, y, cells, ts), DividesInto(x, y, t, writes, pieces)
  PROVE  WorkInv(x, y, Written(cells, writes), (ts \ {t}) \cup pieces)
<1> DEFINE D == 0 .. Len(x) + Len(y) - 1
           after == Written(cells, writes)
           new == (ts \ {t}) \cup pieces
           hit(c) == \E w \in writes : w[1] = c
<1>1. /\ cells = [ c \in D |-> cells[c] ]
      /\ \A u \in ts : PieceOk(x, y, u) /\ Unwritten(cells, u)
      /\ \A u \in ts : \A v \in ts : u # v => Cells(u) \cap Cells(v) = {} \/ SameCopy(u, v)
      /\ \A c \in D :
           \/ cells[c] = None /\ \E u \in ts : c \in Cells(u)
           \/ cells[c] \in {1, 2} \X Nat /\ Stands(x, y, c, cells[c])
  BY DEF WorkInv, Apart
<1>2. /\ \A w \in writes : w[1] \in Cells(t) /\ Stands(x, y, w[1], << w[2], w[3] >>)
      /\ \A u \in pieces : PieceOk(x, y, u) /\ Cells(u) \subseteq Cells(t)
      /\ \A u \in pieces : \A c \in Cells(u) : ~ hit(c)
      /\ \A u \in pieces : \A v \in pieces : u # v => Cells(u) \cap Cells(v) = {} \/ SameCopy(u, v)
      /\ t.kind = "copy" => pieces = {} /\ \A w \in writes : << w[2], w[3] >> = Copied(t, w[1])
      /\ \A c \in Cells(t) : hit(c) \/ \E u \in pieces : c \in Cells(u)
  BY Zenon DEF DividesInto, Apart
<1>3. DOMAIN cells = D
  BY <1>1
<1>4. after = [ c \in D |-> IF hit(c) THEN LET w == CHOOSE w \in writes : w[1] = c IN << w[2], w[3] >>
                                       ELSE cells[c] ]
  BY <1>3 DEF Written
<1>5. ASSUME NEW c \in D
      PROVE  /\ hit(c) => after[c] \in {1, 2} \X Nat /\ Stands(x, y, c, after[c])
             /\ ~ hit(c) => after[c] = cells[c]
             /\ hit(c) => c \in Cells(t) /\ (t.kind = "copy" => after[c] = Copied(t, c))
  <2>1. CASE hit(c)
    <3> DEFINE w == CHOOSE w \in writes : w[1] = c
    <3>1. w \in writes /\ w[1] = c
      BY <2>1
    <3>2. after[c] = << w[2], w[3] >>
      BY <1>4, <2>1
    <3> HIDE DEF w
    <3>3. Stands(x, y, c, << w[2], w[3] >>)
      BY <1>2, <3>1
    <3>4. << w[2], w[3] >> \in {1, 2} \X Nat
      <4>1. c \in Int
        BY SortedFacts
      <4> QED BY <3>3, <4>1, StandsType
    <3> QED BY <2>1, <3>1, <3>2, <3>3, <3>4, <1>2
  <2>2. CASE ~ hit(c)
    BY <1>4, <2>2
  <2> QED BY <2>1, <2>2
<1>6. after = [ c \in D |-> after[c] ]
  BY <1>4
<1>7. \A u \in new : Cells(u) \subseteq D
  <2>1. \A u \in new : PieceOk(x, y, u)
    BY <1>1, <1>2
  <2> QED BY <2>1, CellsRange
<1> HIDE DEF after, D, hit
<1>8. ASSUME NEW u \in new PROVE PieceOk(x, y, u) /\ Unwritten(after, u)
  <2>1. CASE u \in pieces
    <3>1. \A c \in Cells(u) : c \in D /\ ~ hit(c) /\ c \in Cells(t)
      BY <1>2, <1>7, <2>1
    <3>2. t.kind # "copy"
      BY <1>2, <2>1
    <3>3. \A c \in Cells(u) : after[c] = None
      BY <1>1, <1>5, <3>1, <3>2 DEF Unwritten
    <3> QED BY <1>2, <2>1, <3>3 DEF Unwritten
  <2>2. CASE u \in ts \ {t}
    <3> SUFFICES ASSUME NEW c \in Cells(u)
                 PROVE  after[c] = None \/ (u.kind = "copy" /\ after[c] = Copied(u, c))
      BY <1>1, <2>2 DEF Unwritten
    <3>1. c \in D
      BY <1>7
    <3>2. CASE hit(c)
      <4>1. c \in Cells(t) /\ SameCopy(u, t)
        BY <1>1, <1>5, <2>2, <3>1, <3>2
      <4> QED BY <4>1, <1>5, <3>1, <3>2 DEF SameCopy, Copied
    <3>3. CASE ~ hit(c)
      BY <1>1, <1>5, <2>2, <3>1, <3>3 DEF Unwritten
    <3> QED BY <3>2, <3>3
  <2> QED BY <2>1, <2>2
<1>9. Apart(new)
  <2> SUFFICES ASSUME NEW u \in new, NEW v \in new, u # v
               PROVE  Cells(u) \cap Cells(v) = {} \/ SameCopy(u, v)
    BY DEF Apart
  <2>1. \A w \in pieces : \A z \in ts \ {t} : Cells(w) \cap Cells(z) = {}
    <3>1. \A w \in pieces : Cells(w) \subseteq Cells(t) /\ t.kind # "copy"
      BY <1>2
    <3>2. \A z \in ts \ {t} : Cells(t) \cap Cells(z) = {} \/ t.kind = "copy"
      BY <1>1 DEF SameCopy
    <3> QED BY <3>1, <3>2
  <2>2. Cells(u) \cap Cells(v) = Cells(v) \cap Cells(u)
    OBVIOUS
  <2> QED BY <1>1, <1>2, <2>1, <2>2
<1>10. ASSUME NEW c \in D
       PROVE  \/ after[c] = None /\ \E u \in new : c \in Cells(u)
              \/ after[c] \in {1, 2} \X Nat /\ Stands(x, y, c, after[c])
  <2>1. CASE hit(c)
    BY <1>5, <2>1
  <2>2. CASE ~ hit(c) /\ cells[c] = None /\ \E u \in ts : c \in Cells(u)
    <3>1. after[c] = None
      BY <1>5, <2>2
    <3>2. \E u \in new : c \in Cells(u)
      BY <1>2, <2>2
    <3> QED BY <3>1, <3>2
  <2>3. CASE ~ hit(c) /\ cells[c] \in {1, 2} \X Nat /\ Stands(x, y, c, cells[c])
    BY <1>5, <2>3
  <2> QED BY <1>1, <2>1, <2>2, <2>3
<1> QED
  <2> HIDE DEF new
  <2> QED BY <1>6, <1>8, <1>9, <1>10 DEF WorkInv, D, after, new

\* A piece is done when its writes fill its cells.
LEMMA DoneDivides ==
  ASSUME NEW x, NEW y, NEW t, NEW writes, NEW lo, NEW hi,
         t.kind = "copy" => \A w \in writes : << w[2], w[3] >> = Copied(t, w[1]),
         Fills(x, y, writes, lo, hi), Cells(t) = lo .. hi - 1
  PROVE  DividesInto(x, y, t, writes, {})
BY DEF Fills, DividesInto, Apart

\* A thread's copy of a stretch.
LEMMA CopyDivides ==
  ASSUME NEW x, NEW y, NEW t, Sorted(x), Sorted(y), PieceOk(x, y, t), t.kind = "copy"
  PROVE  DividesInto(x, y, t, Copy(1, t.xl, t.xr, t.out), {})
<1>1. /\ t.xl \in Nat /\ t.xr \in Nat /\ t.yl \in Nat /\ t.yr \in Nat
      /\ t.xl <= t.xr /\ t.yl <= t.yr /\ t.out = t.xl + t.yl
  BY PieceFacts, PieceNumbers, Zenon
<1>2. t.yl = t.yr /\ Cut(x, y, t.xl, t.yl) /\ Cut(x, y, t.xr, t.yl)
  BY DEF PieceOk
<1>3. Fills(x, y, Copy(1, t.xl, t.xr, t.out), t.out, t.out + (t.xr - t.xl))
  BY <1>1, <1>2, CopyFills
<1>4. Cells(t) = t.out .. (t.out + (t.xr - t.xl)) - 1
  <2>1. Cells(t) = t.out .. t.out + Size(t) - 1
    BY CellsRange
  <2>2. t.out + Size(t) - 1 = (t.out + (t.xr - t.xl)) - 1
    BY <1>1, <1>2 DEF Size
  <2> QED BY <2>1, <2>2, Zenon
<1>5. ASSUME NEW w \in Copy(1, t.xl, t.xr, t.out) PROVE << w[2], w[3] >> = Copied(t, w[1])
  <2>1. PICK i \in t.xl .. t.xr - 1 : w = << t.out + i - t.xl, 1, i >>
    BY DEF Copy
  <2>2. t.xl + ((t.out + i - t.xl) - t.out) = i
    BY <1>1
  <2> QED BY <2>1, <2>2, Zenon DEF Copied
<1> QED BY <1>3, <1>4, <1>5, DoneDivides, Zenon

-----------------------------------------------------------------------------
(* A piece divided at some of its cells *)

\* Stretches of cells with one cell between each and the next.
Stretches(n, lo, hi) ==
  /\ \A k \in 0 .. n : lo[k] \in Int /\ hi[k] \in Int /\ lo[k] <= hi[k]
  /\ \A k \in 0 .. n - 1 : lo[k + 1] = hi[k] + 1

LEMMA StretchesApart ==
  ASSUME NEW n \in Nat, NEW lo, NEW hi, Stretches(n, lo, hi)
  PROVE  /\ \A k \in 0 .. n : \A m \in 0 .. n : k < m => hi[k] < lo[m]
         /\ \A k \in 0 .. n : lo[0] <= lo[k] /\ hi[k] <= hi[n]
         /\ \A c \in lo[0] .. hi[n] - 1 :
              \/ \E k \in 0 .. n : c \in lo[k] .. hi[k] - 1
              \/ \E k \in 0 .. n - 1 : c = hi[k]
<1>1. /\ \A k \in 0 .. n : lo[k] \in Int /\ hi[k] \in Int /\ lo[k] <= hi[k]
      /\ \A k \in 0 .. n - 1 : lo[k + 1] = hi[k] + 1
  BY DEF Stretches
<1>2. ASSUME NEW k \in 0 .. n PROVE \A m \in 0 .. n : k < m => hi[k] < lo[m]
  <2> DEFINE P == { m \in 0 .. n : k < m => hi[k] < lo[m] }
  <2>1. 0 \in P
    OBVIOUS
  <2>2. ASSUME NEW m \in 0 .. n - 1, m \in P PROVE m + 1 \in P
    <3>1. m \in 0 .. n /\ m + 1 \in 0 .. n
      OBVIOUS
    <3>2. lo[m + 1] = hi[m] + 1 /\ lo[m] <= hi[m] /\ lo[m] \in Int /\ hi[m] \in Int /\ hi[k] \in Int
      BY <1>1, <3>1
    <3>3. k < m => hi[k] < lo[m]
      BY <2>2
    <3>4. k < m + 1 => k < m \/ k = m
      OBVIOUS
    <3>5. k < m + 1 => hi[k] < lo[m + 1]
      BY <3>2, <3>3, <3>4
    <3> QED BY <3>1, <3>5
  <2> HIDE DEF P
  <2>3. \A m \in 0 .. n : m \in P
    BY <2>1, <2>2, Induct
  <2> QED BY <2>3 DEF P
<1>3. ASSUME NEW k \in 0 .. n PROVE lo[0] <= lo[k] /\ hi[k] <= hi[n]
  <2>1. 0 \in 0 .. n /\ n \in 0 .. n
    OBVIOUS
  <2>2. lo[0] \in Int /\ hi[0] \in Int /\ lo[k] \in Int /\ hi[k] \in Int /\ lo[n] \in Int /\ hi[n] \in Int
        /\ lo[0] <= hi[0] /\ lo[n] <= hi[n]
    BY <1>1, <2>1
  <2>3. 0 < k => hi[0] < lo[k]
    BY <1>2, <2>1
  <2>4. k < n => hi[k] < lo[n]
    BY <1>2, <2>1
  <2>5. k = 0 \/ 0 < k
    OBVIOUS
  <2>6. k = n \/ k < n
    OBVIOUS
  <2>7. lo[0] <= lo[k]
    BY <2>2, <2>3, <2>5
  <2>8. hi[k] <= hi[n]
    BY <2>2, <2>4, <2>6
  <2> QED BY <2>7, <2>8
<1>4. ASSUME NEW c \in lo[0] .. hi[n] - 1
      PROVE  \/ \E k \in 0 .. n : c \in lo[k] .. hi[k] - 1
             \/ \E k \in 0 .. n - 1 : c = hi[k]
  <2> DEFINE T == { k \in 0 .. n : c < hi[k] }
  <2>0. 0 \in 0 .. n /\ n \in 0 .. n /\ lo[0] \in Int /\ hi[n] \in Int
    BY <1>1
  <2>1. n \in T
    BY <2>0
  <2>2. PICK k \in T : \A m \in T : k <= m
    <3>1. T \subseteq Nat /\ T # {}
      BY <2>1
    <3> HIDE DEF T
    <3> QED BY <3>1, Smallest
  <2>3. k \in 0 .. n /\ c < hi[k] /\ lo[k] \in Int /\ hi[k] \in Int
    BY <1>1, <2>2
  <2>4. CASE k = 0
    <3>1. c \in lo[k] .. hi[k] - 1
      BY <2>0, <2>3, <2>4
    <3> QED BY <2>3, <3>1
  <2>5. CASE k # 0
    <3>1. k - 1 \in 0 .. n - 1 /\ k - 1 \in 0 .. n /\ (k - 1) + 1 = k
      BY <2>3, <2>5
    <3>2. ~ (c < hi[k - 1]) /\ hi[k - 1] \in Int
      <4>1. k - 1 \notin T
        BY <2>2, <2>3
      <4> QED BY <4>1, <3>1, <1>1
    <3>3. lo[k] = hi[k - 1] + 1
      BY <1>1, <3>1
    <3>4. c = hi[k - 1] \/ c \in lo[k] .. hi[k] - 1
      BY <2>0, <2>3, <3>2, <3>3
    <3> QED BY <2>3, <3>1, <3>4
  <2> QED BY <2>4, <2>5
<1> QED BY <1>2, <1>3, <1>4

\* Writes and pieces of a piece divided that way: the cells between the
\* stretches are written, a stretch is left to a piece or to copies of it.
Split(x, y, t, n, lo, hi, P, writes, pieces) ==
  /\ Stretches(n, lo, hi)
  /\ lo[0] = t.out /\ hi[n] = t.out + Size(t)
  /\ \A k \in 0 .. n : \E u \in pieces : u \in P[k]
  /\ \A u \in pieces : \E k \in 0 .. n : u \in P[k]
  /\ \A k \in 0 .. n : \A u \in P[k] : PieceOk(x, y, u) /\ Cells(u) = lo[k] .. hi[k] - 1
  /\ \A k \in 0 .. n : \A u \in P[k] : \A v \in P[k] : u = v \/ SameCopy(u, v)
  /\ \A w \in writes : Stands(x, y, w[1], << w[2], w[3] >>) /\ \E k \in 0 .. n - 1 : w[1] = hi[k]
  /\ \A k \in 0 .. n - 1 : \E w \in writes : w[1] = hi[k]

LEMMA SplitDivides ==
  ASSUME NEW x, NEW y, NEW t, Sorted(x), Sorted(y), PieceOk(x, y, t), t.kind \in {"clrs", "kruskal"},
         NEW n \in Nat, NEW lo, NEW hi, NEW P, NEW writes, NEW pieces,
         Split(x, y, t, n, lo, hi, P, writes, pieces)
  PROVE  DividesInto(x, y, t, writes, pieces)
<1>0. /\ Stretches(n, lo, hi)
      /\ lo[0] = t.out /\ hi[n] = t.out + Size(t)
      /\ \A k \in 0 .. n : \E u \in pieces : u \in P[k]
      /\ \A u \in pieces : \E k \in 0 .. n : u \in P[k]
      /\ \A k \in 0 .. n : \A u \in P[k] : PieceOk(x, y, u) /\ Cells(u) = lo[k] .. hi[k] - 1
      /\ \A k \in 0 .. n : \A u \in P[k] : \A v \in P[k] : u = v \/ SameCopy(u, v)
      /\ \A w \in writes : Stands(x, y, w[1], << w[2], w[3] >>) /\ \E k \in 0 .. n - 1 : w[1] = hi[k]
      /\ \A k \in 0 .. n - 1 : \E w \in writes : w[1] = hi[k]
  BY Zenon DEF Split
<1>1. Cells(t) = lo[0] .. hi[n] - 1
  <2>1. t.out + Size(t) = t.xr + t.yr
    BY PieceFacts, Zenon
  <2>2. Cells(t) = t.out .. (t.xr + t.yr) - 1
    BY CellsEnd
  <2> QED BY <1>0, <2>1, <2>2, Zenon
<1>2. /\ \A k \in 0 .. n : lo[k] \in Int /\ hi[k] \in Int /\ lo[k] <= hi[k]
      /\ \A k \in 0 .. n - 1 : lo[k + 1] = hi[k] + 1
  BY <1>0 DEF Stretches
<1>3. /\ \A k \in 0 .. n : \A m \in 0 .. n : k < m => hi[k] < lo[m]
      /\ \A k \in 0 .. n : lo[0] <= lo[k] /\ hi[k] <= hi[n]
      /\ \A c \in lo[0] .. hi[n] - 1 :
           \/ \E k \in 0 .. n : c \in lo[k] .. hi[k] - 1
           \/ \E k \in 0 .. n - 1 : c = hi[k]
  <2>1. Stretches(n, lo, hi)
    BY <1>0, Zenon
  <2> QED BY <2>1, StretchesApart
<1>4. \A k \in 0 .. n : lo[k] .. hi[k] - 1 \subseteq Cells(t)
  <2> SUFFICES ASSUME NEW k \in 0 .. n, NEW c \in lo[k] .. hi[k] - 1 PROVE c \in Cells(t)
    OBVIOUS
  <2>1. lo[k] \in Int /\ hi[k] \in Int /\ lo[0] \in Int /\ hi[n] \in Int /\ lo[0] <= lo[k] /\ hi[k] <= hi[n]
    BY <1>2, <1>3
  <2> QED BY <1>1, <2>1
<1>5. \A k \in 0 .. n - 1 : hi[k] \in Cells(t)
  <2> SUFFICES ASSUME NEW k \in 0 .. n - 1 PROVE hi[k] \in Cells(t)
    OBVIOUS
  <2>1. k \in 0 .. n /\ n \in 0 .. n /\ 0 \in 0 .. n /\ k < n
    OBVIOUS
  <2>2. lo[k] \in Int /\ hi[k] \in Int /\ lo[0] \in Int /\ hi[n] \in Int /\ lo[n] \in Int
        /\ lo[0] <= lo[k] /\ lo[k] <= hi[k] /\ hi[k] < lo[n] /\ lo[n] <= hi[n]
    BY <1>2, <1>3, <2>1
  <2> QED BY <1>1, <2>2
<1>6. \A w \in writes : w[1] \in Cells(t)
  BY <1>0, <1>5
<1>7. \A k \in 0 .. n : \A m \in 0 .. n : k # m => (lo[k] .. hi[k] - 1) \cap (lo[m] .. hi[m] - 1) = {}
  <2>1. ASSUME NEW k \in 0 .. n, NEW m \in 0 .. n, k < m
        PROVE  (lo[k] .. hi[k] - 1) \cap (lo[m] .. hi[m] - 1) = {}
    <3>1. hi[k] < lo[m] /\ hi[k] \in Int /\ lo[m] \in Int
      BY <1>2, <1>3, <2>1
    <3> QED BY <3>1
  <2>2. ASSUME NEW k \in 0 .. n, NEW m \in 0 .. n, k # m PROVE k < m \/ m < k
    BY <2>2
  <2> QED BY <2>1, <2>2
<1>8. \A k \in 0 .. n : \A m \in 0 .. n - 1 : hi[m] \notin lo[k] .. hi[k] - 1
  <2> SUFFICES ASSUME NEW k \in 0 .. n, NEW m \in 0 .. n - 1 PROVE hi[m] \notin lo[k] .. hi[k] - 1
    OBVIOUS
  <2>1. m \in 0 .. n /\ (m < k \/ m = k \/ k < m)
    OBVIOUS
  <2>2. m < k => hi[m] < lo[k]
    BY <1>3, <2>1
  <2>3. k < m => hi[k] < lo[m]
    BY <1>3, <2>1
  <2>4. lo[k] \in Int /\ hi[k] \in Int /\ lo[m] \in Int /\ hi[m] \in Int /\ lo[m] <= hi[m]
    BY <1>2, <2>1
  <2> QED BY <2>1, <2>2, <2>3, <2>4
<1>9. ASSUME NEW u \in pieces
      PROVE  PieceOk(x, y, u) /\ Cells(u) \subseteq Cells(t) /\ \E k \in 0 .. n : Cells(u) = lo[k] .. hi[k] - 1
  <2>1. PICK k \in 0 .. n : u \in P[k]
    BY <1>0
  <2>2. PieceOk(x, y, u) /\ Cells(u) = lo[k] .. hi[k] - 1
    BY <1>0, <2>1
  <2> QED BY <1>4, <2>2
<1>10. ASSUME NEW u \in pieces, NEW c \in Cells(u), NEW w \in writes, w[1] = c PROVE FALSE
  <2>1. PICK k \in 0 .. n : c \in lo[k] .. hi[k] - 1
    BY <1>9
  <2>2. \E m \in 0 .. n - 1 : c = hi[m]
    BY <1>0, <1>10
  <2> QED BY <1>8, <2>1, <2>2
<1>11. ASSUME NEW u \in pieces, NEW v \in pieces, u # v
       PROVE  Cells(u) \cap Cells(v) = {} \/ SameCopy(u, v)
  <2>1. PICK k \in 0 .. n : u \in P[k]
    BY <1>0
  <2>2. PICK m \in 0 .. n : v \in P[m]
    BY <1>0
  <2>3. CASE k = m
    BY <1>0, <1>11, <2>1, <2>2, <2>3, Zenon
  <2>4. CASE k # m
    <3>1. Cells(u) = lo[k] .. hi[k] - 1 /\ Cells(v) = lo[m] .. hi[m] - 1
      BY <1>0, <2>1, <2>2
    <3> QED BY <1>7, <2>4, <3>1
  <2> QED BY <2>3, <2>4
<1>12. ASSUME NEW c \in Cells(t) PROVE (\E w \in writes : w[1] = c) \/ \E u \in pieces : c \in Cells(u)
  <2>1. \/ \E k \in 0 .. n : c \in lo[k] .. hi[k] - 1
        \/ \E k \in 0 .. n - 1 : c = hi[k]
    BY <1>1, <1>3
  <2>2. \A k \in 0 .. n : \E u \in pieces : Cells(u) = lo[k] .. hi[k] - 1
    BY <1>0, Zenon
  <2>3. \A k \in 0 .. n - 1 : \E w \in writes : w[1] = hi[k]
    BY <1>0, Zenon
  <2> QED BY <2>1, <2>2, <2>3, Zenon
<1>13. \A u \in pieces : \A c \in Cells(u) : ~ \E w \in writes : w[1] = c
  BY <1>10, Zenon
<1>14. \A w \in writes : Stands(x, y, w[1], << w[2], w[3] >>)
  BY <1>0, Zenon
<1>15. t.kind # "copy"
  OBVIOUS
<1> QED BY <1>6, <1>9, <1>11, <1>12, <1>13, <1>14, <1>15, Zenon DEF DividesInto, Apart

-----------------------------------------------------------------------------
(* Kruskal's division of a piece *)

LEMMA CubeRootRange ==
  ASSUME NEW M \in Nat \ {0}
  PROVE  CubeRoot(M) \in 1 .. M
<1> DEFINE T == { f \in Nat : f * f * f >= M }
<1>1. M \in T
  <2>1. M <= M * M /\ M * M \in Nat
    <3>1. 1 * M <= M * M /\ 1 * M = M /\ M * M \in Nat
      BY TimesOrder
    <3> QED BY <3>1
  <2> DEFINE q == M * M
  <2> HIDE DEF q
  <2>2. M * M <= q * M /\ q * M \in Nat
    BY <2>1, TimesOrder DEF q
  <2>3. M * M * M = q * M
    BY DEF q
  <2>4. M * M * M >= M
    <3> DEFINE u == q * M
    <3>1. u \in Nat /\ q <= u /\ M <= q /\ q \in Nat
      BY <2>1, <2>2 DEF q
    <3> HIDE DEF u
    <3>2. u >= M
      BY <3>1
    <3> QED BY <2>3, <3>2 DEF u
  <2> QED BY <2>4
<1>2. PICK f \in T : \A g \in T : f <= g
  <2>1. T \subseteq Nat /\ T # {}
    BY <1>1
  <2> HIDE DEF T
  <2> QED BY <2>1, Smallest
<1>3. f \in Nat /\ f <= M /\ f * f * f >= M
  BY <1>1, <1>2
<1>4. f # 0
  <2>1. 0 * 0 * 0 = 0
    OBVIOUS
  <2> QED BY <1>3, <2>1
<1>5. f \in 1 .. M /\ f - 1 \in Nat
  BY <1>3, <1>4
<1>6. ~ ((f - 1) * (f - 1) * (f - 1) >= M)
  <2>1. ~ (f <= f - 1)
    BY <1>5
  <2> HIDE DEF T
  <2>2. f - 1 \notin T
    BY <1>2, <2>1
  <2> QED BY <1>5, <2>2 DEF T
<1>7. (f - 1) * (f - 1) * (f - 1) < M
  <2> DEFINE g == f - 1
             a == g * g * g
  <2>1. a \in Int
    BY <1>5
  <2> HIDE DEF a
  <2>2. ~ (a >= M)
    BY <1>6 DEF a
  <2>3. a < M
    BY <2>1, <2>2
  <2> QED BY <2>3 DEF a
<1>8. \E g \in 1 .. M : g * g * g >= M /\ (g - 1) * (g - 1) * (g - 1) < M
  BY <1>3, <1>5, <1>7, Zenon
<1> QED BY <1>8, Zenon DEF CubeRoot

\* The place of an entry of a piece within the piece's span of the other array.
LEMMA PlaceInPiece ==
  ASSUME NEW x, NEW y, NEW t, Sorted(x), Sorted(y), PieceOk(x, y, t)
  PROVE  /\ \A i \in t.xl .. t.xr - 1 :
              LET q == binarysearch(y, t.yl, t.yr, At(x, i), FALSE)
                  r == kruskal_place(x, y, t, i)
              IN  /\ q \in t.yl .. t.yr /\ Cut(x, y, i, q) /\ Cut(x, y, i + 1, q)
                  /\ r \in t.yl .. t.yr /\ Cut(x, y, i, r) /\ Cut(x, y, i + 1, r)
         /\ \A j \in t.yl .. t.yr - 1 :
              LET q == binarysearch(x, t.xl, t.xr, At(y, j), TRUE)
              IN  q \in t.xl .. t.xr /\ Cut(x, y, q, j) /\ Cut(x, y, q, j + 1)
<1>0. /\ Len(x) \in Nat /\ Len(y) \in Nat
      /\ t.xl \in 0 .. Len(x) /\ t.xr \in 0 .. Len(x)
      /\ t.yl \in 0 .. Len(y) /\ t.yr \in 0 .. Len(y)
      /\ t.xl <= t.xr /\ t.yl <= t.yr
  BY PieceFacts
<1>1. Cut(x, y, t.xl, t.yl) /\ Cut(x, y, t.xr, t.yr)
  BY DEF PieceOk
<1>2. ASSUME NEW i \in t.xl .. t.xr - 1
      PROVE  /\ i \in 0 .. Len(x) - 1 /\ At(x, i) \in Int
             /\ t.yl > 0 => At(y, t.yl - 1) <= At(x, i)
             /\ t.yr < Len(y) => At(x, i) < At(y, t.yr)
  <2>1. /\ i \in 0 .. Len(x) - 1 /\ t.xl \in 0 .. Len(x) - 1 /\ t.xr - 1 \in 0 .. Len(x) - 1
        /\ t.xl <= i /\ i <= t.xr - 1 /\ t.xl < Len(x) /\ t.xr > 0
    BY <1>0
  <2>2. /\ At(x, i) \in Int /\ At(x, t.xl) \in Int /\ At(x, t.xr - 1) \in Int
        /\ At(x, t.xl) <= At(x, i) /\ At(x, i) <= At(x, t.xr - 1)
    BY <2>1, SortedFacts
  <2>3. t.yl > 0 => At(y, t.yl - 1) \in Int /\ At(y, t.yl - 1) <= At(x, t.xl)
    <3>1. t.yl > 0 => t.yl - 1 \in 0 .. Len(y) - 1
      BY <1>0
    <3> QED BY <1>1, <2>1, <3>1, SortedFacts DEF Cut
  <2>4. t.yr < Len(y) => At(y, t.yr) \in Int /\ At(x, t.xr - 1) < At(y, t.yr)
    <3>1. t.yr < Len(y) => t.yr \in 0 .. Len(y) - 1
      BY <1>0
    <3> QED BY <1>1, <2>1, <3>1, SortedFacts DEF Cut
  <2> QED BY <2>1, <2>2, <2>3, <2>4
<1>3. ASSUME NEW j \in t.yl .. t.yr - 1
      PROVE  /\ j \in 0 .. Len(y) - 1 /\ At(y, j) \in Int
             /\ t.xl > 0 => At(x, t.xl - 1) < At(y, j)
             /\ t.xr < Len(x) => At(y, j) <= At(x, t.xr)
  <2>1. /\ j \in 0 .. Len(y) - 1 /\ t.yl \in 0 .. Len(y) - 1 /\ t.yr - 1 \in 0 .. Len(y) - 1
        /\ t.yl <= j /\ j <= t.yr - 1 /\ t.yl < Len(y) /\ t.yr > 0
    BY <1>0
  <2>2. /\ At(y, j) \in Int /\ At(y, t.yl) \in Int /\ At(y, t.yr - 1) \in Int
        /\ At(y, t.yl) <= At(y, j) /\ At(y, j) <= At(y, t.yr - 1)
    BY <2>1, SortedFacts
  <2>3. t.xl > 0 => At(x, t.xl - 1) \in Int /\ At(x, t.xl - 1) < At(y, t.yl)
    <3>1. t.xl > 0 => t.xl - 1 \in 0 .. Len(x) - 1
      BY <1>0
    <3> QED BY <1>1, <2>1, <3>1, SortedFacts DEF Cut
  <2>4. t.xr < Len(x) => At(x, t.xr) \in Int /\ At(y, t.yr - 1) <= At(x, t.xr)
    <3>1. t.xr < Len(x) => t.xr \in 0 .. Len(x) - 1
      BY <1>0
    <3> QED BY <1>1, <2>1, <3>1, SortedFacts DEF Cut
  <2> QED BY <2>1, <2>2, <2>3, <2>4
<1>4. ASSUME NEW i \in t.xl .. t.xr - 1
      PROVE  LET q == binarysearch(y, t.yl, t.yr, At(x, i), FALSE)
                 r == kruskal_place(x, y, t, i)
             IN  /\ q \in t.yl .. t.yr /\ Cut(x, y, i, q) /\ Cut(x, y, i + 1, q)
                 /\ r \in t.yl .. t.yr /\ Cut(x, y, i, r) /\ Cut(x, y, i + 1, r)
  <2> DEFINE q == binarysearch(y, t.yl, t.yr, At(x, i), FALSE)
             r == kruskal_place(x, y, t, i)
             key == At(x, i)
  <2>1. key \in Int /\ t.yl \in Nat /\ i \in 0 .. Len(x) - 1
    BY <1>0, <1>2
  <2>2. (t.yl > 0 => At(y, t.yl - 1) <= key) /\ (t.yr < Len(y) => key < At(y, t.yr))
    BY <1>2
  <2>3. /\ binarysearch(y, t.yl, t.yr, key, FALSE) \in t.yl .. t.yr
        /\ Behind(y, binarysearch(y, t.yl, t.yr, key, FALSE), key)
        /\ binarysearch_parallel(y, t.yl, t.yr, key) \in t.yl .. t.yr
        /\ Behind(y, binarysearch_parallel(y, t.yl, t.yr, key), key)
    <3> HIDE DEF key
    <3> QED BY <2>1, <2>2, <1>0, SearchBehind, Zenon
  <2>4. q \in t.yl .. t.yr /\ Behind(y, q, At(x, i))
    BY <2>3, Zenon
  <2>5. r \in t.yl .. t.yr /\ Behind(y, r, At(x, i))
    BY <2>3, Zenon DEF kruskal_place
  <2> HIDE DEF q, r
  <2>6. Cut(x, y, i, q) /\ Cut(x, y, i + 1, q) /\ Cut(x, y, i, r) /\ Cut(x, y, i + 1, r)
    BY <2>1, <2>4, <2>5, PlaceIsCut, Zenon
  <2> QED BY <2>4, <2>5, <2>6, Zenon DEF q, r
<1>5. ASSUME NEW j \in t.yl .. t.yr - 1
      PROVE  LET q == binarysearch(x, t.xl, t.xr, At(y, j), TRUE)
             IN  q \in t.xl .. t.xr /\ Cut(x, y, q, j) /\ Cut(x, y, q, j + 1)
  <2> DEFINE q == binarysearch(x, t.xl, t.xr, At(y, j), TRUE)
             key == At(y, j)
  <2>1. key \in Int /\ t.xl \in Nat /\ j \in 0 .. Len(y) - 1
    BY <1>0, <1>3
  <2>2. (t.xl > 0 => At(x, t.xl - 1) < key) /\ (t.xr < Len(x) => key <= At(x, t.xr))
    BY <1>3
  <2>3. /\ binarysearch(x, t.xl, t.xr, key, TRUE) \in t.xl .. t.xr
        /\ Ahead(x, binarysearch(x, t.xl, t.xr, key, TRUE), key)
    <3> HIDE DEF key
    <3> QED BY <2>1, <2>2, <1>0, SearchAhead, Zenon
  <2>4. q \in t.xl .. t.xr /\ Ahead(x, q, At(y, j))
    BY <2>3, Zenon
  <2> HIDE DEF q
  <2>6. Cut(x, y, q, j) /\ Cut(x, y, q, j + 1)
    BY <2>1, <2>4, PlaceIsCut, Zenon
  <2> QED BY <2>4, <2>6, Zenon DEF q
<1> QED BY <1>4, <1>5, Zenon

\* The marks of a piece: every kruskal_factor-th entry.
LEMMA KruskalMarks ==
  ASSUME NEW t, t.xl \in Nat, t.xr \in Nat, t.xl < t.xr
  PROVE  /\ kruskal_factor(t) \in Nat \ {0}
         /\ kruskal_count(t) \in Nat \ {0}
         /\ \A k \in 0 .. kruskal_count(t) :
              k * kruskal_factor(t) \in Nat /\ t.xl + k * kruskal_factor(t) <= t.xr
         /\ \A k \in 0 .. kruskal_count(t) - 1 :
              /\ kruskal_mark(t, k) \in t.xl .. t.xr - 1
              /\ t.xl + k * kruskal_factor(t) <= kruskal_mark(t, k)
              /\ kruskal_mark(t, k) + 1 = t.xl + (k + 1) * kruskal_factor(t)
<1> DEFINE M == t.xr - t.xl
           f == kruskal_factor(t)
           n == kruskal_count(t)
<1>1. M \in Nat \ {0} /\ M = t.xr - t.xl
  OBVIOUS
<1>2. f \in 1 .. M
  <2>1. f = CubeRoot(M)
    BY DEF kruskal_factor
  <2> HIDE DEF M, f
  <2> QED BY <1>1, <2>1, CubeRootRange
<1>3. n = M \div f
  BY DEF kruskal_count
<1>a. kruskal_factor(t) = f /\ kruskal_count(t) = n
  OBVIOUS
<1> HIDE DEF M, f, n
<1>4. f \in Nat \ {0}
  BY <1>1, <1>2
<1>5. n \in Nat /\ \A i \in Nat : i <= n <=> i * f <= M
  BY <1>1, <1>3, <1>4, PlacesOfStride
<1>6. n # 0
  <2>1. 1 * f = f
    BY <1>4
  <2>2. 1 <= n
    BY <1>1, <1>2, <1>5, <2>1
  <2> QED BY <2>2, <1>5
<1>7. ASSUME NEW k \in 0 .. n PROVE k * f \in Nat /\ t.xl + k * f <= t.xr
  <2>1. k \in Nat /\ k <= n
    BY <1>5
  <2>2. k * f \in Nat /\ k * f <= M
    BY <2>1, <1>4, <1>5, TimesOrder
  <2> DEFINE p == k * f
  <2> HIDE DEF p
  <2>3. p \in Nat /\ p <= M
    BY <2>2 DEF p
  <2>4. t.xl + p <= t.xr
    BY <1>1, <2>3
  <2> QED BY <2>3, <2>4 DEF p
<1>8. ASSUME NEW k \in 0 .. n - 1
      PROVE  /\ kruskal_mark(t, k) \in t.xl .. t.xr - 1
             /\ t.xl + k * f <= kruskal_mark(t, k)
             /\ kruskal_mark(t, k) + 1 = t.xl + (k + 1) * f
  <2>1. k \in Nat /\ k + 1 \in 0 .. n
    BY <1>5
  <2>2. (k + 1) * f \in Nat /\ t.xl + (k + 1) * f <= t.xr
    BY <2>1, <1>7
  <2>3. (k + 1) * f = k * f + f /\ k * f \in Nat
    BY <2>1, <1>4, TimesOrder
  <2>4. kruskal_mark(t, k) = t.xl + (k + 1) * f - 1
    BY <1>a DEF kruskal_mark
  <2> DEFINE p == (k + 1) * f
             q == k * f
             m == kruskal_mark(t, k)
  <2>5. p \in Nat /\ t.xl + p <= t.xr /\ p = q + f /\ q \in Nat /\ m = t.xl + p - 1 /\ f >= 1 /\ f \in Nat
    <3>1. f >= 1
      BY <1>4
    <3> QED BY <2>2, <2>3, <2>4, <1>4, <3>1
  <2> HIDE DEF p, q, m
  <2>6. m \in t.xl .. t.xr - 1 /\ t.xl + q <= m /\ m + 1 = t.xl + p
    BY <2>5
  <2> QED BY <2>6 DEF p, q, m
<1> QED BY <1>a, <1>4, <1>5, <1>6, <1>7, <1>8

\* Where the pieces end.
LEMMA KruskalSegments ==
  ASSUME NEW x, NEW y, NEW t, Sorted(x), Sorted(y), PieceOk(x, y, t), t.xl < t.xr,
         NEW k \in 0 .. kruskal_count(t) - 1
  PROVE  /\ kruskal_segment(x, y, t, k) \in t.yl .. t.yr
         /\ Cut(x, y, kruskal_mark(t, k), kruskal_segment(x, y, t, k))
         /\ Cut(x, y, kruskal_mark(t, k) + 1, kruskal_segment(x, y, t, k))
<1>1. t.xl \in Nat /\ t.xr \in Nat
  BY PieceNumbers, Zenon
<1>2. kruskal_mark(t, k) \in t.xl .. t.xr - 1
  BY <1>1, KruskalMarks
<1>3. kruskal_segment(x, y, t, k) = kruskal_place(x, y, t, kruskal_mark(t, k))
  BY DEF kruskal_segment
<1> QED BY <1>2, <1>3, PlaceInPiece, Zenon

\* The pieces between the marks.
LEMMA KruskalParts ==
  ASSUME NEW x, NEW y, NEW t, Sorted(x), Sorted(y), PieceOk(x, y, t), t.xl < t.xr,
         NEW k \in 0 .. kruskal_count(t)
  PROVE  LET p == kruskal_part(x, y, t, k)
         IN  /\ PieceOk(x, y, p)
             /\ Cells(p) = p.xl + p.yl .. (p.xr + p.yr) - 1
             /\ p.out = p.xl + p.yl
             /\ p.xl = t.xl + k * kruskal_factor(t)
             /\ p.xr = IF k = kruskal_count(t) THEN t.xr ELSE kruskal_mark(t, k)
             /\ p.yl = IF k = 0 THEN t.yl ELSE kruskal_segment(x, y, t, k - 1)
             /\ p.yr = IF k = kruskal_count(t) THEN t.yr ELSE kruskal_segment(x, y, t, k)
<1> DEFINE p == kruskal_part(x, y, t, k)
           f == kruskal_factor(t)
           n == kruskal_count(t)
           mark(i) == kruskal_mark(t, i)
           seg(i) == kruskal_segment(x, y, t, i)
           kf == k * f
<1>0. /\ t.xl \in Nat /\ t.xr \in Nat /\ t.yl \in Nat /\ t.yr \in Nat
      /\ t.xl <= t.xr /\ t.yl <= t.yr /\ t.out = t.xl + t.yl
  BY PieceFacts, PieceNumbers, Zenon
<1>1. /\ f \in Nat \ {0} /\ n \in Nat \ {0}
      /\ \A i \in 0 .. n : i * f \in Nat /\ t.xl + i * f <= t.xr
      /\ \A i \in 0 .. n - 1 :
           mark(i) \in t.xl .. t.xr - 1 /\ t.xl + i * f <= mark(i) /\ mark(i) + 1 = t.xl + (i + 1) * f
  BY <1>0, KruskalMarks, Zenon
<1>2. ASSUME NEW i \in 0 .. n - 1
      PROVE  seg(i) \in t.yl .. t.yr /\ Cut(x, y, mark(i), seg(i)) /\ Cut(x, y, mark(i) + 1, seg(i))
  BY KruskalSegments, Zenon
<1>3. Cut(x, y, t.xl, t.yl) /\ Cut(x, y, t.xr, t.yr)
  BY DEF PieceOk
<1>4. /\ p.kind = "kruskal" /\ p.swapped \in BOOLEAN
      /\ p.xl = t.xl + kf
      /\ p.xr = IF k = n THEN t.xr ELSE mark(k)
      /\ p.yl = IF k = 0 THEN t.yl ELSE seg(k - 1)
      /\ p.yr = IF k = n THEN t.yr ELSE seg(k)
      /\ p.out = t.out + kf + (p.yl - t.yl)
  BY DEF kruskal_part, Piece
<1> HIDE DEF p, f, n, mark, seg
<1>5. k \in 0 .. n /\ n \in Nat \ {0}
  BY <1>1 DEF n
<1>6. k # n => k \in 0 .. n - 1
  BY <1>5
<1>7. k # 0 => k - 1 \in 0 .. n - 1 /\ (k - 1) + 1 = k
  BY <1>5
<1>8. p.yl \in t.yl .. t.yr /\ Cut(x, y, p.xl, p.yl)
  <2>1. CASE k = 0
    <3>1. kf = 0
      BY <2>1, <1>1
    <3> HIDE DEF kf
    <3>2. p.xl = t.xl /\ p.yl = t.yl
      BY <3>1, <2>1, <1>4, <1>0
    <3> QED BY <3>2, <1>0, <1>3
  <2>2. CASE k # 0
    <3>1. mark(k - 1) + 1 = t.xl + kf
      BY <1>1, <1>7, <2>2
    <3>2. p.xl = mark(k - 1) + 1 /\ p.yl = seg(k - 1)
      BY <3>1, <1>4, <2>2
    <3> QED BY <3>2, <1>2, <1>7, <2>2
  <2> QED BY <2>1, <2>2
<1>9. p.yr \in t.yl .. t.yr /\ Cut(x, y, p.xr, p.yr)
  <2>1. CASE k = n
    <3>1. p.xr = t.xr /\ p.yr = t.yr
      BY <2>1, <1>4
    <3> QED BY <3>1, <1>0, <1>3
  <2>2. CASE k # n
    <3>1. p.xr = mark(k) /\ p.yr = seg(k)
      BY <2>2, <1>4
    <3> QED BY <3>1, <2>2, <1>2, <1>6
  <2> QED BY <2>1, <2>2
<1>10. p.xl <= p.xr
  <2>1. k = n => t.xl + kf <= t.xr
    BY <1>1, <1>5
  <2>2. k # n => t.xl + kf <= mark(k)
    BY <1>1, <1>6
  <2> QED BY <2>1, <2>2, <1>4
<1>11. p.yl <= p.yr
  <2>1. CASE k = 0
    <3>1. p.yl = t.yl
      BY <2>1, <1>4
    <3>2. p.yr \in Int /\ t.yl <= p.yr
      BY <1>0, <1>9
    <3> QED BY <3>1, <3>2
  <2>2. CASE k = n
    <3>1. p.yr = t.yr
      BY <2>2, <1>4
    <3>2. p.yl <= t.yr
      BY <1>0, <1>8
    <3> QED BY <3>1, <3>2
  <2>3. CASE k # 0 /\ k # n
    <3>1. p.yl = seg(k - 1) /\ p.yr = seg(k)
      BY <2>3, <1>4
    <3>2. Cut(x, y, mark(k - 1), seg(k - 1)) /\ Cut(x, y, mark(k), seg(k))
      BY <2>3, <1>6, <1>7, <1>2
    <3>3. mark(k - 1) < mark(k)
      <4>1. mark(k - 1) + 1 = t.xl + kf /\ t.xl + kf <= mark(k) /\ mark(k) \in Int /\ mark(k - 1) \in Int
        BY <2>3, <1>6, <1>7, <1>1, <1>0
      <4> QED
        <5> HIDE DEF kf
        <5>1. mark(k - 1) + 1 <= mark(k)
          BY <4>1, Zenon
        <5> QED BY <4>1, <5>1
    <3> QED
      <4> DEFINE a == mark(k - 1)
                 b == mark(k)
                 c == seg(k - 1)
                 d == seg(k)
      <4>1. Cut(x, y, a, c) /\ Cut(x, y, b, d) /\ a < b
        BY <3>2, <3>3
      <4> HIDE DEF a, b, c, d
      <4>2. c <= d
        BY <4>1, CutsOrdered, Zenon
      <4> QED BY <3>1, <4>2 DEF c, d
  <2> QED BY <2>1, <2>2, <2>3
<1>12. p.out = p.xl + p.yl
  <2>1. kf \in Nat
    BY <1>1, <1>5
  <2> HIDE DEF kf
  <2>2. p.yl \in Int /\ t.yl \in Int /\ t.xl \in Int
    BY <1>0, <1>8
  <2> QED BY <2>1, <2>2, <1>0, <1>4
<1>13. PieceOk(x, y, p)
  BY <1>4, <1>8, <1>9, <1>10, <1>11, <1>12 DEF PieceOk, Kinds
<1>14. Cells(p) = p.xl + p.yl .. (p.xr + p.yr) - 1
  BY <1>4, <1>12, <1>13, CellsEnd
<1> QED BY <1>4, <1>12, <1>13, <1>14 DEF p, f, n, mark, seg

\* A thread's copy of a piece that lies at one place of the second array.
LEMMA KruskalCopies ==
  ASSUME NEW x, NEW y, NEW t, NEW k, NEW thread, Sorted(x), Sorted(y),
         PieceOk(x, y, kruskal_part(x, y, t, k)), kruskal_part(x, y, t, k).yl = kruskal_part(x, y, t, k).yr
  PROVE  LET p == kruskal_part(x, y, t, k)
             q == CopyBy(p, thread)
         IN  /\ PieceOk(x, y, q) /\ Cells(q) = Cells(p)
             /\ q.kind = "copy" /\ q.xl = p.xl /\ q.xr = p.xr /\ q.out = p.out
<1> DEFINE p == kruskal_part(x, y, t, k)
           q == CopyBy(p, thread)
<1>1. /\ q.kind = "copy" /\ q.xl = p.xl /\ q.xr = p.xr /\ q.yl = p.yl /\ q.yr = p.yr
      /\ q.out = p.out /\ q.swapped = p.swapped /\ p.kind = "kruskal"
  BY DEF kruskal_part, Piece, CopyBy
<1> HIDE DEF p, q
<1>2. PieceOk(x, y, p) /\ p.yl = p.yr
  BY DEF p
<1>3. PieceOk(x, y, q)
  BY <1>1, <1>2 DEF PieceOk, Kinds
<1>4. Cells(q) = q.out .. q.out + Size(q) - 1 /\ Cells(p) = p.out .. p.out + Size(p) - 1
  BY <1>1, <1>2, <1>3, CellsRange
<1>5. Size(q) = Size(p)
  BY <1>1 DEF Size
<1> QED BY <1>1, <1>3, <1>4, <1>5 DEF p, q

\* The calls that leave nothing to the team.
LEMMA KruskalLeaf ==
  ASSUME NEW x, NEW y, NEW t, Sorted(x), Sorted(y), PieceOk(x, y, t), t.kind \in {"clrs", "kruskal"}
  PROVE  /\ t.yr - t.yl = 0 => DividesInto(x, y, t, Copy(1, t.xl, t.xr, t.out), {})
         /\ t.xr - t.xl = 0 => DividesInto(x, y, t, Copy(2, t.yl, t.yr, t.out), {})
         /\ t.xr - t.xl = 1 =>
              LET first == kruskal_place(x, y, t, t.xl)
              IN  DividesInto(x, y, t,
                    { << t.out + (first - t.yl), 1, t.xl >> }
                    \cup Copy(2, t.yl, first, t.out)
                    \cup Copy(2, first, t.yr, t.out + (first - t.yl) + 1), {})
<1>0. /\ t.xl \in Nat /\ t.xr \in Nat /\ t.yl \in Nat /\ t.yr \in Nat
      /\ t.xl <= t.xr /\ t.yl <= t.yr /\ t.out = t.xl + t.yl
      /\ Size(t) \in Nat /\ t.out + Size(t) = t.xr + t.yr
  BY PieceFacts, PieceNumbers, Zenon
<1>1. Cut(x, y, t.xl, t.yl) /\ Cut(x, y, t.xr, t.yr)
  BY DEF PieceOk
<1> DEFINE end == t.xr + t.yr
<1>2. Cells(t) = t.out .. end - 1
  BY CellsEnd
<1>e. end = t.xr + t.yr /\ t.kind # "copy"
  OBVIOUS
<1> HIDE DEF end
<1>3. ASSUME t.yr - t.yl = 0 PROVE DividesInto(x, y, t, Copy(1, t.xl, t.xr, t.out), {})
  <2>1. t.yl = t.yr
    BY <1>0, <1>3
  <2>2. Cut(x, y, t.xl, t.yl) /\ Cut(x, y, t.xr, t.yl)
    BY <1>1, <2>1
  <2>3. Fills(x, y, Copy(1, t.xl, t.xr, t.out), t.out, t.out + (t.xr - t.xl))
    BY <2>2, <1>0, CopyFills
  <2>4. t.out + (t.xr - t.xl) = end
    BY <1>0, <2>1, <1>e
  <2>5. Fills(x, y, Copy(1, t.xl, t.xr, t.out), t.out, end)
    BY <2>3, <2>4, Zenon
  <2> QED BY <2>5, <1>2, <1>e, DoneDivides
<1>4. ASSUME t.xr - t.xl = 0 PROVE DividesInto(x, y, t, Copy(2, t.yl, t.yr, t.out), {})
  <2>1. t.xl = t.xr
    BY <1>0, <1>4
  <2>2. Cut(x, y, t.xl, t.yl) /\ Cut(x, y, t.xl, t.yr) /\ t.out = t.yl + t.xl
    BY <1>0, <1>1, <2>1
  <2>3. Fills(x, y, Copy(2, t.yl, t.yr, t.out), t.out, t.out + (t.yr - t.yl))
    BY <2>2, <1>0, CopyFills
  <2>4. t.out + (t.yr - t.yl) = end
    BY <1>0, <2>1, <1>e
  <2>5. Fills(x, y, Copy(2, t.yl, t.yr, t.out), t.out, end)
    BY <2>3, <2>4, Zenon
  <2> QED BY <2>5, <1>2, <1>e, DoneDivides
<1> DEFINE q == kruskal_place(x, y, t, t.xl)
           c == t.out + (q - t.yl)
           one == { << c, 1, t.xl >> }
           before == Copy(2, t.yl, q, t.out)
           behind == Copy(2, q, t.yr, c + 1)
<1>5. ASSUME t.xr - t.xl = 1 PROVE DividesInto(x, y, t, one \cup before \cup behind, {})
  <2>0. t.xl \in Int /\ t.xr \in Int /\ t.yl \in Int /\ t.yr \in Int /\ t.out \in Int
    BY <1>0
  <2>1. t.xl \in t.xl .. t.xr - 1 /\ t.xl + 1 = t.xr
    BY <2>0, <1>5
  <2>2. q \in t.yl .. t.yr /\ Cut(x, y, t.xl, q) /\ Cut(x, y, t.xr, q)
    BY <2>1, PlaceInPiece, Zenon
  <2> HIDE DEF q
  <2>3. q \in Int /\ t.yl <= q /\ q <= t.yr /\ c \in Int /\ c = q + t.xl /\ c + 1 = q + t.xr /\ c - t.xl = q
        /\ t.out <= c /\ c + 1 <= end /\ end \in Int /\ t.out \in Int
        /\ t.out + (q - t.yl) = c /\ (c + 1) + (t.yr - q) = end /\ t.out = t.yl + t.xl
    <3>1. q \in Int /\ t.yl <= q /\ q <= t.yr
      BY <2>0, <2>2
    <3>2. t.out = t.xl + t.yl /\ end = t.xr + t.yr /\ t.xl + 1 = t.xr
      BY <1>0, <1>e, <2>1
    <3> QED BY <2>0, <3>1, <3>2
  <2> HIDE DEF c
  <2>4. Fills(x, y, before, t.out, c)
    <3>1. Fills(x, y, before, t.out, t.out + (q - t.yl))
      BY <2>2, <2>3, <1>1, CopyFills
    <3> QED BY <3>1, <2>3, Zenon
  <2>5. Fills(x, y, one, c, c + 1)
    <3> DEFINE w == << 1, t.xl >>
    <3>1. w[1] = 1 /\ w[2] = t.xl
      OBVIOUS
    <3> HIDE DEF w
    <3>2. Stands(x, y, c, w)
      BY <3>1, <2>1, <2>2, <2>3 DEF Stands
    <3>3. Stands(x, y, c, << 1, t.xl >>)
      BY <3>2, Zenon DEF w
    <3> QED BY <3>3, <2>3, FillsOne
  <2>6. Fills(x, y, behind, c + 1, end)
    <3>1. Fills(x, y, behind, c + 1, (c + 1) + (t.yr - q))
      BY <2>2, <2>3, <1>1, CopyFills
    <3> QED BY <3>1, <2>3, Zenon
  <2> HIDE DEF one, before, behind
  <2>7. Fills(x, y, before \cup one, t.out, c + 1)
    <3>1. c <= c + 1 /\ c + 1 \in Int
      BY <2>3
    <3> QED BY <3>1, <2>3, <2>4, <2>5, FillsJoin
  <2>8. Fills(x, y, (before \cup one) \cup behind, t.out, end)
    <3>1. t.out <= c + 1 /\ c + 1 \in Int
      BY <2>3
    <3> QED BY <3>1, <2>3, <2>6, <2>7, FillsJoin
  <2>9. (before \cup one) \cup behind = one \cup before \cup behind
    OBVIOUS
  <2> QED BY <2>8, <2>9, <1>2, <1>e, DoneDivides
<1> QED BY <1>3, <1>4, <1>5, Zenon

\* The calls that divide a piece at their marks.
LEMMA KruskalSplits ==
  ASSUME NEW x, NEW y, NEW t, Sorted(x), Sorted(y), PieceOk(x, y, t), t.kind \in {"clrs", "kruskal"},
         t.xl < t.xr, team \in Nat \ {0}
  PROVE  LET segment(k) == kruskal_segment(x, y, t, k)
             mark(k) == kruskal_mark(t, k)
         IN  DividesInto(x, y, t,
               { << t.out + (segment(k) - t.yl) + (mark(k) - t.xl), 1, mark(k) >> : k \in 0 .. kruskal_count(t) - 1 },
               kruskal_pieces(x, y, t))
<1> DEFINE n == kruskal_count(t)
           f == kruskal_factor(t)
           part(k) == kruskal_part(x, y, t, k)
           segment(k) == kruskal_segment(x, y, t, k)
           mark(k) == kruskal_mark(t, k)
           inner == kruskal_inner(x, y, t)
           cell(k) == t.out + (segment(k) - t.yl) + (mark(k) - t.xl)
           own(k) == << cell(k), 1, mark(k) >>
           copy(k, thread) == CopyBy(part(k), thread)
           writes == { own(k) : k \in 0 .. n - 1 }
           pieces == kruskal_pieces(x, y, t)
           lo == [ k \in 0 .. n |-> part(k).xl + part(k).yl ]
           hi == [ k \in 0 .. n |-> part(k).xr + part(k).yr ]
           P == [ k \in 0 .. n |-> IF k \in inner THEN { copy(k, thread) : thread \in 1 .. team } ELSE { part(k) } ]
<1>0. /\ t.xl \in Nat /\ t.xr \in Nat /\ t.yl \in Nat /\ t.yr \in Nat
      /\ t.xl <= t.xr /\ t.yl <= t.yr /\ t.out = t.xl + t.yl
      /\ Size(t) \in Nat /\ t.out + Size(t) = t.xr + t.yr
  BY PieceFacts, PieceNumbers, Zenon
<1>1. /\ f \in Nat \ {0} /\ n \in Nat \ {0}
      /\ \A i \in 0 .. n - 1 : mark(i) \in t.xl .. t.xr - 1 /\ mark(i) + 1 = t.xl + (i + 1) * f
  BY <1>0, KruskalMarks, Zenon
<1>2. ASSUME NEW k \in 0 .. n - 1
      PROVE  segment(k) \in t.yl .. t.yr /\ Cut(x, y, mark(k), segment(k)) /\ Cut(x, y, mark(k) + 1, segment(k))
  BY KruskalSegments, Zenon
<1>3. ASSUME NEW k \in 0 .. n
      PROVE  /\ PieceOk(x, y, part(k))
             /\ Cells(part(k)) = part(k).xl + part(k).yl .. (part(k).xr + part(k).yr) - 1
             /\ part(k).out = part(k).xl + part(k).yl
             /\ part(k).xl = t.xl + k * f
             /\ part(k).xr = IF k = n THEN t.xr ELSE mark(k)
             /\ part(k).yl = IF k = 0 THEN t.yl ELSE segment(k - 1)
             /\ part(k).yr = IF k = n THEN t.yr ELSE segment(k)
  BY KruskalParts
<1>i. inner = { k \in 1 .. n - 1 : segment(k) = segment(k - 1) }
  BY DEF kruskal_inner
<1>p. pieces = { part(k) : k \in (0 .. n) \ inner } \cup { copy(k, thread) : k \in inner, thread \in 1 .. team }
  BY DEF kruskal_pieces
<1>c. ASSUME NEW k \in inner, NEW thread
      PROVE  /\ k \in 0 .. n /\ PieceOk(x, y, copy(k, thread)) /\ Cells(copy(k, thread)) = Cells(part(k))
             /\ copy(k, thread).kind = "copy" /\ copy(k, thread).xl = part(k).xl
             /\ copy(k, thread).xr = part(k).xr /\ copy(k, thread).out = part(k).out
  <2> HIDE DEF inner, n, f, part, segment, mark
  <2>1. k \in 0 .. n /\ k # 0 /\ k # n /\ segment(k) = segment(k - 1)
    BY <1>1, <1>i
  <2>2. PieceOk(x, y, part(k)) /\ part(k).yl = part(k).yr
    BY <1>3, <2>1
  <2> QED BY <2>1, <2>2, KruskalCopies DEF part
<1> HIDE DEF n, f, part, segment, mark, inner, pieces
<1>4. ASSUME NEW k \in 0 .. n
      PROVE  /\ lo[k] = part(k).xl + part(k).yl /\ hi[k] = part(k).xr + part(k).yr
             /\ part(k).xl \in Nat /\ part(k).xr \in Nat /\ part(k).yl \in Nat /\ part(k).yr \in Nat
             /\ part(k).xl <= part(k).xr /\ part(k).yl <= part(k).yr
             /\ lo[k] \in Int /\ hi[k] \in Int /\ lo[k] <= hi[k]
  <2> DEFINE p == part(k)
  <2>1. lo[k] = p.xl + p.yl /\ hi[k] = p.xr + p.yr
    OBVIOUS
  <2>2. PieceOk(x, y, p)
    BY <1>3
  <2> HIDE DEF p, lo, hi
  <2>3. p.xl <= p.xr /\ p.yl <= p.yr
    BY <2>2, PieceFacts, Zenon
  <2>4. p.xl \in Nat /\ p.xr \in Nat /\ p.yl \in Nat /\ p.yr \in Nat
    BY <2>2, PieceNumbers, Zenon
  <2>5. lo[k] \in Int /\ hi[k] \in Int /\ lo[k] <= hi[k]
    BY <2>1, <2>3, <2>4
  <2> QED BY <2>1, <2>3, <2>4, <2>5 DEF p
<1>5. ASSUME NEW k \in 0 .. n - 1
      PROVE  hi[k] = mark(k) + segment(k) /\ lo[k + 1] = hi[k] + 1
  <2>1. k \in 0 .. n /\ k # n /\ k + 1 \in 0 .. n /\ k + 1 # 0 /\ (k + 1) - 1 = k
    BY <1>1
  <2>2. part(k).xr = mark(k) /\ part(k).yr = segment(k)
    BY <1>3, <2>1
  <2>3. part(k + 1).xl = t.xl + (k + 1) * f /\ part(k + 1).yl = segment(k)
    BY <1>3, <2>1
  <2>4. mark(k) + 1 = t.xl + (k + 1) * f /\ mark(k) \in t.xl .. t.xr - 1
    BY <1>1
  <2>5. part(k + 1).xl = mark(k) + 1
    BY <2>3, <2>4, Zenon
  <2>6. hi[k] = part(k).xr + part(k).yr /\ lo[k + 1] = part(k + 1).xl + part(k + 1).yl
    BY <1>4, <2>1
  <2>7. hi[k] = mark(k) + segment(k) /\ lo[k + 1] = (mark(k) + 1) + segment(k)
    BY <2>2, <2>3, <2>5, <2>6, Zenon
  <2>8. mark(k) \in Int /\ segment(k) \in Int
    BY <2>4, <1>0, <1>2
  <2> HIDE DEF lo, hi
  <2> QED BY <2>7, <2>8
<1>6. Stretches(n, lo, hi)
  <2> HIDE DEF lo, hi
  <2> QED BY <1>4, <1>5 DEF Stretches
<1>7. lo[0] = t.out /\ hi[n] = t.out + Size(t)
  <2>1. 0 \in 0 .. n /\ n \in 0 .. n /\ 0 * f = 0
    BY <1>1
  <2>2. part(0).xl = t.xl + 0 * f /\ part(0).yl = t.yl /\ part(n).xr = t.xr /\ part(n).yr = t.yr
    BY <1>3, <2>1
  <2>3. lo[0] = part(0).xl + part(0).yl /\ hi[n] = part(n).xr + part(n).yr
    BY <1>4, <2>1
  <2>4. part(0).xl = t.xl
    <3>1. t.xl + 0 = t.xl
      BY <1>0
    <3> QED BY <3>1, <2>1, <2>2, Zenon
  <2> HIDE DEF lo, hi
  <2> QED BY <2>2, <2>3, <2>4, <1>0
<1>8. ASSUME NEW k \in 0 .. n - 1
      PROVE  own(k)[1] = hi[k] /\ Stands(x, y, own(k)[1], << own(k)[2], own(k)[3] >>)
  <2>1. mark(k) \in Int /\ segment(k) \in Int
    <3>1. mark(k) \in t.xl .. t.xr - 1 /\ segment(k) \in t.yl .. t.yr
      BY <1>1, <1>2
    <3> QED BY <3>1, <1>0
  <2>2. cell(k) = mark(k) + segment(k)
    BY <2>1, <1>0
  <2>3. own(k)[1] = cell(k) /\ own(k)[2] = 1 /\ own(k)[3] = mark(k)
    OBVIOUS
  <2>4. cell(k) - mark(k) = segment(k)
    BY <2>1, <2>2
  <2> DEFINE w == << 1, mark(k) >>
  <2>5. w[1] = 1 /\ w[2] = mark(k)
    OBVIOUS
  <2> HIDE DEF own, cell, w
  <2>6. Stands(x, y, cell(k), w)
    BY <2>4, <2>5, <1>2 DEF Stands
  <2>7. Stands(x, y, own(k)[1], << own(k)[2], own(k)[3] >>)
    BY <2>3, <2>6, Zenon DEF w
  <2> QED BY <2>2, <2>3, <2>7, <1>5, Zenon
<1>9. \A w \in writes : Stands(x, y, w[1], << w[2], w[3] >>) /\ \E k \in 0 .. n - 1 : w[1] = hi[k]
  <2> HIDE DEF lo, hi, own
  <2> QED BY <1>8
<1>10. \A k \in 0 .. n - 1 : \E w \in writes : w[1] = hi[k]
  <2> HIDE DEF lo, hi, own
  <2> QED BY <1>8
<1>11. ASSUME NEW k \in 0 .. n
       PROVE  /\ k \in inner => P[k] = { copy(k, thread) : thread \in 1 .. team }
              /\ k \notin inner => P[k] = { part(k) }
              /\ PieceOk(x, y, part(k)) /\ Cells(part(k)) = lo[k] .. hi[k] - 1
  <2>1. PieceOk(x, y, part(k)) /\ Cells(part(k)) = part(k).xl + part(k).yl .. (part(k).xr + part(k).yr) - 1
    BY <1>3
  <2>2. lo[k] = part(k).xl + part(k).yl /\ hi[k] = part(k).xr + part(k).yr
    BY <1>4
  <2>3. /\ k \in inner => P[k] = { copy(k, thread) : thread \in 1 .. team }
        /\ k \notin inner => P[k] = { part(k) }
    <3> HIDE DEF copy
    <3> QED OBVIOUS
  <2> HIDE DEF lo, hi, P
  <2> QED BY <2>1, <2>2, <2>3, Zenon
<1> HIDE DEF P, lo, hi, copy
<1>12. \A k \in 0 .. n : \A u \in P[k] : PieceOk(x, y, u) /\ Cells(u) = lo[k] .. hi[k] - 1
  <2> SUFFICES ASSUME NEW k \in 0 .. n, NEW u \in P[k]
               PROVE  PieceOk(x, y, u) /\ Cells(u) = lo[k] .. hi[k] - 1
    OBVIOUS
  <2>1. u = part(k) \/ \E thread \in 1 .. team : k \in inner /\ u = copy(k, thread)
    BY <1>11
  <2> QED BY <1>11, <1>c, <2>1, Zenon
<1>13. \A k \in 0 .. n : \A u \in P[k] : \A v \in P[k] : u = v \/ SameCopy(u, v)
  <2> SUFFICES ASSUME NEW k \in 0 .. n, NEW u \in P[k], NEW v \in P[k], u # v PROVE SameCopy(u, v)
    OBVIOUS
  <2>1. PICK p, q : k \in inner /\ u = copy(k, p) /\ v = copy(k, q)
    BY <1>11
  <2> QED BY <1>c, <2>1 DEF SameCopy
<1>14. \A k \in 0 .. n : \E u \in pieces : u \in P[k]
  <2>1. 1 \in 1 .. team
    OBVIOUS
  <2> SUFFICES ASSUME NEW k \in 0 .. n PROVE \E u \in pieces : u \in P[k]
    OBVIOUS
  <2>2. CASE k \in inner
    BY <1>11, <1>p, <2>1, <2>2
  <2> QED BY <1>11, <1>p, <2>2
<1>15. \A u \in pieces : \E k \in 0 .. n : u \in P[k]
  BY <1>11, <1>c, <1>p
<1>16. DividesInto(x, y, t, writes, pieces)
  <2>1. n \in Nat
    BY <1>1
  <2> HIDE DEF writes
  <2>2. Split(x, y, t, n, lo, hi, P, writes, pieces)
    BY <1>6, <1>7, <1>9, <1>10, <1>12, <1>13, <1>14, <1>15, Zenon DEF Split
  <2> QED BY <2>1, <2>2, SplitDivides, Zenon
<1> QED BY <1>16, Zenon DEF n, pieces, segment, mark

\* One call of merge_sa_dc_parallel_kruskal_2.
LEMMA KruskalDivides ==
  ASSUME NEW x, NEW y, NEW t, Sorted(x), Sorted(y), PieceOk(x, y, t), t.kind \in {"clrs", "kruskal"},
         team \in Nat \ {0}
  PROVE  DividesInto(x, y, t, kruskal_2(x, y, t).writes, kruskal_2(x, y, t).pieces)
<1> DEFINE M == t.xr - t.xl
           N == t.yr - t.yl
           r == kruskal_2(x, y, t)
<1>0. M \in Nat /\ N \in Nat /\ t.xl \in Nat /\ t.xr \in Nat
  BY PieceNumbers, Zenon
<1>1. CASE N = 0
  <2>1. r.writes = Copy(1, t.xl, t.xr, t.out) /\ r.pieces = {}
    BY <1>1 DEF kruskal_2
  <2>2. DividesInto(x, y, t, Copy(1, t.xl, t.xr, t.out), {})
    BY <1>1, KruskalLeaf, Zenon
  <2> QED BY <2>1, <2>2, Zenon
<1>2. CASE N > 0 /\ M = 0
  <2>1. N # 0 /\ M # 1 /\ ~ (M > 1) /\ N > 0 /\ M = 0
    BY <1>0, <1>2
  <2>2. r.writes = Copy(2, t.yl, t.yr, t.out) /\ r.pieces = {}
    BY <2>1 DEF kruskal_2
  <2>3. DividesInto(x, y, t, Copy(2, t.yl, t.yr, t.out), {})
    BY <1>2, KruskalLeaf, Zenon
  <2> QED BY <2>2, <2>3, Zenon
<1>3. CASE N > 0 /\ M = 1
  <2> DEFINE first == kruskal_place(x, y, t, t.xl)
             writes == { << t.out + (first - t.yl), 1, t.xl >> }
                       \cup Copy(2, t.yl, first, t.out)
                       \cup Copy(2, first, t.yr, t.out + (first - t.yl) + 1)
  <2>1. N # 0 /\ M # 0 /\ ~ (M > 1) /\ N > 0 /\ M = 1
    BY <1>0, <1>3
  <2>2. r.writes = writes /\ r.pieces = {}
    BY <2>1 DEF kruskal_2
  <2>3. DividesInto(x, y, t, writes, {})
    BY <1>3, KruskalLeaf, Zenon
  <2> QED BY <2>2, <2>3, Zenon
<1>4. CASE N > 0 /\ M > 1
  <2> DEFINE segment(k) == kruskal_segment(x, y, t, k)
             mark(k) == kruskal_mark(t, k)
             writes == { << t.out + (segment(k) - t.yl) + (mark(k) - t.xl), 1, mark(k) >> :
                           k \in 0 .. kruskal_count(t) - 1 }
             pieces == kruskal_pieces(x, y, t)
  <2>1. N # 0 /\ M # 0 /\ M # 1 /\ N > 0 /\ M > 1 /\ t.xl < t.xr
    BY <1>0, <1>4
  <2>2. r.writes = writes /\ r.pieces = pieces
    BY <2>1, Zenon DEF kruskal_2
  <2>3. DividesInto(x, y, t, writes, pieces)
    BY <2>1, KruskalSplits, Zenon
  <2> QED BY <2>2, <2>3, Zenon
<1> QED BY <1>0, <1>1, <1>2, <1>3, <1>4

-----------------------------------------------------------------------------
(* The merge of CLRS *)

\* A piece divided into two halves and the entry between them.
LEMMA HalvesDivide ==
  ASSUME NEW x, NEW y, NEW t, Sorted(x), Sorted(y), PieceOk(x, y, t), t.kind = "clrs",
         NEW left, NEW right, NEW middle,
         PieceOk(x, y, left), PieceOk(x, y, right), left.kind = "clrs", right.kind = "clrs",
         left.xl = t.xl, left.yl = t.yl, right.xr = t.xr, right.yr = t.yr,
         right.xl + right.yl = left.xr + left.yr + 1,
         left.xr + left.yr < right.xr + right.yr,
         Fills(x, y, middle, left.xr + left.yr, left.xr + left.yr + 1)
  PROVE  /\ DividesInto(x, y, t, middle, {left, right})
         /\ DividesInto(x, y, t, middle \cup merge_from_left(x, y, left, Size(left))
                                     \cup merge_from_left(x, y, right, Size(right)), {})
<1> DEFINE m == left.xr + left.yr
           end == t.xr + t.yr
           v == merge_from_left(x, y, left, Size(left))
           w == merge_from_left(x, y, right, Size(right))
<1>0. ASSUME NEW u, PieceOk(x, y, u), u.kind = "clrs"
      PROVE  /\ u.xl \in Nat /\ u.xr \in Nat /\ u.yl \in Nat /\ u.yr \in Nat
             /\ u.xl <= u.xr /\ u.yl <= u.yr /\ u.out = u.xl + u.yl
             /\ Size(u) \in Nat /\ u.out + Size(u) = u.xr + u.yr
             /\ Cells(u) = u.out .. (u.xr + u.yr) - 1
             /\ Fills(x, y, merge_from_left(x, y, u, Size(u)), u.out, u.xr + u.yr)
  <2>1. /\ u.xl <= u.xr /\ u.yl <= u.yr /\ u.out = u.xl + u.yl
        /\ Size(u) \in Nat /\ u.out + Size(u) = u.xr + u.yr
    BY <1>0, PieceFacts
  <2>2. u.xl \in Nat /\ u.xr \in Nat /\ u.yl \in Nat /\ u.yr \in Nat
    BY <1>0, PieceNumbers, Zenon
  <2>5. Cells(u) = u.out .. (u.xr + u.yr) - 1
    BY <1>0, CellsEnd
  <2>6. Size(u) \in 0 .. Size(u)
    BY <2>1
  <2>7. Fills(x, y, merge_from_left(x, y, u, Size(u)), u.out, u.out + Size(u))
    BY <1>0, <2>6, MergeFromLeftFills
  <2> QED BY <2>1, <2>2, <2>5, <2>7, Zenon
<1>1. /\ t.xl \in Nat /\ t.xr \in Nat /\ t.yl \in Nat /\ t.yr \in Nat /\ t.out = t.xl + t.yl
      /\ left.xr \in Nat /\ left.yr \in Nat /\ left.out = t.xl + t.yl /\ right.out = right.xl + right.yl
      /\ left.xl <= left.xr /\ left.yl <= left.yr
  BY <1>0
<1>2. /\ m \in Int /\ end \in Int /\ t.out \in Int /\ t.out <= m /\ m < end
      /\ left.out = t.out /\ right.out = m + 1 /\ left.xr + left.yr = m /\ right.xr + right.yr = end
  BY <1>1
<1>3. Cells(t) = t.out .. end - 1 /\ Cells(left) = t.out .. m - 1 /\ Cells(right) = m + 1 .. end - 1
  <2>1. Cells(t) = t.out .. (t.xr + t.yr) - 1
    BY <1>0
  <2>2. Cells(left) = left.out .. (left.xr + left.yr) - 1
    BY <1>0
  <2>3. Cells(right) = right.out .. (right.xr + right.yr) - 1
    BY <1>0
  <2> QED BY <1>2, <2>1, <2>2, <2>3, Zenon
<1>4. Fills(x, y, v, t.out, m) /\ Fills(x, y, w, m + 1, end) /\ Fills(x, y, middle, m, m + 1)
  <2>1. Fills(x, y, v, left.out, left.xr + left.yr)
    BY <1>0
  <2>2. Fills(x, y, w, right.out, right.xr + right.yr)
    BY <1>0
  <2>3. left.xr + left.yr + 1 = m + 1
    BY <1>1
  <2> QED BY <1>2, <2>1, <2>2, <2>3, Zenon
<1> HIDE DEF m, end, v, w
<1>5. DividesInto(x, y, t, middle, {left, right})
  <2>a. /\ \A u \in middle : u[1] \in m .. (m + 1) - 1 /\ Stands(x, y, u[1], << u[2], u[3] >>)
        /\ \A c \in m .. (m + 1) - 1 : \E u \in middle : u[1] = c
    BY <1>4, Zenon DEF Fills
  <2>b. m .. (m + 1) - 1 = {m} /\ m \in t.out .. end - 1
    BY <1>2
  <2>1. \A u \in middle : u[1] = m /\ u[1] \in Cells(t) /\ Stands(x, y, u[1], << u[2], u[3] >>)
    BY <1>3, <2>a, <2>b, Zenon
  <2>2. \E u \in middle : u[1] = m
    BY <2>a, <2>b
  <2>3. \A u \in {left, right} : PieceOk(x, y, u) /\ Cells(u) \subseteq Cells(t) /\ m \notin Cells(u)
    BY <1>2, <1>3
  <2>4. Cells(left) \cap Cells(right) = {}
    BY <1>2, <1>3
  <2>5. \A c \in Cells(t) : c = m \/ c \in Cells(left) \/ c \in Cells(right)
    BY <1>2, <1>3
  <2>6. \A u \in {left, right} : \A c \in Cells(u) : ~ \E z \in middle : z[1] = c
    BY <2>1, <2>3
  <2>7. \A u \in {left, right} : \A z \in {left, right} : u # z => Cells(u) \cap Cells(z) = {}
    BY <2>4
  <2>8. \A c \in Cells(t) : (\E z \in middle : z[1] = c) \/ \E u \in {left, right} : c \in Cells(u)
    BY <2>2, <2>5
  <2>9. t.kind # "copy"
    OBVIOUS
  <2> QED BY <2>1, <2>3, <2>6, <2>7, <2>8, <2>9 DEF DividesInto, Apart
<1>6. DividesInto(x, y, t, middle \cup v \cup w, {})
  <2>1. m <= m + 1 /\ m + 1 \in Int /\ t.out <= m + 1 /\ m + 1 <= end
    BY <1>2
  <2>2. Fills(x, y, v \cup middle, t.out, m + 1)
    BY <1>2, <1>4, <2>1, FillsJoin
  <2>3. Fills(x, y, (v \cup middle) \cup w, t.out, end)
    BY <1>2, <1>4, <2>1, <2>2, FillsJoin
  <2>4. (v \cup middle) \cup w = middle \cup v \cup w
    OBVIOUS
  <2>5. Fills(x, y, middle \cup v \cup w, t.out, end)
    BY <2>3, <2>4, Zenon
  <2> QED BY <1>3, <2>5, DoneDivides
<1> QED BY <1>5, <1>6 DEF v, w

\* One call of merge_parallel.
LEMMA ClrsDivides ==
  ASSUME NEW x, NEW y, NEW t, Sorted(x), Sorted(y), PieceOk(x, y, t), t.kind = "clrs"
  PROVE  DividesInto(x, y, t, merge_parallel(x, y, t).writes, merge_parallel(x, y, t).pieces)
<1> DEFINE xs == t.xr - t.xl
           ys == t.yr - t.yl
           swapped == IF t.swapped THEN ~ (ys < xs) ELSE xs < ys
           i == IF swapped THEN binarysearch(x, t.xl, t.xr, At(y, t.yl + ys \div 2), TRUE)
                           ELSE t.xl + xs \div 2
           j == IF swapped THEN t.yl + ys \div 2
                           ELSE binarysearch(y, t.yl, t.yr, At(x, t.xl + xs \div 2), FALSE)
           q_out == (i - t.xl) + (j - t.yl)
           half(xl, xr, yl, yr, o) ==
             [ Piece("clrs", xl, xr, yl, yr, o) EXCEPT !.swapped = swapped, !.threads = 2 * t.threads ]
           left == half(t.xl, i, t.yl, j, t.out)
           i2 == IF swapped THEN i ELSE i + 1
           j2 == IF swapped THEN j + 1 ELSE j
           right == half(i2, t.xr, j2, t.yr, t.out + q_out + 1)
           middle == { IF swapped THEN << t.out + q_out, 2, j >> ELSE << t.out + q_out, 1, i >> }
           r == merge_parallel(x, y, t)
<1>0. /\ t.xl \in Nat /\ t.xr \in Nat /\ t.yl \in Nat /\ t.yr \in Nat
      /\ t.xl <= t.xr /\ t.yl <= t.yr /\ t.out = t.xl + t.yl
      /\ Size(t) = xs + ys /\ xs \in Nat /\ ys \in Nat
  BY PieceFacts, PieceNumbers, Zenon DEF Size
<1>a. Cut(x, y, t.xl, t.yl) /\ Cut(x, y, t.xr, t.yr)
  BY DEF PieceOk
<1>b. swapped \in BOOLEAN
  <2>1. CASE t.swapped
    <3>1. swapped = ~ (ys < xs)
      BY <2>1
    <3> HIDE DEF swapped
    <3>2. CASE ys < xs
      BY <3>1, <3>2, Zenon
    <3>3. CASE ~ (ys < xs)
      BY <3>1, <3>3, Zenon
    <3> QED BY <3>2, <3>3, Zenon
  <2>2. CASE ~ t.swapped
    <3>1. swapped = (xs < ys)
      BY <2>2
    <3> HIDE DEF swapped
    <3>2. CASE xs < ys
      BY <3>1, <3>2, Zenon
    <3>3. CASE ~ (xs < ys)
      BY <3>1, <3>3
    <3> QED BY <3>2, <3>3, Zenon
  <2> QED BY <2>1, <2>2
<1>1. CASE Size(t) = 0
  <2>1. r.writes = {} /\ r.pieces = {}
    BY <1>1 DEF merge_parallel
  <2>2. Cells(t) = {}
    <3>1. Cells(t) \subseteq t.out .. t.out + Size(t) - 1
      BY CellsRange
    <3>2. t.out + Size(t) - 1 < t.out
      BY <1>0, <1>1
    <3> QED BY <3>1, <3>2, <1>0
  <2>3. DividesInto(x, y, t, {}, {})
    BY <2>2 DEF DividesInto, Apart
  <2> QED BY <2>1, <2>3, Zenon
<1>2. CASE Size(t) # 0
  <2>1. swapped => ys > 0
    BY <1>0, <1>2
  <2>2. ~ swapped => xs > 0
    BY <1>0, <1>2
  <2>3. /\ swapped => j \in t.yl .. t.yr - 1 /\ i \in t.xl .. t.xr /\ Cut(x, y, i, j) /\ Cut(x, y, i, j + 1)
        /\ ~ swapped => i \in t.xl .. t.xr - 1 /\ j \in t.yl .. t.yr /\ Cut(x, y, i, j) /\ Cut(x, y, i + 1, j)
    <3>1. ASSUME swapped
          PROVE  j \in t.yl .. t.yr - 1 /\ i \in t.xl .. t.xr /\ Cut(x, y, i, j) /\ Cut(x, y, i, j + 1)
      <4> DEFINE k == t.yl + ys \div 2
                 q == binarysearch(x, t.xl, t.xr, At(y, k), TRUE)
      <4>1. k \in t.yl .. t.yr - 1
        BY <1>0, <2>1, <3>1
      <4>2. j = k /\ i = q
        BY <3>1
      <4> HIDE DEF k
      <4>3. q \in t.xl .. t.xr /\ Cut(x, y, q, k) /\ Cut(x, y, q, k + 1)
        BY <4>1, PlaceInPiece, Zenon
      <4> HIDE DEF i, j, q
      <4> QED BY <4>1, <4>2, <4>3, Zenon
    <3>2. ASSUME ~ swapped
          PROVE  i \in t.xl .. t.xr - 1 /\ j \in t.yl .. t.yr /\ Cut(x, y, i, j) /\ Cut(x, y, i + 1, j)
      <4> DEFINE k == t.xl + xs \div 2
                 q == binarysearch(y, t.yl, t.yr, At(x, k), FALSE)
      <4>1. k \in t.xl .. t.xr - 1
        BY <1>0, <2>2, <3>2
      <4>2. i = k /\ j = q
        BY <3>2
      <4> HIDE DEF k
      <4>3. q \in t.yl .. t.yr /\ Cut(x, y, k, q) /\ Cut(x, y, k + 1, q)
        BY <4>1, PlaceInPiece, Zenon
      <4> HIDE DEF i, j, q
      <4> QED BY <4>1, <4>2, <4>3, Zenon
    <3> HIDE DEF i, j, swapped
    <3> QED BY <3>1, <3>2, Zenon
  <2>4. /\ left.kind = "clrs" /\ left.swapped = swapped /\ left.xl = t.xl /\ left.xr = i
        /\ left.yl = t.yl /\ left.yr = j /\ left.out = t.out
        /\ right.kind = "clrs" /\ right.swapped = swapped /\ right.xl = i2 /\ right.xr = t.xr
        /\ right.yl = j2 /\ right.yr = t.yr /\ right.out = t.out + q_out + 1
    <3> HIDE DEF i, j, i2, j2, q_out, swapped
    <3> QED BY DEF Piece
  <2>5. /\ r.writes = IF t.threads < team THEN middle
                      ELSE middle \cup merge_from_left(x, y, left, Size(left))
                                  \cup merge_from_left(x, y, right, Size(right))
        /\ r.pieces = IF t.threads < team THEN {left, right} ELSE {}
    BY <1>2 DEF merge_parallel
  <2>6. /\ i \in Nat /\ j \in Nat /\ i2 \in Nat /\ j2 \in Nat
        /\ t.xl <= i /\ i <= i2 /\ i2 <= t.xr /\ t.yl <= j /\ j <= j2 /\ j2 <= t.yr
        /\ i2 + j2 = i + j + 1 /\ t.out + q_out = i + j /\ t.out + q_out + 1 = i + j + 1
        /\ Cut(x, y, i, j) /\ Cut(x, y, i2, j2)
    <3> HIDE DEF i, j, swapped
    <3>1. CASE swapped
      <4>1. i2 = i /\ j2 = j + 1
        BY <3>1
      <4>2. i \in Nat /\ j \in Nat /\ t.xl <= i /\ i <= t.xr /\ t.yl <= j /\ j + 1 <= t.yr
        BY <1>0, <2>3, <3>1
      <4>3. Cut(x, y, i, j) /\ Cut(x, y, i2, j2)
        BY <2>3, <3>1, <4>1
      <4> HIDE DEF i2, j2
      <4> QED BY <1>0, <4>1, <4>2, <4>3
    <3>2. CASE ~ swapped
      <4>1. i2 = i + 1 /\ j2 = j
        BY <3>2
      <4>2. i \in Nat /\ j \in Nat /\ t.xl <= i /\ i + 1 <= t.xr /\ t.yl <= j /\ j <= t.yr
        BY <1>0, <2>3, <3>2
      <4>3. Cut(x, y, i, j) /\ Cut(x, y, i2, j2)
        BY <2>3, <3>2, <4>1
      <4> HIDE DEF i2, j2
      <4> QED BY <1>0, <4>1, <4>2, <4>3
    <3> QED BY <3>1, <3>2
  <2>7. Fills(x, y, middle, i + j, i + j + 1)
    <3> DEFINE c == t.out + q_out
    <3>1. c = i + j /\ c \in Int /\ c - i = j /\ c - j = i /\ c + 1 = i + j + 1
      <4> HIDE DEF i, j, i2, j2, q_out, swapped
      <4>1. i \in Nat /\ j \in Nat /\ c = i + j
        BY <2>6
      <4> HIDE DEF c
      <4> QED BY <4>1
    <3> HIDE DEF c
    <3>2. CASE swapped
      <4> DEFINE w == << 2, j >>
      <4>0. w[1] = 2 /\ w[2] = j
        OBVIOUS
      <4>1. Cut(x, y, i, j) /\ Cut(x, y, i, j + 1)
        BY <2>3, <3>2
      <4>2. middle = { << c, 2, j >> }
        BY <3>2 DEF c
      <4> HIDE DEF w, i, j, middle
      <4>3. Stands(x, y, c, w)
        BY <3>1, <4>0, <4>1 DEF Stands
      <4>4. Stands(x, y, c, << 2, j >>)
        BY <4>3, Zenon DEF w
      <4>5. Fills(x, y, { << c, 2, j >> }, c, c + 1)
        BY <3>1, <4>4, FillsOne
      <4> QED BY <3>1, <4>2, <4>5, Zenon
    <3>3. CASE ~ swapped
      <4> DEFINE w == << 1, i >>
      <4>0. w[1] = 1 /\ w[2] = i
        OBVIOUS
      <4>1. Cut(x, y, i, j) /\ Cut(x, y, i + 1, j)
        BY <2>3, <3>3
      <4>2. middle = { << c, 1, i >> }
        BY <3>3 DEF c
      <4> HIDE DEF w, i, j, middle
      <4>3. Stands(x, y, c, w)
        BY <3>1, <4>0, <4>1 DEF Stands
      <4>4. Stands(x, y, c, << 1, i >>)
        BY <4>3, Zenon DEF w
      <4>5. Fills(x, y, { << c, 1, i >> }, c, c + 1)
        BY <3>1, <4>4, FillsOne
      <4> QED BY <3>1, <4>2, <4>5, Zenon
    <3> QED BY <3>2, <3>3
  <2> HIDE DEF i, j, i2, j2, q_out, left, right, middle, swapped
  <2>8. PieceOk(x, y, left)
    BY <2>4, <2>6, <1>0, <1>a, <1>b DEF PieceOk, Kinds
  <2>9. PieceOk(x, y, right)
    <3>1. right.out = right.xl + right.yl
      BY <2>4, <2>6
    <3> QED BY <3>1, <2>4, <2>6, <1>0, <1>a, <1>b DEF PieceOk, Kinds
  <2>10. /\ right.xl + right.yl = left.xr + left.yr + 1
         /\ left.xr + left.yr < right.xr + right.yr
         /\ Fills(x, y, middle, left.xr + left.yr, left.xr + left.yr + 1)
    <3>1. right.xl + right.yl = left.xr + left.yr + 1
      BY <2>4, <2>6
    <3>2. i + j < t.xr + t.yr
      BY <2>6, <1>0
    <3> QED BY <3>1, <3>2, <2>4, <2>7, Zenon
  <2>11. /\ DividesInto(x, y, t, middle, {left, right})
         /\ DividesInto(x, y, t, middle \cup merge_from_left(x, y, left, Size(left))
                                     \cup merge_from_left(x, y, right, Size(right)), {})
    BY <1>0, <2>4, <2>8, <2>9, <2>10, HalvesDivide, Zenon
  <2>12. CASE t.threads < team
    BY <2>5, <2>11, <2>12, Zenon
  <2>13. CASE ~ (t.threads < team)
    BY <2>5, <2>11, <2>13, Zenon
  <2> QED BY <2>12, <2>13, Zenon
<1> QED BY <1>1, <1>2

-----------------------------------------------------------------------------
(* Finished merges *)

\* Every cell holds the entry that stands there.
Complete(x, y, cells) ==
  \A c \in 0 .. Len(x) + Len(y) - 1 : cells[c] \in {1, 2} \X Nat /\ Stands(x, y, c, cells[c])

LEMMA StandsFacts ==
  ASSUME NEW x, NEW y, Sorted(x), Sorted(y), NEW c \in Int, NEW w, Stands(x, y, c, w)
  PROVE  /\ w[1] = 1 => w[2] \in 0 .. Len(x) - 1 /\ c - w[2] \in 0 .. Len(y)
         /\ w[1] = 2 => w[2] \in 0 .. Len(y) - 1 /\ c - w[2] \in 0 .. Len(x)
         /\ w[1] \in {1, 2} /\ c \in 0 .. Len(x) + Len(y) - 1
<1>0. Len(x) \in Nat /\ Len(y) \in Nat
  BY SortedFacts
<1>1. CASE w[1] = 1
  <2>1. Cut(x, y, w[2], c - w[2]) /\ Cut(x, y, w[2] + 1, c - w[2])
    BY <1>1 DEF Stands
  <2>2. w[2] \in 0 .. Len(x) /\ w[2] + 1 \in 0 .. Len(x) /\ c - w[2] \in 0 .. Len(y)
    BY <2>1 DEF Cut
  <2>3. w[2] \in 0 .. Len(x) - 1 /\ c \in 0 .. Len(x) + Len(y) - 1
    BY <1>0, <2>2
  <2> QED BY <1>1, <2>2, <2>3
<1>2. CASE w[1] = 2
  <2>1. Cut(x, y, c - w[2], w[2]) /\ Cut(x, y, c - w[2], w[2] + 1)
    BY <1>2 DEF Stands
  <2>2. w[2] \in 0 .. Len(y) /\ w[2] + 1 \in 0 .. Len(y) /\ c - w[2] \in 0 .. Len(x)
    BY <2>1 DEF Cut
  <2>3. w[2] \in 0 .. Len(y) - 1 /\ c \in 0 .. Len(x) + Len(y) - 1
    BY <1>0, <2>2
  <2> QED BY <1>2, <2>2, <2>3
<1> QED BY <1>1, <1>2 DEF Stands

\* The cut in front of an entry and the cut behind it.
LEMMA StandsBetween ==
  ASSUME NEW x, NEW y, Sorted(x), Sorted(y), NEW c \in Int, NEW w, Stands(x, y, c, w)
  PROVE  \E i \in Nat, j \in Nat, k \in Nat, l \in Nat :
           /\ Cut(x, y, i, j) /\ i + j = c
           /\ Cut(x, y, k, l) /\ k + l = c + 1
           /\ w[1] = 1 => i = w[2] /\ k = i + 1 /\ l = j
           /\ w[1] = 2 => j = w[2] /\ l = j + 1 /\ k = i
<1>0. Len(x) \in Nat /\ Len(y) \in Nat
  BY SortedFacts
<1>1. /\ w[1] = 1 => w[2] \in 0 .. Len(x) - 1 /\ c - w[2] \in 0 .. Len(y)
      /\ w[1] = 2 => w[2] \in 0 .. Len(y) - 1 /\ c - w[2] \in 0 .. Len(x)
      /\ w[1] \in {1, 2}
  BY StandsFacts
<1>2. CASE w[1] = 1
  <2> DEFINE i == w[2]
             j == c - w[2]
             k == w[2] + 1
             l == c - w[2]
  <2>1. i \in Nat /\ j \in Nat /\ k \in Nat /\ l \in Nat /\ i + j = c /\ k + l = c + 1 /\ k = i + 1 /\ l = j
    BY <1>0, <1>1, <1>2
  <2>2. Cut(x, y, i, j) /\ Cut(x, y, k, l)
    BY <1>2 DEF Stands
  <2>3. w[1] # 2 /\ i = w[2]
    BY <1>2
  <2> HIDE DEF i, j, k, l
  <2> QED BY <2>1, <2>2, <2>3
<1>3. CASE w[1] = 2
  <2> DEFINE j == w[2]
             i == c - w[2]
             l == w[2] + 1
             k == c - w[2]
  <2>1. i \in Nat /\ j \in Nat /\ k \in Nat /\ l \in Nat /\ i + j = c /\ k + l = c + 1 /\ l = j + 1 /\ k = i
    BY <1>0, <1>1, <1>3
  <2>2. Cut(x, y, i, j) /\ Cut(x, y, k, l)
    BY <1>3 DEF Stands
  <2>3. w[1] # 1 /\ j = w[2]
    BY <1>3
  <2> HIDE DEF i, j, k, l
  <2> QED BY <2>1, <2>2, <2>3
<1> QED BY <1>1, <1>2, <1>3

\* Entries stand in order.
LEMMA StandsOrder ==
  ASSUME NEW x, NEW y, Sorted(x), Sorted(y), NEW c \in Int, NEW d \in Int, c < d,
         NEW w, NEW u, Stands(x, y, c, w), Stands(x, y, d, u)
  PROVE  /\ w[1] = u[1] => w[2] < u[2]
         /\ w[1] = 1 /\ u[1] = 2 => At(x, w[2]) < At(y, u[2])
         /\ w[1] = 2 /\ u[1] = 1 => At(y, w[2]) <= At(x, u[2])
<1>0. Len(x) \in Nat /\ Len(y) \in Nat
  BY SortedFacts
<1>1. PICK i \in Nat, j \in Nat, k \in Nat, l \in Nat :
        /\ Cut(x, y, i, j) /\ i + j = c
        /\ Cut(x, y, k, l) /\ k + l = c + 1
        /\ w[1] = 1 => i = w[2] /\ k = i + 1 /\ l = j
        /\ w[1] = 2 => j = w[2] /\ l = j + 1 /\ k = i
  BY StandsBetween
<1>2. PICK p \in Nat, q \in Nat, r \in Nat, s \in Nat :
        /\ Cut(x, y, p, q) /\ p + q = d
        /\ Cut(x, y, r, s) /\ r + s = d + 1
        /\ u[1] = 1 => p = u[2] /\ r = p + 1 /\ s = q
        /\ u[1] = 2 => q = u[2] /\ s = q + 1 /\ r = p
  BY StandsBetween
<1>3. k <= p /\ l <= q
  <2>1. k + l <= p + q
    BY <1>1, <1>2
  <2> QED BY <1>1, <1>2, <2>1, CutsOrdered
<1>4. /\ w[1] \in {1, 2} /\ u[1] \in {1, 2}
      /\ w[1] = 1 => w[2] \in 0 .. Len(x) - 1
      /\ w[1] = 2 => w[2] \in 0 .. Len(y) - 1
      /\ u[1] = 1 => u[2] \in 0 .. Len(x) - 1
      /\ u[1] = 2 => u[2] \in 0 .. Len(y) - 1
  BY StandsFacts
<1>5. w[1] = u[1] => w[2] < u[2]
  BY <1>1, <1>2, <1>3, <1>4
<1>6. ASSUME w[1] = 1, u[1] = 2 PROVE At(x, w[2]) < At(y, u[2])
  <2>1. i = w[2] /\ q = u[2] /\ i + 1 <= p
    BY <1>1, <1>2, <1>3, <1>6
  <2>2. p \in 0 .. Len(x)
    BY <1>2 DEF Cut
  <2>3. i \in 0 .. Len(x) - 1 /\ p - 1 \in 0 .. Len(x) - 1 /\ i <= p - 1 /\ p > 0 /\ q < Len(y) /\ q \in 0 .. Len(y) - 1
    BY <1>0, <1>4, <1>6, <2>1, <2>2
  <2>4. At(x, p - 1) < At(y, q)
    BY <1>2, <2>3 DEF Cut
  <2>5. At(x, i) \in Int /\ At(x, p - 1) \in Int /\ At(y, q) \in Int /\ At(x, i) <= At(x, p - 1)
    BY <2>3, SortedFacts
  <2>6. At(x, i) < At(y, q)
    BY <2>4, <2>5
  <2> QED BY <2>1, <2>6
<1>7. ASSUME w[1] = 2, u[1] = 1 PROVE At(y, w[2]) <= At(x, u[2])
  <2>1. j = w[2] /\ p = u[2] /\ j + 1 <= q
    BY <1>1, <1>2, <1>3, <1>7
  <2>2. q \in 0 .. Len(y)
    BY <1>2 DEF Cut
  <2>3. j \in 0 .. Len(y) - 1 /\ q - 1 \in 0 .. Len(y) - 1 /\ j <= q - 1 /\ q > 0 /\ p < Len(x) /\ p \in 0 .. Len(x) - 1
    BY <1>0, <1>4, <1>7, <2>1, <2>2
  <2>4. At(y, q - 1) <= At(x, p)
    BY <1>2, <2>3 DEF Cut
  <2>5. At(y, j) \in Int /\ At(y, q - 1) \in Int /\ At(x, p) \in Int /\ At(y, j) <= At(y, q - 1)
    BY <2>3, SortedFacts
  <2>6. At(y, j) <= At(x, p)
    BY <2>4, <2>5
  <2> QED BY <2>1, <2>6
<1> QED BY <1>5, <1>6, <1>7

\* One entry stands at a cell, and at one cell only.
LEMMA StandsOnce ==
  ASSUME NEW x, NEW y, Sorted(x), Sorted(y), NEW c \in Int, NEW w, NEW u, Stands(x, y, c, w)
  PROVE  /\ Stands(x, y, c, u) => w[1] = u[1] /\ w[2] = u[2]
         /\ \A d \in Int : Stands(x, y, d, w) => c = d
<1>1. ASSUME Stands(x, y, c, u) PROVE w[1] = u[1] /\ w[2] = u[2]
  <2>1. PICK i \in Nat, j \in Nat, k \in Nat, l \in Nat :
          /\ Cut(x, y, i, j) /\ i + j = c
          /\ Cut(x, y, k, l) /\ k + l = c + 1
          /\ w[1] = 1 => i = w[2] /\ k = i + 1 /\ l = j
          /\ w[1] = 2 => j = w[2] /\ l = j + 1 /\ k = i
    BY StandsBetween
  <2>2. PICK p \in Nat, q \in Nat, r \in Nat, s \in Nat :
          /\ Cut(x, y, p, q) /\ p + q = c
          /\ Cut(x, y, r, s) /\ r + s = c + 1
          /\ u[1] = 1 => p = u[2] /\ r = p + 1 /\ s = q
          /\ u[1] = 2 => q = u[2] /\ s = q + 1 /\ r = p
    BY <1>1, StandsBetween
  <2>3. i = p /\ j = q
    BY <2>1, <2>2, CutsOrdered
  <2>4. k = r /\ l = s
    <3>1. k + l = r + s
      BY <2>1, <2>2
    <3> QED BY <2>1, <2>2, <3>1, CutsOrdered
  <2>5. w[1] \in {1, 2} /\ u[1] \in {1, 2}
    BY <1>1, StandsFacts
  <2> QED BY <2>1, <2>2, <2>3, <2>4, <2>5
<1>2. ASSUME NEW d \in Int, Stands(x, y, d, w) PROVE c = d
  <2>1. w[2] \in Int
    <3>1. /\ w[1] = 1 => w[2] \in 0 .. Len(x) - 1
          /\ w[1] = 2 => w[2] \in 0 .. Len(y) - 1
          /\ w[1] \in {1, 2}
      BY StandsFacts
    <3> QED BY <3>1
  <2>2. ~ (c < d)
    BY <1>2, <2>1, StandsOrder
  <2>3. ~ (d < c)
    BY <1>2, <2>1, StandsOrder
  <2> QED BY <2>2, <2>3
<1> QED BY <1>1, <1>2

\* Every entry is in the output.
LEMMA Occurs ==
  ASSUME NEW x, NEW y, Sorted(x), Sorted(y), NEW cells, Complete(x, y, cells)
  PROVE  /\ \A i \in 0 .. Len(x) - 1 : \E c \in 0 .. Len(x) + Len(y) - 1 : cells[c] = << 1, i >>
         /\ \A j \in 0 .. Len(y) - 1 : \E c \in 0 .. Len(x) + Len(y) - 1 : cells[c] = << 2, j >>
<1>0. Len(x) \in Nat /\ Len(y) \in Nat
  BY SortedFacts
<1>1. ASSUME NEW c \in Int, NEW s \in {1, 2}, NEW k, Stands(x, y, c, << s, k >>)
      PROVE  c \in 0 .. Len(x) + Len(y) - 1 /\ cells[c] = << s, k >>
  <2> DEFINE w == << s, k >>
             u == cells[c]
  <2>0. w[1] = s /\ w[2] = k
    OBVIOUS
  <2>1. Stands(x, y, c, w)
    BY <1>1
  <2> HIDE DEF w
  <2>2. c \in 0 .. Len(x) + Len(y) - 1
    BY <2>1, StandsFacts
  <2>3. u \in {1, 2} \X Nat /\ Stands(x, y, c, u)
    BY <2>2 DEF Complete
  <2> HIDE DEF u
  <2>4. w[1] = u[1] /\ w[2] = u[2]
    BY <2>1, <2>3, StandsOnce
  <2>5. u = << s, k >>
    BY <2>0, <2>3, <2>4
  <2> QED BY <2>2, <2>5 DEF u
<1>2. ASSUME NEW i \in 0 .. Len(x) - 1
      PROVE  \E c \in 0 .. Len(x) + Len(y) - 1 : cells[c] = << 1, i >>
  <2> DEFINE key == At(x, i)
             n == Len(y)
  <2>1. key \in Int /\ 0 <= n /\ n \in 0 .. Len(y) /\ 0 \in Nat /\ ~ (0 > 0) /\ ~ (n < Len(y))
    BY <1>0, SortedFacts
  <2> HIDE DEF key, n
  <2>2. Behind(y, binarysearch(y, 0, n, key, FALSE), key)
    BY <2>1, SearchBehind, Zenon
  <2> DEFINE q == binarysearch(y, 0, n, key, FALSE)
  <2>3. Behind(y, q, At(x, i))
    BY <2>2, Zenon DEF key
  <2> HIDE DEF q
  <2>4. Cut(x, y, i, q) /\ Cut(x, y, i + 1, q)
    BY <2>3, PlaceIsCut
  <2> DEFINE c == i + q
             w == << 1, i >>
  <2>5. c \in Int /\ c - i = q /\ w[1] = 1 /\ w[2] = i
    <3>1. q \in 0 .. Len(y)
      BY <2>3 DEF Behind
    <3> QED BY <3>1, <1>0
  <2> HIDE DEF c, w
  <2>6. Stands(x, y, c, w)
    BY <2>4, <2>5 DEF Stands
  <2>7. Stands(x, y, c, << 1, i >>)
    BY <2>6, Zenon DEF w
  <2> QED BY <1>1, <2>5, <2>7
<1>3. ASSUME NEW j \in 0 .. Len(y) - 1
      PROVE  \E c \in 0 .. Len(x) + Len(y) - 1 : cells[c] = << 2, j >>
  <2> DEFINE key == At(y, j)
             n == Len(x)
  <2>1. key \in Int /\ 0 <= n /\ n \in 0 .. Len(x) /\ 0 \in Nat /\ ~ (0 > 0) /\ ~ (n < Len(x))
    BY <1>0, SortedFacts
  <2> HIDE DEF key, n
  <2>2. Ahead(x, binarysearch(x, 0, n, key, TRUE), key)
    BY <2>1, SearchAhead, Zenon
  <2> DEFINE q == binarysearch(x, 0, n, key, TRUE)
  <2>3. Ahead(x, q, At(y, j))
    BY <2>2, Zenon DEF key
  <2> HIDE DEF q
  <2>4. Cut(x, y, q, j) /\ Cut(x, y, q, j + 1)
    BY <2>3, PlaceIsCut
  <2> DEFINE c == j + q
             w == << 2, j >>
  <2>5. c \in Int /\ c - j = q /\ w[1] = 2 /\ w[2] = j
    <3>1. q \in 0 .. Len(x)
      BY <2>3 DEF Ahead
    <3> QED BY <3>1, <1>0
  <2> HIDE DEF c, w
  <2>6. Stands(x, y, c, w)
    BY <2>4, <2>5 DEF Stands
  <2>7. Stands(x, y, c, << 2, j >>)
    BY <2>6, Zenon DEF w
  <2> QED BY <1>1, <2>5, <2>7
<1> QED BY <1>2, <1>3

-----------------------------------------------------------------------------
(* The arrays *)

\* Two ascending arrays of the entries 0 .. n - 1.
Division(a) ==
  /\ Sorted(a[1]) /\ Sorted(a[2])
  /\ \A s \in {1, 2} : \A i, j \in 0 .. Len(a[s]) - 1 : i < j => At(a[s], i) < At(a[s], j)
  /\ \A s \in {1, 2} : \A i \in 0 .. Len(a[s]) - 1 : At(a[s], i) \in 0 .. Len(a[1]) + Len(a[2]) - 1
  /\ \A i \in 0 .. Len(a[1]) - 1 : \A j \in 0 .. Len(a[2]) - 1 : At(a[1], i) # At(a[2], j)

\* The elements of a set of naturals, each at its rank.
LEMMA AscendingFacts ==
  ASSUME NEW n \in Nat, NEW S, S \subseteq 0 .. n - 1
  PROVE  /\ Cardinality(S) \in Nat
         /\ Ascending(S) \in Seq(Int) /\ Len(Ascending(S)) = Cardinality(S)
         /\ \A k \in 1 .. Cardinality(S) : Ascending(S)[k] \in S
         /\ \A k, l \in 1 .. Cardinality(S) : k < l => Ascending(S)[k] < Ascending(S)[l]
<1> DEFINE sizes == Cardinality(S)
           Below(m) == { y \in S : y < m }
           card(m) == Cardinality(Below(m))
           a == Ascending(S)
<1>0. \A y \in S : y \in Nat /\ y < n
  OBVIOUS
<1>1. IsFiniteSet(S) /\ sizes \in Nat
  <2>1. IsFiniteSet(0 .. n - 1)
    BY FS_Interval
  <2>2. IsFiniteSet(S)
    BY <2>1, FS_Subset
  <2> QED BY <2>2, FS_CardinalityType
<1>2. ASSUME NEW m \in Nat PROVE IsFiniteSet(Below(m)) /\ card(m) \in Nat
  <2>1. Below(m) \in SUBSET S
    OBVIOUS
  <2> HIDE DEF Below
  <2>2. IsFiniteSet(Below(m))
    BY <1>1, <2>1, FS_Subset
  <2> QED BY <2>2, FS_CardinalityType
<1>3. ASSUME NEW k \in 1 .. sizes PROVE \E x \in S : card(x) = k - 1
  <2> DEFINE T == { m \in Nat : card(m) >= k }
  <2>1. n \in T
    <3>1. Below(n) = S
      BY <1>0
    <3>2. card(n) = sizes /\ sizes >= k
      BY <3>1, <1>1
    <3> HIDE DEF card
    <3> QED BY <1>1, <3>2
  <2>2. PICK m \in T : \A l \in T : m <= l
    <3>1. T \subseteq Nat /\ T # {}
      BY <2>1
    <3> HIDE DEF T
    <3> QED BY <3>1, Smallest
  <2>3. m # 0
    <3>1. Below(0) = {}
      <4>1. \A y \in S : ~ (y < 0)
        <5> SUFFICES ASSUME NEW y \in S PROVE ~ (y < 0)
          OBVIOUS
        <5>1. y \in Nat
          BY <1>0
        <5> QED BY <5>1
      <4> QED BY <4>1, Zenon
    <3>2. card(0) = 0
      BY <3>1, FS_EmptySet
    <3> HIDE DEF card
    <3> QED BY <2>2, <3>2
  <2>4. m \in Nat /\ m - 1 \in Nat /\ card(m) >= k
    BY <2>3
  <2>5. card(m - 1) < k /\ card(m - 1) \in Nat
    <3>1. m - 1 \notin T
      <4>1. ~ (m <= m - 1)
        BY <2>4
      <4> HIDE DEF T
      <4> QED BY <2>2, <4>1
    <3>2. card(m - 1) \in Nat
      BY <1>2, <2>4
    <3> QED BY <2>4, <3>1, <3>2
  <2>6. CASE m - 1 \notin S
    <3>1. Below(m) = Below(m - 1)
      <4>1. \A y \in S : y < m <=> y < m - 1
        <5> SUFFICES ASSUME NEW y \in S PROVE y < m <=> y < m - 1
          OBVIOUS
        <5>1. y \in Nat /\ y # m - 1
          BY <1>0, <2>6
        <5> QED BY <2>4, <5>1
      <4> QED BY <4>1, Zenon
    <3>2. card(m) = card(m - 1)
      BY <3>1
    <3> HIDE DEF card
    <3> QED BY <2>4, <2>5, <3>2
  <2>7. CASE m - 1 \in S
    <3>1. Below(m) = Below(m - 1) \cup {m - 1} /\ m - 1 \notin Below(m - 1)
      <4>1. \A y \in S : y < m <=> y < m - 1 \/ y = m - 1
        <5> SUFFICES ASSUME NEW y \in S PROVE y < m <=> y < m - 1 \/ y = m - 1
          OBVIOUS
        <5>1. y \in Nat
          BY <1>0
        <5> QED BY <2>4, <5>1
      <4>2. ~ (m - 1 < m - 1)
        BY <2>4
      <4> DEFINE p == m - 1
      <4> HIDE DEF p
      <4>3. Below(m) = Below(p) \cup {p} /\ p \notin Below(p)
        BY <2>7, <4>1, <4>2, Zenon DEF p
      <4> QED BY <4>3 DEF p
    <3> HIDE DEF Below
    <3>2. Cardinality(Below(m - 1) \cup {m - 1}) = Cardinality(Below(m - 1)) + 1
      BY <1>2, <2>4, <3>1, FS_AddElement
    <3>3. card(m) = card(m - 1) + 1
      BY <3>1, <3>2
    <3> HIDE DEF card
    <3>4. card(m - 1) = k - 1
      BY <2>4, <2>5, <3>3
    <3> QED BY <2>7, <3>4
  <2> QED BY <2>6, <2>7
<1> DEFINE g(k) == CHOOSE x \in S : card(x) = k - 1
<1>a. a = [ k \in 1 .. sizes |-> g(k) ]
  BY DEF Ascending
<1>b. ASSUME NEW k \in 1 .. sizes PROVE g(k) \in S /\ card(g(k)) = k - 1 /\ g(k) \in Nat
  <2>1. \E x \in S : card(x) = k - 1
    BY <1>3
  <2>2. g(k) \in S /\ card(g(k)) = k - 1
    <3> HIDE DEF card
    <3> QED BY <2>1, Zenon
  <2> HIDE DEF g
  <2>3. g(k) \in Nat
    BY <1>0, <2>2
  <2> QED BY <2>2, <2>3
<1> HIDE DEF a, g
<1>4. ASSUME NEW k \in 1 .. sizes PROVE a[k] \in S /\ card(a[k]) = k - 1 /\ a[k] \in Nat
  <2>1. a[k] = g(k)
    BY <1>a
  <2> QED BY <1>b, <2>1, Zenon
<1>5. \A k \in 1 .. sizes : a[k] \in S /\ a[k] \in Int
  <2> SUFFICES ASSUME NEW k \in 1 .. sizes PROVE a[k] \in S /\ a[k] \in Int
    OBVIOUS
  <2>1. a[k] \in S /\ a[k] \in Nat
    BY <1>4
  <2> QED BY <2>1
<1>6. a \in Seq(Int) /\ Len(a) = sizes
  <2>1. a \in [ 1 .. sizes -> Int ] /\ DOMAIN a = 1 .. sizes
    <3>1. \A k \in 1 .. sizes : g(k) \in Int
      <4> SUFFICES ASSUME NEW k \in 1 .. sizes PROVE g(k) \in Int
        OBVIOUS
      <4>1. g(k) \in Nat
        BY <1>b
      <4> QED BY <4>1
    <3> HIDE DEF sizes
    <3> QED BY <1>a, <3>1
  <2> HIDE DEF sizes
  <2>3. a \in Seq(Int)
    BY <1>1, <2>1
  <2>5. Len(a) = sizes
    BY <1>1, <2>1, <2>3, LenProperties
  <2> QED BY <2>3, <2>5
<1>7. ASSUME NEW k \in 1 .. sizes, NEW l \in 1 .. sizes, k < l PROVE a[k] < a[l]
  <2> DEFINE u == a[k]
             v == a[l]
  <2>1. u \in S /\ v \in S /\ card(u) = k - 1 /\ card(v) = l - 1 /\ u \in Nat /\ v \in Nat
    BY <1>4, Zenon
  <2> HIDE DEF u, v
  <2>2. SUFFICES ASSUME v <= u PROVE FALSE
    <3>1. u < v
      BY <2>1, <2>2
    <3> QED BY <3>1 DEF u, v
  <2>3. Below(v) \in SUBSET Below(u)
    <3>1. \A y \in S : y < v => y < u
      <4> SUFFICES ASSUME NEW y \in S, y < v PROVE y < u
        OBVIOUS
      <4>1. y \in Nat
        BY <1>0
      <4> QED BY <2>1, <2>2, <4>1
    <3> QED BY <3>1, Zenon
  <2> HIDE DEF Below
  <2>4. Cardinality(Below(v)) <= Cardinality(Below(u))
    BY <1>2, <2>1, <2>3, FS_Subset
  <2>5. l - 1 <= k - 1
    BY <2>1, <2>4
  <2> QED BY <2>5, <1>7, <1>1
<1> QED BY <1>1, <1>5, <1>6, <1>7 DEF a

LEMMA InputDivided ==
  ASSUME NEW n \in Nat \ {0}, NEW S \in SUBSET (0 .. n - 1)
  PROVE  LET a == << Ascending(S), Ascending((0 .. n - 1) \ S) >>
         IN  Division(a) /\ Len(a[1]) + Len(a[2]) = n
<1> DEFINE R == (0 .. n - 1) \ S
           x == Ascending(S)
           y == Ascending(R)
           a == << x, y >>
<1>0. a[1] = x /\ a[2] = y
  OBVIOUS
<1>1. n \in Nat /\ S \subseteq 0 .. n - 1 /\ R \subseteq 0 .. n - 1 /\ S \cap R = {}
  OBVIOUS
<1>2. Cardinality(S) + Cardinality(R) = n
  <2>1. IsFiniteSet(0 .. n - 1) /\ Cardinality(0 .. n - 1) = n
    BY FS_Interval
  <2>2. Cardinality(R) = Cardinality(0 .. n - 1) - Cardinality((0 .. n - 1) \cap S)
    BY <2>1, FS_Difference
  <2>3. (0 .. n - 1) \cap S = S
    OBVIOUS
  <2>4. Cardinality(S) \in Nat
    BY <1>1, AscendingFacts
  <2>5. Cardinality(R) = n - Cardinality(S)
    BY <2>1, <2>2, <2>3
  <2> QED BY <2>4, <2>5
<1> HIDE DEF R, x, y, a
<1>3. ASSUME NEW U, U \subseteq 0 .. n - 1
      PROVE  /\ Len(Ascending(U)) = Cardinality(U) /\ Cardinality(U) \in Nat
             /\ Sorted(Ascending(U))
             /\ \A i, j \in 0 .. Len(Ascending(U)) - 1 : i < j => At(Ascending(U), i) < At(Ascending(U), j)
             /\ \A i \in 0 .. Len(Ascending(U)) - 1 : At(Ascending(U), i) \in U
  <2> DEFINE z == Ascending(U)
             m == Cardinality(U)
  <2>1. /\ m \in Nat /\ z \in Seq(Int) /\ Len(z) = m
        /\ \A k \in 1 .. m : z[k] \in U
        /\ \A k, l \in 1 .. m : k < l => z[k] < z[l]
    BY <1>1, <1>3, AscendingFacts
  <2> HIDE DEF z, m
  <2>2. Sorted(z)
    <3>1. ASSUME NEW i \in 1 .. Len(z), NEW j \in 1 .. Len(z), i <= j PROVE z[i] <= z[j]
      <4>1. z[i] \in Int /\ z[j] \in Int
        BY <2>1, <3>1, <1>3
      <4>2. CASE i = j
        BY <4>1, <4>2
      <4>3. CASE i < j
        BY <4>1, <4>3, <2>1
      <4> QED BY <3>1, <4>2, <4>3, <2>1
    <3> QED BY <2>1, <3>1 DEF Sorted
  <2>3. \A i \in 0 .. Len(z) - 1 : i + 1 \in 1 .. m
    BY <2>1
  <2>4. \A i, j \in 0 .. Len(z) - 1 : i < j => At(z, i) < At(z, j)
    <3> SUFFICES ASSUME NEW i \in 0 .. Len(z) - 1, NEW j \in 0 .. Len(z) - 1, i < j PROVE At(z, i) < At(z, j)
      OBVIOUS
    <3>1. i + 1 \in 1 .. m /\ j + 1 \in 1 .. m /\ i + 1 < j + 1
      BY <2>1
    <3> QED BY <2>1, <3>1 DEF At
  <2>5. \A i \in 0 .. Len(z) - 1 : At(z, i) \in U
    BY <2>1, <2>3 DEF At
  <2> QED BY <2>1, <2>2, <2>4, <2>5 DEF z, m
<1>4. Len(x) + Len(y) = n /\ Len(x) \in Nat /\ Len(y) \in Nat
  <2>1. Len(x) = Cardinality(S) /\ Cardinality(S) \in Nat
    BY <1>1, <1>3 DEF x
  <2>2. Len(y) = Cardinality(R) /\ Cardinality(R) \in Nat
    BY <1>1, <1>3 DEF y
  <2> QED BY <1>2, <2>1, <2>2
<1>5. /\ Sorted(x) /\ Sorted(y)
      /\ \A i, j \in 0 .. Len(x) - 1 : i < j => At(x, i) < At(x, j)
      /\ \A i, j \in 0 .. Len(y) - 1 : i < j => At(y, i) < At(y, j)
      /\ \A i \in 0 .. Len(x) - 1 : At(x, i) \in S
      /\ \A i \in 0 .. Len(y) - 1 : At(y, i) \in R
  BY <1>1, <1>3 DEF x, y
<1>6. Division(a)
  <2>1. \A s \in {1, 2} : \A i, j \in 0 .. Len(a[s]) - 1 : i < j => At(a[s], i) < At(a[s], j)
    BY <1>0, <1>5
  <2>2. \A s \in {1, 2} : \A i \in 0 .. Len(a[s]) - 1 : At(a[s], i) \in 0 .. Len(a[1]) + Len(a[2]) - 1
    <3>1. \A i \in 0 .. Len(x) - 1 : At(x, i) \in 0 .. n - 1
      BY <1>1, <1>5
    <3>2. \A i \in 0 .. Len(y) - 1 : At(y, i) \in 0 .. n - 1
      BY <1>1, <1>5
    <3>3. Len(a[1]) + Len(a[2]) - 1 = n - 1
      BY <1>0, <1>4
    <3> QED BY <1>0, <3>1, <3>2, <3>3
  <2>3. \A i \in 0 .. Len(a[1]) - 1 : \A j \in 0 .. Len(a[2]) - 1 : At(a[1], i) # At(a[2], j)
    BY <1>0, <1>1, <1>5
  <2> QED BY <1>0, <1>5, <2>1, <2>2, <2>3 DEF Division
<1>7. Len(a[1]) + Len(a[2]) = n
  BY <1>0, <1>4
<1> QED BY <1>6, <1>7 DEF a, x, y, R

\* A finished merge of them is the entries in order.
LEMMA MergedInOrder ==
  ASSUME NEW a, Division(a), NEW cells, Complete(a[1], a[2], cells)
  PROVE  \A c \in 0 .. Len(a[1]) + Len(a[2]) - 1 :
           cells[c] \in {1, 2} \X Nat /\ At(a[cells[c][1]], cells[c][2]) = c
<1> DEFINE x == a[1]
           y == a[2]
           n == Len(x) + Len(y)
           v == [ c \in 0 .. n - 1 |-> At(a[cells[c][1]], cells[c][2]) ]
<1>1. Sorted(x) /\ Sorted(y) /\ Len(x) \in Nat /\ Len(y) \in Nat /\ n \in Nat
  <2>1. Sorted(x) /\ Sorted(y)
    BY Zenon DEF Division
  <2>2. Len(x) \in Nat /\ Len(y) \in Nat
    BY <2>1, SortedFacts
  <2> HIDE DEF x, y
  <2> QED BY <2>1, <2>2
<1>e. Len(a[1]) + Len(a[2]) - 1 = n - 1
  BY <1>1
<1>f. /\ \A c \in 0 .. n - 1 : cells[c] \in {1, 2} \X Nat /\ Stands(x, y, c, cells[c])
      /\ \A s \in {1, 2} : \A i, j \in 0 .. Len(a[s]) - 1 : i < j => At(a[s], i) < At(a[s], j)
      /\ \A s \in {1, 2} : \A i \in 0 .. Len(a[s]) - 1 : At(a[s], i) \in 0 .. n - 1
      /\ \A i \in 0 .. Len(x) - 1 : \A j \in 0 .. Len(y) - 1 : At(x, i) # At(y, j)
  BY <1>e, Zenon DEF Complete, Division
<1>g. a[1] = x /\ a[2] = y
  OBVIOUS
<1> HIDE DEF x, y, n
<1>2. ASSUME NEW c \in 0 .. n - 1
      PROVE  /\ cells[c] \in {1, 2} \X Nat /\ Stands(x, y, c, cells[c])
             /\ cells[c][1] \in {1, 2}
             /\ cells[c][2] \in 0 .. Len(a[cells[c][1]]) - 1
             /\ v[c] = At(a[cells[c][1]], cells[c][2])
             /\ v[c] \in 0 .. n - 1
  <2> DEFINE w == cells[c]
  <2>1. w \in {1, 2} \X Nat /\ Stands(x, y, c, w)
    BY <1>f
  <2>2. v[c] = At(a[w[1]], w[2])
    OBVIOUS
  <2> HIDE DEF w, v
  <2>3. c \in Int
    BY <1>1
  <2>4. /\ w[1] = 1 => w[2] \in 0 .. Len(x) - 1
        /\ w[1] = 2 => w[2] \in 0 .. Len(y) - 1
        /\ w[1] \in {1, 2}
    BY <1>1, <2>1, <2>3, StandsFacts
  <2>5. w[2] \in 0 .. Len(a[w[1]]) - 1
    BY <2>4, <1>g
  <2>6. At(a[w[1]], w[2]) \in 0 .. n - 1
    BY <2>4, <2>5, <1>f
  <2> QED BY <2>1, <2>2, <2>4, <2>5, <2>6 DEF w
<1>3. ASSUME NEW c \in 0 .. n - 1, NEW d \in 0 .. n - 1, c < d PROVE v[c] < v[d]
  <2> DEFINE w == cells[c]
             u == cells[d]
  <2>1. /\ Stands(x, y, c, w) /\ w[1] \in {1, 2} /\ w[2] \in 0 .. Len(a[w[1]]) - 1 /\ v[c] = At(a[w[1]], w[2])
        /\ v[c] \in 0 .. n - 1
    BY <1>2
  <2>2. /\ Stands(x, y, d, u) /\ u[1] \in {1, 2} /\ u[2] \in 0 .. Len(a[u[1]]) - 1 /\ v[d] = At(a[u[1]], u[2])
        /\ v[d] \in 0 .. n - 1
    BY <1>2
  <2> HIDE DEF w, u, v
  <2>3. c \in Int /\ d \in Int
    BY <1>1
  <2>4. /\ w[1] = u[1] => w[2] < u[2]
        /\ w[1] = 1 /\ u[1] = 2 => At(x, w[2]) < At(y, u[2])
        /\ w[1] = 2 /\ u[1] = 1 => At(y, w[2]) <= At(x, u[2])
    BY <1>1, <1>3, <2>1, <2>2, <2>3, StandsOrder
  <2>5. CASE w[1] = u[1]
    <3>1. w[2] \in 0 .. Len(a[w[1]]) - 1 /\ u[2] \in 0 .. Len(a[w[1]]) - 1 /\ w[2] < u[2]
      BY <2>1, <2>2, <2>4, <2>5
    <3>2. At(a[w[1]], w[2]) < At(a[w[1]], u[2])
      BY <2>1, <3>1, <1>f
    <3> QED BY <2>1, <2>2, <2>5, <3>2
  <2>6. CASE w[1] = 1 /\ u[1] = 2
    BY <2>1, <2>2, <2>4, <2>6, <1>g
  <2>7. CASE w[1] = 2 /\ u[1] = 1
    <3>1. v[c] <= v[d]
      BY <2>1, <2>2, <2>4, <2>7, <1>g
    <3>2. v[c] # v[d]
      <4>1. w[2] \in 0 .. Len(y) - 1 /\ u[2] \in 0 .. Len(x) - 1
        BY <2>1, <2>2, <2>7, <1>g
      <4>2. At(x, u[2]) # At(y, w[2])
        BY <4>1, <1>f
      <4> QED BY <2>1, <2>2, <2>7, <4>2, <1>g
    <3>3. v[c] \in Int /\ v[d] \in Int
      BY <1>1, <2>1, <2>2
    <3> QED BY <3>1, <3>2, <3>3
  <2> QED BY <2>1, <2>2, <2>5, <2>6, <2>7
<1>4. \A c \in 0 .. n - 1 : v[c] \in 0 .. n - 1
  BY <1>2
<1> HIDE DEF v
<1>5. CASE n = 0
  <2>1. ~ \E c \in 0 .. n - 1 : TRUE
    BY <1>5
  <2> QED BY <2>1, <1>e
<1>6. CASE n # 0
  <2> DEFINE m == n - 1
             P == { c \in 0 .. m : v[c] >= c }
             Q == { k \in 0 .. m : v[m - k] <= m - k }
  <2>0. m \in Nat /\ m = n - 1
    BY <1>1, <1>6
  <2> HIDE DEF m
  <2>1. 0 \in P
    BY <1>4, <2>0
  <2>2. ASSUME NEW c \in 0 .. m - 1, c \in P PROVE c + 1 \in P
    <3>1. c \in 0 .. n - 1 /\ c + 1 \in 0 .. n - 1 /\ c < c + 1 /\ c + 1 \in 0 .. m
      BY <2>0
    <3>2. v[c] < v[c + 1] /\ v[c] \in 0 .. m /\ v[c + 1] \in 0 .. m
      BY <1>3, <1>4, <3>1, <2>0
    <3>3. v[c] >= c
      BY <2>2
    <3>4. v[c + 1] >= c + 1
      BY <2>0, <3>2, <3>3
    <3> QED BY <3>1, <3>4
  <2>3. \A c \in 0 .. m : c \in P
    <3> HIDE DEF P
    <3> QED BY <2>0, <2>1, <2>2, Induct
  <2>4. 0 \in Q
    <3>1. m - 0 = m /\ m \in 0 .. n - 1 /\ 0 \in 0 .. m
      BY <2>0
    <3>2. v[m] \in 0 .. m
      BY <1>4, <3>1, <2>0
    <3>3. v[m - 0] <= m - 0
      BY <2>0, <3>1, <3>2
    <3> QED BY <3>1, <3>3
  <2>5. ASSUME NEW k \in 0 .. m - 1, k \in Q PROVE k + 1 \in Q
    <3> DEFINE p == m - (k + 1)
               q == m - k
    <3>1. p \in 0 .. n - 1 /\ q \in 0 .. n - 1 /\ p < q /\ q = p + 1 /\ k + 1 \in 0 .. m
      BY <2>0
    <3>3. v[q] <= q
      BY <2>5
    <3> HIDE DEF p, q
    <3>2. v[p] < v[q] /\ v[p] \in 0 .. m /\ v[q] \in 0 .. m
      BY <1>3, <1>4, <3>1, <2>0
    <3>4. v[p] <= p
      BY <2>0, <3>1, <3>2, <3>3
    <3> QED BY <3>1, <3>4 DEF p
  <2>6. \A k \in 0 .. m : k \in Q
    <3> HIDE DEF Q
    <3> QED BY <2>0, <2>4, <2>5, Induct
  <2>7. ASSUME NEW c \in 0 .. n - 1 PROVE v[c] = c
    <3>1. c \in 0 .. m /\ m - c \in 0 .. m /\ m - (m - c) = c
      BY <2>0
    <3>2. v[c] >= c
      BY <2>3, <3>1
    <3>3. v[m - (m - c)] <= m - (m - c)
      BY <2>6, <3>1
    <3>4. v[c] <= c
      BY <3>1, <3>3
    <3>5. v[c] \in Int
      BY <1>4, <1>1
    <3> QED BY <3>1, <3>2, <3>4, <3>5
  <2> QED BY <1>2, <2>7, <1>e
<1> QED BY <1>5, <1>6

-----------------------------------------------------------------------------
(* Marks *)

LEMMA MaxMinFacts ==
  ASSUME NEW n \in Nat, NEW T, T \subseteq 0 .. n, T # {}
  PROVE  /\ Max(T) \in T /\ \A y \in T : y <= Max(T)
         /\ Min(T) \in T /\ \A y \in T : Min(T) <= y
<1>0. \A y \in T : y \in Nat /\ y <= n
  OBVIOUS
<1>1. \E x \in T : \A y \in T : x <= y
  <2>1. T \subseteq Nat
    BY <1>0
  <2> QED BY <2>1, Smallest
<1>2. \E x \in T : \A y \in T : x >= y
  <2> DEFINE U == { k \in Nat : n - k \in T }
  <2>1. PICK z \in T : TRUE
    OBVIOUS
  <2>2. n - z \in U
    <3>1. n - z \in Nat /\ n - (n - z) = z
      BY <1>0
    <3> QED BY <3>1
  <2>3. PICK k \in U : \A l \in U : k <= l
    <3>1. U \subseteq Nat /\ U # {}
      BY <2>2
    <3> HIDE DEF U
    <3> QED BY <3>1, Smallest
  <2>4. k \in Nat /\ n - k \in T
    BY <2>3
  <2>5. ASSUME NEW y \in T PROVE n - k >= y
    <3>1. n - y \in Nat /\ n - (n - y) = y /\ y \in Nat
      BY <1>0
    <3>2. n - y \in U
      BY <3>1
    <3> HIDE DEF U
    <3>3. k <= n - y
      BY <2>3, <3>2
    <3> QED BY <2>4, <3>1, <3>3
  <2> QED BY <2>4, <2>5
<1>3. Max(T) \in T /\ \A y \in T : Max(T) >= y
  BY <1>2, Zenon DEF Max
<1>4. Min(T) \in T /\ \A y \in T : Min(T) <= y
  BY <1>1, Zenon DEF Min
<1>5. \A y \in T : y <= Max(T)
  <2> SUFFICES ASSUME NEW y \in T PROVE y <= Max(T)
    OBVIOUS
  <2> DEFINE u == Max(T)
  <2>1. u >= y /\ u \in T
    BY <1>3
  <2> HIDE DEF u
  <2>2. u \in Nat /\ y \in Nat
    BY <1>0, <2>1
  <2>3. y <= u
    BY <2>1, <2>2
  <2> QED BY <2>3 DEF u
<1> QED BY <1>3, <1>4, <1>5

\* What the marks are computed from.
Measured == Division(input) /\ length \in Nat \ {0} /\ team \in Nat \ {0}

LEMMA InputFacts ==
  ASSUME Measured
  PROVE  /\ Sorted(input[1]) /\ Sorted(input[2])
         /\ Len(input[1]) \in Nat /\ Len(input[2]) \in Nat
         /\ \A i \in {1, 2} : Sorted(input[i]) /\ Len(input[i]) \in Nat
<1>1. Sorted(input[1]) /\ Sorted(input[2])
  BY Zenon DEF Measured, Division
<1>2. Len(input[1]) \in Nat /\ Len(input[2]) \in Nat
  BY <1>1, SortedFacts
<1> QED BY <1>1, <1>2

LEMMA StepFacts ==
  ASSUME Measured
  PROVE  /\ stepsize \in Nat \ {0}
         /\ length <= team * stepsize
<1>1. length \in Nat \ {0} /\ team \in Nat \ {0}
  BY DEF Measured
<1> DEFINE n == length
           d == n \div team
           r == n % team
<1>2. d \in Nat /\ r \in 0 .. team - 1 /\ n = team * d + r /\ team * d \in Nat
  BY <1>1
<1>3. stepsize = d + IF r > 0 THEN 1 ELSE 0
  BY DEF stepsize
<1> HIDE DEF n, d, r
<1>4. CASE r > 0
  <2>1. stepsize = d + 1
    BY <1>3, <1>4
  <2>2. team * (d + 1) = team * d + team
    BY <1>1, <1>2
  <2> DEFINE u == team * d
  <2> HIDE DEF u
  <2>3. n <= u + team
    BY <1>1, <1>2 DEF u
  <2>4. n <= team * stepsize
    BY <2>1, <2>2, <2>3 DEF u
  <2> QED BY <1>2, <2>1, <2>4 DEF n
<1>5. CASE ~ (r > 0)
  <2>1. r = 0 /\ stepsize = d
    BY <1>2, <1>3, <1>5
  <2>2. n = team * d
    BY <1>2, <2>1
  <2>3. d # 0
    <3>1. d = 0 => team * d = 0
      BY <1>1
    <3>2. n # 0
      BY <1>1 DEF n
    <3> QED BY <2>2, <3>1, <3>2
  <2>4. n <= team * stepsize
    <3>1. n \in Int
      BY <1>1 DEF n
    <3> QED BY <3>1, <2>1, <2>2
  <2> QED BY <1>2, <2>1, <2>3, <2>4 DEF n
<1> QED BY <1>4, <1>5

LEMMA MarksFacts ==
  ASSUME Measured, NEW i \in {1, 2}
  PROVE  /\ marks(i) \in Nat
         /\ \A k \in Nat : /\ MarkPosition(k) \in Nat
                           /\ k < marks(i) <=> MarkPosition(k) < Len(input[i])
         /\ \A k, l \in Nat : k < l => MarkPosition(k) + 1 <= MarkPosition(l)
<1> DEFINE n == Len(input[i])
           st == stepsize
<1>1. n \in Nat
  BY InputFacts
<1>2. st \in Nat \ {0}
  BY StepFacts
<1>3. marks(i) = n \div st
  BY DEF marks
<1>4. \A k : MarkPosition(k) = (k + 1) * st - 1
  BY DEF MarkPosition
<1> HIDE DEF n, st
<1>5. n \div st \in Nat /\ \A k \in Nat : k <= n \div st <=> k * st <= n
  BY <1>1, <1>2, PlacesOfStride
<1>6. ASSUME NEW k \in Nat
      PROVE  (k + 1) * st \in Nat \ {0} /\ (k + 1) * st = k * st + st /\ k * st \in Nat
  <2>1. (k + 1) * st = k * st + st /\ k * st \in Nat
    BY <1>2, TimesOrder
  <2> DEFINE u == k * st
             v == (k + 1) * st
  <2>2. v = u + st /\ u \in Nat
    BY <2>1
  <2> HIDE DEF u, v
  <2>3. v \in Nat \ {0}
    BY <2>2, <1>2
  <2> QED BY <2>1, <2>3 DEF v
<1>7. ASSUME NEW k \in Nat
      PROVE  MarkPosition(k) \in Nat /\ (k < marks(i) <=> MarkPosition(k) < n)
  <2> DEFINE v == (k + 1) * st
             p == MarkPosition(k)
  <2>1. v \in Nat \ {0} /\ p = v - 1
    BY <1>4, <1>6
  <2>2. k + 1 <= marks(i) <=> v <= n
    <3>1. k + 1 \in Nat
      OBVIOUS
    <3> QED BY <1>3, <1>5, <3>1
  <2> HIDE DEF v, p
  <2>3. p \in Nat /\ (v <= n <=> p < n)
    BY <1>1, <2>1
  <2>4. marks(i) \in Nat
    BY <1>3, <1>5
  <2>5. k < marks(i) <=> p < n
    BY <2>2, <2>3, <2>4
  <2> QED BY <2>3, <2>5 DEF p
<1>8. ASSUME NEW k \in Nat, NEW l \in Nat, k < l PROVE MarkPosition(k) + 1 <= MarkPosition(l)
  <2> DEFINE u == (k + 1) * st
             v == l * st
             w == (l + 1) * st
  <2>1. u \in Nat /\ v \in Nat /\ w = v + st /\ w \in Nat
    BY <1>6
  <2>2. u <= v
    <3>1. k + 1 \in Nat /\ k + 1 <= l
      BY <1>8
    <3> QED BY <1>2, <3>1, TimesOrder
  <2>3. MarkPosition(k) = u - 1 /\ MarkPosition(l) = w - 1
    BY <1>4
  <2> HIDE DEF u, v, w
  <2>4. (u - 1) + 1 <= w - 1
    BY <1>2, <2>1, <2>2
  <2> QED BY <2>3, <2>4
<1> QED BY <1>3, <1>5, <1>7, <1>8 DEF n

\* The arrays of the nested merges.
LEMMA MarkArrays ==
  ASSUME Measured, NEW i \in {1, 2}
  PROVE  /\ Sorted(MarkedEntries(i)) /\ Len(MarkedEntries(i)) = marks(i)
         /\ \A k \in 0 .. marks(i) - 1 :
              /\ MarkPosition(k) \in 0 .. Len(input[i]) - 1
              /\ At(MarkedEntries(i), k) = At(input[i], MarkPosition(k))
         /\ Sorted(MarkPositions(i)) /\ Len(MarkPositions(i)) = marks(i)
         /\ \A k \in 0 .. marks(i) - 1 : At(MarkPositions(i), k) = MarkPosition(k)
<1> DEFINE m == marks(i)
           e == MarkedEntries(i)
           p == MarkPositions(i)
<1>1. Len(input[i]) \in Nat /\ Sorted(input[i])
  BY InputFacts
<1>2. /\ m \in Nat
      /\ \A k \in Nat : MarkPosition(k) \in Nat /\ (k < m <=> MarkPosition(k) < Len(input[i]))
      /\ \A k, l \in Nat : k < l => MarkPosition(k) + 1 <= MarkPosition(l)
  BY MarksFacts
<1>3. e = [ k \in 1 .. m |-> At(input[i], MarkPosition(k - 1)) ] /\ p = [ k \in 1 .. m |-> MarkPosition(k - 1) ]
  BY DEF MarkedEntries, MarkPositions
<1> HIDE DEF m, e, p
<1>4. ASSUME NEW k \in 0 .. m - 1
      PROVE  MarkPosition(k) \in 0 .. Len(input[i]) - 1 /\ MarkPosition(k) \in Int /\ At(input[i], MarkPosition(k)) \in Int
  <2>1. k \in Nat /\ k < m
    BY <1>2
  <2>2. MarkPosition(k) \in Nat /\ MarkPosition(k) < Len(input[i])
    BY <1>2, <2>1
  <2>3. MarkPosition(k) \in 0 .. Len(input[i]) - 1
    BY <1>1, <2>2
  <2> QED BY <1>1, <2>2, <2>3, SortedFacts
<1>5. ASSUME NEW k \in 1 .. m
      PROVE  /\ e[k] = At(input[i], MarkPosition(k - 1)) /\ p[k] = MarkPosition(k - 1)
             /\ k - 1 \in 0 .. m - 1 /\ e[k] \in Int /\ p[k] \in Int
  <2>1. k - 1 \in 0 .. m - 1
    BY <1>2
  <2>2. e[k] = At(input[i], MarkPosition(k - 1)) /\ p[k] = MarkPosition(k - 1)
    BY <1>3
  <2> QED BY <1>4, <2>1, <2>2
<1>6. e \in Seq(Int) /\ p \in Seq(Int) /\ Len(e) = m /\ Len(p) = m
  <2>1. e \in [ 1 .. m -> Int ] /\ p \in [ 1 .. m -> Int ] /\ DOMAIN e = 1 .. m /\ DOMAIN p = 1 .. m
    BY <1>3, <1>5
  <2>2. e \in Seq(Int) /\ p \in Seq(Int)
    BY <1>2, <2>1
  <2> QED BY <1>2, <2>1, <2>2, LenProperties
<1>7. ASSUME NEW k \in 1 .. m, NEW l \in 1 .. m, k <= l PROVE e[k] <= e[l] /\ p[k] <= p[l]
  <2>1. k - 1 <= l - 1 /\ k - 1 \in Nat /\ l - 1 \in Nat /\ (k = l \/ k - 1 < l - 1)
    BY <1>2, <1>7
  <2>2. k - 1 < l - 1 => MarkPosition(k - 1) + 1 <= MarkPosition(l - 1)
    BY <1>2, <2>1
  <2>3. MarkPosition(k - 1) \in 0 .. Len(input[i]) - 1 /\ MarkPosition(l - 1) \in 0 .. Len(input[i]) - 1
        /\ MarkPosition(k - 1) \in Int /\ MarkPosition(l - 1) \in Int
    BY <1>4, <1>5
  <2>4. MarkPosition(k - 1) <= MarkPosition(l - 1)
    BY <2>1, <2>2, <2>3
  <2>5. At(input[i], MarkPosition(k - 1)) <= At(input[i], MarkPosition(l - 1))
    BY <1>1, <2>3, <2>4, SortedFacts
  <2> QED BY <1>5, <2>4, <2>5
<1>8. Sorted(e) /\ Sorted(p)
  BY <1>6, <1>7 DEF Sorted
<1>9. ASSUME NEW k \in 0 .. m - 1
      PROVE  At(e, k) = At(input[i], MarkPosition(k)) /\ At(p, k) = MarkPosition(k)
  <2>1. k + 1 \in 1 .. m /\ (k + 1) - 1 = k
    BY <1>2
  <2>2. e[k + 1] = At(input[i], MarkPosition(k)) /\ p[k + 1] = MarkPosition(k)
    BY <1>5, <2>1
  <2>3. At(e, k) = e[k + 1] /\ At(p, k) = p[k + 1]
    BY DEF At
  <2> QED BY <2>2, <2>3
<1> QED BY <1>4, <1>6, <1>8, <1>9 DEF e, p, m

-----------------------------------------------------------------------------
(* The places of the marks *)

MarksDone ==
  /\ Measured
  /\ DOMAIN output["mark"] = 0 .. marks(1) + marks(2) - 1
  /\ Complete(MarkedEntries(1), MarkedEntries(2), output["mark"])

LEMMA MarkedFacts ==
  ASSUME MarksDone, NEW c \in DOMAIN output["mark"]
  PROVE  LET e == output["mark"][c]
         IN  /\ c \in Int
             /\ e \in {1, 2} \X Nat /\ e[1] \in {1, 2}
             /\ e[2] \in 0 .. marks(e[1]) - 1
             /\ MarkPosition(e[2]) \in 0 .. Len(input[e[1]]) - 1
             /\ At(MarkedEntries(e[1]), e[2]) = At(input[e[1]], MarkPosition(e[2]))
             /\ Stands(MarkedEntries(1), MarkedEntries(2), c, e)
<1> DEFINE e == output["mark"][c]
           x == MarkedEntries(1)
           y == MarkedEntries(2)
<1>0. Measured
  BY DEF MarksDone
<1>1. Sorted(x) /\ Sorted(y) /\ Len(x) = marks(1) /\ Len(y) = marks(2) /\ marks(1) \in Nat /\ marks(2) \in Nat
  BY <1>0, MarkArrays, MarksFacts
<1>2. c \in 0 .. Len(x) + Len(y) - 1
  <2>1. c \in 0 .. marks(1) + marks(2) - 1
    BY DEF MarksDone
  <2> QED BY <1>1, <2>1
<1>3. e \in {1, 2} \X Nat /\ Stands(x, y, c, e)
  BY <1>2 DEF MarksDone, Complete
<1>4. c \in Int
  BY <1>1, <1>2
<1> HIDE DEF e, x, y
<1>5. /\ e[1] = 1 => e[2] \in 0 .. Len(x) - 1
      /\ e[1] = 2 => e[2] \in 0 .. Len(y) - 1
  BY <1>1, <1>3, <1>4, StandsFacts
<1>6. e[1] \in {1, 2} /\ e[2] \in 0 .. marks(e[1]) - 1
  <2>1. e[1] \in {1, 2}
    BY <1>3
  <2> QED BY <1>1, <1>5, <2>1
<1>7. MarkPosition(e[2]) \in 0 .. Len(input[e[1]]) - 1
      /\ At(MarkedEntries(e[1]), e[2]) = At(input[e[1]], MarkPosition(e[2]))
  BY <1>0, <1>6, MarkArrays
<1> QED BY <1>3, <1>4, <1>6, <1>7 DEF e, x, y

\* The marked entries are in order.
LEMMA MarkedOrder ==
  ASSUME MarksDone, NEW c \in DOMAIN output["mark"], NEW d \in DOMAIN output["mark"], c < d
  PROVE  LET e == output["mark"][c]
             f == output["mark"][d]
         IN  /\ e[1] = f[1] => MarkPosition(e[2]) + 1 <= MarkPosition(f[2])
             /\ e[1] = 1 /\ f[1] = 2 => At(input[1], MarkPosition(e[2])) < At(input[2], MarkPosition(f[2]))
             /\ e[1] = 2 /\ f[1] = 1 => At(input[2], MarkPosition(e[2])) <= At(input[1], MarkPosition(f[2]))
<1> DEFINE e == output["mark"][c]
           f == output["mark"][d]
           x == MarkedEntries(1)
           y == MarkedEntries(2)
<1>0. Measured
  BY DEF MarksDone
<1>1. Sorted(x) /\ Sorted(y)
  BY <1>0, MarkArrays
<1>2. /\ c \in Int /\ e[1] \in {1, 2} /\ e[2] \in 0 .. marks(e[1]) - 1
      /\ At(MarkedEntries(e[1]), e[2]) = At(input[e[1]], MarkPosition(e[2]))
      /\ Stands(x, y, c, e)
  BY MarkedFacts
<1>3. /\ d \in Int /\ f[1] \in {1, 2} /\ f[2] \in 0 .. marks(f[1]) - 1
      /\ At(MarkedEntries(f[1]), f[2]) = At(input[f[1]], MarkPosition(f[2]))
      /\ Stands(x, y, d, f)
  BY MarkedFacts
<1>g. MarkedEntries(1) = x /\ MarkedEntries(2) = y
  OBVIOUS
<1> HIDE DEF e, f, x, y
<1>4. /\ e[1] = f[1] => e[2] < f[2]
      /\ e[1] = 1 /\ f[1] = 2 => At(x, e[2]) < At(y, f[2])
      /\ e[1] = 2 /\ f[1] = 1 => At(y, e[2]) <= At(x, f[2])
  BY <1>1, <1>2, <1>3, StandsOrder
<1>5. ASSUME e[1] = f[1] PROVE MarkPosition(e[2]) + 1 <= MarkPosition(f[2])
  <2>1. e[2] \in Nat /\ f[2] \in Nat /\ e[2] < f[2]
    BY <1>2, <1>3, <1>4, <1>5
  <2> QED BY <1>0, <1>2, <2>1, MarksFacts
<1>6. ASSUME e[1] = 1, f[1] = 2 PROVE At(input[1], MarkPosition(e[2])) < At(input[2], MarkPosition(f[2]))
  BY <1>2, <1>3, <1>4, <1>6, <1>g
<1>7. ASSUME e[1] = 2, f[1] = 1 PROVE At(input[2], MarkPosition(e[2])) <= At(input[1], MarkPosition(f[2]))
  BY <1>2, <1>3, <1>4, <1>7, <1>g
<1> QED BY <1>5, <1>6, <1>7 DEF e, f

\* A segment lies around its mark.
LEMMA SegmentFacts ==
  ASSUME MarksDone, NEW c \in DOMAIN output["mark"], NEW i \in {1, 2}, NEW o \in {1, 2}, i # o,
         output["mark"][c][1] = i
  PROVE  LET key == At(input[i], MarkPosition(output["mark"][c][2]))
             s == determine_segments(c)
         IN  /\ s[1] \in 0 .. Len(input[o]) /\ s[2] \in 0 .. Len(input[o]) /\ s[1] <= s[2]
             /\ key \in Int
             /\ i = 1 => /\ s[1] > 0 => At(input[o], s[1] - 1) <= key
                         /\ s[2] < Len(input[o]) => key < At(input[o], s[2])
             /\ i = 2 => /\ s[1] > 0 => At(input[o], s[1] - 1) < key
                         /\ s[2] < Len(input[o]) => key <= At(input[o], s[2])
<1> DEFINE D == DOMAIN output["mark"]
           marked == output["mark"]
           key == At(input[i], MarkPosition(marked[c][2]))
           others == { d \in D : marked[d][1] # marked[c][1] }
           before == { d \in others : d < c }
           after == { d \in others : d > c }
           l == IF before = {} THEN 0 ELSE MarkPosition(marked[Max(before)][2]) + 1
           r == IF after = {} THEN Len(input[3 - marked[c][1]]) ELSE MarkPosition(marked[Min(after)][2])
           s == determine_segments(c)
<1>0. Measured
  BY DEF MarksDone
<1>1. /\ \A j \in {1, 2} : Sorted(input[j]) /\ Len(input[j]) \in Nat
      /\ marks(1) \in Nat /\ marks(2) \in Nat
  BY <1>0, InputFacts, MarksFacts
<1>2. D = 0 .. marks(1) + marks(2) - 1
  BY DEF MarksDone
<1>3. s[1] = l /\ s[2] = r
  BY DEF determine_segments
<1>4. 3 - marked[c][1] = o
  OBVIOUS
<1> HIDE DEF s
<1>5. ASSUME NEW d \in others
      PROVE  /\ d \in D /\ marked[d][1] = o /\ d \in Nat
             /\ MarkPosition(marked[d][2]) \in 0 .. Len(input[o]) - 1
  <2>1. d \in D /\ marked[d][1] # i
    OBVIOUS
  <2>2. marked[d][1] \in {1, 2} /\ MarkPosition(marked[d][2]) \in 0 .. Len(input[marked[d][1]]) - 1
    BY <2>1, MarkedFacts
  <2>3. marked[d][1] = o
    BY <2>1, <2>2
  <2>4. d \in Nat
    BY <1>2, <2>1
  <2> QED BY <2>1, <2>2, <2>3, <2>4
<1>6. key \in Int
  <2>1. MarkPosition(marked[c][2]) \in 0 .. Len(input[i]) - 1
    BY MarkedFacts
  <2> QED BY <1>1, <2>1, SortedFacts
<1>7. ASSUME before # {}
      PROVE  Max(before) \in before
  <2> DEFINE n == marks(1) + marks(2)
  <2>1. n \in Nat /\ before \subseteq 0 .. n
    <3>1. D \subseteq 0 .. n
      BY <1>1, <1>2
    <3> QED BY <1>1, <3>1
  <2> HIDE DEF n, before
  <2> QED BY <1>7, <2>1, MaxMinFacts
<1>8. ASSUME after # {}
      PROVE  Min(after) \in after
  <2> DEFINE n == marks(1) + marks(2)
  <2>1. n \in Nat /\ after \subseteq 0 .. n
    <3>1. D \subseteq 0 .. n
      BY <1>1, <1>2
    <3> QED BY <1>1, <3>1
  <2> HIDE DEF n, after
  <2> QED BY <1>8, <2>1, MaxMinFacts
<1>9. c \in Nat
  BY <1>1, <1>2
<1> DEFINE p == MarkPosition(marked[Max(before)][2])
           q == MarkPosition(marked[Min(after)][2])
<1>10. ASSUME before # {}
       PROVE  /\ Max(before) \in others /\ Max(before) < c
              /\ l = p + 1 /\ p \in 0 .. Len(input[o]) - 1 /\ l \in 0 .. Len(input[o]) /\ l - 1 = p
              /\ i = 1 => At(input[o], p) <= key
              /\ i = 2 => At(input[o], p) < key
  <2>1. Max(before) \in others /\ Max(before) < c
    BY <1>7, <1>10
  <2> DEFINE d == Max(before)
  <2>2. d \in D /\ marked[d][1] = o /\ MarkPosition(marked[d][2]) \in 0 .. Len(input[o]) - 1 /\ d < c
    BY <1>5, <2>1
  <2>3. l = p + 1 /\ p = MarkPosition(marked[d][2])
    BY <1>10
  <2> HIDE DEF d, l, p
  <2>4. /\ marked[d][1] = 2 /\ marked[c][1] = 1 => At(input[2], MarkPosition(marked[d][2])) <= At(input[1], MarkPosition(marked[c][2]))
        /\ marked[d][1] = 1 /\ marked[c][1] = 2 => At(input[1], MarkPosition(marked[d][2])) < At(input[2], MarkPosition(marked[c][2]))
    BY <2>2, MarkedOrder
  <2>5. /\ i = 1 => At(input[o], p) <= key
        /\ i = 2 => At(input[o], p) < key
    BY <2>2, <2>3, <2>4
  <2>6. l \in 0 .. Len(input[o]) /\ l - 1 = p
    BY <1>1, <2>2, <2>3
  <2> QED BY <2>1, <2>2, <2>3, <2>5, <2>6
<1>11. ASSUME after # {}
       PROVE  /\ Min(after) \in others /\ c < Min(after)
              /\ r = q /\ q \in 0 .. Len(input[o]) - 1 /\ r \in 0 .. Len(input[o])
              /\ i = 1 => key < At(input[o], q)
              /\ i = 2 => key <= At(input[o], q)
  <2> DEFINE d == Min(after)
  <2>1. d \in others /\ d > c
    BY <1>8, <1>11
  <2>2. d \in D /\ marked[d][1] = o /\ MarkPosition(marked[d][2]) \in 0 .. Len(input[o]) - 1 /\ d \in Nat
    BY <1>5, <2>1
  <2>3. r = q /\ q = MarkPosition(marked[d][2])
    BY <1>11
  <2>a. d \in others
    BY <2>1
  <2> HIDE DEF d, r, q
  <2>c. c < d
    BY <1>9, <2>1, <2>2
  <2>4. /\ marked[c][1] = 1 /\ marked[d][1] = 2 => At(input[1], MarkPosition(marked[c][2])) < At(input[2], MarkPosition(marked[d][2]))
        /\ marked[c][1] = 2 /\ marked[d][1] = 1 => At(input[2], MarkPosition(marked[c][2])) <= At(input[1], MarkPosition(marked[d][2]))
    BY <2>2, <2>c, MarkedOrder
  <2>5. /\ i = 1 => key < At(input[o], q)
        /\ i = 2 => key <= At(input[o], q)
    BY <2>2, <2>3, <2>4
  <2>6. r \in 0 .. Len(input[o])
    BY <1>1, <2>2, <2>3
  <2> QED BY <2>a, <2>c, <2>2, <2>3, <2>5, <2>6 DEF d
<1>12. before = {} => l = 0 /\ l \in 0 .. Len(input[o]) /\ ~ (l > 0)
  BY <1>1
<1>13. after = {} => r = Len(input[o]) /\ r \in 0 .. Len(input[o]) /\ ~ (r < Len(input[o]))
  BY <1>1, <1>4
<1>14. l <= r
  <2>1. CASE before = {} \/ after = {}
    <3>1. l \in 0 .. Len(input[o]) /\ r \in 0 .. Len(input[o]) /\ (l = 0 \/ r = Len(input[o]))
      BY <2>1, <1>10, <1>11, <1>12, <1>13
    <3> HIDE DEF l, r
    <3> QED BY <1>1, <3>1
  <2>2. CASE before # {} /\ after # {}
    <3> DEFINE d == Max(before)
               f == Min(after)
    <3>1. d \in others /\ f \in others /\ d < c /\ c < f /\ l = p + 1 /\ r = q
      BY <2>2, <1>10, <1>11
    <3>2. d \in D /\ f \in D /\ d \in Nat /\ f \in Nat /\ marked[d][1] = marked[f][1]
      BY <3>1, <1>5
    <3>3. p = MarkPosition(marked[d][2]) /\ q = MarkPosition(marked[f][2])
      OBVIOUS
    <3> HIDE DEF d, f, p, q, l, r
    <3>4. d < f
      BY <3>1, <3>2, <1>9
    <3>5. MarkPosition(marked[d][2]) + 1 <= MarkPosition(marked[f][2])
      BY <3>2, <3>4, MarkedOrder
    <3> QED BY <3>1, <3>3, <3>5
  <2> QED BY <2>1, <2>2
<1>15. /\ l \in 0 .. Len(input[o]) /\ r \in 0 .. Len(input[o])
       /\ i = 1 => (l > 0 => At(input[o], l - 1) <= key) /\ (r < Len(input[o]) => key < At(input[o], r))
       /\ i = 2 => (l > 0 => At(input[o], l - 1) < key) /\ (r < Len(input[o]) => key <= At(input[o], r))
  <2> HIDE DEF l, r, p, q, before, after, key
  <2> QED BY <1>10, <1>11, <1>12, <1>13
<1> QED
  <2> HIDE DEF l, r, key
  <2>1. /\ s[1] \in 0 .. Len(input[o]) /\ s[2] \in 0 .. Len(input[o]) /\ s[1] <= s[2]
        /\ key \in Int
        /\ i = 1 => /\ s[1] > 0 => At(input[o], s[1] - 1) <= key
                    /\ s[2] < Len(input[o]) => key < At(input[o], s[2])
        /\ i = 2 => /\ s[1] > 0 => At(input[o], s[1] - 1) < key
                    /\ s[2] < Len(input[o]) => key <= At(input[o], s[2])
    BY <1>3, <1>6, <1>14, <1>15
  <2> QED BY <2>1 DEF s, key

\* Where the search puts a mark.
LEMMA PosInOther ==
  ASSUME MarksDone, NEW c \in DOMAIN output["mark"]
  PROVE  LET e == output["mark"][c]
         IN  /\ e[1] = 1 => Behind(input[2], pos_in_other(c), At(input[1], MarkPosition(e[2])))
             /\ e[1] = 2 => Ahead(input[1], pos_in_other(c), At(input[2], MarkPosition(e[2])))
<1> DEFINE e == output["mark"][c]
           s == determine_segments(c)
           k == MarkPosition(e[2])
           b == (e[1] = 2)
<1>0. Measured
  BY DEF MarksDone
<1>1. \A j \in {1, 2} : Sorted(input[j]) /\ Len(input[j]) \in Nat
  BY <1>0, InputFacts
<1>2. pos_in_other(c) = binarysearch(input[3 - e[1]], s[1], s[2], At(input[e[1]], k), b)
  BY DEF pos_in_other
<1>3. ASSUME e[1] = 1 PROVE Behind(input[2], pos_in_other(c), At(input[1], k))
  <2> DEFINE key == At(input[1], k)
             l == s[1]
             r == s[2]
  <2>1. b = FALSE
    BY <1>3
  <2>2. 3 - e[1] = 2
    BY <1>3
  <2>3. pos_in_other(c) = binarysearch(input[2], s[1], s[2], At(input[1], k), FALSE)
    <3> HIDE DEF b, s, k, e
    <3> QED BY <1>2, <1>3, <2>1, <2>2, Zenon
  <2>4. /\ l \in 0 .. Len(input[2]) /\ r \in 0 .. Len(input[2]) /\ l <= r /\ key \in Int
        /\ l > 0 => At(input[2], l - 1) <= key
        /\ r < Len(input[2]) => key < At(input[2], r)
    BY <1>3, SegmentFacts
  <2> HIDE DEF e, s, k, key, l, r
  <2>5. l \in Nat
    BY <1>1, <2>4
  <2>6. Behind(input[2], binarysearch(input[2], l, r, key, FALSE), key)
    BY <1>1, <2>4, <2>5, SearchBehind, Zenon
  <2> QED BY <2>3, <2>6, Zenon DEF l, r, key
<1>4. ASSUME e[1] = 2 PROVE Ahead(input[1], pos_in_other(c), At(input[2], k))
  <2> DEFINE key == At(input[2], k)
             l == s[1]
             r == s[2]
  <2>1. b = TRUE
    BY <1>4
  <2>2. 3 - e[1] = 1
    BY <1>4
  <2>3. pos_in_other(c) = binarysearch(input[1], s[1], s[2], At(input[2], k), TRUE)
    <3> HIDE DEF b, s, k, e
    <3> QED BY <1>2, <1>4, <2>1, <2>2, Zenon
  <2>4. /\ l \in 0 .. Len(input[1]) /\ r \in 0 .. Len(input[1]) /\ l <= r /\ key \in Int
        /\ l > 0 => At(input[1], l - 1) < key
        /\ r < Len(input[1]) => key <= At(input[1], r)
    BY <1>4, SegmentFacts
  <2> HIDE DEF e, s, k, key, l, r
  <2>5. l \in Nat
    BY <1>1, <2>4
  <2>6. Ahead(input[1], binarysearch(input[1], l, r, key, TRUE), key)
    BY <1>1, <2>4, <2>5, SearchAhead, Zenon
  <2> QED BY <2>3, <2>6, Zenon DEF l, r, key
<1> QED BY <1>3, <1>4

LEMMA PlacesOnce ==
  ASSUME NEW y, Sorted(y), NEW key \in Int, NEW q, NEW r
  PROVE  /\ Behind(y, q, key) /\ Behind(y, r, key) => q = r
         /\ Ahead(y, q, key) /\ Ahead(y, r, key) => q = r
<1>0. Len(y) \in Nat
  BY SortedFacts
<1>1. ASSUME NEW a \in 0 .. Len(y), NEW b \in 0 .. Len(y), a < b
      PROVE  /\ a < Len(y) /\ b > 0 /\ At(y, a) \in Int /\ At(y, b - 1) \in Int /\ At(y, a) <= At(y, b - 1)
  <2>1. a \in 0 .. Len(y) - 1 /\ b - 1 \in 0 .. Len(y) - 1 /\ a <= b - 1 /\ a < Len(y) /\ b > 0
    BY <1>0, <1>1
  <2> QED BY <2>1, SortedFacts
<1>2. ASSUME NEW a, NEW b, Behind(y, a, key), Behind(y, b, key), a < b PROVE FALSE
  <2>1. a \in 0 .. Len(y) /\ b \in 0 .. Len(y)
    BY <1>2 DEF Behind
  <2>2. a < Len(y) /\ b > 0 /\ At(y, a) \in Int /\ At(y, b - 1) \in Int /\ At(y, a) <= At(y, b - 1)
    BY <1>1, <1>2, <2>1
  <2>3. key < At(y, a) /\ At(y, b - 1) <= key
    BY <1>2, <2>2 DEF Behind
  <2> QED BY <2>2, <2>3
<1>3. ASSUME NEW a, NEW b, Ahead(y, a, key), Ahead(y, b, key), a < b PROVE FALSE
  <2>1. a \in 0 .. Len(y) /\ b \in 0 .. Len(y)
    BY <1>3 DEF Ahead
  <2>2. a < Len(y) /\ b > 0 /\ At(y, a) \in Int /\ At(y, b - 1) \in Int /\ At(y, a) <= At(y, b - 1)
    BY <1>1, <1>3, <2>1
  <2>3. key <= At(y, a) /\ At(y, b - 1) < key
    BY <1>3, <2>2 DEF Ahead
  <2> QED BY <2>2, <2>3
<1>4. Behind(y, q, key) /\ Behind(y, r, key) => q = r
  <2> SUFFICES ASSUME Behind(y, q, key), Behind(y, r, key) PROVE q = r
    OBVIOUS
  <2>1. q \in Int /\ r \in Int
    BY <1>0 DEF Behind
  <2>2. ~ (q < r) /\ ~ (r < q)
    BY <1>2
  <2> QED BY <2>1, <2>2
<1>5. Ahead(y, q, key) /\ Ahead(y, r, key) => q = r
  <2> SUFFICES ASSUME Ahead(y, q, key), Ahead(y, r, key) PROVE q = r
    OBVIOUS
  <2>1. q \in Int /\ r \in Int
    BY <1>0 DEF Ahead
  <2>2. ~ (q < r) /\ ~ (r < q)
    BY <1>3
  <2> QED BY <2>1, <2>2
<1> QED BY <1>4, <1>5

\* p holds the places of the marks of each array in the other one.
PlacesAre(p) ==
  /\ Sorted(p[1]) /\ Len(p[1]) = marks(2)
  /\ Sorted(p[2]) /\ Len(p[2]) = marks(1)
  /\ \A k \in 0 .. marks(2) - 1 : Ahead(input[1], At(p[1], k), At(input[2], MarkPosition(k)))
  /\ \A k \in 0 .. marks(1) - 1 : Behind(input[2], At(p[2], k), At(input[1], MarkPosition(k)))

LEMMA ArrayOfInts ==
  ASSUME NEW m \in Nat, NEW p, DOMAIN p = 1 .. m, p = [ k \in 1 .. m |-> p[k] ],
         \A k \in 1 .. m : p[k] \in Int
  PROVE  p \in Seq(Int) /\ Len(p) = m
<1>1. p \in [ 1 .. m -> Int ]
  OBVIOUS
<1>2. p \in Seq(Int)
  BY <1>1, SeqDef, Zenon
<1>3. Len(p) \in Nat /\ 1 .. Len(p) = 1 .. m
  BY <1>2, LenProperties
<1> DEFINE l == Len(p)
<1>4. l \in Nat /\ 1 .. l = 1 .. m
  BY <1>3
<1> HIDE DEF l
<1>5. l = m
  <2>1. l # 0 => l \in 1 .. m
    BY <1>4
  <2>2. m # 0 => m \in 1 .. l
    BY <1>4
  <2> QED BY <1>4, <2>1, <2>2
<1> QED BY <1>2, <1>5 DEF l

\* Every mark is in the merge of the marks.
LEMMA MarksOccur ==
  ASSUME MarksDone
  PROVE  \A i \in {1, 2} : \A k \in 0 .. marks(i) - 1 :
           \E c \in DOMAIN output["mark"] : output["mark"][c] = << i, k >>
<1> DEFINE x == MarkedEntries(1)
           y == MarkedEntries(2)
           marked == output["mark"]
<1>1. Measured /\ Complete(x, y, marked) /\ DOMAIN marked = 0 .. marks(1) + marks(2) - 1
  BY DEF MarksDone
<1>2. Sorted(x) /\ Sorted(y) /\ Len(x) = marks(1) /\ Len(y) = marks(2)
  BY <1>1, MarkArrays
<1> HIDE DEF x, y, marked
<1>3. /\ \A j \in 0 .. Len(x) - 1 : \E c \in 0 .. Len(x) + Len(y) - 1 : marked[c] = << 1, j >>
      /\ \A j \in 0 .. Len(y) - 1 : \E c \in 0 .. Len(x) + Len(y) - 1 : marked[c] = << 2, j >>
  <2>1. Sorted(x) /\ Sorted(y) /\ Complete(x, y, marked)
    BY <1>1, <1>2
  <2> QED BY <2>1, Occurs, ZenonT(40)
<1>4. /\ \A j \in 0 .. marks(1) - 1 : \E c \in DOMAIN marked : marked[c] = << 1, j >>
      /\ \A j \in 0 .. marks(2) - 1 : \E c \in DOMAIN marked : marked[c] = << 2, j >>
  BY <1>1, <1>2, <1>3, Zenon
<1>5. ASSUME NEW i \in {1, 2} PROVE i = 1 \/ i = 2
  OBVIOUS
<1>6. \A i \in {1, 2} : \A k \in 0 .. marks(i) - 1 : \E c \in DOMAIN marked : marked[c] = << i, k >>
  BY <1>4, <1>5, Zenon
<1> QED BY <1>6 DEF marked

\* Places in order.
LEMMA PlacesSorted ==
  ASSUME Measured, NEW i \in {1, 2}, NEW o \in {1, 2}, i # o,
         NEW p, p = [ k \in 1 .. marks(i) |-> p[k] ],
         \A k \in 0 .. marks(i) - 1 :
           /\ i = 1 => Behind(input[2], At(p, k), At(input[1], MarkPosition(k)))
           /\ i = 2 => Ahead(input[1], At(p, k), At(input[2], MarkPosition(k)))
  PROVE  Sorted(p) /\ Len(p) = marks(i)
<1> DEFINE m == marks(i)
           x == input[1]
           y == input[2]
<1>1. Sorted(x) /\ Sorted(y) /\ Len(x) \in Nat /\ Len(y) \in Nat
  BY InputFacts
<1>2. /\ m \in Nat
      /\ \A k \in Nat : MarkPosition(k) \in Nat
      /\ \A k, l \in Nat : k < l => MarkPosition(k) + 1 <= MarkPosition(l)
  BY MarksFacts
<1>3. \A k \in 0 .. m - 1 : MarkPosition(k) \in 0 .. Len(input[i]) - 1
  BY MarkArrays
<1> HIDE DEF m
<1>4. ASSUME NEW k \in 0 .. m - 1
      PROVE  /\ At(p, k) \in Int
             /\ i = 1 => Cut(x, y, MarkPosition(k), At(p, k)) /\ Cut(x, y, MarkPosition(k) + 1, At(p, k))
             /\ i = 2 => Cut(x, y, At(p, k), MarkPosition(k)) /\ Cut(x, y, At(p, k), MarkPosition(k) + 1)
  <2>1. CASE i = 1
    <3>1. Behind(y, At(p, k), At(x, MarkPosition(k))) /\ MarkPosition(k) \in 0 .. Len(x) - 1
      BY <2>1, <1>3 DEF m
    <3>2. At(p, k) \in Int
      BY <3>1, <1>1 DEF Behind
    <3> QED BY <2>1, <3>1, <3>2, <1>1, PlaceIsCut
  <2>2. CASE i = 2
    <3>1. Ahead(x, At(p, k), At(y, MarkPosition(k))) /\ MarkPosition(k) \in 0 .. Len(y) - 1
      BY <2>2, <1>3 DEF m
    <3>2. At(p, k) \in Int
      BY <3>1, <1>1 DEF Ahead
    <3> QED BY <2>2, <3>1, <3>2, <1>1, PlaceIsCut
  <2> QED BY <2>1, <2>2
<1>5. ASSUME NEW k \in 0 .. m - 1, NEW l \in 0 .. m - 1, k < l PROVE At(p, k) <= At(p, l)
  <2> DEFINE a == MarkPosition(k)
             b == MarkPosition(l)
             u == At(p, k)
             v == At(p, l)
  <2>1. a \in Nat /\ b \in Nat /\ a < b
    <3>1. k \in Nat /\ l \in Nat
      BY <1>2
    <3>2. a \in Nat /\ b \in Nat /\ a + 1 <= b
      BY <1>2, <1>5, <3>1
    <3> HIDE DEF a, b
    <3> QED BY <3>2
  <2>2. /\ i = 1 => Cut(x, y, a, u) /\ Cut(x, y, b, v)
        /\ i = 2 => Cut(x, y, u, a) /\ Cut(x, y, v, b)
    BY <1>4
  <2> HIDE DEF a, b, u, v, x, y
  <2>3. u <= v
    BY <1>1, <2>1, <2>2, CutsOrdered
  <2> QED BY <2>3 DEF u, v
<1>6. ASSUME NEW k \in 1 .. m PROVE k - 1 \in 0 .. m - 1 /\ At(p, k - 1) = p[k] /\ p[k] \in Int
  <2>1. k - 1 \in 0 .. m - 1 /\ (k - 1) + 1 = k
    BY <1>2
  <2>2. At(p, k - 1) = p[k]
    BY <2>1 DEF At
  <2> QED BY <1>4, <2>1, <2>2
<1>7. p \in Seq(Int) /\ Len(p) = m
  <2>1. p = [ k \in 1 .. m |-> p[k] ]
    BY DEF m
  <2>2. DOMAIN p = 1 .. m
    <3> DEFINE f == [ k \in 1 .. m |-> p[k] ]
    <3>1. DOMAIN f = 1 .. m
      OBVIOUS
    <3>2. p = f
      BY <2>1
    <3> HIDE DEF f
    <3> QED BY <3>1, <3>2, Zenon
  <2>3. \A k \in 1 .. m : p[k] \in Int
    BY <1>6
  <2> QED BY <1>2, <2>1, <2>2, <2>3, ArrayOfInts, Zenon
<1>8. ASSUME NEW k \in 1 .. m, NEW l \in 1 .. m, k <= l PROVE p[k] <= p[l]
  <2>1. k = l \/ k - 1 < l - 1
    BY <1>2, <1>8
  <2>2. k - 1 < l - 1 => At(p, k - 1) <= At(p, l - 1)
    BY <1>5, <1>6
  <2> QED BY <1>6, <2>1, <2>2
<1> QED BY <1>7, <1>8 DEF Sorted, m

\* What the searches of the marks find.
LEMMA MarksPlaced ==
  ASSUME MarksDone
  PROVE  PlacesAre(<< PlacesOfMarks(2), PlacesOfMarks(1) >>)
<1>0. Measured
  BY DEF MarksDone
<1>1. ASSUME NEW i \in {1, 2}, NEW k \in 0 .. marks(i) - 1
      PROVE  /\ i = 1 => Behind(input[2], At(PlacesOfMarks(i), k), At(input[1], MarkPosition(k)))
             /\ i = 2 => Ahead(input[1], At(PlacesOfMarks(i), k), At(input[2], MarkPosition(k)))
  <2> DEFINE marked == output["mark"]
             Is(c) == marked[c] = << i, k >>
             d == CHOOSE c \in DOMAIN marked : Is(c)
             w == << i, k >>
  <2>0. marks(1) \in Nat /\ marks(2) \in Nat /\ marks(i) \in Nat
    BY <1>0, MarksFacts
  <2>1. \E c \in DOMAIN marked : Is(c)
    BY MarksOccur, Zenon
  <2>2. d \in DOMAIN marked /\ marked[d] = w
    <3> HIDE DEF marked
    <3> QED BY <2>1, Zenon
  <2>3. At(PlacesOfMarks(i), k) = pos_in_other(d)
    <3>1. k + 1 \in 1 .. marks(i) /\ (k + 1) - 1 = k
      BY <2>0
    <3>2. PlacesOfMarks(i)[k + 1] = pos_in_other(CHOOSE c \in DOMAIN marked : marked[c] = << i, (k + 1) - 1 >>)
      BY <3>1 DEF PlacesOfMarks
    <3>3. PlacesOfMarks(i)[k + 1] = pos_in_other(d)
      BY <3>1, <3>2, Zenon
    <3> QED BY <3>3, Zenon DEF At
  <2>4. w[1] = i /\ w[2] = k
    OBVIOUS
  <2> HIDE DEF d, w
  <2>5. /\ marked[d][1] = 1 => Behind(input[2], pos_in_other(d), At(input[1], MarkPosition(marked[d][2])))
        /\ marked[d][1] = 2 => Ahead(input[1], pos_in_other(d), At(input[2], MarkPosition(marked[d][2])))
    BY <2>2, PosInOther
  <2>6. marked[d][1] = i /\ marked[d][2] = k
    BY <2>2, <2>4
  <2> QED BY <2>3, <2>5, <2>6
<1>2. ASSUME NEW i \in {1, 2}
      PROVE  PlacesOfMarks(i) = [ k \in 1 .. marks(i) |-> PlacesOfMarks(i)[k] ]
  BY DEF PlacesOfMarks
<1>3. ASSUME NEW i \in {1, 2} PROVE Sorted(PlacesOfMarks(i)) /\ Len(PlacesOfMarks(i)) = marks(i)
  <2> DEFINE p == PlacesOfMarks(i)
  <2>1. PICK o \in {1, 2} : i # o
    OBVIOUS
  <2>2. p = [ k \in 1 .. marks(i) |-> p[k] ]
    BY <1>2
  <2>3. \A k \in 0 .. marks(i) - 1 :
           /\ i = 1 => Behind(input[2], At(p, k), At(input[1], MarkPosition(k)))
           /\ i = 2 => Ahead(input[1], At(p, k), At(input[2], MarkPosition(k)))
    BY <1>1
  <2> HIDE DEF p
  <2>4. Sorted(p) /\ Len(p) = marks(i)
    BY <1>0, <2>1, <2>2, <2>3, PlacesSorted
  <2> QED BY <2>4 DEF p
<1> DEFINE q == << PlacesOfMarks(2), PlacesOfMarks(1) >>
<1>4. q[1] = PlacesOfMarks(2) /\ q[2] = PlacesOfMarks(1)
  OBVIOUS
<1> HIDE DEF q
<1>5. PlacesAre(q)
  BY <1>1, <1>3, <1>4 DEF PlacesAre
<1> QED BY <1>5 DEF q

\* The cells of the marks.
MarkCell(p, c) ==
  \/ \E k \in 0 .. marks(1) - 1 : c = MarkPosition(k) + At(p[2], k)
  \/ \E k \in 0 .. marks(2) - 1 : c = MarkPosition(k) + At(p[1], k)

\* They are written and no others.
MarksIn(p, cells) ==
  /\ cells = [ c \in 0 .. length - 1 |-> cells[c] ]
  /\ \A c \in 0 .. length - 1 :
       IF MarkCell(p, c) THEN cells[c] \in {1, 2} \X Nat /\ Stands(input[1], input[2], c, cells[c])
                         ELSE cells[c] = None

LEMMA MarksWritten ==
  ASSUME MarksDone, NEW cells, cells = [ c \in 0 .. length - 1 |-> None ]
  PROVE  LET position(c) == MarkPosition(output["mark"][c][2])
             writes == { << position(c) + pos_in_other(c), output["mark"][c][1], position(c) >> :
                           c \in DOMAIN output["mark"] }
         IN  MarksIn(<< PlacesOfMarks(2), PlacesOfMarks(1) >>, Written(cells, writes))
<1> DEFINE marked == output["mark"]
           position(c) == MarkPosition(marked[c][2])
           w(c) == << position(c) + pos_in_other(c), marked[c][1], position(c) >>
           writes == { w(c) : c \in DOMAIN marked }
           p == << PlacesOfMarks(2), PlacesOfMarks(1) >>
           after == Written(cells, writes)
           D == 0 .. length - 1
<1>0. Measured
  BY DEF MarksDone
<1>1. Sorted(input[1]) /\ Sorted(input[2]) /\ Len(input[1]) \in Nat /\ Len(input[2]) \in Nat
  BY <1>0, InputFacts
<1>2. PlacesAre(p)
  BY MarksPlaced
<1>3. p[1] = PlacesOfMarks(2) /\ p[2] = PlacesOfMarks(1)
  OBVIOUS
<1> HIDE DEF p
<1>4. ASSUME NEW c \in DOMAIN marked
      PROVE  /\ marked[c][1] \in {1, 2} /\ marked[c][2] \in 0 .. marks(marked[c][1]) - 1
             /\ position(c) \in 0 .. Len(input[marked[c][1]]) - 1
             /\ marked[c][1] = 1 => /\ Behind(input[2], pos_in_other(c), At(input[1], position(c)))
                                    /\ pos_in_other(c) = At(p[2], marked[c][2])
             /\ marked[c][1] = 2 => /\ Ahead(input[1], pos_in_other(c), At(input[2], position(c)))
                                    /\ pos_in_other(c) = At(p[1], marked[c][2])
  <2> DEFINE k == marked[c][2]
             q == pos_in_other(c)
  <2>1. /\ marked[c][1] \in {1, 2} /\ k \in 0 .. marks(marked[c][1]) - 1
        /\ position(c) \in 0 .. Len(input[marked[c][1]]) - 1
    BY MarkedFacts
  <2>2. /\ marked[c][1] = 1 => Behind(input[2], q, At(input[1], MarkPosition(k)))
        /\ marked[c][1] = 2 => Ahead(input[1], q, At(input[2], MarkPosition(k)))
    BY PosInOther
  <2>3. position(c) = MarkPosition(k)
    OBVIOUS
  <2> HIDE DEF k, q, position, marked
  <2>4. ASSUME marked[c][1] = 1 PROVE q = At(p[2], k)
    <3>1. Behind(input[2], At(p[2], k), At(input[1], MarkPosition(k)))
      BY <1>2, <2>1, <2>4 DEF PlacesAre
    <3>2. At(input[1], MarkPosition(k)) \in Int
      BY <1>1, <2>1, <2>3, <2>4, SortedFacts
    <3> QED BY <1>1, <2>2, <2>4, <3>1, <3>2, PlacesOnce
  <2>5. ASSUME marked[c][1] = 2 PROVE q = At(p[1], k)
    <3>1. Ahead(input[1], At(p[1], k), At(input[2], MarkPosition(k)))
      BY <1>2, <2>1, <2>5 DEF PlacesAre
    <3>2. At(input[2], MarkPosition(k)) \in Int
      BY <1>1, <2>1, <2>3, <2>5, SortedFacts
    <3> QED BY <1>1, <2>2, <2>5, <3>1, <3>2, PlacesOnce
  <2> QED BY <2>1, <2>2, <2>3, <2>4, <2>5 DEF k, q
<1>5. ASSUME NEW c \in DOMAIN marked
      PROVE  /\ MarkCell(p, w(c)[1])
             /\ << w(c)[2], w(c)[3] >> \in {1, 2} \X Nat
             /\ Stands(input[1], input[2], w(c)[1], << w(c)[2], w(c)[3] >>)
  <2> DEFINE e == marked[c]
             i == e[1]
             k == e[2]
             q == pos_in_other(c)
             r == position(c)
             s == r + q
             u == << i, r >>
  <2>1. w(c)[1] = s /\ w(c)[2] = i /\ w(c)[3] = r /\ r = MarkPosition(k) /\ u[1] = i /\ u[2] = r
    OBVIOUS
  <2>2. /\ i \in {1, 2} /\ k \in 0 .. marks(i) - 1 /\ r \in 0 .. Len(input[i]) - 1
        /\ i = 1 => Behind(input[2], q, At(input[1], r)) /\ q = At(p[2], k)
        /\ i = 2 => Ahead(input[1], q, At(input[2], r)) /\ q = At(p[1], k)
    BY <1>4
  <2>3. << w(c)[2], w(c)[3] >> = u
    BY <2>1
  <2>4. s = r + q
    OBVIOUS
  <2> HIDE DEF w, e, i, k, q, r, s, u, marked
  <2>5. MarkCell(p, s)
    BY <2>1, <2>2, <2>4 DEF MarkCell
  <2>6. r \in Nat /\ u \in {1, 2} \X Nat
    <3>1. r \in Nat
      BY <1>1, <2>2
    <3> QED BY <2>2, <3>1 DEF u
  <2>7. Stands(input[1], input[2], s, u)
    <3>1. CASE i = 1
      <4>1. Cut(input[1], input[2], r, q) /\ Cut(input[1], input[2], r + 1, q)
        BY <1>1, <2>2, <3>1, PlaceIsCut
      <4>2. q \in Int
        BY <1>1, <2>2, <3>1 DEF Behind
      <4>3. s - r = q
        BY <2>4, <2>6, <4>2
      <4> QED BY <2>1, <3>1, <4>1, <4>3 DEF Stands
    <3>2. CASE i = 2
      <4>1. Cut(input[1], input[2], q, r) /\ Cut(input[1], input[2], q, r + 1)
        BY <1>1, <2>2, <3>2, PlaceIsCut
      <4>2. q \in Int
        BY <1>1, <2>2, <3>2 DEF Ahead
      <4>3. s - r = q
        BY <2>4, <2>6, <4>2
      <4> QED BY <2>1, <3>2, <4>1, <4>3 DEF Stands
    <3> QED BY <2>2, <3>1, <3>2
  <2> QED BY <2>1, <2>3, <2>5, <2>6, <2>7
<1>6. ASSUME NEW c, MarkCell(p, c) PROVE \E v \in writes : v[1] = c
  <2>1. \A j \in {1, 2} : \A l \in 0 .. marks(j) - 1 : \E d \in DOMAIN marked : marked[d] = << j, l >>
    BY MarksOccur
  <2>2. ASSUME NEW i \in {1, 2}, NEW k \in 0 .. marks(i) - 1, c = MarkPosition(k) + At(p[3 - i], k)
        PROVE  \E v \in writes : v[1] = c
    <3>1. \E d \in DOMAIN marked : marked[d] = << i, k >>
      BY <2>1, Zenon
    <3>2. PICK d \in DOMAIN marked : marked[d] = << i, k >>
      BY <3>1
    <3>3. marked[d][1] = i /\ marked[d][2] = k
      BY <3>2
    <3>4. pos_in_other(d) = At(p[3 - i], k)
      BY <1>4, <3>3
    <3>5. w(d)[1] = position(d) + pos_in_other(d) /\ position(d) = MarkPosition(k)
      BY <3>3
    <3>6. w(d) \in writes
      OBVIOUS
    <3> HIDE DEF w, writes, position
    <3>7. w(d)[1] = c
      BY <2>2, <3>4, <3>5
    <3> QED BY <3>6, <3>7
  <2>3. 3 - 1 = 2 /\ 3 - 2 = 1
    OBVIOUS
  <2> HIDE DEF writes
  <2> QED BY <1>6, <2>2, <2>3 DEF MarkCell
<1>7. DOMAIN cells = D /\ \A c \in D : cells[c] = None
  OBVIOUS
<1>8. after = [ c \in D |-> IF \E v \in writes : v[1] = c
                              THEN LET v == CHOOSE v \in writes : v[1] = c IN << v[2], v[3] >>
                              ELSE cells[c] ]
  BY <1>7 DEF Written
<1> HIDE DEF after, writes
<1>9. after = [ c \in D |-> after[c] ]
  BY <1>8
<1>10. ASSUME NEW c \in D
       PROVE  IF MarkCell(p, c) THEN after[c] \in {1, 2} \X Nat /\ Stands(input[1], input[2], c, after[c])
                                ELSE after[c] = None
  <2>1. ASSUME NEW v \in writes
        PROVE  /\ MarkCell(p, v[1]) /\ << v[2], v[3] >> \in {1, 2} \X Nat
               /\ Stands(input[1], input[2], v[1], << v[2], v[3] >>)
    <3>1. PICK d \in DOMAIN marked : v = w(d)
      BY DEF writes
    <3> HIDE DEF w
    <3> QED BY <1>5, <3>1
  <2>2. CASE MarkCell(p, c)
    <3> DEFINE v == CHOOSE v \in writes : v[1] = c
    <3>1. \E u \in writes : u[1] = c
      BY <1>6, <2>2
    <3>2. v \in writes /\ v[1] = c
      BY <3>1
    <3>3. after[c] = << v[2], v[3] >>
      BY <1>8, <3>1
    <3> HIDE DEF v
    <3>4. << v[2], v[3] >> \in {1, 2} \X Nat /\ Stands(input[1], input[2], c, << v[2], v[3] >>)
      BY <2>1, <3>2
    <3> QED BY <2>2, <3>3, <3>4
  <2>3. CASE ~ MarkCell(p, c)
    <3>1. ~ \E v \in writes : v[1] = c
      BY <2>1, <2>3
    <3>2. after[c] = None
      BY <1>7, <1>8, <3>1
    <3> QED BY <2>3, <3>2
  <2> QED BY <2>2, <2>3
<1>11. MarksIn(p, after)
  BY <1>9, <1>10 DEF MarksIn
<1> QED BY <1>11 DEF p, after, writes

-----------------------------------------------------------------------------
(* Borders *)

\* The nested merges of places find the entries in the same order.
LEMMA PlacesAgree ==
  ASSUME Measured, NEW p, PlacesAre(p),
         NEW i \in 0 .. marks(1) - 1, NEW j \in 0 .. marks(2) - 1
  PROVE  At(MarkPositions(1), i) < At(p[1], j) <=> At(p[2], i) <= At(MarkPositions(2), j)
<1> DEFINE x == input[1]
           y == input[2]
           u == MarkPosition(i)
           v == MarkPosition(j)
           q == At(p[1], j)
           r == At(p[2], i)
<1>1. Sorted(x) /\ Sorted(y) /\ Len(x) \in Nat /\ Len(y) \in Nat
  BY InputFacts
<1>2. At(MarkPositions(1), i) = u /\ u \in 0 .. Len(x) - 1
  BY MarkArrays
<1>3. At(MarkPositions(2), j) = v /\ v \in 0 .. Len(y) - 1
  BY MarkArrays
<1>4. Ahead(x, q, At(y, v))
  BY DEF PlacesAre
<1>5. Behind(y, r, At(x, u))
  BY DEF PlacesAre
<1> HIDE DEF x, y, u, v, q, r
<1>6. At(x, u) \in Int /\ At(y, v) \in Int /\ q \in 0 .. Len(x) /\ r \in 0 .. Len(y)
  BY <1>1, <1>2, <1>3, <1>4, <1>5, SortedFacts DEF Ahead, Behind
<1>7. u < q => At(x, u) < At(y, v)
  <2> SUFFICES ASSUME u < q PROVE At(x, u) < At(y, v)
    OBVIOUS
  <2>1. q - 1 \in 0 .. Len(x) - 1 /\ u <= q - 1 /\ q > 0
    BY <1>1, <1>2, <1>6
  <2>2. At(x, u) <= At(x, q - 1) /\ At(x, q - 1) \in Int
    BY <1>1, <1>2, <2>1, SortedFacts
  <2>3. At(x, q - 1) < At(y, v)
    BY <1>4, <2>1 DEF Ahead
  <2> QED BY <1>6, <2>2, <2>3
<1>8. ~ (u < q) => At(y, v) <= At(x, u)
  <2> SUFFICES ASSUME ~ (u < q) PROVE At(y, v) <= At(x, u)
    OBVIOUS
  <2>1. q \in 0 .. Len(x) - 1 /\ q <= u /\ q < Len(x)
    BY <1>1, <1>2, <1>6
  <2>2. At(x, q) <= At(x, u) /\ At(x, q) \in Int
    BY <1>1, <1>2, <2>1, SortedFacts
  <2>3. At(y, v) <= At(x, q)
    BY <1>4, <2>1 DEF Ahead
  <2> QED BY <1>6, <2>2, <2>3
<1>9. r <= v => At(x, u) < At(y, v)
  <2> SUFFICES ASSUME r <= v PROVE At(x, u) < At(y, v)
    OBVIOUS
  <2>1. r \in 0 .. Len(y) - 1 /\ r < Len(y)
    BY <1>1, <1>3, <1>6
  <2>2. At(y, r) <= At(y, v) /\ At(y, r) \in Int
    BY <1>1, <1>3, <2>1, SortedFacts
  <2>3. At(x, u) < At(y, r)
    BY <1>5, <2>1 DEF Behind
  <2> QED BY <1>6, <2>2, <2>3
<1>10. ~ (r <= v) => At(y, v) <= At(x, u)
  <2> SUFFICES ASSUME ~ (r <= v) PROVE At(y, v) <= At(x, u)
    OBVIOUS
  <2>1. r - 1 \in 0 .. Len(y) - 1 /\ v <= r - 1 /\ r > 0
    BY <1>1, <1>3, <1>6
  <2>2. At(y, v) <= At(y, r - 1) /\ At(y, r - 1) \in Int
    BY <1>1, <1>3, <2>1, SortedFacts
  <2>3. At(y, r - 1) <= At(x, u)
    BY <1>5, <2>1 DEF Behind
  <2> QED BY <1>6, <2>2, <2>3
<1>11. ~ (At(x, u) < At(y, v) /\ At(y, v) <= At(x, u))
  BY <1>6
<1>12. u < q <=> r <= v
  BY <1>7, <1>8, <1>9, <1>10, <1>11
<1> QED BY <1>2, <1>3, <1>12 DEF u, v, q, r

\* The arrays of the nested merges of places.
LEMMA BorderArrays ==
  ASSUME Measured, NEW p, PlacesAre(p)
  PROVE  /\ marks(1) \in Nat /\ marks(2) \in Nat
         /\ Sorted(MarkPositions(1)) /\ Len(MarkPositions(1)) = marks(1)
         /\ Sorted(MarkPositions(2)) /\ Len(MarkPositions(2)) = marks(2)
         /\ Sorted(p[1]) /\ Len(p[1]) = marks(2)
         /\ Sorted(p[2]) /\ Len(p[2]) = marks(1)
<1>1. marks(1) \in Nat /\ marks(2) \in Nat
  BY MarksFacts
<1>2. /\ Sorted(MarkPositions(1)) /\ Len(MarkPositions(1)) = marks(1)
      /\ Sorted(MarkPositions(2)) /\ Len(MarkPositions(2)) = marks(2)
  BY MarkArrays
<1> QED BY <1>1, <1>2 DEF PlacesAre

LEMMA BorderCuts ==
  ASSUME Measured, NEW p, PlacesAre(p), NEW i, NEW j
  PROVE  Cut(MarkPositions(1), p[1], i, j) <=> Cut(MarkPositions(2), p[2], j, i)
<1> DEFINE a == MarkPositions(1)
           b == p[1]
           c == MarkPositions(2)
           d == p[2]
           m == marks(1)
           n == marks(2)
<1>1. /\ m \in Nat /\ n \in Nat /\ Len(a) = m /\ Len(b) = n /\ Len(c) = n /\ Len(d) = m
      /\ Sorted(a) /\ Sorted(b) /\ Sorted(c) /\ Sorted(d)
  BY BorderArrays
<1>2. \A k \in 0 .. m - 1 : \A l \in 0 .. n - 1 : At(a, k) < At(b, l) <=> At(d, k) <= At(c, l)
  BY PlacesAgree
<1> HIDE DEF a, b, c, d, m, n
<1>3. /\ \A k \in 0 .. m - 1 : At(a, k) \in Int /\ At(d, k) \in Int
      /\ \A k \in 0 .. n - 1 : At(b, k) \in Int /\ At(c, k) \in Int
  BY <1>1, SortedFacts
<1>4. \A k \in 0 .. m - 1 : \A l \in 0 .. n - 1 : At(b, l) <= At(a, k) <=> At(c, l) < At(d, k)
  BY <1>2, <1>3
<1>5. ASSUME i \in 0 .. m, j \in 0 .. n PROVE Cut(a, b, i, j) <=> Cut(c, d, j, i)
  <2>1. i > 0 => i - 1 \in 0 .. m - 1
    BY <1>1, <1>5
  <2>2. j > 0 => j - 1 \in 0 .. n - 1
    BY <1>1, <1>5
  <2>3. i < m => i \in 0 .. m - 1
    BY <1>1, <1>5
  <2>4. j < n => j \in 0 .. n - 1
    BY <1>1, <1>5
  <2>5. (i > 0 /\ j < n => At(a, i - 1) < At(b, j)) <=> (i > 0 /\ j < n => At(d, i - 1) <= At(c, j))
    BY <1>2, <2>1, <2>4
  <2>6. (j > 0 /\ i < m => At(b, j - 1) <= At(a, i)) <=> (j > 0 /\ i < m => At(c, j - 1) < At(d, i))
    BY <1>4, <2>2, <2>3
  <2>7. Cut(a, b, i, j) <=> /\ i > 0 /\ j < n => At(a, i - 1) < At(b, j)
                            /\ j > 0 /\ i < m => At(b, j - 1) <= At(a, i)
    BY <1>1, <1>5, Zenon DEF Cut
  <2>8. Cut(c, d, j, i) <=> /\ j > 0 /\ i < m => At(c, j - 1) < At(d, i)
                            /\ i > 0 /\ j < n => At(d, i - 1) <= At(c, j)
    BY <1>1, <1>5, Zenon DEF Cut
  <2> QED BY <2>5, <2>6, <2>7, <2>8, Zenon
<1>6. Cut(a, b, i, j) => i \in 0 .. m /\ j \in 0 .. n
  BY <1>1 DEF Cut
<1>7. Cut(c, d, j, i) => i \in 0 .. m /\ j \in 0 .. n
  BY <1>1 DEF Cut
<1> QED BY <1>5, <1>6, <1>7 DEF a, b, c, d

\* A cell holds a mark in one merge of places and its place in the other.
LEMMA BorderStands ==
  ASSUME Measured, NEW p, PlacesAre(p), NEW c \in Int, NEW w, NEW u,
         w[2] = u[2], (w[1] = 1 /\ u[1] = 2) \/ (w[1] = 2 /\ u[1] = 1),
         Stands(MarkPositions(1), p[1], c, w)
  PROVE  Stands(MarkPositions(2), p[2], c, u)
<1> DEFINE k == w[2]
<1>1. CASE w[1] = 1
  <2>1. Cut(MarkPositions(1), p[1], k, c - k) /\ Cut(MarkPositions(1), p[1], k + 1, c - k)
    BY <1>1 DEF Stands
  <2>2. Cut(MarkPositions(2), p[2], c - k, k) /\ Cut(MarkPositions(2), p[2], c - k, k + 1)
    BY <2>1, BorderCuts
  <2> QED BY <1>1, <2>2 DEF Stands
<1>2. CASE w[1] = 2
  <2>1. Cut(MarkPositions(1), p[1], c - k, k) /\ Cut(MarkPositions(1), p[1], c - k, k + 1)
    BY <1>2 DEF Stands
  <2>2. Cut(MarkPositions(2), p[2], k, c - k) /\ Cut(MarkPositions(2), p[2], k + 1, c - k)
    BY <2>1, BorderCuts
  <2> QED BY <1>2, <2>2 DEF Stands
<1> QED BY <1>1, <1>2

\* Both merges of places are done.
BordersDone ==
  /\ Measured
  /\ PlacesAre(pos)
  /\ Complete(MarkPositions(1), pos[1], output["borders_1"])
  /\ Complete(MarkPositions(2), pos[2], output["borders_2"])

\* What a border is: a mark of one array and its place in the other, between
\* two cuts, of which the later one has the mark behind it.
LEMMA BorderPair ==
  ASSUME BordersDone, NEW c \in 0 .. marks(1) + marks(2) - 1
  PROVE  LET e == Border(1, c)
             f == Border(2, c)
         IN  /\ e[2] \in {0, 1} /\ f[2] = 1 - e[2]
             /\ Cut(input[1], input[2], e[1], f[1])
             /\ Cut(input[1], input[2], e[1] + e[2], f[1] + f[2])
             /\ \/ output["borders_1"][c][1] = 1 /\ e[1] + f[1] = MarkPosition(output["borders_1"][c][2])
                                                                + At(pos[2], output["borders_1"][c][2])
                                                 /\ output["borders_1"][c][2] \in 0 .. marks(1) - 1
                \/ output["borders_1"][c][1] = 2 /\ e[1] + f[1] = MarkPosition(output["borders_1"][c][2])
                                                                + At(pos[1], output["borders_1"][c][2])
                                                 /\ output["borders_1"][c][2] \in 0 .. marks(2) - 1
<1> DEFINE x == input[1]
           y == input[2]
           e == Border(1, c)
           f == Border(2, c)
           w == output["borders_1"][c]
           v == output["borders_2"][c]
           k == w[2]
           u == << 3 - w[1], k >>
<1>0. Measured /\ PlacesAre(pos)
  BY DEF BordersDone
<1>1. Sorted(x) /\ Sorted(y) /\ Len(x) \in Nat /\ Len(y) \in Nat
  BY <1>0, InputFacts
<1>2. /\ marks(1) \in Nat /\ marks(2) \in Nat
      /\ Sorted(MarkPositions(1)) /\ Len(MarkPositions(1)) = marks(1)
      /\ Sorted(MarkPositions(2)) /\ Len(MarkPositions(2)) = marks(2)
      /\ Sorted(pos[1]) /\ Len(pos[1]) = marks(2)
      /\ Sorted(pos[2]) /\ Len(pos[2]) = marks(1)
  BY <1>0, BorderArrays
<1>3. c \in Int /\ c \in 0 .. marks(2) + marks(1) - 1
  BY <1>2
<1>4. w \in {1, 2} \X Nat /\ Stands(MarkPositions(1), pos[1], c, w)
  BY <1>2 DEF BordersDone, Complete
<1>5. v \in {1, 2} \X Nat /\ Stands(MarkPositions(2), pos[2], c, v)
  BY <1>2, <1>3 DEF BordersDone, Complete
<1>6. w[1] = 1 \/ w[1] = 2
  BY <1>4
<1>7. u[1] = 3 - w[1] /\ u[2] = w[2]
  OBVIOUS
<1> HIDE DEF w, v, u
<1>8. Stands(MarkPositions(2), pos[2], c, u)
  <2>1. u[2] = w[2] /\ ((w[1] = 1 /\ u[1] = 2) \/ (w[1] = 2 /\ u[1] = 1))
    <3>1. w[1] = 1 => u[1] = 2
      BY <1>7
    <3>2. w[1] = 2 => u[1] = 1
      BY <1>7
    <3> QED BY <1>6, <1>7, <3>1, <3>2, Zenon
  <2> QED BY <1>0, <1>3, <1>4, <2>1, BorderStands
<1>9. v[1] = 3 - w[1] /\ v[2] = k
  BY <1>2, <1>3, <1>5, <1>7, <1>8, StandsOnce
<1>10. /\ w[1] = 1 => k \in 0 .. marks(1) - 1
       /\ w[1] = 2 => k \in 0 .. marks(2) - 1
  BY <1>2, <1>3, <1>4, StandsFacts
<1>11. CASE w[1] = 1
  <2> DEFINE r == MarkPosition(k)
             q == At(pos[2], k)
  <2>1. e = << r, 1 >>
    BY <1>11 DEF Border, w
  <2>2. v[1] = 2 /\ v[2] = k
    BY <1>9, <1>11
  <2>3. f = << q, 0 >>
    BY <2>2 DEF Border, v
  <2>4. r \in 0 .. Len(x) - 1
    BY <1>0, <1>10, <1>11, MarkArrays
  <2>5. Behind(y, q, At(x, r))
    BY <1>0, <1>10, <1>11 DEF PlacesAre
  <2> DEFINE e1 == e[1]
             e2 == e[2]
             f1 == f[1]
             f2 == f[2]
  <2>6. e1 = r /\ e2 = 1 /\ f1 = q /\ f2 = 0
    BY <2>1, <2>3
  <2>7. output["borders_1"][c][1] = 1 /\ output["borders_1"][c][2] = k
    BY <1>11 DEF w
  <2>8. e1 + f1 = MarkPosition(k) + At(pos[2], k) /\ k \in 0 .. marks(1) - 1
    BY <1>10, <1>11, <2>6
  <2> HIDE DEF r, q, x, y, e1, e2, f1, f2, k
  <2>9. q \in Int /\ r \in Int
    BY <1>1, <2>4, <2>5 DEF Behind
  <2>10. Cut(x, y, r, q) /\ Cut(x, y, r + 1, q)
    BY <1>1, <2>4, <2>5, PlaceIsCut
  <2>11. q + 0 = q
    BY <2>9
  <2>12. e2 \in {0, 1} /\ f2 = 1 - e2
    BY <2>6
  <2>13. Cut(x, y, e1, f1) /\ Cut(x, y, e1 + e2, f1 + f2)
    BY <2>6, <2>10, <2>11
  <2> QED BY <2>7, <2>8, <2>12, <2>13 DEF x, y, e1, e2, f1, f2
<1>12. CASE w[1] = 2
  <2> DEFINE r == MarkPosition(k)
             q == At(pos[1], k)
  <2>1. e = << q, 0 >>
    BY <1>12 DEF Border, w
  <2>2. v[1] = 1 /\ v[2] = k
    BY <1>9, <1>12
  <2>3. f = << r, 1 >>
    BY <2>2 DEF Border, v
  <2>4. r \in 0 .. Len(y) - 1
    BY <1>0, <1>10, <1>12, MarkArrays
  <2>5. Ahead(x, q, At(y, r))
    BY <1>0, <1>10, <1>12 DEF PlacesAre
  <2> DEFINE e1 == e[1]
             e2 == e[2]
             f1 == f[1]
             f2 == f[2]
  <2>6. e1 = q /\ e2 = 0 /\ f1 = r /\ f2 = 1
    BY <2>1, <2>3
  <2>7. output["borders_1"][c][1] = 2 /\ output["borders_1"][c][2] = k
    BY <1>12 DEF w
  <2>8. q \in Int /\ r \in Int
    BY <1>1, <2>4, <2>5 DEF Ahead
  <2>9. r + q = q + r
    BY <2>8
  <2>10. e1 + f1 = MarkPosition(k) + At(pos[1], k) /\ k \in 0 .. marks(2) - 1
    BY <1>10, <1>12, <2>6, <2>9
  <2> HIDE DEF r, q, x, y, e1, e2, f1, f2, k
  <2>11. Cut(x, y, q, r) /\ Cut(x, y, q, r + 1)
    BY <1>1, <2>4, <2>5, PlaceIsCut
  <2>12. q + 0 = q
    BY <2>8
  <2>13. e2 \in {0, 1} /\ f2 = 1 - e2
    BY <2>6
  <2>14. Cut(x, y, e1, f1) /\ Cut(x, y, e1 + e2, f1 + f2)
    BY <2>6, <2>11, <2>12
  <2> QED BY <2>7, <2>10, <2>13, <2>14 DEF x, y, e1, e2, f1, f2
<1> QED BY <1>6, <1>11, <1>12

\* Every mark is a border, with its place.
LEMMA MarkIsBorder ==
  ASSUME BordersDone, NEW c, MarkCell(pos, c)
  PROVE  \E d \in 0 .. marks(1) + marks(2) - 1 : c = Border(1, d)[1] + Border(2, d)[1]
<1>0. Measured /\ PlacesAre(pos)
  BY DEF BordersDone
<1>2. /\ marks(1) \in Nat /\ marks(2) \in Nat
      /\ Sorted(MarkPositions(1)) /\ Len(MarkPositions(1)) = marks(1)
      /\ Sorted(pos[1]) /\ Len(pos[1]) = marks(2)
  BY <1>0, BorderArrays
<1> DEFINE x == MarkPositions(1)
           y == pos[1]
           cells == output["borders_1"]
<1>3. Sorted(x) /\ Sorted(y) /\ Complete(x, y, cells)
  BY <1>2 DEF BordersDone
<1>4. Len(x) = marks(1) /\ Len(y) = marks(2)
  BY <1>2
<1> HIDE DEF x, y, cells
<1>5. /\ \A j \in 0 .. Len(x) - 1 : \E d \in 0 .. Len(x) + Len(y) - 1 : cells[d] = << 1, j >>
      /\ \A j \in 0 .. Len(y) - 1 : \E d \in 0 .. Len(x) + Len(y) - 1 : cells[d] = << 2, j >>
  BY <1>3, Occurs, ZenonT(40)
<1>6. /\ \A j \in 0 .. marks(1) - 1 : \E d \in 0 .. marks(1) + marks(2) - 1 : cells[d] = << 1, j >>
      /\ \A j \in 0 .. marks(2) - 1 : \E d \in 0 .. marks(1) + marks(2) - 1 : cells[d] = << 2, j >>
  BY <1>4, <1>5, Zenon
<1>7. ASSUME NEW k \in 0 .. marks(1) - 1, c = MarkPosition(k) + At(pos[2], k)
      PROVE  \E d \in 0 .. marks(1) + marks(2) - 1 : c = Border(1, d)[1] + Border(2, d)[1]
  <2>1. PICK d \in 0 .. marks(1) + marks(2) - 1 : cells[d] = << 1, k >>
    BY <1>6
  <2>2. cells[d][1] = 1 /\ cells[d][2] = k
    BY <2>1
  <2>3. output["borders_1"][d][1] = 1 /\ output["borders_1"][d][2] = k
    BY <2>2 DEF cells
  <2>4. Border(1, d)[1] + Border(2, d)[1] = MarkPosition(k) + At(pos[2], k)
    BY <2>3, BorderPair
  <2> QED BY <1>7, <2>4
<1>8. ASSUME NEW k \in 0 .. marks(2) - 1, c = MarkPosition(k) + At(pos[1], k)
      PROVE  \E d \in 0 .. marks(1) + marks(2) - 1 : c = Border(1, d)[1] + Border(2, d)[1]
  <2>1. PICK d \in 0 .. marks(1) + marks(2) - 1 : cells[d] = << 2, k >>
    BY <1>6
  <2>2. cells[d][1] = 2 /\ cells[d][2] = k
    BY <2>1
  <2>3. output["borders_1"][d][1] = 2 /\ output["borders_1"][d][2] = k
    BY <2>2 DEF cells
  <2>4. Border(1, d)[1] + Border(2, d)[1] = MarkPosition(k) + At(pos[1], k)
    BY <2>3, BorderPair
  <2> QED BY <1>8, <2>4
<1> QED BY <1>7, <1>8 DEF MarkCell

\* The borders within an array are in order.
LEMMA BordersAscend ==
  ASSUME BordersDone, NEW i \in {1, 2},
         NEW c \in 0 .. marks(1) + marks(2) - 1, NEW d \in 0 .. marks(1) + marks(2) - 1, c < d
  PROVE  Border(i, c)[1] + Border(i, c)[2] <= Border(i, d)[1]
<1> DEFINE cells == output[IF i = 1 THEN "borders_1" ELSE "borders_2"]
           x == MarkPositions(i)
           y == pos[i]
           w == cells[c]
           u == cells[d]
           e == Border(i, c)
           f == Border(i, d)
<1>0. Measured /\ PlacesAre(pos)
  BY DEF BordersDone
<1>1. /\ marks(1) \in Nat /\ marks(2) \in Nat
      /\ Sorted(MarkPositions(1)) /\ Len(MarkPositions(1)) = marks(1)
      /\ Sorted(MarkPositions(2)) /\ Len(MarkPositions(2)) = marks(2)
      /\ Sorted(pos[1]) /\ Len(pos[1]) = marks(2)
      /\ Sorted(pos[2]) /\ Len(pos[2]) = marks(1)
  BY <1>0, BorderArrays
<1>2. /\ Sorted(x) /\ Sorted(y) /\ Len(x) = marks(i) /\ Len(x) + Len(y) = marks(1) + marks(2)
      /\ Len(x) \in Nat /\ Len(y) \in Nat
  BY <1>1
<1>3. Complete(x, y, cells)
  <2>1. CASE i = 1
    BY <2>1 DEF BordersDone
  <2>2. CASE i = 2
    BY <2>2 DEF BordersDone
  <2> QED BY <2>1, <2>2
<1>4. \A k \in 0 .. Len(x) - 1 : At(x, k) = MarkPosition(k)
  BY <1>0, <1>2, MarkArrays
<1>5. /\ e = IF w[1] = 1 THEN << MarkPosition(w[2]), 1 >> ELSE << At(y, w[2]), 0 >>
      /\ f = IF u[1] = 1 THEN << MarkPosition(u[2]), 1 >> ELSE << At(y, u[2]), 0 >>
  BY DEF Border
<1> HIDE DEF cells, x, y, e, f, w, u
<1>6. c \in Int /\ d \in Int /\ c \in 0 .. Len(x) + Len(y) - 1 /\ d \in 0 .. Len(x) + Len(y) - 1
  <2>1. c \in Int /\ d \in Int
    BY <1>1
  <2>2. marks(1) + marks(2) - 1 = Len(x) + Len(y) - 1
    <3> DEFINE l == Len(x)
               n == Len(y)
               a == marks(1)
               b == marks(2)
    <3>1. l + n = a + b /\ l \in Int /\ n \in Int /\ a \in Int /\ b \in Int
      BY <1>1, <1>2
    <3> HIDE DEF l, n, a, b
    <3>2. a + b - 1 = l + n - 1
      BY <3>1
    <3> QED BY <3>2 DEF l, n, a, b
  <2> QED BY <2>1, <2>2
<1>7. Stands(x, y, c, w) /\ Stands(x, y, d, u)
  BY <1>3, <1>6 DEF Complete, w, u
<1>8. /\ w[1] \in {1, 2} /\ u[1] \in {1, 2}
      /\ w[1] = 1 => w[2] \in 0 .. Len(x) - 1
      /\ w[1] = 2 => w[2] \in 0 .. Len(y) - 1
      /\ u[1] = 1 => u[2] \in 0 .. Len(x) - 1
      /\ u[1] = 2 => u[2] \in 0 .. Len(y) - 1
  BY <1>2, <1>6, <1>7, StandsFacts
<1>9. /\ w[1] = u[1] => w[2] < u[2]
      /\ w[1] = 1 /\ u[1] = 2 => At(x, w[2]) < At(y, u[2])
      /\ w[1] = 2 /\ u[1] = 1 => At(y, w[2]) <= At(x, u[2])
  BY <1>2, <1>6, <1>7, StandsOrder
<1>10. CASE w[1] = 1 /\ u[1] = 1
  <2>1. w[2] \in Nat /\ u[2] \in Nat /\ w[2] < u[2]
    BY <1>2, <1>8, <1>9, <1>10
  <2>2. MarkPosition(w[2]) + 1 <= MarkPosition(u[2])
    BY <1>0, <2>1, MarksFacts
  <2>3. e[1] = MarkPosition(w[2]) /\ e[2] = 1 /\ f[1] = MarkPosition(u[2])
    BY <1>5, <1>10
  <2> QED BY <2>2, <2>3 DEF e, f
<1>11. CASE w[1] = 1 /\ u[1] = 2
  <2>1. At(x, w[2]) < At(y, u[2]) /\ At(x, w[2]) = MarkPosition(w[2])
    BY <1>4, <1>8, <1>9, <1>11
  <2>2. At(x, w[2]) \in Int /\ At(y, u[2]) \in Int
    BY <1>2, <1>8, <1>11, SortedFacts
  <2>3. MarkPosition(w[2]) + 1 <= At(y, u[2])
    BY <2>1, <2>2
  <2>4. e[1] = MarkPosition(w[2]) /\ e[2] = 1 /\ f[1] = At(y, u[2])
    BY <1>5, <1>11
  <2> QED BY <2>3, <2>4 DEF e, f
<1>12. CASE w[1] = 2 /\ u[1] = 1
  <2>1. At(y, w[2]) <= At(x, u[2]) /\ At(x, u[2]) = MarkPosition(u[2])
    BY <1>4, <1>8, <1>9, <1>12
  <2>2. At(y, w[2]) \in Int
    BY <1>2, <1>8, <1>12, SortedFacts
  <2>3. At(y, w[2]) + 0 <= MarkPosition(u[2])
    BY <2>1, <2>2
  <2>4. e[1] = At(y, w[2]) /\ e[2] = 0 /\ f[1] = MarkPosition(u[2])
    BY <1>5, <1>12
  <2> QED BY <2>3, <2>4 DEF e, f
<1>13. CASE w[1] = 2 /\ u[1] = 2
  <2>1. w[2] <= u[2]
    BY <1>2, <1>8, <1>9, <1>13
  <2>2. At(y, w[2]) <= At(y, u[2]) /\ At(y, w[2]) \in Int
    BY <1>2, <1>8, <1>13, <2>1, SortedFacts
  <2>3. At(y, w[2]) + 0 <= At(y, u[2])
    BY <2>2
  <2>4. e[1] = At(y, w[2]) /\ e[2] = 0 /\ f[1] = At(y, u[2])
    BY <1>5, <1>13
  <2> QED BY <2>3, <2>4 DEF e, f
<1> QED BY <1>8, <1>10, <1>11, <1>12, <1>13

\* The ends of a subsegment.
SegLo(i, k) == determine_subsegments(i, k)[1]
SegHi(i, k) == determine_subsegments(i, k)[2]

LEMMA SegmentEnds ==
  ASSUME BordersDone, NEW i \in {1, 2}
  PROVE  /\ SegLo(i, 0) = 0
         /\ SegHi(i, marks(1) + marks(2)) = Len(input[i])
         /\ \A k \in 0 .. marks(1) + marks(2) - 1 :
              SegHi(i, k) = Border(i, k)[1] /\ SegLo(i, k + 1) = Border(i, k)[1] + Border(i, k)[2]
<1> DEFINE m == marks(1) + marks(2)
<1>1. m \in Nat
  <2>1. marks(1) \in Nat /\ marks(2) \in Nat
    BY MarksFacts DEF BordersDone
  <2> QED BY <2>1
<1>b. m - 1 = marks(1) + marks(2) - 1
  <2>1. marks(1) \in Nat /\ marks(2) \in Nat
    BY MarksFacts DEF BordersDone
  <2> QED BY <2>1
<1>2. SegLo(i, 0) = 0 /\ SegHi(i, m) = Len(input[i])
  BY DEF SegLo, SegHi, determine_subsegments
<1>3. ASSUME NEW k \in 0 .. m - 1
      PROVE  SegHi(i, k) = Border(i, k)[1] /\ SegLo(i, k + 1) = Border(i, k)[1] + Border(i, k)[2]
  <2> HIDE DEF m
  <2>1. k # m /\ k + 1 # 0 /\ (k + 1) - 1 = k /\ k + 1 - 1 = k
    BY <1>1
  <2>2. SegHi(i, k) = Border(i, k)[1]
    BY <2>1 DEF SegHi, determine_subsegments, m
  <2>3. determine_subsegments(i, k + 1)[1] = IF k + 1 = 0 THEN 0 ELSE Border(i, k + 1 - 1)[1] + Border(i, k + 1 - 1)[2]
    BY DEF determine_subsegments
  <2>4. SegLo(i, k + 1) = Border(i, k)[1] + Border(i, k)[2]
    BY <2>1, <2>3 DEF SegLo
  <2> QED BY <2>2, <2>4
<1>4. \A k \in 0 .. m - 1 : SegHi(i, k) = Border(i, k)[1] /\ SegLo(i, k + 1) = Border(i, k)[1] + Border(i, k)[2]
  BY <1>3
<1>5. 0 .. marks(1) + marks(2) - 1 = 0 .. m - 1
  BY <1>b
<1> HIDE DEF m
<1>6. \A k \in 0 .. marks(1) + marks(2) - 1 :
        SegHi(i, k) = Border(i, k)[1] /\ SegLo(i, k + 1) = Border(i, k)[1] + Border(i, k)[2]
  BY <1>4, <1>5
<1> QED BY <1>2, <1>6 DEF m

\* A subsegment's ends are cuts, in order.
LEMMA SegmentCuts ==
  ASSUME BordersDone, NEW k \in 0 .. marks(1) + marks(2)
  PROVE  /\ Cut(input[1], input[2], SegLo(1, k), SegLo(2, k))
         /\ Cut(input[1], input[2], SegHi(1, k), SegHi(2, k))
         /\ SegLo(1, k) <= SegHi(1, k) /\ SegLo(2, k) <= SegHi(2, k)
<1> DEFINE m == marks(1) + marks(2)
           x == input[1]
           y == input[2]
<1>0. Measured /\ marks(1) \in Nat /\ marks(2) \in Nat
  BY MarksFacts DEF BordersDone
<1>1. m \in Nat
  BY <1>0
<1>b. 0 .. m - 1 = 0 .. marks(1) + marks(2) - 1
  BY <1>0
<1>2. Sorted(x) /\ Sorted(y) /\ Len(x) \in Nat /\ Len(y) \in Nat
  BY <1>0, InputFacts
<1>3. Cut(x, y, 0, 0) /\ Cut(x, y, Len(x), Len(y))
  BY <1>2 DEF Cut
<1>4. /\ SegLo(1, 0) = 0 /\ SegLo(2, 0) = 0 /\ SegHi(1, m) = Len(x) /\ SegHi(2, m) = Len(y)
      /\ \A i \in {1, 2} : \A l \in 0 .. m - 1 :
           SegHi(i, l) = Border(i, l)[1] /\ SegLo(i, l + 1) = Border(i, l)[1] + Border(i, l)[2]
  BY <1>b, SegmentEnds
<1>5. \A c \in 0 .. m - 1 :
        /\ Cut(x, y, Border(1, c)[1], Border(2, c)[1])
        /\ Cut(x, y, Border(1, c)[1] + Border(1, c)[2], Border(2, c)[1] + Border(2, c)[2])
  BY <1>b, BorderPair
<1>6. \A i \in {1, 2} : \A c, d \in 0 .. m - 1 : c < d => Border(i, c)[1] + Border(i, c)[2] <= Border(i, d)[1]
  BY <1>b, BordersAscend
<1>7. k \in 0 .. m
  OBVIOUS
<1> HIDE DEF m, x, y
<1>8. Cut(x, y, SegLo(1, k), SegLo(2, k))
  <2>1. CASE k = 0
    BY <1>3, <1>4, <2>1
  <2>2. CASE k # 0
    <3>1. k - 1 \in 0 .. m - 1 /\ (k - 1) + 1 = k
      BY <1>1, <1>7, <2>2
    <3> DEFINE l == k - 1
    <3>2. l \in 0 .. m - 1 /\ l + 1 = k
      BY <3>1
    <3> HIDE DEF l
    <3>3. SegLo(1, l + 1) = Border(1, l)[1] + Border(1, l)[2] /\ SegLo(2, l + 1) = Border(2, l)[1] + Border(2, l)[2]
      BY <1>4, <3>2
    <3>4. Cut(x, y, Border(1, l)[1] + Border(1, l)[2], Border(2, l)[1] + Border(2, l)[2])
      BY <1>5, <3>2
    <3> QED BY <3>2, <3>3, <3>4
  <2> QED BY <2>1, <2>2
<1>9. Cut(x, y, SegHi(1, k), SegHi(2, k))
  <2>1. CASE k = m
    BY <1>3, <1>4, <2>1
  <2>2. CASE k # m
    <3>1. k \in 0 .. m - 1
      BY <1>1, <1>7, <2>2
    <3>2. SegHi(1, k) = Border(1, k)[1] /\ SegHi(2, k) = Border(2, k)[1]
      BY <1>4, <3>1
    <3>3. Cut(x, y, Border(1, k)[1], Border(2, k)[1])
      BY <1>5, <3>1
    <3> QED BY <3>2, <3>3
  <2> QED BY <2>1, <2>2
<1>10. /\ SegLo(1, k) \in 0 .. Len(x) /\ SegHi(1, k) \in 0 .. Len(x)
       /\ SegLo(2, k) \in 0 .. Len(y) /\ SegHi(2, k) \in 0 .. Len(y)
  BY <1>8, <1>9 DEF Cut
<1>11. ASSUME NEW i \in {1, 2} PROVE SegLo(i, k) <= SegHi(i, k)
  <2>0. SegLo(i, k) \in Nat /\ SegHi(i, k) \in Nat
    <3>1. CASE i = 1
      BY <1>2, <1>10, <3>1
    <3>2. CASE i = 2
      BY <1>2, <1>10, <3>2
    <3> QED BY <3>1, <3>2
  <2>1. CASE k = 0
    <3>1. SegLo(i, k) = 0
      BY <1>4, <2>1
    <3> QED BY <2>0, <3>1
  <2>2. CASE k = m
    <3>1. CASE i = 1
      BY <1>2, <1>4, <1>10, <2>2, <3>1
    <3>2. CASE i = 2
      BY <1>2, <1>4, <1>10, <2>2, <3>2
    <3> QED BY <3>1, <3>2
  <2>3. CASE k # 0 /\ k # m
    <3> DEFINE l == k - 1
    <3>1. l \in 0 .. m - 1 /\ l + 1 = k /\ k \in 0 .. m - 1 /\ l < k
      BY <1>1, <1>7, <2>3
    <3> HIDE DEF l
    <3>2. SegLo(i, l + 1) = Border(i, l)[1] + Border(i, l)[2] /\ SegHi(i, k) = Border(i, k)[1]
      BY <1>4, <3>1
    <3>3. Border(i, l)[1] + Border(i, l)[2] <= Border(i, k)[1]
      BY <1>6, <3>1
    <3> QED BY <3>1, <3>2, <3>3
  <2> QED BY <2>1, <2>2, <2>3
<1> QED BY <1>8, <1>9, <1>11 DEF x, y

\* The cells of the subsegments, with a border between two of them.
LEMMA SegmentStretches ==
  ASSUME BordersDone
  PROVE  LET m == marks(1) + marks(2)
         IN  /\ m \in Nat
             /\ Stretches(m, [ k \in 0 .. m |-> SegLo(1, k) + SegLo(2, k) ],
                             [ k \in 0 .. m |-> SegHi(1, k) + SegHi(2, k) ])
<1> DEFINE m == marks(1) + marks(2)
           lo == [ k \in 0 .. m |-> SegLo(1, k) + SegLo(2, k) ]
           hi == [ k \in 0 .. m |-> SegHi(1, k) + SegHi(2, k) ]
<1>0. Measured /\ marks(1) \in Nat /\ marks(2) \in Nat
  BY MarksFacts DEF BordersDone
<1>1. m \in Nat
  BY <1>0
<1>b. 0 .. m - 1 = 0 .. marks(1) + marks(2) - 1
  BY <1>0
<1>2. Len(input[1]) \in Nat /\ Len(input[2]) \in Nat
  BY <1>0, InputFacts
<1>3. ASSUME NEW k \in 0 .. m
      PROVE  /\ SegLo(1, k) \in Nat /\ SegLo(2, k) \in Nat /\ SegHi(1, k) \in Nat /\ SegHi(2, k) \in Nat
             /\ SegLo(1, k) <= SegHi(1, k) /\ SegLo(2, k) <= SegHi(2, k)
  <2>1. /\ Cut(input[1], input[2], SegLo(1, k), SegLo(2, k))
        /\ Cut(input[1], input[2], SegHi(1, k), SegHi(2, k))
        /\ SegLo(1, k) <= SegHi(1, k) /\ SegLo(2, k) <= SegHi(2, k)
    BY SegmentCuts
  <2> QED BY <1>2, <2>1 DEF Cut
<1>4. ASSUME NEW k \in 0 .. m - 1
      PROVE  SegLo(1, k + 1) + SegLo(2, k + 1) = (SegHi(1, k) + SegHi(2, k)) + 1
  <2> DEFINE a == Border(1, k)[1]
             s == Border(1, k)[2]
             b == Border(2, k)[1]
             r == Border(2, k)[2]
  <2>1. SegLo(1, k + 1) = a + s /\ SegLo(2, k + 1) = b + r /\ SegHi(1, k) = a /\ SegHi(2, k) = b
    BY <1>b, SegmentEnds
  <2>2. s \in {0, 1} /\ r = 1 - s
    BY <1>b, BorderPair
  <2>3. k \in 0 .. m
    BY <1>1
  <2>4. a \in Nat /\ b \in Nat
    BY <1>3, <2>1, <2>3
  <2> HIDE DEF a, s, b, r, m
  <2> QED BY <2>1, <2>2, <2>4
<1> HIDE DEF m
<1>5. ASSUME NEW k \in 0 .. m PROVE lo[k] \in Int /\ hi[k] \in Int /\ lo[k] <= hi[k]
  <2>1. lo[k] = SegLo(1, k) + SegLo(2, k) /\ hi[k] = SegHi(1, k) + SegHi(2, k)
    OBVIOUS
  <2> HIDE DEF lo, hi
  <2> QED BY <1>3, <2>1
<1>6. ASSUME NEW k \in 0 .. m - 1 PROVE lo[k + 1] = hi[k] + 1
  <2>1. k \in 0 .. m /\ k + 1 \in 0 .. m
    BY <1>1
  <2>2. lo[k + 1] = SegLo(1, k + 1) + SegLo(2, k + 1) /\ hi[k] = SegHi(1, k) + SegHi(2, k)
    BY <2>1
  <2> HIDE DEF lo, hi
  <2> QED BY <1>4, <2>2
<1> HIDE DEF lo, hi
<1>7. Stretches(m, lo, hi)
  BY <1>5, <1>6 DEF Stretches
<1> QED BY <1>1, <1>7 DEF m, lo, hi

\* The two halves of a pair of subsegments.
LEMMA ScheduledFacts ==
  ASSUME BordersDone, NEW i \in {1, 2}, NEW k \in 0 .. marks(1) + marks(2)
  PROVE  LET t == ScheduledPair(i, k)
             lo == SegLo(1, k) + SegLo(2, k)
             mid == SegHi(1, k) + SegLo(2, k)
             hi == SegHi(1, k) + SegHi(2, k)
         IN  /\ PieceOk(input[1], input[2], t)
             /\ t.kind = IF i = 1 THEN "from_left" ELSE "from_right"
             /\ lo \in Int /\ mid \in Int /\ hi \in Int /\ lo <= mid /\ mid <= hi
             /\ Cells(t) = IF i = 1 THEN lo .. mid - 1 ELSE mid .. hi - 1
             /\ t.processor = Processor(i, SegHi(i, k))
<1> DEFINE t == ScheduledPair(i, k)
           a == SegLo(1, k)
           b == SegHi(1, k)
           c == SegLo(2, k)
           d == SegHi(2, k)
           kind == IF i = 1 THEN "from_left" ELSE "from_right"
           right == SegHi(i, k)
<1>0. Measured
  BY DEF BordersDone
<1>1. Len(input[1]) \in Nat /\ Len(input[2]) \in Nat
  BY <1>0, InputFacts
<1>2. /\ Cut(input[1], input[2], a, c) /\ Cut(input[1], input[2], b, d)
      /\ a <= b /\ c <= d
  BY SegmentCuts
<1>3. a \in Nat /\ b \in Nat /\ c \in Nat /\ d \in Nat
  BY <1>1, <1>2 DEF Cut
<1>4. t = [ Piece(kind, a, b, c, d, a + c) EXCEPT !.processor = Processor(i, right) ]
  <2>1. (IF i = 1 THEN determine_subsegments(1, k)[2] ELSE determine_subsegments(2, k)[2])
          = determine_subsegments(i, k)[2]
    OBVIOUS
  <2>2. t = [ Piece(kind, determine_subsegments(1, k)[1], determine_subsegments(1, k)[2],
                          determine_subsegments(2, k)[1], determine_subsegments(2, k)[2],
                          determine_subsegments(1, k)[1] + determine_subsegments(2, k)[1])
                EXCEPT !.processor = Processor(i, determine_subsegments(i, k)[2]) ]
    BY <2>1, Zenon DEF ScheduledPair
  <2> QED BY <2>2, Zenon DEF SegLo, SegHi
<1> DEFINE q == Processor(i, right)
<1>5. t = [ Piece(kind, a, b, c, d, a + c) EXCEPT !.processor = q ]
  BY <1>4
<1> HIDE DEF t, a, b, c, d, q, kind
<1>6. /\ t.kind = kind /\ t.xl = a /\ t.xr = b /\ t.yl = c /\ t.yr = d /\ t.out = a + c
      /\ t.swapped = FALSE /\ t.processor = q
  BY <1>5 DEF Piece
<1>7. kind \in {"from_left", "from_right"}
  BY DEF kind
<1>8. PieceOk(input[1], input[2], t)
  <2>1. t.kind \in Kinds /\ t.kind # "copy"
    BY <1>6, <1>7 DEF Kinds
  <2> QED BY <1>2, <1>6, <2>1 DEF PieceOk
<1>9. a + c \in Int /\ b + c \in Int /\ b + d \in Int /\ a + c <= b + c /\ b + c <= b + d
  BY <1>2, <1>3
<1>10. Cells(t) = IF i = 1 THEN a + c .. (b + c) - 1 ELSE b + c .. (b + d) - 1
  <2>1. CASE i = 1
    <3>1. t.kind = "from_left"
      BY <1>6, <2>1 DEF kind
    <3>2. Cells(t) = t.out .. t.out + (t.xr - t.xl) - 1
      BY <3>1 DEF Cells
    <3>3. t.out + (t.xr - t.xl) - 1 = (b + c) - 1
      BY <1>3, <1>6
    <3> QED BY <1>6, <2>1, <3>2, <3>3
  <2>2. CASE i = 2
    <3>1. t.kind = "from_right"
      BY <1>6, <2>2 DEF kind
    <3>2. Cells(t) = t.out + (t.xr - t.xl) .. t.out + Size(t) - 1
      BY <3>1 DEF Cells
    <3>3. t.out + Size(t) - 1 = (b + d) - 1 /\ t.out + (t.xr - t.xl) = b + c
      BY <1>3, <1>6 DEF Size
    <3> QED BY <1>6, <2>2, <3>2, <3>3
  <2> QED BY <2>1, <2>2
<1> QED BY <1>6, <1>8, <1>9, <1>10 DEF t, a, b, c, d, q, kind

\* Where the cells of the subsegments begin and end.
PairLo == [ k \in 0 .. marks(1) + marks(2) |-> SegLo(1, k) + SegLo(2, k) ]
PairHi == [ k \in 0 .. marks(1) + marks(2) |-> SegHi(1, k) + SegHi(2, k) ]

LEMMA PairFacts ==
  ASSUME BordersDone
  PROVE  /\ marks(1) + marks(2) \in Nat
         /\ Stretches(marks(1) + marks(2), PairLo, PairHi)
         /\ PairLo[0] = 0 /\ PairHi[marks(1) + marks(2)] = length
         /\ \A k \in 0 .. marks(1) + marks(2) :
              /\ Cells(ScheduledPair(1, k)) \subseteq PairLo[k] .. PairHi[k] - 1
              /\ Cells(ScheduledPair(2, k)) \subseteq PairLo[k] .. PairHi[k] - 1
              /\ Cells(ScheduledPair(1, k)) \cap Cells(ScheduledPair(2, k)) = {}
              /\ \A c \in PairLo[k] .. PairHi[k] - 1 :
                   c \in Cells(ScheduledPair(1, k)) \/ c \in Cells(ScheduledPair(2, k))
<1> DEFINE m == marks(1) + marks(2)
<1>0. Measured
  BY DEF BordersDone
<1>1. m \in Nat /\ Stretches(m, PairLo, PairHi)
  BY SegmentStretches DEF PairLo, PairHi
<1>2. /\ \A k \in 0 .. m : PairLo[k] = SegLo(1, k) + SegLo(2, k) /\ PairHi[k] = SegHi(1, k) + SegHi(2, k)
      /\ 0 \in 0 .. m /\ m \in 0 .. m
  BY <1>1 DEF PairLo, PairHi
<1>3. PairLo[0] = 0 /\ PairHi[m] = length
  <2>1. /\ SegLo(1, 0) = 0 /\ SegLo(2, 0) = 0
        /\ SegHi(1, m) = Len(input[1]) /\ SegHi(2, m) = Len(input[2])
    BY SegmentEnds
  <2> HIDE DEF m
  <2>2. PairLo[0] = 0 + 0 /\ PairHi[m] = Len(input[1]) + Len(input[2])
    BY <1>2, <2>1
  <2> QED BY <2>2 DEF length
<1>4. ASSUME NEW k \in 0 .. m
      PROVE  /\ Cells(ScheduledPair(1, k)) \subseteq PairLo[k] .. PairHi[k] - 1
             /\ Cells(ScheduledPair(2, k)) \subseteq PairLo[k] .. PairHi[k] - 1
             /\ Cells(ScheduledPair(1, k)) \cap Cells(ScheduledPair(2, k)) = {}
             /\ \A c \in PairLo[k] .. PairHi[k] - 1 :
                  c \in Cells(ScheduledPair(1, k)) \/ c \in Cells(ScheduledPair(2, k))
  <2> DEFINE lo == SegLo(1, k) + SegLo(2, k)
             mid == SegHi(1, k) + SegLo(2, k)
             hi == SegHi(1, k) + SegHi(2, k)
             s == Cells(ScheduledPair(1, k))
             t == Cells(ScheduledPair(2, k))
  <2>1. /\ lo \in Int /\ mid \in Int /\ hi \in Int /\ lo <= mid /\ mid <= hi
        /\ s = lo .. mid - 1
    BY ScheduledFacts
  <2>2. t = mid .. hi - 1
    BY ScheduledFacts
  <2>3. PairLo[k] = lo /\ PairHi[k] = hi
    BY <1>2
  <2> HIDE DEF m, lo, mid, hi, s, t
  <2>4. s \subseteq lo .. hi - 1 /\ t \subseteq lo .. hi - 1
    BY <2>1, <2>2
  <2>5. s \cap t = {}
    BY <2>1, <2>2
  <2>6. \A c \in lo .. hi - 1 : c \in s \/ c \in t
    BY <2>1, <2>2
  <2> QED BY <2>3, <2>4, <2>5, <2>6 DEF s, t
<1> QED BY <1>1, <1>3, <1>4

\* Between the pairs are the marks.
LEMMA PairMarks ==
  ASSUME BordersDone, NEW c
  PROVE  MarkCell(pos, c) <=> \E k \in 0 .. marks(1) + marks(2) - 1 : c = PairHi[k]
<1>0. Measured /\ marks(1) \in Nat /\ marks(2) \in Nat
  BY MarksFacts DEF BordersDone
<1>1. ASSUME NEW k \in 0 .. marks(1) + marks(2) - 1 PROVE PairHi[k] = Border(1, k)[1] + Border(2, k)[1]
  <2>1. k \in 0 .. marks(1) + marks(2)
    BY <1>0
  <2>2. PairHi[k] = SegHi(1, k) + SegHi(2, k)
    BY <2>1 DEF PairHi
  <2>3. SegHi(1, k) = Border(1, k)[1] /\ SegHi(2, k) = Border(2, k)[1]
    BY SegmentEnds
  <2> QED BY <2>2, <2>3
<1>2. ASSUME MarkCell(pos, c) PROVE \E k \in 0 .. marks(1) + marks(2) - 1 : c = PairHi[k]
  <2>1. \E k \in 0 .. marks(1) + marks(2) - 1 : c = Border(1, k)[1] + Border(2, k)[1]
    BY <1>2, MarkIsBorder
  <2> QED BY <1>1, <2>1
<1>3. ASSUME NEW k \in 0 .. marks(1) + marks(2) - 1, c = PairHi[k] PROVE MarkCell(pos, c)
  <2> DEFINE w == output["borders_1"][k]
  <2>1. /\ c = Border(1, k)[1] + Border(2, k)[1]
    BY <1>1, <1>3
  <2>2. \/ w[1] = 1 /\ Border(1, k)[1] + Border(2, k)[1] = MarkPosition(w[2]) + At(pos[2], w[2]) /\ w[2] \in 0 .. marks(1) - 1
        \/ w[1] = 2 /\ Border(1, k)[1] + Border(2, k)[1] = MarkPosition(w[2]) + At(pos[1], w[2]) /\ w[2] \in 0 .. marks(2) - 1
    BY BorderPair
  <2> HIDE DEF w
  <2> QED BY <2>1, <2>2 DEF MarkCell
<1> QED BY <1>2, <1>3

\* The schedule is the work that the marks leave.
LEMMA ScheduleWork ==
  ASSUME BordersDone, NEW cells, MarksIn(pos, cells)
  PROVE  WorkInv(input[1], input[2], cells, Schedule)
<1> DEFINE m == marks(1) + marks(2)
           x == input[1]
           y == input[2]
           D == 0 .. Len(x) + Len(y) - 1
<1>0. Measured /\ marks(1) \in Nat /\ marks(2) \in Nat
  BY MarksFacts DEF BordersDone
<1>1. Sorted(x) /\ Sorted(y) /\ Len(x) \in Nat /\ Len(y) \in Nat
  BY <1>0, InputFacts
<1>2. D = 0 .. length - 1 /\ length \in Nat
  <2>1. length = Len(x) + Len(y)
    BY DEF length
  <2> DEFINE a == Len(x)
             b == Len(y)
  <2>2. a \in Nat /\ b \in Nat /\ length = a + b /\ D = 0 .. a + b - 1
    BY <1>1, <2>1
  <2> HIDE DEF a, b, D
  <2>3. a + b - 1 = length - 1 /\ length \in Nat
    BY <2>2
  <2> QED BY <2>2, <2>3
<1>3. /\ m \in Nat /\ Stretches(m, PairLo, PairHi)
      /\ PairLo[0] = 0 /\ PairHi[m] = length
      /\ \A k \in 0 .. m :
           /\ Cells(ScheduledPair(1, k)) \subseteq PairLo[k] .. PairHi[k] - 1
           /\ Cells(ScheduledPair(2, k)) \subseteq PairLo[k] .. PairHi[k] - 1
           /\ Cells(ScheduledPair(1, k)) \cap Cells(ScheduledPair(2, k)) = {}
           /\ \A c \in PairLo[k] .. PairHi[k] - 1 :
                c \in Cells(ScheduledPair(1, k)) \/ c \in Cells(ScheduledPair(2, k))
  BY PairFacts
<1>4. \A i \in {1, 2} : \A k \in 0 .. m : PieceOk(x, y, ScheduledPair(i, k))
  BY ScheduledFacts
<1>5. 0 .. m - 1 = 0 .. marks(1) + marks(2) - 1
  BY <1>0
<1>6. \A c : MarkCell(pos, c) <=> \E k \in 0 .. m - 1 : c = PairHi[k]
  BY <1>5, PairMarks
<1>7. \A t \in Schedule : \E i \in {1, 2}, k \in 0 .. m : t = ScheduledPair(i, k)
  BY DEF Schedule
<1>8. \A i \in {1, 2} : \A k \in 0 .. m : ScheduledPair(i, k) \in Schedule
  BY DEF Schedule
<1>9. /\ cells = [ c \in D |-> cells[c] ]
      /\ \A c \in D : IF MarkCell(pos, c) THEN cells[c] \in {1, 2} \X Nat /\ Stands(x, y, c, cells[c])
                                          ELSE cells[c] = None
  BY <1>2, Zenon DEF MarksIn
<1> HIDE DEF m, D
<1>10. /\ \A k \in 0 .. m : PairLo[k] \in Int /\ PairHi[k] \in Int /\ PairLo[0] <= PairLo[k] /\ PairHi[k] <= PairHi[m]
       /\ \A k \in 0 .. m : \A l \in 0 .. m : k < l => PairHi[k] < PairLo[l]
       /\ \A c \in PairLo[0] .. PairHi[m] - 1 :
            \/ \E k \in 0 .. m : c \in PairLo[k] .. PairHi[k] - 1
            \/ \E k \in 0 .. m - 1 : c = PairHi[k]
  <2>1. Stretches(m, PairLo, PairHi) /\ m \in Nat
    BY <1>3
  <2>2. \A k \in 0 .. m : PairLo[k] \in Int /\ PairHi[k] \in Int
    BY <2>1 DEF Stretches
  <2> QED BY <2>1, <2>2, StretchesApart
<1>11. ASSUME NEW k \in 0 .. m, NEW c \in PairLo[k] .. PairHi[k] - 1
       PROVE  c \in D /\ ~ MarkCell(pos, c) /\ cells[c] = None
  <2>0. PairLo[k] \in Int /\ PairHi[k] \in Int /\ 0 <= PairLo[k] /\ PairHi[k] <= length
    BY <1>3, <1>10
  <2>1. c \in 0 .. length - 1
    BY <1>2, <2>0
  <2>2. ASSUME NEW l \in 0 .. m - 1, c = PairHi[l] PROVE FALSE
    <3>0. l \in 0 .. m /\ l \in Int /\ k \in Int
      BY <1>3
    <3>1. PairLo[l] \in Int /\ PairHi[l] \in Int
      BY <1>10, <3>0
    <3>2. CASE k < l
      <4>1. PairHi[k] < PairLo[l] /\ PairLo[l] <= PairHi[l]
        BY <1>3, <1>10, <3>0, <3>2 DEF Stretches
      <4> QED BY <2>0, <2>2, <3>1, <4>1
    <3>3. CASE l < k
      <4>1. PairHi[l] < PairLo[k]
        BY <1>10, <3>0, <3>3
      <4> QED BY <2>0, <2>2, <3>1, <4>1
    <3>4. CASE l = k
      BY <2>0, <2>2, <3>4
    <3> QED BY <3>0, <3>2, <3>3, <3>4
  <2>3. ~ MarkCell(pos, c)
    BY <1>6, <2>2
  <2> QED BY <1>2, <1>9, <2>1, <2>3
<1>12. ASSUME NEW t \in Schedule PROVE PieceOk(x, y, t) /\ \A c \in Cells(t) : cells[c] = None
  <2>1. PICK i \in {1, 2}, k \in 0 .. m : t = ScheduledPair(i, k)
    BY <1>7
  <2>2. Cells(t) \subseteq PairLo[k] .. PairHi[k] - 1
    BY <1>3, <2>1
  <2> QED BY <1>4, <1>11, <2>1, <2>2
<1>13. ASSUME NEW t \in Schedule, NEW u \in Schedule, t # u PROVE Cells(t) \cap Cells(u) = {}
  <2>1. PICK i \in {1, 2}, k \in 0 .. m : t = ScheduledPair(i, k)
    BY <1>7
  <2>2. PICK j \in {1, 2}, l \in 0 .. m : u = ScheduledPair(j, l)
    BY <1>7
  <2>3. Cells(t) \subseteq PairLo[k] .. PairHi[k] - 1 /\ Cells(u) \subseteq PairLo[l] .. PairHi[l] - 1
    BY <1>3, <2>1, <2>2
  <2>4. CASE k = l
    <3>1. i # j
      BY <1>13, <2>1, <2>2, <2>4
    <3>2. (i = 1 /\ j = 2) \/ (i = 2 /\ j = 1)
      BY <3>1
    <3>3. Cells(ScheduledPair(1, k)) \cap Cells(ScheduledPair(2, k)) = {}
      BY <1>3
    <3> QED BY <2>1, <2>2, <2>4, <3>2, <3>3
  <2>5. CASE k # l
    <3>1. PairHi[k] < PairLo[l] \/ PairHi[l] < PairLo[k]
      BY <1>3, <1>10, <2>5
    <3>2. PairLo[k] \in Int /\ PairHi[k] \in Int /\ PairLo[l] \in Int /\ PairHi[l] \in Int
      BY <1>10
    <3> QED BY <2>3, <3>1, <3>2
  <2> QED BY <2>4, <2>5
<1>14. ASSUME NEW c \in D
       PROVE  \/ cells[c] = None /\ \E t \in Schedule : c \in Cells(t)
              \/ cells[c] \in {1, 2} \X Nat /\ Stands(x, y, c, cells[c])
  <2>1. CASE MarkCell(pos, c)
    BY <1>9, <2>1
  <2>2. CASE ~ MarkCell(pos, c)
    <3>1. c \in PairLo[0] .. PairHi[m] - 1
      BY <1>2, <1>3
    <3>2. PICK k \in 0 .. m : c \in PairLo[k] .. PairHi[k] - 1
      BY <1>6, <1>10, <2>2, <3>1
    <3>3. c \in Cells(ScheduledPair(1, k)) \/ c \in Cells(ScheduledPair(2, k))
      BY <1>3, <3>2
    <3>4. \E t \in Schedule : c \in Cells(t)
      BY <1>8, <3>3
    <3> QED BY <1>9, <2>2, <3>4
  <2> QED BY <2>1, <2>2
<1> HIDE DEF x, y
<1>15. \A t \in Schedule : \A u \in Schedule : t # u => Cells(t) \cap Cells(u) = {}
  BY <1>13
<1>16. \A t \in Schedule : PieceOk(x, y, t) /\ Unwritten(cells, t)
  BY <1>12 DEF Unwritten
<1>17. WorkInv(x, y, cells, Schedule)
  BY <1>9, <1>14, <1>15, <1>16, Zenon DEF WorkInv, D, Apart
<1> QED BY <1>17 DEF x, y

-----------------------------------------------------------------------------
(* The merges *)

\* Cells not written yet.
Empty(cells, n) == cells = [ c \in 0 .. n - 1 |-> None ]

\* A merge begins with its whole output to write.
LEMMA WholeStarts ==
  ASSUME NEW x, NEW y, Sorted(x), Sorted(y), NEW kind \in {"clrs", "kruskal"},
         NEW cells, NEW n, n = Len(x) + Len(y), Empty(cells, n)
  PROVE  WorkInv(x, y, cells, { Whole(kind, Len(x), Len(y)) })
<1> DEFINE t == Whole(kind, Len(x), Len(y))
           D == 0 .. Len(x) + Len(y) - 1
<1>1. Len(x) \in Nat /\ Len(y) \in Nat
  BY SortedFacts
<1>2. /\ t.kind = kind /\ t.xl = 0 /\ t.xr = Len(x) /\ t.yl = 0 /\ t.yr = Len(y) /\ t.out = 0
      /\ t.swapped = FALSE
  BY DEF Whole, Piece
<1> HIDE DEF t
<1>3. Cut(x, y, 0, 0) /\ Cut(x, y, Len(x), Len(y))
  BY <1>1 DEF Cut
<1>4. PieceOk(x, y, t)
  <2>1. t.kind \in Kinds /\ t.kind # "copy"
    BY <1>2 DEF Kinds
  <2>2. t.swapped \in BOOLEAN
    BY <1>2, Zenon
  <2>3. t.xl <= t.xr /\ t.yl <= t.yr /\ t.out = t.xl + t.yl
    BY <1>1, <1>2
  <2>4. Cut(x, y, t.xl, t.yl) /\ Cut(x, y, t.xr, t.yr)
    BY <1>2, <1>3, Zenon
  <2> QED BY <2>1, <2>2, <2>3, <2>4, Zenon DEF PieceOk
<1>5. Cells(t) = D
  <2>1. Cells(t) = t.out .. t.out + Size(t) - 1
    BY <1>2, <1>4, CellsRange
  <2>2. t.out + Size(t) - 1 = Len(x) + Len(y) - 1
    BY <1>1, <1>2 DEF Size
  <2> QED BY <1>2, <2>1, <2>2
<1>6. n - 1 = Len(x) + Len(y) - 1
  BY <1>1
<1>7. cells = [ c \in D |-> None ]
  BY <1>6 DEF Empty
<1>8. \A c \in D : cells[c] = None
  BY <1>7
<1>9. cells = [ c \in D |-> cells[c] ]
  BY <1>7
<1> HIDE DEF D
<1>10. WorkInv(x, y, cells, {t})
  BY <1>4, <1>5, <1>8, <1>9 DEF WorkInv, D, Unwritten, Apart
<1> QED BY <1>10 DEF t

\* When the work is done all cells are written.
LEMMA WorkDone ==
  ASSUME NEW x, NEW y, NEW cells, WorkInv(x, y, cells, {})
  PROVE  Complete(x, y, cells)
BY DEF WorkInv, Complete

\* What every state of a merge satisfies: the pieces left are the work left.
MergeInv ==
  /\ method \in { "clrs", "kruskal", "opt" }
  /\ Measured
  /\ job \in Jobs
  /\ DOMAIN output = Jobs
  /\ WorkInv(Arrays(job)[1], Arrays(job)[2], output[job], tasks)
  /\ \A t \in tasks : t.kind \in { "from_left", "from_right" } => job = "merge"
  /\ job = "mark" => /\ Empty(output["borders_1"], marks(1) + marks(2))
                     /\ Empty(output["borders_2"], marks(1) + marks(2))
                     /\ Empty(output["merge"], length)
  /\ job \in { "borders_1", "borders_2" } => PlacesAre(pos) /\ MarksIn(pos, output["merge"])
  /\ job = "borders_1" => Empty(output["borders_2"], marks(1) + marks(2))
  /\ job = "borders_2" => Complete(MarkPositions(1), pos[1], output["borders_1"])
  /\ method = "opt" /\ job = "merge" => tasks \subseteq Schedule /\ BordersDone

LEMMA SameMarks ==
  ASSUME UNCHANGED << input, team >>
  PROVE  /\ length' = length /\ stepsize' = stepsize
         /\ \A k : MarkPosition(k)' = MarkPosition(k)
         /\ \A i : marks(i)' = marks(i)
         /\ \A i : MarkPositions(i)' = MarkPositions(i)
         /\ \A i : MarkedEntries(i)' = MarkedEntries(i)
         /\ Measured => Measured'
<1>1. length' = length
  BY DEF length
<1>2. stepsize' = stepsize
  BY <1>1 DEF stepsize
<1>3. \A k : MarkPosition(k)' = MarkPosition(k)
  BY <1>2 DEF MarkPosition
<1>4. \A i : marks(i)' = marks(i)
  BY <1>2 DEF marks
<1>5. \A i : MarkPositions(i)' = MarkPositions(i)
  BY <1>3, <1>4, Zenon DEF MarkPositions
<1>6. \A i : MarkedEntries(i)' = MarkedEntries(i)
  BY <1>3, <1>4, Zenon DEF MarkedEntries
<1>7. Measured => Measured'
  BY <1>1 DEF Measured
<1> QED BY <1>1, <1>2, <1>3, <1>4, <1>5, <1>6, <1>7

LEMMA SamePlaces ==
  ASSUME UNCHANGED << input, team >>
  PROVE  /\ \A p : PlacesAre(p)' <=> PlacesAre(p)
         /\ \A p, cells : MarksIn(p, cells)' <=> MarksIn(p, cells)
<1>1. /\ length' = length
      /\ \A k : MarkPosition(k)' = MarkPosition(k)
      /\ \A i : marks(i)' = marks(i)
  BY SameMarks
<1>2. \A p : PlacesAre(p)' <=> PlacesAre(p)
  BY <1>1, Zenon DEF PlacesAre
<1>3. \A p, c : MarkCell(p, c)' <=> MarkCell(p, c)
  BY <1>1, Zenon DEF MarkCell
<1>4. \A p, cells : MarksIn(p, cells)' <=> MarksIn(p, cells)
  BY <1>1, <1>3, Zenon DEF MarksIn
<1> QED BY <1>2, <1>4

LEMMA SameSchedule ==
  ASSUME UNCHANGED << input, team, pos >>,
         output'["borders_1"] = output["borders_1"], output'["borders_2"] = output["borders_2"]
  PROVE  Schedule' = Schedule /\ (BordersDone => BordersDone')
<1>1. /\ \A k : MarkPosition(k)' = MarkPosition(k)
      /\ \A i : marks(i)' = marks(i)
      /\ \A i : MarkPositions(i)' = MarkPositions(i)
      /\ Measured => Measured'
      /\ stepsize' = stepsize
  BY SameMarks
<1>2. \A i, c : Border(i, c)' = Border(i, c)
  <2>1. \A c : output'["borders_1"][c] = output["borders_1"][c] /\ output'["borders_2"][c] = output["borders_2"][c]
    OBVIOUS
  <2>2. ASSUME NEW i, NEW c, i = 1 PROVE Border(i, c)' = Border(i, c)
    BY <1>1, <2>1, <2>2 DEF Border
  <2>3. ASSUME NEW i, NEW c, i # 1 PROVE Border(i, c)' = Border(i, c)
    BY <1>1, <2>1, <2>3 DEF Border
  <2> QED BY <2>2, <2>3
<1>3. \A i, k : determine_subsegments(i, k)' = determine_subsegments(i, k)
  BY <1>1, <1>2 DEF determine_subsegments
<1>4. \A i, r : Processor(i, r)' = Processor(i, r)
  BY <1>1 DEF Processor
<1>5. \A i, k : ScheduledPair(i, k)' = ScheduledPair(i, k)
  BY <1>3, <1>4, Zenon DEF ScheduledPair
<1>6. Schedule' = Schedule
  <2>1. \A t : t \in Schedule <=> \E i \in {1, 2}, k \in 0 .. marks(1) + marks(2) : t = ScheduledPair(i, k)
    BY DEF Schedule
  <2>2. \A t : t \in Schedule' <=>
               \E i \in {1, 2}, k \in 0 .. marks(1)' + marks(2)' : t = ScheduledPair(i, k)'
    BY DEF Schedule
  <2>3. marks(1)' = marks(1) /\ marks(2)' = marks(2)
    BY <1>1
  <2>4. \A t : t \in Schedule' <=> t \in Schedule
    BY <1>5, <2>1, <2>2, <2>3
  <2> QED BY <2>4
<1>7. ASSUME BordersDone PROVE BordersDone'
  <2>1. PlacesAre(pos)'
    <3>1. PlacesAre(pos)
      BY <1>7 DEF BordersDone
    <3> QED BY <1>1, <3>1 DEF PlacesAre
  <2>2. Measured'
    BY <1>1, <1>7 DEF BordersDone
  <2>3. Complete(MarkPositions(1), pos[1], output["borders_1"])'
    <3>1. Complete(MarkPositions(1), pos[1], output["borders_1"])
      BY <1>7 DEF BordersDone
    <3> QED BY <1>1, <3>1, Zenon
  <2>4. Complete(MarkPositions(2), pos[2], output["borders_2"])'
    <3>1. Complete(MarkPositions(2), pos[2], output["borders_2"])
      BY <1>7 DEF BordersDone
    <3> QED BY <1>1, <3>1, Zenon
  <2> QED BY <2>1, <2>2, <2>3, <2>4, Zenon DEF BordersDone
<1> QED BY <1>6, <1>7

LEMMA JobArrays ==
  ASSUME Measured, NEW j \in Jobs, j \in { "borders_1", "borders_2" } => PlacesAre(pos)
  PROVE  Sorted(Arrays(j)[1]) /\ Sorted(Arrays(j)[2])
<1>1. CASE j = "mark"
  <2>1. Arrays(j) = << MarkedEntries(1), MarkedEntries(2) >>
    BY <1>1 DEF Arrays
  <2>2. Sorted(MarkedEntries(1)) /\ Sorted(MarkedEntries(2))
    BY MarkArrays
  <2> QED BY <2>1, <2>2
<1>2. CASE j = "borders_1"
  <2>1. Arrays(j) = << MarkPositions(1), pos[1] >>
    BY <1>2 DEF Arrays
  <2>2. Sorted(MarkPositions(1)) /\ Sorted(pos[1])
    BY <1>2, BorderArrays
  <2> QED BY <2>1, <2>2
<1>3. CASE j = "borders_2"
  <2>1. Arrays(j) = << MarkPositions(2), pos[2] >>
    BY <1>3 DEF Arrays
  <2>2. Sorted(MarkPositions(2)) /\ Sorted(pos[2])
    BY <1>3, BorderArrays
  <2> QED BY <2>1, <2>2
<1>4. CASE j = "merge"
  <2>1. Arrays(j) = input
    BY <1>4 DEF Arrays
  <2>2. Sorted(input[1]) /\ Sorted(input[2])
    BY InputFacts
  <2> QED BY <2>1, <2>2
<1> QED BY <1>1, <1>2, <1>3, <1>4 DEF Jobs

LEMMA MergeStarts == MergeInit => MergeInv
<1> SUFFICES ASSUME MergeInit PROVE MergeInv
  OBVIOUS
<1>1. PICK n \in 1 .. MaxLength : \E S \in SUBSET (0 .. n - 1) :
        input = << Ascending(S), Ascending((0 .. n - 1) \ S) >>
  BY DEF MergeInit
<1>s. PICK S \in SUBSET (0 .. n - 1) : input = << Ascending(S), Ascending((0 .. n - 1) \ S) >>
  BY <1>1
<1>2. n \in Nat \ {0}
  BY ParallelMergeAssumption
<1>3. Division(input) /\ Len(input[1]) + Len(input[2]) = n
  <2> DEFINE a == << Ascending(S), Ascending((0 .. n - 1) \ S) >>
  <2>1. Division(a) /\ Len(a[1]) + Len(a[2]) = n
    BY <1>2, InputDivided
  <2>2. input = a
    BY <1>s
  <2> HIDE DEF a
  <2> QED BY <2>1, <2>2
<1>4. Measured
  <2>1. team \in Nat \ {0}
    BY ParallelMergeAssumption DEF MergeInit
  <2> QED BY <1>2, <1>3, <2>1 DEF Measured, length
<1>5. /\ method \in { "clrs", "kruskal", "opt" }
      /\ job = IF method = "opt" THEN "mark" ELSE "merge"
      /\ output = [ j \in Jobs |-> [ c \in 0 .. OutputSize(j) - 1 |-> None ] ]
      /\ tasks = { IF method = "opt" THEN Whole("kruskal", marks(1), marks(2))
                   ELSE Whole(method, Len(input[1]), Len(input[2])) }
  BY DEF MergeInit
<1>6. job \in Jobs
  BY <1>5 DEF Jobs
<1>7. DOMAIN output = Jobs /\ \A j \in Jobs : Empty(output[j], OutputSize(j))
  BY <1>5 DEF Empty
<1>8. Sorted(Arrays(job)[1]) /\ Sorted(Arrays(job)[2])
  BY <1>4, <1>5, <1>6, JobArrays
<1>9. WorkInv(Arrays(job)[1], Arrays(job)[2], output[job], tasks)
  <2>1. CASE method = "opt"
    <3> DEFINE x == MarkedEntries(1)
               y == MarkedEntries(2)
               m == marks(1) + marks(2)
    <3>1. Sorted(x) /\ Sorted(y) /\ Len(x) = marks(1) /\ Len(y) = marks(2)
      BY <1>4, MarkArrays
    <3>2. Empty(output["mark"], m)
      BY <1>5, <1>6, <1>7, <2>1 DEF OutputSize
    <3>3. Arrays(job)[1] = x /\ Arrays(job)[2] = y /\ job = "mark"
      BY <1>5, <2>1 DEF Arrays
    <3>4. tasks = { Whole("kruskal", Len(x), Len(y)) } /\ m = Len(x) + Len(y)
      BY <1>5, <2>1, <3>1
    <3> HIDE DEF x, y, m
    <3>5. WorkInv(x, y, output["mark"], { Whole("kruskal", Len(x), Len(y)) })
      BY <3>1, <3>2, <3>4, WholeStarts
    <3> QED BY <3>3, <3>4, <3>5
  <2>2. CASE method # "opt"
    <3> DEFINE x == input[1]
               y == input[2]
    <3>1. Sorted(x) /\ Sorted(y)
      BY <1>4, InputFacts
    <3>2. Empty(output["merge"], Len(x) + Len(y))
      BY <1>5, <1>6, <1>7, <2>2 DEF OutputSize, length
    <3>3. Arrays(job)[1] = x /\ Arrays(job)[2] = y /\ job = "merge"
      BY <1>5, <2>2 DEF Arrays
    <3>4. tasks = { Whole(method, Len(x), Len(y)) } /\ method \in {"clrs", "kruskal"}
      BY <1>5, <2>2
    <3> HIDE DEF x, y
    <3>5. WorkInv(x, y, output["merge"], { Whole(method, Len(x), Len(y)) })
      BY <3>1, <3>2, <3>4, WholeStarts
    <3> QED BY <3>3, <3>4, <3>5
  <2> QED BY <2>1, <2>2
<1>10. \A t \in tasks : ~ t.kind \in { "from_left", "from_right" }
  BY <1>5 DEF Whole, Piece
<1>11. job = "mark" => /\ Empty(output["borders_1"], marks(1) + marks(2))
                       /\ Empty(output["borders_2"], marks(1) + marks(2))
                       /\ Empty(output["merge"], length)
  <2> SUFFICES ASSUME job = "mark"
               PROVE  /\ Empty(output["borders_1"], marks(1) + marks(2))
                      /\ Empty(output["borders_2"], marks(1) + marks(2))
                      /\ Empty(output["merge"], length)
    OBVIOUS
  <2>1. Jobs = { "mark", "borders_1", "borders_2", "merge" }
    BY <1>6 DEF Jobs
  <2>2. /\ OutputSize("borders_1") = marks(1) + marks(2) /\ OutputSize("borders_2") = marks(1) + marks(2)
        /\ OutputSize("merge") = length
    BY DEF OutputSize
  <2> QED BY <1>7, <2>1, <2>2
<1>12. ~ job \in { "borders_1", "borders_2" } /\ ~ (method = "opt" /\ job = "merge")
  BY <1>5
<1> QED BY <1>4, <1>5, <1>6, <1>7, <1>9, <1>10, <1>11, <1>12, Zenon DEF MergeInv

LEMMA PieceKinds ==
  ASSUME NEW x, NEW y, NEW t, t.xr - t.xl \in Nat, t.yr - t.yl \in Nat
  PROVE  /\ \A u \in kruskal_2(x, y, t).pieces : u.kind \in { "kruskal", "copy" }
         /\ \A u \in merge_parallel(x, y, t).pieces : u.kind = "clrs"
<1>1. \A u \in kruskal_2(x, y, t).pieces : u.kind \in { "kruskal", "copy" }
  <2> DEFINE M == t.xr - t.xl
             N == t.yr - t.yl
  <2>1. \A k : /\ kruskal_part(x, y, t, k).kind = "kruskal"
                /\ \A p : CopyBy(kruskal_part(x, y, t, k), p).kind = "copy"
    BY DEF kruskal_part, Piece, CopyBy
  <2>2. (N = 0) \/ (N > 0 /\ M = 0) \/ (N > 0 /\ M = 1) \/ (N > 0 /\ M > 1)
    OBVIOUS
  <2> DEFINE pieces == kruskal_2(x, y, t).pieces
  <2>3. CASE N = 0
    <3>1. pieces = {}
      BY <2>3 DEF kruskal_2
    <3> QED BY <3>1
  <2>4. CASE N > 0 /\ M = 0
    <3>1. pieces = {}
      BY <2>4 DEF kruskal_2
    <3> QED BY <3>1
  <2>5. CASE N > 0 /\ M = 1
    <3>1. pieces = {}
      BY <2>5 DEF kruskal_2
    <3> QED BY <3>1
  <2>6. CASE N > 0 /\ M > 1
    <3>1. pieces = kruskal_pieces(x, y, t)
      BY <2>6 DEF kruskal_2
    <3> HIDE DEF pieces
    <3>2. \A u \in pieces : u.kind \in { "kruskal", "copy" }
      BY <2>1, <3>1 DEF kruskal_pieces
    <3> QED BY <3>2 DEF pieces
  <2> QED BY <2>2, <2>3, <2>4, <2>5, <2>6
<1>2. \A u \in merge_parallel(x, y, t).pieces : u.kind = "clrs"
  BY DEF merge_parallel, Piece
<1> QED BY <1>1, <1>2

\* A piece of the work is done or divided.
LEMMA PieceStep ==
  ASSUME MergeInv, NEW t \in tasks, NEW writes, NEW pieces,
         DividesInto(Arrays(job)[1], Arrays(job)[2], t, writes, pieces),
         \A u \in pieces : u.kind \in {"from_left", "from_right"} => job = "merge",
         method = "opt" /\ job = "merge" => pieces = {},
         Write(writes), tasks' = (tasks \ {t}) \cup pieces,
         UNCHANGED << method, team, input, job, pos >>
  PROVE  MergeInv'
<1>1. /\ method \in { "clrs", "kruskal", "opt" }
      /\ Measured
      /\ job \in Jobs
      /\ DOMAIN output = Jobs
      /\ WorkInv(Arrays(job)[1], Arrays(job)[2], output[job], tasks)
      /\ \A u \in tasks : u.kind \in { "from_left", "from_right" } => job = "merge"
      /\ job \in { "borders_1", "borders_2" } => PlacesAre(pos) /\ MarksIn(pos, output["merge"])
  BY Zenon DEF MergeInv
<1>2. /\ length' = length
      /\ \A i : marks(i)' = marks(i)
      /\ \A i : MarkPositions(i)' = MarkPositions(i)
      /\ \A i : MarkedEntries(i)' = MarkedEntries(i)
      /\ Measured'
  BY <1>1, SameMarks
<1>3. /\ \A p : PlacesAre(p)' <=> PlacesAre(p)
      /\ \A p, cells : MarksIn(p, cells)' <=> MarksIn(p, cells)
  BY SamePlaces
<1>4. Jobs' = Jobs /\ job' = job /\ method' = method /\ pos' = pos
  BY DEF Jobs
<1>5. /\ DOMAIN output' = Jobs
      /\ output'[job] = Written(output[job], writes)
      /\ \A j \in Jobs : j # job => output'[j] = output[j]
  BY <1>1 DEF Write
<1>6. Sorted(Arrays(job)[1]) /\ Sorted(Arrays(job)[2])
  BY <1>1, JobArrays
<1>7. Arrays(job)' = Arrays(job)
  BY <1>2 DEF Arrays
<1>8. WorkInv(Arrays(job)[1], Arrays(job)[2], output'[job], tasks')
  <2> DEFINE x == Arrays(job)[1]
             y == Arrays(job)[2]
             cells == output[job]
  <2>1. Sorted(x) /\ Sorted(y) /\ WorkInv(x, y, cells, tasks) /\ DividesInto(x, y, t, writes, pieces)
    BY <1>1, <1>6
  <2>2. output'[job] = Written(cells, writes) /\ tasks' = (tasks \ {t}) \cup pieces
    BY <1>5
  <2> HIDE DEF x, y, cells
  <2>3. WorkInv(x, y, Written(cells, writes), (tasks \ {t}) \cup pieces)
    BY <2>1, WorkGoesOn
  <2> QED BY <2>2, <2>3 DEF x, y
<1>9. WorkInv(Arrays(job)[1], Arrays(job)[2], output[job], tasks)'
  BY <1>4, <1>7, <1>8, Zenon
<1>10. \A u \in tasks' : u.kind \in { "from_left", "from_right" } => job = "merge"
  BY <1>1
<1>11. ASSUME job = "mark"
       PROVE  /\ Empty(output["borders_1"], marks(1) + marks(2))'
              /\ Empty(output["borders_2"], marks(1) + marks(2))'
              /\ Empty(output["merge"], length)'
  <2>1. /\ Empty(output["borders_1"], marks(1) + marks(2))
        /\ Empty(output["borders_2"], marks(1) + marks(2))
        /\ Empty(output["merge"], length)
    BY <1>11 DEF MergeInv
  <2>2. Jobs = { "mark", "borders_1", "borders_2", "merge" }
    BY <1>1, <1>11 DEF Jobs
  <2>3. output'["borders_1"] = output["borders_1"] /\ output'["borders_2"] = output["borders_2"] /\ output'["merge"] = output["merge"]
    BY <1>5, <1>11, <2>2
  <2> QED BY <1>2, <2>1, <2>3 DEF Empty
<1>12. ASSUME job \in { "borders_1", "borders_2" }
       PROVE  PlacesAre(pos)' /\ MarksIn(pos, output["merge"])'
  <2>1. PlacesAre(pos) /\ MarksIn(pos, output["merge"])
    BY <1>1, <1>12
  <2>2. "merge" \in Jobs /\ "merge" # job
    BY <1>12 DEF Jobs
  <2>3. output'["merge"] = output["merge"]
    BY <1>5, <2>2
  <2> QED BY <1>3, <1>4, <2>1, <2>3, Zenon
<1>13. ASSUME job = "borders_1" PROVE Empty(output["borders_2"], marks(1) + marks(2))'
  <2>1. Empty(output["borders_2"], marks(1) + marks(2))
    BY <1>13 DEF MergeInv
  <2>2. "borders_2" \in Jobs /\ "borders_2" # job
    BY <1>1, <1>13 DEF Jobs
  <2>3. output'["borders_2"] = output["borders_2"]
    BY <1>5, <2>2
  <2> QED BY <1>2, <2>1, <2>3 DEF Empty
<1>14. ASSUME job = "borders_2" PROVE Complete(MarkPositions(1), pos[1], output["borders_1"])'
  <2>1. Complete(MarkPositions(1), pos[1], output["borders_1"])
    BY <1>14 DEF MergeInv
  <2>2. "borders_1" \in Jobs /\ "borders_1" # job
    BY <1>1, <1>14 DEF Jobs
  <2>3. output'["borders_1"] = output["borders_1"]
    BY <1>5, <2>2
  <2> QED BY <1>2, <1>4, <2>1, <2>3, Zenon
<1>15. ASSUME method = "opt", job = "merge" PROVE tasks' \subseteq Schedule' /\ BordersDone'
  <2>1. tasks \subseteq Schedule /\ BordersDone
    BY <1>15, Zenon DEF MergeInv
  <2>2. Jobs = { "mark", "borders_1", "borders_2", "merge" }
    BY <1>15 DEF Jobs
  <2>3. output'["borders_1"] = output["borders_1"] /\ output'["borders_2"] = output["borders_2"]
    BY <1>5, <1>15, <2>2
  <2>4. Schedule' = Schedule /\ BordersDone'
    BY <2>1, <2>3, SameSchedule
  <2>5. tasks' \subseteq tasks
    BY <1>15
  <2> QED BY <2>1, <2>4, <2>5
<1>16. job' = job /\ method' = method
  BY <1>4
<1> QED
  <2>1. /\ method' \in { "clrs", "kruskal", "opt" }
        /\ job' \in Jobs'
        /\ DOMAIN output' = Jobs'
        /\ \A u \in tasks' : u.kind \in { "from_left", "from_right" } => job' = "merge"
    BY <1>1, <1>4, <1>5, <1>10, Zenon
  <2>2. /\ job' = "mark" => /\ Empty(output["borders_1"], marks(1) + marks(2))'
                            /\ Empty(output["borders_2"], marks(1) + marks(2))'
                            /\ Empty(output["merge"], length)'
        /\ job' \in { "borders_1", "borders_2" } => PlacesAre(pos)' /\ MarksIn(pos, output["merge"])'
        /\ job' = "borders_1" => Empty(output["borders_2"], marks(1) + marks(2))'
        /\ job' = "borders_2" => Complete(MarkPositions(1), pos[1], output["borders_1"])'
        /\ method' = "opt" /\ job' = "merge" => tasks' \subseteq Schedule' /\ BordersDone'
    BY <1>11, <1>12, <1>13, <1>14, <1>15, <1>16, Zenon
  <2> QED BY <1>2, <1>9, <2>1, <2>2, Zenon DEF MergeInv

LEMMA DivideStep ==
  ASSUME MergeInv, NEW t \in tasks, Divide(t)
  PROVE  MergeInv'
<1> DEFINE x == Arrays(job)[1]
           y == Arrays(job)[2]
           call == IF t.kind = "clrs" THEN merge_parallel(x, y, t) ELSE kruskal_2(x, y, t)
           writes == call.writes
           pieces == call.pieces
<1>1. /\ Measured /\ job \in Jobs
      /\ WorkInv(x, y, output[job], tasks)
      /\ job \in { "borders_1", "borders_2" } => PlacesAre(pos)
  BY Zenon DEF MergeInv
<1>2. Sorted(x) /\ Sorted(y)
  BY <1>1, JobArrays
<1>3. t.kind \in {"clrs", "kruskal"}
  BY DEF Divide
<1>4. /\ Write(writes)
      /\ tasks' = (tasks \ {t}) \cup pieces
      /\ UNCHANGED << method, team, input, job, pos >>
  BY Zenon DEF Divide
<1>5. ~ (method = "opt" /\ job = "merge")
  <2> SUFFICES ASSUME method = "opt", job = "merge" PROVE FALSE
    OBVIOUS
  <2>1. tasks \subseteq Schedule /\ BordersDone
    BY Zenon DEF MergeInv
  <2>2. PICK i \in {1, 2}, k \in 0 .. marks(1) + marks(2) : t = ScheduledPair(i, k)
    BY <2>1 DEF Schedule
  <2>3. t.kind = IF i = 1 THEN "from_left" ELSE "from_right"
    BY <2>1, <2>2, ScheduledFacts
  <2> QED BY <1>3, <2>3
<1>6. PieceOk(x, y, t)
  BY <1>1, Zenon DEF WorkInv
<1>7. \A u \in pieces : ~ u.kind \in {"from_left", "from_right"}
  <2>0. t.xr - t.xl \in Nat /\ t.yr - t.yl \in Nat
    <3> HIDE DEF x, y
    <3> QED BY <1>2, <1>6, PieceNumbers, Zenon
  <2>1. CASE t.kind = "clrs"
    <3>1. pieces = merge_parallel(x, y, t).pieces
      BY <2>1
    <3>2. \A u \in pieces : u.kind = "clrs"
      BY <2>0, <3>1, PieceKinds
    <3> HIDE DEF pieces
    <3> QED BY <3>2
  <2>2. CASE t.kind # "clrs"
    <3>1. pieces = kruskal_2(x, y, t).pieces
      BY <2>2
    <3>2. \A u \in pieces : u.kind \in { "kruskal", "copy" }
      BY <2>0, <3>1, PieceKinds
    <3> HIDE DEF pieces
    <3> QED BY <3>2
  <2> QED BY <2>1, <2>2
<1> HIDE DEF x, y
<1>8. DividesInto(x, y, t, writes, pieces)
  <2>1. CASE t.kind = "clrs"
    BY <1>2, <1>6, <2>1, ClrsDivides
  <2>2. CASE t.kind # "clrs"
    <3>1. team \in Nat \ {0}
      BY <1>1 DEF Measured
    <3> QED BY <1>2, <1>3, <1>6, <2>2, <3>1, KruskalDivides
  <2> QED BY <2>1, <2>2
<1> HIDE DEF writes, pieces, call
<1>9. DividesInto(Arrays(job)[1], Arrays(job)[2], t, writes, pieces)
  BY <1>8 DEF x, y
<1> QED BY <1>4, <1>5, <1>7, <1>9, PieceStep

LEMMA CopyStretchStep ==
  ASSUME MergeInv, NEW t \in tasks, CopyStretch(t)
  PROVE  MergeInv'
<1> DEFINE x == Arrays(job)[1]
           y == Arrays(job)[2]
           writes == Copy(1, t.xl, t.xr, t.out)
<1>1. /\ Measured /\ job \in Jobs
      /\ WorkInv(x, y, output[job], tasks)
      /\ job \in { "borders_1", "borders_2" } => PlacesAre(pos)
  BY Zenon DEF MergeInv
<1>2. Sorted(x) /\ Sorted(y)
  BY <1>1, JobArrays
<1>3. /\ t.kind = "copy" /\ Write(writes) /\ tasks' = (tasks \ {t}) \cup {}
      /\ UNCHANGED << method, team, input, job, pos >>
  BY DEF CopyStretch
<1>4. PieceOk(x, y, t)
  BY <1>1, Zenon DEF WorkInv
<1>5. DividesInto(x, y, t, writes, {})
  BY <1>2, <1>3, <1>4, CopyDivides, Zenon
<1> HIDE DEF writes
<1> QED BY <1>3, <1>5, PieceStep

LEMMA MergePairStep ==
  ASSUME MergeInv, NEW t \in tasks, MergePair(t)
  PROVE  MergeInv'
<1> DEFINE x == input[1]
           y == input[2]
           writes == IF t.kind = "from_left" THEN merge_from_left(x, y, t, t.xr - t.xl)
                                             ELSE merge_from_right(x, y, t, t.yr - t.yl)
<1>1. t.kind \in {"from_left", "from_right"}
  BY DEF MergePair
<1>2. /\ Write(writes)
      /\ tasks' = tasks \ {t}
      /\ UNCHANGED << method, team, input, job, pos >>
  BY Zenon DEF MergePair
<1>3. /\ Measured /\ job = "merge"
      /\ WorkInv(Arrays(job)[1], Arrays(job)[2], output[job], tasks)
  BY <1>1, Zenon DEF MergeInv
<1>4. Arrays(job)[1] = x /\ Arrays(job)[2] = y
  BY <1>3 DEF Arrays
<1>5. Sorted(x) /\ Sorted(y)
  BY <1>3, InputFacts
<1>6. PieceOk(x, y, t)
  BY <1>3, <1>4, Zenon DEF WorkInv
<1> HIDE DEF x, y
<1>7. /\ t.xl \in Nat /\ t.xr \in Nat /\ t.yl \in Nat /\ t.yr \in Nat
      /\ t.xl <= t.xr /\ t.yl <= t.yr /\ t.out = t.xl + t.yl
      /\ Size(t) \in Nat /\ t.out + Size(t) = t.xr + t.yr
  BY <1>5, <1>6, PieceFacts, PieceNumbers, Zenon
<1>8. DividesInto(x, y, t, writes, {})
  <2>1. CASE t.kind = "from_left"
    <3> DEFINE steps == t.xr - t.xl
    <3>1. steps \in 0 .. Size(t)
      BY <1>7 DEF Size
    <3>2. writes = merge_from_left(x, y, t, steps)
      BY <2>1
    <3>3. Cells(t) = t.out .. t.out + steps - 1
      BY <2>1 DEF Cells
    <3>4. t.out + steps - 1 = (t.out + steps) - 1
      BY <1>7
    <3> HIDE DEF steps, writes
    <3>5. Fills(x, y, writes, t.out, t.out + steps)
      BY <1>5, <1>6, <3>1, <3>2, MergeFromLeftFills
    <3> QED BY <2>1, <3>3, <3>4, <3>5, DoneDivides
  <2>2. CASE t.kind = "from_right"
    <3> DEFINE steps == t.yr - t.yl
               lo == t.out + Size(t) - steps
               hi == t.out + Size(t)
    <3>1. steps \in 0 .. Size(t)
      BY <1>7 DEF Size
    <3>2. writes = merge_from_right(x, y, t, steps)
      BY <2>2
    <3>3. Cells(t) = t.out + (t.xr - t.xl) .. t.out + Size(t) - 1
      BY <2>2 DEF Cells
    <3>4. t.out + Size(t) - 1 = hi - 1
      BY <1>7
    <3>5. t.out + (t.xr - t.xl) = lo
      BY <1>7 DEF Size
    <3>6. Fills(x, y, merge_from_right(x, y, t, steps), t.out + Size(t) - steps, t.out + Size(t))
      <4> HIDE DEF steps
      <4> QED BY <1>5, <1>6, <3>1, MergeFromRightFills
    <3>7. Fills(x, y, writes, lo, hi)
      BY <3>2, <3>6, Zenon
    <3>8. Cells(t) = lo .. hi - 1
      BY <3>3, <3>4, <3>5, Zenon
    <3> HIDE DEF lo, hi, writes, steps
    <3> QED BY <2>2, <3>7, <3>8, DoneDivides
  <2> QED BY <1>1, <2>1, <2>2
<1> HIDE DEF writes
<1>9. DividesInto(Arrays(job)[1], Arrays(job)[2], t, writes, {})
  BY <1>4, <1>8
<1>10. tasks' = (tasks \ {t}) \cup {}
  BY <1>2
<1> QED BY <1>2, <1>9, <1>10, PieceStep

LEMMA SearchMarkedStep ==
  ASSUME MergeInv, SearchMarked
  PROVE  MergeInv'
<1> DEFINE p == << PlacesOfMarks(2), PlacesOfMarks(1) >>
           m == marks(1) + marks(2)
           position(c) == MarkPosition(output["mark"][c][2])
           writes == { << position(c) + pos_in_other(c), output["mark"][c][1], position(c) >> :
                         c \in DOMAIN output["mark"] }
<1>1. /\ job = "mark" /\ tasks = {}
      /\ pos' = p
      /\ output' = [ output EXCEPT !["merge"] = Written(@, writes) ]
      /\ job' = "borders_1"
      /\ tasks' = { Whole("kruskal", marks(1), marks(2)) }
      /\ UNCHANGED << method, team, input >>
  BY Zenon DEF SearchMarked
<1>2. /\ method \in { "clrs", "kruskal", "opt" }
      /\ Measured /\ job \in Jobs
      /\ DOMAIN output = Jobs
      /\ WorkInv(Arrays(job)[1], Arrays(job)[2], output[job], tasks)
      /\ Empty(output["borders_1"], m)
      /\ Empty(output["borders_2"], m)
      /\ Empty(output["merge"], length)
  BY <1>1, Zenon DEF MergeInv
<1>3. Jobs = { "mark", "borders_1", "borders_2", "merge" } /\ Jobs' = Jobs
  BY <1>1, <1>2 DEF Jobs
<1>4. /\ length' = length
      /\ marks(1)' = marks(1) /\ marks(2)' = marks(2)
      /\ MarkPositions(1)' = MarkPositions(1)
      /\ Measured'
  BY <1>1, <1>2, SameMarks
<1>5. /\ \A q : PlacesAre(q)' <=> PlacesAre(q)
      /\ \A q, cells : MarksIn(q, cells)' <=> MarksIn(q, cells)
  BY <1>1, SamePlaces
<1>6. MarksDone
  <2> DEFINE x == MarkedEntries(1)
             y == MarkedEntries(2)
             marked == output["mark"]
  <2>1. Arrays(job)[1] = x /\ Arrays(job)[2] = y
    BY <1>1 DEF Arrays
  <2>2. WorkInv(x, y, marked, {})
    BY <1>1, <1>2, <2>1
  <2>3. Sorted(x) /\ Sorted(y) /\ Len(x) = marks(1) /\ Len(y) = marks(2)
    BY <1>2, MarkArrays
  <2> HIDE DEF x, y, marked
  <2>4. Complete(x, y, marked)
    BY <2>2, WorkDone
  <2>5. marked = [ c \in 0 .. Len(x) + Len(y) - 1 |-> marked[c] ]
    BY <2>2, Zenon DEF WorkInv
  <2>6. DOMAIN marked = 0 .. Len(x) + Len(y) - 1
    <3> DEFINE f == [ c \in 0 .. Len(x) + Len(y) - 1 |-> marked[c] ]
    <3>1. DOMAIN f = 0 .. Len(x) + Len(y) - 1
      OBVIOUS
    <3>2. marked = f
      BY <2>5
    <3> HIDE DEF f
    <3> QED BY <3>1, <3>2, Zenon
  <2>7. DOMAIN marked = 0 .. marks(1) + marks(2) - 1
    BY <2>3, <2>6, Zenon
  <2> QED BY <1>2, <2>4, <2>7, Zenon DEF MarksDone, x, y, marked
<1>7. PlacesAre(p)
  BY <1>6, MarksPlaced
<1>8. MarksIn(p, Written(output["merge"], writes))
  <2> DEFINE cells == output["merge"]
  <2>1. cells = [ c \in 0 .. length - 1 |-> None ]
    BY <1>2 DEF Empty
  <2> HIDE DEF cells
  <2>2. MarksIn(p, Written(cells, writes))
    BY <1>6, <2>1, MarksWritten
  <2> QED BY <2>2 DEF cells
<1> HIDE DEF p, writes
<1>9. /\ output'["merge"] = Written(output["merge"], writes)
      /\ output'["borders_1"] = output["borders_1"]
      /\ output'["borders_2"] = output["borders_2"]
      /\ DOMAIN output' = Jobs
  BY <1>1, <1>2, <1>3
<1>10. PlacesAre(pos)' /\ MarksIn(pos, output["merge"])'
  BY <1>1, <1>5, <1>7, <1>8, <1>9, Zenon
<1>11. WorkInv(Arrays(job)[1], Arrays(job)[2], output[job], tasks)'
  <2> DEFINE x == MarkPositions(1)
             y == p[1]
             cells == output["borders_1"]
  <2>1. Sorted(x) /\ Sorted(y) /\ Len(x) = marks(1) /\ Len(y) = marks(2)
    BY <1>2, <1>7, BorderArrays
  <2>2. Empty(cells, m) /\ m = Len(x) + Len(y)
    BY <1>2, <2>1
  <2>3. tasks' = { Whole("kruskal", Len(x), Len(y)) }
    BY <1>1, <2>1
  <2>4. Arrays(job)'[1] = x /\ Arrays(job)'[2] = y /\ output'[job'] = cells
    BY <1>1, <1>4, <1>9 DEF Arrays
  <2> HIDE DEF x, y, cells, m
  <2>5. WorkInv(x, y, cells, { Whole("kruskal", Len(x), Len(y)) })
    BY <2>1, <2>2, WholeStarts
  <2> QED BY <2>3, <2>4, <2>5, Zenon
<1>12. \A t \in tasks' : ~ t.kind \in { "from_left", "from_right" }
  BY <1>1 DEF Whole, Piece
<1>13. Empty(output["borders_2"], marks(1) + marks(2))'
  BY <1>2, <1>4, <1>9 DEF Empty
<1> QED
  <2>1. /\ method' \in { "clrs", "kruskal", "opt" }
        /\ job' \in Jobs' /\ DOMAIN output' = Jobs'
    BY <1>1, <1>2, <1>3, <1>9
  <2>2. job' # "mark" /\ job' # "borders_2" /\ job' # "merge"
    BY <1>1
  <2> QED BY <1>4, <1>10, <1>11, <1>12, <1>13, <2>1, <2>2, Zenon DEF MergeInv

LEMMA MergeSecondBordersStep ==
  ASSUME MergeInv, MergeSecondBorders
  PROVE  MergeInv'
<1> DEFINE m == marks(1) + marks(2)
<1>1. /\ job = "borders_1" /\ tasks = {}
      /\ job' = "borders_2"
      /\ tasks' = { Whole("kruskal", marks(2), marks(1)) }
      /\ UNCHANGED << method, team, input, output, pos >>
  BY Zenon DEF MergeSecondBorders
<1>2. /\ method \in { "clrs", "kruskal", "opt" }
      /\ Measured /\ job \in Jobs
      /\ DOMAIN output = Jobs
      /\ WorkInv(Arrays(job)[1], Arrays(job)[2], output[job], tasks)
      /\ PlacesAre(pos) /\ MarksIn(pos, output["merge"])
      /\ Empty(output["borders_2"], m)
  BY <1>1, Zenon DEF MergeInv
<1>3. Jobs = { "mark", "borders_1", "borders_2", "merge" } /\ Jobs' = Jobs
  BY <1>1, <1>2 DEF Jobs
<1>4. /\ MarkPositions(1)' = MarkPositions(1) /\ MarkPositions(2)' = MarkPositions(2)
      /\ Measured'
  BY <1>1, <1>2, SameMarks
<1>5. /\ \A q : PlacesAre(q)' <=> PlacesAre(q)
      /\ \A q, cells : MarksIn(q, cells)' <=> MarksIn(q, cells)
  BY <1>1, SamePlaces
<1>6. PlacesAre(pos)' /\ MarksIn(pos, output["merge"])'
  BY <1>1, <1>2, <1>5, Zenon
<1>7. /\ marks(1) \in Nat /\ marks(2) \in Nat
      /\ Sorted(MarkPositions(2)) /\ Len(MarkPositions(2)) = marks(2)
      /\ Sorted(pos[2]) /\ Len(pos[2]) = marks(1)
  BY <1>2, BorderArrays
<1>8. Complete(MarkPositions(1), pos[1], output["borders_1"])
  <2>1. Arrays(job)[1] = MarkPositions(1) /\ Arrays(job)[2] = pos[1]
    BY <1>1 DEF Arrays
  <2>2. WorkInv(MarkPositions(1), pos[1], output["borders_1"], {})
    BY <1>1, <1>2, <2>1
  <2> QED BY <2>2, WorkDone
<1>9. Complete(MarkPositions(1), pos[1], output["borders_1"])'
  BY <1>1, <1>4, <1>8, Zenon
<1>10. WorkInv(Arrays(job)[1], Arrays(job)[2], output[job], tasks)'
  <2> DEFINE x == MarkPositions(2)
             y == pos[2]
             cells == output["borders_2"]
  <2>1. Sorted(x) /\ Sorted(y) /\ Len(x) = marks(2) /\ Len(y) = marks(1)
    BY <1>7
  <2>2. Empty(cells, m) /\ m = Len(x) + Len(y)
    BY <1>2, <1>7, <2>1
  <2>3. tasks' = { Whole("kruskal", Len(x), Len(y)) }
    BY <1>1, <2>1
  <2>4. Arrays(job)'[1] = x /\ Arrays(job)'[2] = y /\ output'[job'] = cells
    BY <1>1, <1>4 DEF Arrays
  <2> HIDE DEF x, y, cells, m
  <2>5. WorkInv(x, y, cells, { Whole("kruskal", Len(x), Len(y)) })
    BY <2>1, <2>2, WholeStarts
  <2> QED BY <2>3, <2>4, <2>5, Zenon
<1>11. \A t \in tasks' : ~ t.kind \in { "from_left", "from_right" }
  BY <1>1 DEF Whole, Piece
<1> QED
  <2>1. /\ method' \in { "clrs", "kruskal", "opt" }
        /\ job' \in Jobs' /\ DOMAIN output' = Jobs'
    BY <1>1, <1>2, <1>3
  <2>2. job' # "mark" /\ job' # "borders_1" /\ job' # "merge"
    BY <1>1
  <2> QED BY <1>4, <1>6, <1>9, <1>10, <1>11, <2>1, <2>2, Zenon DEF MergeInv

LEMMA ScheduleSubsegmentsStep ==
  ASSUME MergeInv, ScheduleSubsegments
  PROVE  MergeInv'
<1>1. /\ job = "borders_2" /\ tasks = {}
      /\ job' = "merge"
      /\ tasks' = Schedule
      /\ UNCHANGED << method, team, input, output, pos >>
  BY Zenon DEF ScheduleSubsegments
<1>2. /\ method \in { "clrs", "kruskal", "opt" }
      /\ Measured /\ job \in Jobs
      /\ DOMAIN output = Jobs
      /\ WorkInv(Arrays(job)[1], Arrays(job)[2], output[job], tasks)
      /\ PlacesAre(pos) /\ MarksIn(pos, output["merge"])
      /\ Complete(MarkPositions(1), pos[1], output["borders_1"])
  BY <1>1, Zenon DEF MergeInv
<1>3. Jobs = { "mark", "borders_1", "borders_2", "merge" } /\ Jobs' = Jobs
  BY <1>1, <1>2 DEF Jobs
<1>4. Measured'
  BY <1>1, <1>2, SameMarks
<1>5. BordersDone
  <2>1. Arrays(job)[1] = MarkPositions(2) /\ Arrays(job)[2] = pos[2]
    BY <1>1 DEF Arrays
  <2>2. WorkInv(MarkPositions(2), pos[2], output["borders_2"], {})
    BY <1>1, <1>2, <2>1
  <2>3. Complete(MarkPositions(2), pos[2], output["borders_2"])
    BY <2>2, WorkDone
  <2> QED BY <1>2, <2>3 DEF BordersDone
<1>6. Schedule' = Schedule /\ BordersDone'
  <2>1. output'["borders_1"] = output["borders_1"] /\ output'["borders_2"] = output["borders_2"]
    BY <1>1
  <2> QED BY <1>1, <1>5, <2>1, SameSchedule
<1>7. WorkInv(Arrays(job)[1], Arrays(job)[2], output[job], tasks)'
  <2>1. WorkInv(input[1], input[2], output["merge"], Schedule)
    BY <1>2, <1>5, ScheduleWork
  <2>2. Arrays(job)' = input /\ output'[job'] = output["merge"]
    BY <1>1 DEF Arrays
  <2> QED BY <1>1, <2>1, <2>2, Zenon
<1> QED
  <2>1. /\ method' \in { "clrs", "kruskal", "opt" }
        /\ job' \in Jobs' /\ DOMAIN output' = Jobs'
    BY <1>1, <1>2, <1>3
  <2>2. job' # "mark" /\ job' # "borders_1" /\ job' # "borders_2" /\ ~ job' \in {"borders_1", "borders_2"}
    BY <1>1
  <2>3. tasks' \subseteq Schedule'
    BY <1>1, <1>6
  <2> QED BY <1>1, <1>4, <1>6, <1>7, <2>1, <2>2, <2>3, Zenon DEF MergeInv

LEMMA MergeKeeps == MergeInv /\ [MergeNext]_mergeVars => MergeInv'
<1> SUFFICES ASSUME MergeInv, [MergeNext]_mergeVars PROVE MergeInv'
  OBVIOUS
<1>1. ASSUME NEW t \in tasks, Divide(t) PROVE MergeInv'
  BY <1>1, DivideStep
<1>2. ASSUME NEW t \in tasks, MergePair(t) PROVE MergeInv'
  BY <1>2, MergePairStep
<1>c. ASSUME NEW t \in tasks, CopyStretch(t) PROVE MergeInv'
  BY <1>c, CopyStretchStep
<1>3. CASE SearchMarked
  BY <1>3, SearchMarkedStep
<1>4. CASE MergeSecondBorders
  BY <1>4, MergeSecondBordersStep
<1>5. CASE ScheduleSubsegments
  BY <1>5, ScheduleSubsegmentsStep
<1>6. CASE UNCHANGED mergeVars
  <2>1. UNCHANGED << method, team, input, job, output, pos, tasks >>
    BY <1>6 DEF mergeVars
  <2>2. /\ length' = length
        /\ marks(1)' = marks(1) /\ marks(2)' = marks(2)
        /\ \A i : MarkPositions(i)' = MarkPositions(i)
        /\ \A i : MarkedEntries(i)' = MarkedEntries(i)
        /\ Measured => Measured'
    BY <2>1, SameMarks
  <2>3. /\ \A q : PlacesAre(q)' <=> PlacesAre(q)
        /\ \A q, cells : MarksIn(q, cells)' <=> MarksIn(q, cells)
    BY <2>1, SamePlaces
  <2>4. Schedule' = Schedule /\ (BordersDone => BordersDone')
    BY <2>1, SameSchedule
  <2>5. Jobs' = Jobs
    BY <2>1 DEF Jobs
  <2>6. Arrays(job)' = Arrays(job)
    BY <2>1, <2>2 DEF Arrays
  <2>7. \A cells, n : Empty(cells, n)' <=> Empty(cells, n)
    BY DEF Empty
  <2>8. PlacesAre(pos)' <=> PlacesAre(pos)
    BY <2>1, <2>3, Zenon
  <2>9. MarksIn(pos, output["merge"])' <=> MarksIn(pos, output["merge"])
    BY <2>1, <2>3, Zenon
  <2>10. WorkInv(Arrays(job)[1], Arrays(job)[2], output[job], tasks)' <=> WorkInv(Arrays(job)[1], Arrays(job)[2], output[job], tasks)
    BY <2>1, <2>6, Zenon
  <2>11. Complete(MarkPositions(1), pos[1], output["borders_1"])' <=> Complete(MarkPositions(1), pos[1], output["borders_1"])
    BY <2>1, <2>2, Zenon
  <2>12. /\ Empty(output["borders_1"], marks(1) + marks(2))' <=> Empty(output["borders_1"], marks(1) + marks(2))
         /\ Empty(output["borders_2"], marks(1) + marks(2))' <=> Empty(output["borders_2"], marks(1) + marks(2))
         /\ Empty(output["merge"], length)' <=> Empty(output["merge"], length)
    BY <2>1, <2>2 DEF Empty
  <2> QED BY <2>1, <2>2, <2>4, <2>5, <2>8, <2>9, <2>10, <2>11, <2>12, Zenon DEF MergeInv
<1> QED BY <1>1, <1>2, <1>3, <1>4, <1>5, <1>6, <1>c DEF MergeNext

\* The merges keep the invariant, in whatever order the threads take the pieces.
THEOREM MergeInvariance == MergeSpec => []MergeInv
<1>1. MergeInit => MergeInv
  BY MergeStarts
<1>2. MergeInv /\ [MergeNext]_mergeVars => MergeInv'
  BY MergeKeeps
<1> QED BY <1>1, <1>2, PTL DEF MergeSpec

\* The cells hold the merged arrays at the end.
THEOREM MergesCorrect == MergeSpec => []ResultIsMerge
<1>1. MergeInv => ResultIsMerge
  <2> SUFFICES ASSUME MergeInv, job = "merge", tasks = {},
                      NEW c \in DOMAIN output["merge"]
               PROVE  LET e == output["merge"][c] IN e # None /\ At(input[e[1]], e[2]) = c
    BY DEF ResultIsMerge
  <2> DEFINE x == input[1]
             y == input[2]
             cells == output["merge"]
             D == 0 .. Len(x) + Len(y) - 1
             w == cells[c]
  <2>1. Division(input) /\ WorkInv(Arrays(job)[1], Arrays(job)[2], output[job], tasks)
    BY Zenon DEF MergeInv, Measured
  <2>2. WorkInv(x, y, cells, {})
    BY <2>1 DEF Arrays
  <2>3. Complete(x, y, cells)
    BY <2>2, WorkDone
  <2>4. \A d \in D : cells[d] \in {1, 2} \X Nat /\ At(input[cells[d][1]], cells[d][2]) = d
    <3>1. Complete(input[1], input[2], cells)
      BY <2>3
    <3> HIDE DEF cells
    <3> QED BY <2>1, <3>1, MergedInOrder
  <2>5. c \in D
    <3>1. cells = [ d \in D |-> cells[d] ]
      BY <2>2, Zenon DEF WorkInv
    <3> DEFINE f == [ d \in D |-> cells[d] ]
    <3>2. DOMAIN f = D
      OBVIOUS
    <3>3. cells = f /\ c \in DOMAIN cells
      BY <3>1
    <3> HIDE DEF f, cells
    <3> QED BY <3>2, <3>3, Zenon
  <2>6. w \in {1, 2} \X Nat /\ At(input[w[1]], w[2]) = c
    BY <2>4, <2>5
  <2> HIDE DEF w
  <2>7. w # None
    <3>1. w[1] \in {1, 2}
      BY <2>6
    <3>2. None[1] = 0
      BY DEF None
    <3> QED BY <3>1, <3>2
  <2> QED BY <2>6, <2>7 DEF w
<1> QED BY <1>1, MergeInvariance, PTL

\* Threads write different cells, each of them once, but for the copies of a
\* stretch that every thread of a team makes: they store the same entries.
THEOREM MergeOnlyCopiesMeet == MergeSpec => []OnlyCopiesMeet
<1>1. MergeInv => OnlyCopiesMeet
  <2> SUFFICES ASSUME MergeInv PROVE OnlyCopiesMeet
    OBVIOUS
  <2> DEFINE x == Arrays(job)[1]
             y == Arrays(job)[2]
             cells == output[job]
             D == 0 .. Len(x) + Len(y) - 1
  <2>1. /\ Measured /\ job \in Jobs
        /\ job \in { "borders_1", "borders_2" } => PlacesAre(pos)
        /\ WorkInv(x, y, cells, tasks)
    BY Zenon DEF MergeInv
  <2>2. Sorted(x) /\ Sorted(y)
    BY <2>1, JobArrays
  <2> HIDE DEF x, y, cells
  <2>3. cells = [ c \in D |-> cells[c] ]
    BY <2>1, Zenon DEF WorkInv
  <2>4. DOMAIN cells = D
    <3> DEFINE f == [ c \in D |-> cells[c] ]
    <3>1. DOMAIN f = D
      OBVIOUS
    <3>2. cells = f
      BY <2>3
    <3> HIDE DEF f
    <3> QED BY <3>1, <3>2, Zenon
  <2>5. \A t \in tasks : PieceOk(x, y, t) /\ Unwritten(cells, t)
    BY <2>1, Zenon DEF WorkInv
  <2>6. \A t \in tasks : Cells(t) \subseteq DOMAIN cells
    BY <2>2, <2>4, <2>5, CellsRange
  <2>7. \A t \in tasks : \A u \in tasks \ {t} : Cells(t) \cap Cells(u) = {} \/ SameCopy(t, u)
    BY <2>1 DEF WorkInv, Apart
  <2> QED BY <2>5, <2>6, <2>7, Zenon DEF OnlyCopiesMeet, Unwritten, cells
<1> QED BY <1>1, MergeInvariance, PTL

-----------------------------------------------------------------------------
(* Shares of the work *)

\* The subsegments of an array are in order.
LEMMA SegmentsAscend ==
  ASSUME BordersDone, NEW i \in {1, 2},
         NEW k \in 0 .. marks(1) + marks(2), NEW l \in 0 .. marks(1) + marks(2), k < l
  PROVE  SegHi(i, k) <= SegLo(i, l)
<1> DEFINE m == marks(1) + marks(2)
<1>0. Measured /\ marks(1) \in Nat /\ marks(2) \in Nat
  BY MarksFacts DEF BordersDone
<1>1. m \in Nat
  BY <1>0
<1>2. 0 .. m - 1 = 0 .. marks(1) + marks(2) - 1
  BY <1>0
<1>3. \A c \in 0 .. m - 1 : SegHi(i, c) = Border(i, c)[1] /\ SegLo(i, c + 1) = Border(i, c)[1] + Border(i, c)[2]
  BY <1>2, SegmentEnds
<1>4. \A c \in 0 .. m - 1 : Border(1, c)[2] \in {0, 1} /\ Border(2, c)[2] = 1 - Border(1, c)[2]
  BY <1>2, BorderPair
<1>5. \A c, d \in 0 .. m - 1 : c < d => Border(i, c)[1] + Border(i, c)[2] <= Border(i, d)[1]
  BY <1>2, BordersAscend
<1>6. \A c \in 0 .. m : SegLo(i, c) \in Nat /\ SegHi(i, c) \in Nat
  <2>1. Len(input[1]) \in Nat /\ Len(input[2]) \in Nat
    BY <1>0, InputFacts
  <2>2. ASSUME NEW c \in 0 .. m PROVE SegLo(i, c) \in Nat /\ SegHi(i, c) \in Nat
    <3>1. /\ Cut(input[1], input[2], SegLo(1, c), SegLo(2, c))
          /\ Cut(input[1], input[2], SegHi(1, c), SegHi(2, c))
      BY SegmentCuts
    <3>2. SegLo(1, c) \in Nat /\ SegLo(2, c) \in Nat /\ SegHi(1, c) \in Nat /\ SegHi(2, c) \in Nat
      BY <2>1, <3>1 DEF Cut
    <3> QED BY <3>2
  <2> QED BY <2>2
<1>7. k \in 0 .. m /\ l \in 0 .. m
  OBVIOUS
<1> HIDE DEF m
<1> DEFINE d == l - 1
<1>8. d \in 0 .. m - 1 /\ d + 1 = l /\ k \in 0 .. m - 1 /\ (k = d \/ k < d) /\ d \in 0 .. m
  BY <1>1, <1>7
<1> HIDE DEF d
<1> DEFINE r == Border(i, d)[2]
           b == Border(i, d)[1]
           a == Border(i, k)[1]
           s == Border(i, k)[2]
<1>9. r \in {0, 1} /\ s \in {0, 1}
  <2>1. ASSUME NEW c \in 0 .. m - 1 PROVE Border(i, c)[2] \in {0, 1}
    <3>1. CASE i = 1
      BY <1>4, <3>1
    <3>2. CASE i = 2
      BY <1>4, <3>2
    <3> QED BY <3>1, <3>2
  <2> QED BY <1>8, <2>1
<1>10. SegHi(i, k) = a /\ SegLo(i, l) = b + r /\ SegHi(i, d) = b
  BY <1>3, <1>8
<1>11. a \in Nat /\ b \in Nat
  BY <1>6, <1>7, <1>8, <1>10
<1>12. a <= b
  <2>1. CASE k = d
    BY <1>11, <2>1
  <2>2. CASE k < d
    <3>1. a + s <= b
      BY <1>5, <1>8, <2>2
    <3> HIDE DEF a, b, s, r
    <3> QED BY <1>9, <1>11, <3>1
  <2> QED BY <1>8, <2>1, <2>2
<1> HIDE DEF a, b, s, r
<1> QED BY <1>9, <1>10, <1>11, <1>12

LEMMA SegmentTypes ==
  ASSUME BordersDone, NEW i \in {1, 2}, NEW k \in 0 .. marks(1) + marks(2)
  PROVE  /\ SegLo(i, k) \in 0 .. Len(input[i]) /\ SegHi(i, k) \in 0 .. Len(input[i])
         /\ SegLo(i, k) <= SegHi(i, k) /\ Len(input[i]) \in Nat
<1>0. Measured
  BY DEF BordersDone
<1>1. Len(input[1]) \in Nat /\ Len(input[2]) \in Nat
  BY <1>0, InputFacts
<1>2. /\ Cut(input[1], input[2], SegLo(1, k), SegLo(2, k))
      /\ Cut(input[1], input[2], SegHi(1, k), SegHi(2, k))
      /\ SegLo(1, k) <= SegHi(1, k) /\ SegLo(2, k) <= SegHi(2, k)
  BY SegmentCuts
<1>3. /\ SegLo(1, k) \in 0 .. Len(input[1]) /\ SegHi(1, k) \in 0 .. Len(input[1])
      /\ SegLo(2, k) \in 0 .. Len(input[2]) /\ SegHi(2, k) \in 0 .. Len(input[2])
  BY <1>2 DEF Cut
<1>4. CASE i = 1
  BY <1>1, <1>2, <1>3, <1>4
<1>5. CASE i = 2
  BY <1>1, <1>2, <1>3, <1>5
<1> QED BY <1>4, <1>5

\* A mark ends one subsegment of its array and the next begins behind it.
LEMMA MarkEnds ==
  ASSUME BordersDone, NEW i \in {1, 2}, NEW j \in 0 .. marks(i) - 1
  PROVE  \E d \in 0 .. marks(1) + marks(2) - 1 :
           SegHi(i, d) = MarkPosition(j) /\ SegLo(i, d + 1) = MarkPosition(j) + 1
<1> DEFINE x == MarkPositions(i)
           y == pos[i]
           cells == output[IF i = 1 THEN "borders_1" ELSE "borders_2"]
<1>0. Measured /\ PlacesAre(pos)
  BY DEF BordersDone
<1>1. /\ marks(1) \in Nat /\ marks(2) \in Nat
      /\ Sorted(MarkPositions(1)) /\ Len(MarkPositions(1)) = marks(1)
      /\ Sorted(MarkPositions(2)) /\ Len(MarkPositions(2)) = marks(2)
      /\ Sorted(pos[1]) /\ Len(pos[1]) = marks(2)
      /\ Sorted(pos[2]) /\ Len(pos[2]) = marks(1)
  BY <1>0, BorderArrays
<1>2. Sorted(x) /\ Sorted(y) /\ Len(x) = marks(i) /\ Len(x) + Len(y) = marks(1) + marks(2) /\ Len(x) \in Nat /\ Len(y) \in Nat
  BY <1>1
<1>3. Complete(x, y, cells)
  <2>1. CASE i = 1
    BY <2>1 DEF BordersDone
  <2>2. CASE i = 2
    BY <2>2 DEF BordersDone
  <2> QED BY <2>1, <2>2
<1>4. \A c : Border(i, c) = IF cells[c][1] = 1 THEN << MarkPosition(cells[c][2]), 1 >> ELSE << At(y, cells[c][2]), 0 >>
  BY DEF Border
<1> HIDE DEF x, y, cells
<1>5. PICK d \in 0 .. Len(x) + Len(y) - 1 : cells[d] = << 1, j >>
  <2>1. Sorted(x) /\ Sorted(y) /\ Complete(x, y, cells)
    BY <1>2, <1>3
  <2>2. \A l \in 0 .. Len(x) - 1 : \E d \in 0 .. Len(x) + Len(y) - 1 : cells[d] = << 1, l >>
    BY <2>1, Occurs, ZenonT(40)
  <2>3. j \in 0 .. Len(x) - 1
    BY <1>2
  <2> QED BY <2>2, <2>3
<1>6. d \in 0 .. marks(1) + marks(2) - 1
  <2> DEFINE l == Len(x)
             n == Len(y)
             a == marks(1)
             b == marks(2)
  <2>1. l + n = a + b /\ l \in Int /\ n \in Int /\ a \in Int /\ b \in Int /\ d \in 0 .. l + n - 1
    BY <1>1, <1>2
  <2> HIDE DEF l, n, a, b
  <2>2. a + b - 1 = l + n - 1
    BY <2>1
  <2>3. d \in 0 .. a + b - 1
    BY <2>1, <2>2
  <2> QED BY <2>3 DEF a, b
<1>7. cells[d][1] = 1 /\ cells[d][2] = j
  BY <1>5
<1>8. Border(i, d)[1] = MarkPosition(j) /\ Border(i, d)[2] = 1
  BY <1>4, <1>7
<1>9. SegHi(i, d) = Border(i, d)[1] /\ SegLo(i, d + 1) = Border(i, d)[1] + Border(i, d)[2]
  BY <1>6, SegmentEnds
<1> QED BY <1>6, <1>8, <1>9

\* A subsegment that ends in block b, of stepsize entries, begins in it and
\* ends before the block's mark.
LEMMA SegmentInBlock ==
  ASSUME BordersDone, NEW i \in {1, 2}, NEW k \in 0 .. marks(1) + marks(2)
  PROVE  LET b == SegHi(i, k) \div stepsize
         IN  /\ b \in 0 .. marks(i)
             /\ b * stepsize \in Nat
             /\ b * stepsize <= SegLo(i, k)
             /\ SegHi(i, k) <= b * stepsize + (stepsize - 1)
<1> DEFINE h == SegHi(i, k)
           st == stepsize
           b == h \div st
           f == b * st
           n == Len(input[i])
<1>0. Measured
  BY DEF BordersDone
<1>1. st \in Nat \ {0}
  BY <1>0, StepFacts
<1>2. SegLo(i, k) \in 0 .. n /\ h \in 0 .. n /\ SegLo(i, k) <= h /\ n \in Nat
  BY SegmentTypes
<1>3. marks(i) = n \div st /\ marks(i) \in Nat /\ marks(1) \in Nat /\ marks(2) \in Nat
  BY <1>0, MarksFacts DEF marks
<1>4. h \in Nat
  BY <1>2
<1>5. b \in Nat /\ f \in Nat /\ f <= h /\ h <= f + (st - 1)
  <2> DEFINE r == h % st
  <2>1. b \in Nat /\ r \in 0 .. st - 1 /\ h = st * b + r
    <3> HIDE DEF h, st
    <3> QED BY <1>1, <1>4
  <2>2. b * st \in Nat /\ st * b = b * st
    <3> HIDE DEF st, b
    <3> QED BY <1>1, <2>1, TimesOrder
  <2> HIDE DEF r, h, b, f, st
  <2>3. f \in Nat /\ h = f + r
    BY <2>1, <2>2 DEF f
  <2> QED BY <1>1, <2>1, <2>3
<1>6. b <= marks(i)
  <2>1. f <= n
    BY <1>2, <1>5
  <2>2. \A c \in Nat : c <= n \div st <=> c * st <= n
    BY <1>1, <1>2, PlacesOfStride
  <2> HIDE DEF b, n, st
  <2> QED BY <1>3, <1>5, <2>1, <2>2 DEF f
<1>7. f <= SegLo(i, k)
  <2>1. CASE b = 0
    <3>1. f = 0
      <4> HIDE DEF b, st
      <4> QED BY <1>1, <2>1 DEF f
    <3> QED BY <1>2, <3>1
  <2>2. CASE b # 0
    <3> DEFINE j == b - 1
    <3>1. j \in 0 .. marks(i) - 1 /\ j + 1 = b /\ j \in Nat
      BY <1>3, <1>5, <1>6, <2>2
    <3>2. MarkPosition(j) = f - 1
      BY <3>1 DEF MarkPosition
    <3> HIDE DEF j
    <3>3. PICK d \in 0 .. marks(1) + marks(2) - 1 :
            SegHi(i, d) = MarkPosition(j) /\ SegLo(i, d + 1) = MarkPosition(j) + 1
      BY <3>1, MarkEnds
    <3>4. d \in 0 .. marks(1) + marks(2) /\ d + 1 \in 0 .. marks(1) + marks(2) /\ d \in Int /\ k \in Int
      BY <1>3
    <3>5. SegLo(i, d + 1) = f /\ SegHi(i, d) = f - 1
      BY <1>5, <3>2, <3>3
    <3>6. d < k
      <4>1. SegLo(i, d) <= SegHi(i, d) /\ SegLo(i, d) \in Nat /\ SegHi(i, d) \in Nat
        BY <3>4, SegmentTypes
      <4>2. k < d => h <= SegLo(i, d)
        BY <3>4, SegmentsAscend
      <4> HIDE DEF h, f
      <4>3. ~ (k < d)
        BY <1>4, <1>5, <3>5, <4>1, <4>2
      <4>4. k # d
        BY <1>4, <1>5, <3>5 DEF h
      <4> QED BY <3>4, <4>3, <4>4
    <3>7. CASE d + 1 = k
      BY <1>2, <3>5, <3>7
    <3>8. CASE d + 1 # k
      <4>1. d + 1 < k
        BY <3>4, <3>6, <3>8
      <4>2. SegHi(i, d + 1) <= SegLo(i, k)
        BY <3>4, <4>1, SegmentsAscend
      <4>3. SegLo(i, d + 1) <= SegHi(i, d + 1) /\ SegHi(i, d + 1) \in Nat
        BY <3>4, SegmentTypes
      <4> HIDE DEF f
      <4> QED BY <1>2, <1>5, <3>5, <4>2, <4>3
    <3> QED BY <3>7, <3>8
  <2> QED BY <2>1, <2>2
<1> QED BY <1>3, <1>5, <1>6, <1>7

\* The pieces of the schedule that end in block b of array i.
InBlock(i, b) ==
  { c \in 0 .. length - 1 :
      \E k \in 0 .. marks(1) + marks(2) :
        c \in Cells(ScheduledPair(i, k)) /\ SegHi(i, k) \div stepsize = b }

\* Each cell is that of an entry of the block.
LEMMA BlockShare ==
  ASSUME BordersDone, NEW i \in {1, 2}, NEW b \in Nat
  PROVE  IsFiniteSet(InBlock(i, b)) /\ Cardinality(InBlock(i, b)) <= stepsize - 1
<1> DEFINE m == marks(1) + marks(2)
           st == stepsize
           Of(c) == CHOOSE k \in 0 .. m : c \in Cells(ScheduledPair(i, k)) /\ SegHi(i, k) \div st = b
           first(k) == IF i = 1 THEN SegLo(1, k) + SegLo(2, k) ELSE SegHi(1, k) + SegLo(2, k)
           place(c) == SegLo(i, Of(c)) + (c - first(Of(c)))
           S == InBlock(i, b)
           f == b * st
           T == f .. f + (st - 1) - 1
           g == [ c \in S |-> place(c) ]
<1>0. Measured
  BY DEF BordersDone
<1>1. st \in Nat \ {0} /\ f \in Nat
  <2>1. st \in Nat \ {0}
    BY <1>0, StepFacts
  <2> HIDE DEF st
  <2>2. b * st \in Nat
    BY <2>1, TimesOrder
  <2> QED BY <2>1, <2>2
<1>2. ASSUME NEW k \in 0 .. m, NEW c \in Cells(ScheduledPair(i, k))
      PROVE  /\ c \in Int /\ first(k) \in Int
             /\ first(k) <= c /\ c < first(k) + (SegHi(i, k) - SegLo(i, k))
  <2>1. /\ SegLo(1, k) \in Nat /\ SegHi(1, k) \in Nat /\ SegLo(2, k) \in Nat /\ SegHi(2, k) \in Nat
    <3>1. /\ SegLo(1, k) \in 0 .. Len(input[1]) /\ SegHi(1, k) \in 0 .. Len(input[1]) /\ Len(input[1]) \in Nat
      BY SegmentTypes
    <3>2. /\ SegLo(2, k) \in 0 .. Len(input[2]) /\ SegHi(2, k) \in 0 .. Len(input[2]) /\ Len(input[2]) \in Nat
      BY SegmentTypes
    <3> QED BY <3>1, <3>2
  <2>2. CASE i = 1
    <3>1. Cells(ScheduledPair(1, k)) = SegLo(1, k) + SegLo(2, k) .. (SegHi(1, k) + SegLo(2, k)) - 1
      BY ScheduledFacts
    <3>2. c \in SegLo(1, k) + SegLo(2, k) .. (SegHi(1, k) + SegLo(2, k)) - 1
      BY <2>2, <3>1
    <3>3. first(k) = SegLo(1, k) + SegLo(2, k)
      BY <2>2
    <3> HIDE DEF first
    <3> QED BY <2>1, <2>2, <3>2, <3>3
  <2>3. CASE i = 2
    <3>1. Cells(ScheduledPair(2, k)) = SegHi(1, k) + SegLo(2, k) .. (SegHi(1, k) + SegHi(2, k)) - 1
      BY ScheduledFacts
    <3>2. c \in SegHi(1, k) + SegLo(2, k) .. (SegHi(1, k) + SegHi(2, k)) - 1
      BY <2>3, <3>1
    <3>3. first(k) = SegHi(1, k) + SegLo(2, k)
      BY <2>3
    <3> HIDE DEF first
    <3> QED BY <2>1, <2>3, <3>2, <3>3
  <2> QED BY <2>2, <2>3
<1>3. ASSUME NEW c \in S
      PROVE  Of(c) \in 0 .. m /\ c \in Cells(ScheduledPair(i, Of(c))) /\ SegHi(i, Of(c)) \div st = b
  <2>1. \E k \in 0 .. m : c \in Cells(ScheduledPair(i, k)) /\ SegHi(i, k) \div st = b
    BY DEF InBlock
  <2> QED BY <2>1, Zenon
<1> HIDE DEF Of, first
<1>4. ASSUME NEW k \in 0 .. m
      PROVE  SegLo(i, k) \in Int /\ SegHi(i, k) \in Int /\ SegLo(i, k) <= SegHi(i, k) /\ k \in Int
  <2>1. /\ SegLo(i, k) \in 0 .. Len(input[i]) /\ SegHi(i, k) \in 0 .. Len(input[i])
        /\ SegLo(i, k) <= SegHi(i, k) /\ Len(input[i]) \in Nat
    BY SegmentTypes
  <2>2. marks(1) \in Nat /\ marks(2) \in Nat
    BY <1>0, MarksFacts
  <2> QED BY <2>1, <2>2
<1>5. ASSUME NEW c \in S
      PROVE  /\ place(c) \in T /\ c \in Int /\ place(c) \in Int
             /\ place(c) \in SegLo(i, Of(c)) .. SegHi(i, Of(c)) - 1
             /\ place(c) = SegLo(i, Of(c)) + (c - first(Of(c))) /\ first(Of(c)) \in Int
  <2> DEFINE k == Of(c)
             lo == SegLo(i, k)
             hi == SegHi(i, k)
             a == first(k)
             p == place(c)
  <2>1. k \in 0 .. m /\ c \in Cells(ScheduledPair(i, k)) /\ hi \div st = b
    BY <1>3
  <2> HIDE DEF k
  <2>2. c \in Int /\ a \in Int /\ a <= c /\ c < a + (hi - lo)
    BY <1>2, <2>1
  <2>3. lo \in Int /\ hi \in Int
    BY <1>4, <2>1
  <2>4. f <= lo /\ hi <= f + (st - 1)
    BY <2>1, SegmentInBlock
  <2>5. p = lo + (c - a)
    BY DEF k
  <2>6. T = f .. f + (st - 1) - 1
    OBVIOUS
  <2> HIDE DEF lo, hi, a, p, f, st, T, place
  <2>7. p \in Int /\ lo <= p /\ p <= hi - 1
    BY <2>2, <2>3, <2>5
  <2>8. f + (st - 1) - 1 = (f + (st - 1)) - 1
    BY <1>1
  <2>9. p \in T
    BY <1>1, <2>3, <2>4, <2>6, <2>7, <2>8
  <2> QED BY <2>2, <2>3, <2>5, <2>7, <2>9 DEF lo, hi, a, p, k
<1> HIDE DEF place
<1>6. ASSUME NEW c \in S, NEW d \in S, place(c) = place(d) PROVE c = d
  <2> DEFINE k == Of(c)
             l == Of(d)
             a == SegLo(i, k)
             e == SegHi(i, k)
             r == SegLo(i, l)
             q == SegHi(i, l)
             p == place(c)
             u == first(k)
             v == first(l)
  <2>1. k \in 0 .. m /\ l \in 0 .. m
    BY <1>3
  <2>2. p \in a .. e - 1 /\ p = a + (c - u) /\ c \in Int /\ u \in Int /\ p \in Int
    BY <1>5
  <2>3. p \in r .. q - 1 /\ p = r + (d - v) /\ d \in Int /\ v \in Int
    BY <1>5, <1>6
  <2>4. a \in Int /\ e \in Int /\ r \in Int /\ q \in Int /\ k \in Int /\ l \in Int
    BY <1>4, <2>1
  <2>5. (k < l => e <= r) /\ (l < k => q <= a)
    <3> HIDE DEF k, l
    <3> QED BY <2>1, SegmentsAscend
  <2>6. k = l => a = r /\ u = v
    OBVIOUS
  <2> HIDE DEF k, l, a, e, r, q, p, u, v
  <2>7. ~ (k < l) /\ ~ (l < k)
    BY <2>2, <2>3, <2>4, <2>5
  <2>8. k = l
    BY <2>4, <2>7
  <2>9. a = r /\ u = v
    BY <2>6, <2>8
  <2> QED BY <2>2, <2>3, <2>4, <2>9
<1> HIDE DEF S, T
<1>7. g \in Injection(S, T)
  <2>1. g \in [ S -> T ]
    BY <1>5
  <2>2. \A c, d \in S : g[c] = g[d] => c = d
    BY <1>6
  <2> HIDE DEF g
  <2> QED BY <2>1, <2>2, Fun_IsInj
<1>8. IsFiniteSet(T) /\ Cardinality(T) = st - 1
  <2> DEFINE h == f + (st - 1) - 1
  <2>1. f \in Int /\ h \in Int
    BY <1>1
  <2>2. T = f .. h
    BY DEF T
  <2>3. (IF f > h THEN 0 ELSE h - f + 1) = st - 1
    <3> HIDE DEF f, st
    <3>1. h = f + st - 2
      BY <1>1
    <3> QED BY <1>1, <3>1
  <2> HIDE DEF f, h
  <2>4. IsFiniteSet(f .. h) /\ Cardinality(f .. h) = IF f > h THEN 0 ELSE h - f + 1
    BY <2>1, FS_Interval
  <2> QED BY <2>2, <2>3, <2>4
<1> HIDE DEF g
<1>9. IsFiniteSet(S) /\ Cardinality(S) <= Cardinality(T)
  BY <1>7, <1>8, FS_Injection
<1> QED BY <1>8, <1>9 DEF S

LEMMA TwoFinite ==
  ASSUME NEW S, NEW T, IsFiniteSet(S), IsFiniteSet(T), NEW n \in Nat,
         Cardinality(S) <= n
  PROVE  IsFiniteSet(S \cup T) /\ Cardinality(S \cup T) <= n + Cardinality(T)
<1> DEFINE a == Cardinality(S)
           b == Cardinality(T)
           c == Cardinality(S \cap T)
           d == Cardinality(S \cup T)
<1>1. IsFiniteSet(S \cup T) /\ d = a + b - c
  BY FS_Union
<1>2. IsFiniteSet(S \cap T)
  <2>1. S \cap T \in SUBSET S
    OBVIOUS
  <2> QED BY <2>1, FS_Subset
<1>3. a \in Nat /\ b \in Nat /\ c \in Nat /\ a <= n
  BY <1>2, FS_CardinalityType
<1> HIDE DEF a, b, c, d
<1>4. d <= n + b
  BY <1>1, <1>3
<1> QED BY <1>1, <1>4 DEF b, d

\* The work is shared among the processors.
THEOREM MergeWorkIsShared == MergeSpec => []WorkIsShared
<1>1. MergeInv => WorkIsShared
  <2> SUFFICES ASSUME MergeInv, method = "opt", job = "merge", NEW processor \in 0 .. team - 1
               PROVE  Cardinality(UNION { Cells(t) : t \in { u \in tasks : u.processor = processor } })
                        <= IF processor = team - 1 THEN 3 * (stepsize - 1) ELSE stepsize - 1
    BY DEF WorkIsShared
  <2> DEFINE all == UNION { Cells(t) : t \in { u \in tasks : u.processor = processor } }
             m == marks(1) + marks(2)
             st == stepsize
             A == IF processor < marks(1) THEN InBlock(1, processor)
                                          ELSE InBlock(2, processor - marks(1))
             C == InBlock(1, marks(1))
             D == InBlock(2, marks(2))
  <2>1. Measured /\ tasks \subseteq Schedule /\ BordersDone
    BY Zenon DEF MergeInv
  <2>2. /\ marks(1) \in Nat /\ marks(2) \in Nat /\ st \in Nat \ {0} /\ team \in Nat \ {0}
    BY <2>1, MarksFacts, StepFacts DEF Measured
  <2>3. ASSUME NEW c \in all
        PROVE  \E i \in {1, 2}, k \in 0 .. m :
                 /\ c \in Cells(ScheduledPair(i, k)) /\ c \in 0 .. length - 1
                 /\ Processor(i, SegHi(i, k)) = processor
    <3>1. PICK t \in tasks : t.processor = processor /\ c \in Cells(t)
      BY <2>3
    <3>2. PICK i \in {1, 2}, k \in 0 .. m : t = ScheduledPair(i, k)
      BY <2>1, <3>1 DEF Schedule
    <3>3. t.processor = Processor(i, SegHi(i, k)) /\ PieceOk(input[1], input[2], t)
      BY <2>1, <3>2, ScheduledFacts
    <3>4. Sorted(input[1]) /\ Sorted(input[2]) /\ Len(input[1]) \in Nat /\ Len(input[2]) \in Nat
      BY <2>1, InputFacts
    <3>5. c \in 0 .. Len(input[1]) + Len(input[2]) - 1
      BY <3>1, <3>3, <3>4, CellsRange
    <3>6. Len(input[1]) + Len(input[2]) - 1 = length - 1
      BY <3>4 DEF length
    <3>7. c \in 0 .. length - 1
      BY <3>5, <3>6
    <3> QED BY <3>1, <3>2, <3>3, <3>7
  <2>4. ASSUME NEW i \in {1, 2}, NEW k \in 0 .. m, NEW c \in Cells(ScheduledPair(i, k)), c \in 0 .. length - 1,
               Processor(i, SegHi(i, k)) = processor
        PROVE  c \in A \/ (processor = team - 1 /\ (c \in C \/ c \in D))
    <3> DEFINE b == SegHi(i, k) \div st
    <3>1. b \in 0 .. marks(i)
      BY <2>1, SegmentInBlock
    <3>2. c \in InBlock(i, b)
      BY <2>4 DEF InBlock
    <3>3. processor = IF b < marks(i) THEN b + (IF i = 2 THEN marks(1) ELSE 0) ELSE team - 1
      BY <2>4 DEF Processor
    <3> HIDE DEF b, A, C, D
    <3>4. CASE b < marks(i) /\ i = 1
      <4>1. processor = b /\ processor < marks(1)
        BY <2>2, <3>1, <3>3, <3>4
      <4> QED BY <3>2, <3>4, <4>1 DEF A
    <3>5. CASE b < marks(i) /\ i = 2
      <4>1. b = processor - marks(1) /\ ~ (processor < marks(1))
        BY <2>2, <3>1, <3>3, <3>5
      <4> QED BY <3>2, <3>5, <4>1 DEF A
    <3>6. CASE ~ (b < marks(i)) /\ i = 1
      <4>1. b = marks(1) /\ processor = team - 1
        BY <2>2, <3>1, <3>3, <3>6
      <4> QED BY <3>2, <3>6, <4>1 DEF C
    <3>7. CASE ~ (b < marks(i)) /\ i = 2
      <4>1. b = marks(2) /\ processor = team - 1
        BY <2>2, <3>1, <3>3, <3>7
      <4> QED BY <3>2, <3>7, <4>1 DEF D
    <3> QED BY <3>4, <3>5, <3>6, <3>7
  <2>5. all \subseteq A \/ (processor = team - 1 /\ all \subseteq (A \cup C) \cup D)
    <3> HIDE DEF all, A, C, D, m
    <3>1. \A c \in all : c \in A \/ (processor = team - 1 /\ (c \in C \/ c \in D))
      BY <2>3, <2>4
    <3> QED BY <3>1
  <2>6. IsFiniteSet(A) /\ Cardinality(A) <= st - 1
    <3>1. CASE processor < marks(1)
      <4>1. processor \in Nat
        OBVIOUS
      <4> QED BY <2>1, <3>1, <4>1, BlockShare
    <3>2. CASE ~ (processor < marks(1))
      <4>1. processor - marks(1) \in Nat
        BY <2>2, <3>2
      <4> QED BY <2>1, <3>2, <4>1, BlockShare
    <3> QED BY <3>1, <3>2
  <2>7. IsFiniteSet(C) /\ Cardinality(C) <= st - 1
    BY <2>1, <2>2, BlockShare
  <2>8. IsFiniteSet(D) /\ Cardinality(D) <= st - 1
    BY <2>1, <2>2, BlockShare
  <2> HIDE DEF all, A, C, D, st
  <2>9. CASE all \subseteq A
    <3>1. Cardinality(all) <= Cardinality(A) /\ IsFiniteSet(all)
      BY <2>6, <2>9, FS_Subset
    <3>2. Cardinality(all) \in Nat /\ Cardinality(A) \in Nat
      BY <2>6, <3>1, FS_CardinalityType
    <3> QED BY <2>2, <2>6, <3>1, <3>2 DEF all, st
  <2>10. CASE processor = team - 1 /\ all \subseteq (A \cup C) \cup D
    <3> DEFINE n == st - 1
               E == A \cup C
               F == E \cup D
    <3>1. n \in Nat /\ n + n \in Nat
      BY <2>2
    <3>2. IsFiniteSet(E) /\ Cardinality(E) <= n + Cardinality(C)
      BY <2>6, <2>7, <3>1, TwoFinite
    <3>3. Cardinality(C) \in Nat /\ Cardinality(D) \in Nat /\ Cardinality(E) \in Nat
      BY <2>7, <2>8, <3>2, FS_CardinalityType
    <3> HIDE DEF E
    <3>4. Cardinality(E) <= n + n
      BY <2>7, <3>1, <3>2, <3>3
    <3>5. IsFiniteSet(F) /\ Cardinality(F) <= (n + n) + Cardinality(D)
      BY <2>8, <3>1, <3>2, <3>4, TwoFinite
    <3>6. all \subseteq F
      BY <2>10 DEF E
    <3> HIDE DEF F
    <3>7. IsFiniteSet(all) /\ Cardinality(all) <= Cardinality(F)
      BY <3>5, <3>6, FS_Subset
    <3>8. Cardinality(all) \in Nat /\ Cardinality(F) \in Nat
      BY <3>5, <3>7, FS_CardinalityType
    <3>9. Cardinality(all) <= 3 * n
      BY <2>8, <3>1, <3>3, <3>5, <3>7, <3>8
    <3> QED BY <2>10, <3>9 DEF all, st
  <2> QED BY <2>5, <2>9, <2>10
<1> QED BY <1>1, MergeInvariance, PTL

===============================================================================
