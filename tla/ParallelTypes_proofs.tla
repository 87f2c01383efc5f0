------------------------- MODULE ParallelTypes_proofs -------------------------
(***************************************************************************)
(* Proofs about ParallelTypes, for every number of parts, size of a byte   *)
(* and set of texts: the parts of the text are whole bytes of the bit      *)
(* vector, a task only ever loads bytes of its own part, and the bits end  *)
(* up as the suffix types.                                                 *)
(***************************************************************************)
EXTENDS ParallelTypes, WellFoundedInduction, TLAPS

\* What run_saca sees to: there are texts, parts and bits in a byte.
SizesAssumption ==
  /\ ByteBits \in Nat \ {0}
  /\ ThreadCounts \subseteq Nat \ {0}
  /\ \A x \in Texts : Len(x) \in Nat

Sizes == s \in Texts /\ thread_count \in ThreadCounts

\* The loop variables stay in the part: -1 when the first pass is over, -2 when
\* its task has ended, and from thread_border on in the second pass.
Counters ==
  /\ DOMAIN byte = Threads
  /\ i \in [ Threads -> Int ]
  /\ thread_border \in [ Threads -> Nat ]
  /\ \A id \in Threads : thread_border[id] <= Length(id)
  /\ phase = "first" => \A id \in Threads : i[id] < Length(id)
  /\ phase = "second" => \A id \in Threads : i[id] >= 0

\* A task loads bytes that hold a bit of its part.
OwnBytes ==
  \A id \in Threads : \A p \in DOMAIN byte[id] :
    p \in Int /\ \E q \in Part(id) : SameByte(p, q)

BytesInv == Sizes /\ Counters /\ OwnBytes

-----------------------------------------------------------------------------
(* Division of the text into parts *)

\* Quotient and remainder.
LEMMA Division ==
  ASSUME NEW a \in Int, NEW b \in Nat \ {0}
  PROVE  /\ a \div b \in Int /\ a % b \in 0 .. b - 1
         /\ a = b * (a \div b) + (a % b)
<1>1. a \div b \in Int
  OBVIOUS
<1>2. a % b \in 0 .. b - 1
  OBVIOUS
<1>3. a = b * (a \div b) + (a % b)
  OBVIOUS
<1> QED
  BY <1>1, <1>2, <1>3

\* A number below a multiple of b has a smaller quotient, one from it on has not.
LEMMA QuotientBelow ==
  ASSUME NEW a \in Int, NEW b \in Nat \ {0}, NEW k \in Int
  PROVE  /\ a < b * k => a \div b < k
         /\ a >= b * k => a \div b >= k
<1> DEFINE d == a \div b
<1>1. d \in Int /\ b * d <= a /\ a < b * d + b
  BY Division
<1>2. ASSUME a < b * k PROVE d < k
  <2>1. CASE d >= k
    <3>1. b * d >= b * k
      BY <1>1, <2>1
    <3> QED
      BY <1>1, <1>2, <3>1
  <2> QED
    BY <1>1, <2>1
<1>3. ASSUME a >= b * k PROVE d >= k
  <2>1. CASE d + 1 <= k
    <3>1. b * (d + 1) <= b * k
      BY <1>1, <2>1
    <3>2. b * (d + 1) = b * d + b
      BY <1>1
    <3> QED
      BY <1>1, <1>3, <3>1, <3>2
  <2> QED
    BY <1>1, <2>1
<1> QED
  BY <1>2, <1>3

\* compute_types rounds the length of a part down to whole bytes.
LEMMA WholeBytes ==
  ASSUME SizesAssumption, Sizes
  PROVE  \E m \in Nat : part_length = ByteBits * m
<1> DEFINE even == n \div thread_count
<1>1. n \in Nat /\ thread_count \in Nat \ {0} /\ ByteBits \in Nat \ {0}
  BY DEF SizesAssumption, Sizes, n
<1>2. even \in Int /\ n = thread_count * even + (n % thread_count) /\ n % thread_count < thread_count
  BY <1>1, Division
<1>3. even >= 0
  BY <1>1, QuotientBelow
<1>4. even \div ByteBits \in Int /\ even = ByteBits * (even \div ByteBits) + (even % ByteBits)
  BY <1>1, <1>2, Division
<1>5. even \div ByteBits >= 0
  BY <1>1, <1>2, <1>3, QuotientBelow
<1>6. part_length = ByteBits * (even \div ByteBits)
  BY <1>1, <1>2, <1>4, Division DEF part_length
<1> QED
  BY <1>4, <1>5, <1>6

\* Where a part lies are numbers.
LEMMA PartBounds ==
  ASSUME SizesAssumption, Sizes, NEW id \in Threads
  PROVE  /\ id \in Int /\ thread_count \in Int /\ part_length \in Nat
         /\ Offset(id) \in Int /\ Length(id) \in Int
<1>1. n \in Nat /\ thread_count \in Nat \ {0} /\ ByteBits \in Nat \ {0} /\ id \in Int
  BY DEF SizesAssumption, Sizes, n, Threads
<1>2. PICK m \in Nat : part_length = ByteBits * m
  BY WholeBytes
<1>3. part_length \in Nat
  BY <1>1, <1>2
<1>4. Offset(id) \in Int
  BY <1>1, <1>3 DEF Offset
<1>5. rest_length \in Int
  BY <1>1, <1>3 DEF rest_length, Last
<1> QED
  BY <1>1, <1>3, <1>4, <1>5 DEF Length

\* The bits of two parts are in different bytes.
LEMMA PartsApart ==
  ASSUME SizesAssumption, Sizes,
         NEW a \in Threads, NEW b \in Threads, a < b,
         NEW p \in Part(a), NEW q \in Part(b)
  PROVE  ~SameByte(p, q)
<1>1. /\ a \in Int /\ b \in Int /\ a < Last
      /\ thread_count \in Int /\ ByteBits \in Nat \ {0}
  BY DEF Threads, Last, SizesAssumption, Sizes
<1>2. PICK m \in Nat : part_length = ByteBits * m
  BY WholeBytes
<1>3. Offset(a) = a * part_length /\ Length(a) = part_length /\ Offset(b) = b * part_length
  BY <1>1 DEF Offset, Length
<1>4. /\ p \in Int /\ q \in Int
      /\ p < a * part_length + part_length /\ q >= b * part_length
  BY <1>1, <1>2, <1>3, PartBounds DEF Part
<1>5. a * part_length + part_length = ByteBits * ((a + 1) * m) /\ b * part_length = ByteBits * (b * m)
  BY <1>1, <1>2
<1>6. (a + 1) * m <= b * m
  BY <1>1
<1>7. p \div ByteBits < (a + 1) * m
  <2>1. (a + 1) * m \in Int /\ p < ByteBits * ((a + 1) * m)
    BY <1>1, <1>4, <1>5
  <2> QED
    BY <1>1, <1>4, <2>1, QuotientBelow
<1>8. q \div ByteBits >= b * m
  BY <1>1, <1>4, <1>5, QuotientBelow
<1>9. p \div ByteBits \in Int /\ q \div ByteBits \in Int
  BY <1>1, <1>4, Division
<1> QED
  BY <1>1, <1>6, <1>7, <1>8, <1>9 DEF SameByte

-----------------------------------------------------------------------------
(* The invariant *)

\* At first nothing is loaded.
LEMMA InitBytes == SizesAssumption /\ Init => BytesInv
<1> SUFFICES ASSUME SizesAssumption, Init PROVE BytesInv
  OBVIOUS
<1>1. Sizes
  BY DEF Init, Sizes
<1>2. Counters
  <2>1. \A id \in Threads : Length(id) \in Int
    BY <1>1, PartBounds
  <2>2. \A id \in Threads : Length(id) >= 0
    <3> SUFFICES ASSUME NEW id \in Threads PROVE Length(id) >= 0
      OBVIOUS
    <3>1. n \in Nat /\ thread_count \in Nat \ {0} /\ ByteBits \in Nat \ {0}
      BY <1>1 DEF SizesAssumption, Sizes, n
    <3> DEFINE even == n \div thread_count
    <3>2. even \in Int /\ n >= thread_count * even
      BY <3>1, Division
    <3>3. part_length \in Nat
      BY <1>1, PartBounds
    <3>4. part_length <= even
      BY <3>1, <3>2, Division DEF part_length
    <3>5. thread_count * part_length <= thread_count * even
      BY <3>1, <3>2, <3>3, <3>4
    <3>6. (thread_count - 1) * part_length <= thread_count * part_length
      BY <3>1, <3>3
    <3>7. rest_length >= 0
      BY <3>1, <3>2, <3>3, <3>5, <3>6 DEF rest_length, Last
    <3> QED
      BY <3>3, <3>7 DEF Length
  <2> QED
    BY <2>1, <2>2 DEF Init, Counters
<1>3. OwnBytes
  BY DEF Init, OwnBytes, NotLoaded
<1> QED
  BY <1>1, <1>2, <1>3 DEF BytesInv

\* Loading the byte of a position of the task's own part.
LEMMA LoadOwn ==
  ASSUME SizesAssumption, BytesInv, NEW id \in Threads, NEW k \in Int,
         0 <= k, k < Length(id), NEW value, LoadByte(id, k + Offset(id), value),
         UNCHANGED << s, thread_count >>
  PROVE  OwnBytes' /\ DOMAIN byte' = Threads
<1> DEFINE position == k + Offset(id)
<1>1. Sizes /\ DOMAIN byte = Threads /\ OwnBytes
  BY DEF BytesInv, Counters
<1>2. position \in Part(id)
  BY <1>1, PartBounds DEF Part
<1>3. DOMAIN byte' = Threads
  BY <1>1 DEF LoadByte
<1>4. ASSUME NEW other \in Threads, NEW p \in DOMAIN byte'[other]
      PROVE  p \in Int /\ \E q \in Part(other) : SameByte(p, q)
  <2>1. CASE other = id
    <3>1. DOMAIN byte'[id] = { q \in Positions(s) : SameByte(q, position) }
      BY <1>1 DEF LoadByte
    <3>2. p \in Positions(s) /\ SameByte(p, position)
      BY <1>4, <2>1, <3>1
    <3>3. p \in Int
      BY <1>1, <3>2 DEF Positions, SizesAssumption, Sizes
    <3> QED
      BY <1>2, <2>1, <3>2, <3>3
  <2>2. CASE other # id
    <3>1. byte'[other] = byte[other]
      BY <1>1, <2>2 DEF LoadByte
    <3> QED
      BY <1>1, <1>4, <3>1 DEF OwnBytes
  <2> QED
    BY <2>1, <2>2
<1>5. Threads' = Threads /\ \A other \in Threads : Part(other)' = Part(other)
  BY DEF Threads, Part, Offset, Length, part_length, rest_length, Last, n
<1> QED
  BY <1>3, <1>4, <1>5 DEF OwnBytes, SameByte

\* Every position that a task passes to setBit is one of its part.
LEMMA StepBytes == SizesAssumption /\ BytesInv /\ [Next]_vars => BytesInv'
<1> SUFFICES ASSUME SizesAssumption, BytesInv, [Next]_vars PROVE BytesInv'
  OBVIOUS
<1>1. Sizes /\ Counters /\ OwnBytes
  BY DEF BytesInv
<1>2. UNCHANGED << s, thread_count >>
  BY DEF Next, TaskStep, StoreByte, SkipLast, ClassifyByCharacter, ClassifyByNeighbour,
         MoveBorder, EndFirstPass, SetRest, TakeOver, Finish, Terminating, vars
<1>3. /\ Sizes' /\ Threads' = Threads
      /\ \A id \in Threads : Length(id)' = Length(id) /\ Part(id)' = Part(id)
  BY <1>1, <1>2 DEF Sizes, Threads, Part, Offset, Length, part_length, rest_length, Last, n
<1>4. \A id \in Threads : Length(id) \in Int /\ Offset(id) \in Int
  BY <1>1, PartBounds
<1>5. byte' = byte => OwnBytes'
  BY <1>1, <1>3 DEF OwnBytes, SameByte
<1>6. ASSUME NEW id \in Threads, TaskStep(id) PROVE Counters' /\ OwnBytes'
  <2>1. CASE StoreByte(id)
    <3>1. Counters'
      BY <1>1, <1>3, <2>1 DEF StoreByte, Counters
    <3>2. \A other \in Threads : \A p \in DOMAIN byte'[other] : p \in DOMAIN byte[other]
      BY <1>1, <2>1 DEF StoreByte, Counters, NotLoaded
    <3> QED
      BY <1>1, <1>3, <3>1, <3>2 DEF OwnBytes, SameByte
  <2>2. CASE SkipLast(id)
    <3>1. Counters'
      BY <1>1, <1>3, <1>4, <2>2 DEF SkipLast, InFirstPass, Counters
    <3> QED
      BY <1>5, <2>2, <3>1 DEF SkipLast
  <2>3. CASE ClassifyByCharacter(id) \/ ClassifyByNeighbour(id)
    <3>1. PICK value : LoadByte(id, i[id] + Offset(id), value)
      BY <2>3 DEF ClassifyByCharacter, ClassifyByNeighbour
    <3>2. phase = "first" /\ i[id] \in Int /\ 0 <= i[id] /\ i[id] < Length(id)
      BY <1>1, <2>3 DEF ClassifyByCharacter, ClassifyByNeighbour, InFirstPass, Counters
    <3>3. OwnBytes' /\ DOMAIN byte' = Threads
      BY <1>2, <3>1, <3>2, LoadOwn
    <3>4. phase' = phase /\ thread_border' = thread_border /\ i' = [ i EXCEPT ![id] = @ - 1 ]
      BY <2>3 DEF ClassifyByCharacter, ClassifyByNeighbour
    <3>5. Counters'
      BY <1>1, <1>3, <1>4, <3>2, <3>3, <3>4 DEF Counters
    <3> QED
      BY <3>3, <3>5
  <2>4. CASE MoveBorder(id)
    <3>1. Counters'
      BY <1>1, <1>3, <1>4, <2>4 DEF MoveBorder, InFirstPass, Counters
    <3> QED
      BY <1>5, <2>4, <3>1 DEF MoveBorder
  <2>5. CASE EndFirstPass(id)
    <3>1. Counters'
      BY <1>1, <1>3, <1>4, <2>5 DEF EndFirstPass, Counters
    <3> QED
      BY <1>5, <2>5, <3>1 DEF EndFirstPass
  <2>6. CASE SetRest(id)
    <3>1. PICK value : LoadByte(id, i[id] + Offset(id), value)
      BY <2>6 DEF SetRest
    <3>2. phase = "second" /\ i[id] \in Int /\ 0 <= i[id] /\ i[id] < Length(id)
      BY <1>1, <2>6 DEF SetRest, Counters
    <3>3. OwnBytes' /\ DOMAIN byte' = Threads
      BY <1>2, <3>1, <3>2, LoadOwn
    <3>4. Counters'
      BY <1>1, <1>3, <1>4, <2>6, <3>2, <3>3 DEF SetRest, Counters
    <3> QED
      BY <3>3, <3>4
  <2> QED
    BY <1>6, <2>1, <2>2, <2>3, <2>4, <2>5, <2>6 DEF TaskStep
<1>7. CASE TakeOver
  <2>1. Counters'
    BY <1>1, <1>3, <1>4, <1>7 DEF TakeOver, Counters
  <2> QED
    BY <1>3, <1>5, <1>7, <2>1 DEF TakeOver, BytesInv
<1>8. CASE Finish
  <2>1. Counters'
    BY <1>1, <1>3, <1>8 DEF Finish, Counters
  <2> QED
    BY <1>3, <1>5, <1>8, <2>1 DEF Finish, BytesInv
<1>9. CASE UNCHANGED vars
  <2>1. Counters'
    BY <1>1, <1>3, <1>9 DEF vars, Counters
  <2> QED
    BY <1>3, <1>5, <1>9, <2>1 DEF vars, BytesInv
<1> QED
  BY <1>3, <1>6, <1>7, <1>8, <1>9 DEF Next, Terminating, BytesInv

\* Bytes of a task's own part are nobody else's.
LEMMA InvApart ==
  SizesAssumption /\ BytesInv => BytesNotShared
<1> SUFFICES ASSUME SizesAssumption, BytesInv, NEW a \in Threads, NEW b \in Threads, a # b,
                    NEW p \in DOMAIN byte[a], p \in DOMAIN byte[b]
             PROVE  FALSE
  BY DEF BytesNotShared
<1>1. Sizes /\ OwnBytes
  BY DEF BytesInv
<1>2. PICK qa \in Part(a) : SameByte(p, qa)
  BY <1>1 DEF OwnBytes
<1>3. PICK qb \in Part(b) : SameByte(p, qb)
  BY <1>1 DEF OwnBytes
<1>4. SameByte(qa, qb) /\ SameByte(qb, qa)
  BY <1>2, <1>3 DEF SameByte
<1>5. a < b \/ b < a
  BY <1>1 DEF Threads, Sizes, SizesAssumption
<1> QED
  BY <1>1, <1>2, <1>3, <1>4, <1>5, PartsApart

\* Every task loads bytes of its own part only (compute_types and setBit).
THEOREM BytesInvariance ==
  ASSUME SizesAssumption PROVE Spec => []BytesInv
<1>1. Init => BytesInv
  BY InitBytes
<1>2. BytesInv /\ [Next]_vars => BytesInv'
  BY StepBytes
<1> QED
  BY <1>1, <1>2, PTL DEF Spec

\* No two tasks have the same byte loaded, so that no store undoes another one's
\* setBit, for every number of parts and every length (compute_types, setBit).
THEOREM BytesApart ==
  ASSUME SizesAssumption PROVE Spec => []BytesNotShared
<1>1. BytesInv => BytesNotShared
  BY InvApart
<1>2. Spec => []BytesInv
  BY BytesInvariance
<1> QED
  BY <1>1, <1>2, PTL

-----------------------------------------------------------------------------
(* The invariant of the types *)

\* What run_saca sees to, of the characters: the last one is the sentinel.
SentinelAssumption ==
  \A x \in Texts :
    /\ Len(x) > 0
    /\ \A p \in Positions(x) : At(x, p) \in Int /\ (p # Len(x) - 1 => At(x, p) # At(x, Len(x) - 1))

TypeOf(p) == IF IsS(s, p) THEN S_Type ELSE L_Type

\* No bit is set that should not be, in the vector or in a loaded byte, and a
\* loaded byte lacks no bit of the vector.
BitsInv ==
  /\ t \in [ Positions(s) -> { L_Type, S_Type } ]
  /\ t[n - 1] = S_Type
  /\ \A p \in Positions(s) : t[p] = S_Type => IsS(s, p)
  /\ \A id \in Threads : \A p \in DOMAIN byte[id] :
       /\ p \in Positions(s)
       /\ byte[id][p] \in { L_Type, S_Type }
       /\ byte[id][p] = S_Type => IsS(s, p)
       /\ t[p] = S_Type => byte[id][p] = S_Type

\* Task id has set the bit of p, though perhaps not stored it yet.
IsSet(id, p) == t[p] = S_Type \/ (p \in DOMAIN byte[id] /\ byte[id][p] = S_Type)

Classified(id, p) == IsS(s, p) => IsSet(id, p)

\* From the border on the part is one run of equal characters, which continues.
RunsInv ==
  \A id \in Threads :
    /\ id = Last => thread_border[id] = Length(id)
    /\ \A k \in thread_border[id] .. Length(id) - 1 :
         At(s, k + Offset(id)) = At(s, k + Offset(id) + 1)

\* Below the border a task has classified what its loop has passed; a task that
\* has ended knows the type of its first character, unless all of its part is
\* the run.
FirstInv ==
  phase = "first" =>
    \A id \in Threads :
      /\ i[id] < thread_border[id]
      /\ \A k \in 0 .. thread_border[id] - 1 : i[id] < k => Classified(id, k + Offset(id))
      /\ i[id] = -2 =>
           /\ byte[id] = NotLoaded
           /\ thread_border[id] # 0 => thread_info[id] = TypeOf(Offset(id))

\* Between the passes every part has got the type of its first character.
SecondInv ==
  phase # "first" =>
    \A id \in Threads :
      /\ thread_info[id] = TypeOf(Offset(id))
      /\ thread_border[id] <= i[id]
      /\ \A k \in 0 .. Length(id) - 1 : k < i[id] => Classified(id, k + Offset(id))

TypesInv ==
  /\ thread_info \in [ Threads -> { L_Type, S_Type } ]
  /\ BitsInv /\ RunsInv /\ FirstInv /\ SecondInv /\ TypesAreCorrect

-----------------------------------------------------------------------------
(* Suffix types and the places of the parts *)

\* Every set of natural numbers that is not empty has a smallest member.
LEMMA Smallest ==
  ASSUME NEW T, T \subseteq Nat, T # {}
  PROVE  \E x \in T : \A y \in T : x <= y
<1>1. PICK x \in T : \A y \in T : << y, x >> \notin OpToRel(<, Nat)
  BY NatLessThanWellFounded, WFMin, Zenon
<1>2. ASSUME NEW y \in T PROVE ~ (y < x)
  <2>1. x \in Nat /\ y \in Nat
    OBVIOUS
  <2> QED
    BY <1>1, <2>1, Zenon DEF OpToRel
<1> QED
  BY <1>2

\* The type of a position from its character, its neighbour's and its
\* neighbour's type: the cases of compute_types_first_pass.
LEMMA TypeByNeighbour ==
  ASSUME SentinelAssumption, Sizes, n \in Nat, NEW p \in 0 .. n - 2
  PROVE  /\ At(s, p) < At(s, p + 1) => IsS(s, p)
         /\ At(s, p) > At(s, p + 1) => ~IsS(s, p)
         /\ At(s, p) = At(s, p + 1) => (IsS(s, p) <=> IsS(s, p + 1))
<1>1. /\ \A q \in Positions(s) : At(s, q) \in Int
      /\ p \in Int /\ p \in Positions(s) /\ p + 1 \in Positions(s)
      /\ Len(s) = n
      /\ p # n - 1 /\ p + 1 # n - 1 => At(s, p + 1) # At(s, n - 1)
      /\ At(s, p) # At(s, n - 1)
  BY DEF SentinelAssumption, Sizes, Positions, n
<1>2. ASSUME At(s, p) < At(s, p + 1) PROVE IsS(s, p)
  <2>1. p \in p .. Len(s) - 2 /\ \A j \in p .. p : At(s, j) = At(s, p)
    BY <1>1
  <2> QED
    BY <1>2, <2>1 DEF IsS
<1>3. ASSUME IsS(s, p), At(s, p) # At(s, p + 1) PROVE At(s, p) < At(s, p + 1)
  <2>1. PICK e \in p .. Len(s) - 2 : At(s, e) < At(s, e + 1) /\ \A j \in p .. e : At(s, j) = At(s, p)
    BY <1>1, <1>3 DEF IsS
  <2>2. e = p
    <3>1. CASE p + 1 <= e
      <4>1. p + 1 \in p .. e
        BY <1>1, <2>1, <3>1
      <4> QED
        BY <1>3, <2>1, <4>1
    <3> QED
      BY <1>1, <2>1, <3>1
  <2> QED
    BY <2>1, <2>2
<1>4. ASSUME At(s, p) = At(s, p + 1), IsS(s, p) PROVE IsS(s, p + 1)
  <2>1. PICK e \in p .. Len(s) - 2 : At(s, e) < At(s, e + 1) /\ \A j \in p .. e : At(s, j) = At(s, p)
    BY <1>1, <1>4 DEF IsS
  <2>2. e # p
    BY <1>1, <1>4, <2>1
  <2>3. e \in p + 1 .. Len(s) - 2 /\ \A j \in p + 1 .. e : At(s, j) = At(s, p + 1)
    BY <1>1, <1>4, <2>1, <2>2
  <2> QED
    BY <2>1, <2>3 DEF IsS
<1>5. ASSUME At(s, p) = At(s, p + 1), IsS(s, p + 1) PROVE IsS(s, p)
  <2>1. p + 1 # Len(s) - 1
    BY <1>1, <1>5
  <2>2. PICK e \in p + 1 .. Len(s) - 2 : At(s, e) < At(s, e + 1) /\ \A j \in p + 1 .. e : At(s, j) = At(s, p + 1)
    BY <1>5, <2>1 DEF IsS
  <2>3. e \in p .. Len(s) - 2 /\ \A j \in p .. e : At(s, j) = At(s, p)
    BY <1>1, <1>5, <2>2
  <2> QED
    BY <2>2, <2>3 DEF IsS
<1>6. At(s, p) > At(s, p + 1) => At(s, p) # At(s, p + 1) /\ ~(At(s, p) < At(s, p + 1))
  BY <1>1
<1> QED
  BY <1>2, <1>3, <1>4, <1>5, <1>6

\* All positions of a run have the type of its end.
LEMMA RunHasOneType ==
  ASSUME SentinelAssumption, Sizes, n \in Nat,
         NEW b \in 0 .. n - 1, NEW a \in 0 .. b,
         \A q \in a .. b - 1 : At(s, q) = At(s, q + 1)
  PROVE  IsS(s, a) <=> IsS(s, b)
<1> DEFINE Gap == { d \in 0 .. b - a : ~(IsS(s, b - d) <=> IsS(s, b)) }
<1> SUFFICES ASSUME Gap # {} PROVE FALSE
  <2>1. b - a \in 0 .. b - a /\ b - (b - a) = a
    OBVIOUS
  <2> QED
    BY <2>1
<1>1. PICK d \in Gap : \A e \in Gap : d <= e
  <2>1. Gap \subseteq Nat
    OBVIOUS
  <2> HIDE DEF Gap
  <2> QED
    BY <2>1, Smallest
<1>2. d # 0
  OBVIOUS
<1>3. d - 1 \in 0 .. b - a /\ ~(d <= d - 1) /\ b - d \in 0 .. n - 2 /\ b - d \in a .. b - 1
  BY <1>2
<1>4. IsS(s, b - (d - 1)) <=> IsS(s, b)
  BY <1>1, <1>3
<1>5. IsS(s, b - d) <=> IsS(s, (b - d) + 1)
  BY <1>3, TypeByNeighbour
<1>6. (b - d) + 1 = b - (d - 1)
  BY <1>3
<1> QED
  BY <1>4, <1>5, <1>6

\* The parts lie one behind the other in the text, and the last one, which is
\* not empty, ends it.
LEMMA PartsInText ==
  ASSUME SizesAssumption, SentinelAssumption, Sizes, NEW id \in Threads
  PROVE  /\ n \in Nat \ {0} /\ Last \in Threads /\ id <= Last
         /\ Offset(id) \in 0 .. n - 1
         /\ Length(id) \in Nat
         /\ Offset(id) + Length(id) <= n
         /\ id < Last => /\ id + 1 \in Threads /\ Length(id) = part_length
                         /\ Offset(id + 1) = Offset(id) + part_length
         /\ Length(Last) > 0 /\ Offset(Last) + Length(Last) = n
<1>1. n \in Nat \ {0} /\ thread_count \in Nat \ {0} /\ ByteBits \in Nat \ {0} /\ id \in Int
  BY DEF SizesAssumption, SentinelAssumption, Sizes, n, Threads
<1>2. part_length \in Nat
  BY PartBounds
<1> DEFINE even == n \div thread_count
<1>3. even \in Int /\ n >= thread_count * even
  BY <1>1, Division
<1>4. part_length <= even
  BY <1>1, <1>3, Division DEF part_length
<1>5. thread_count * part_length <= n
  BY <1>1, <1>2, <1>3, <1>4
<1>6. Last \in Threads /\ 0 <= id /\ id <= Last /\ Last \in Int /\ Last = thread_count - 1
  BY <1>1 DEF Last, Threads
<1>7. Last * part_length + part_length <= n
  BY <1>1, <1>2, <1>5, <1>6
<1>8. Last * part_length < n
  <2>1. CASE part_length = 0
    BY <1>1, <1>6, <2>1
  <2>2. CASE part_length > 0
    BY <1>1, <1>2, <1>6, <1>7, <2>2
  <2> QED
    BY <1>2, <2>1, <2>2
<1>9. id * part_length \in Nat /\ id * part_length <= Last * part_length
  BY <1>1, <1>2, <1>6
<1>10. Offset(id) \in 0 .. n - 1
  BY <1>1, <1>2, <1>6, <1>8, <1>9 DEF Offset
<1>11. Length(Last) = n - Last * part_length /\ Offset(Last) = Last * part_length
  BY <1>1, <1>6 DEF Length, rest_length, Offset
<1>12. Length(Last) > 0 /\ Offset(Last) + Length(Last) = n /\ Length(Last) \in Nat
  BY <1>1, <1>2, <1>6, <1>8, <1>11
<1>13. ASSUME id < Last
       PROVE  /\ id + 1 \in Threads /\ Length(id) = part_length
              /\ Offset(id + 1) = Offset(id) + part_length
              /\ Offset(id) + Length(id) <= n
  <2>1. id + 1 \in Threads
    BY <1>1, <1>6, <1>13 DEF Threads
  <2>2. Length(id) = part_length
    BY <1>13 DEF Length
  <2>3. Offset(id + 1) = Offset(id) + part_length
    BY <1>1, <1>2 DEF Offset
  <2>4. (id + 1) * part_length <= Last * part_length
    BY <1>1, <1>2, <1>6, <1>13
  <2> QED
    BY <1>1, <1>2, <1>6, <1>8, <2>1, <2>2, <2>3, <2>4 DEF Offset
<1>14. CASE id < Last
  BY <1>1, <1>2, <1>6, <1>10, <1>12, <1>13, <1>14
<1>15. CASE id = Last
  BY <1>1, <1>6, <1>10, <1>12, <1>15
<1> QED
  BY <1>1, <1>6, <1>14, <1>15

\* Every position of the text lies in a part.
LEMMA PartsCover ==
  ASSUME SizesAssumption, SentinelAssumption, Sizes, NEW p \in Positions(s)
  PROVE  \E id \in Threads : \E k \in 0 .. Length(id) - 1 : p = k + Offset(id)
<1>1. p \in 0 .. n - 1 /\ n \in Nat /\ thread_count \in Nat \ {0}
  BY DEF Positions, n, SizesAssumption, Sizes
<1>2. Last \in Threads /\ Last \in Nat
  BY <1>1 DEF Last, Threads
<1>3. part_length \in Nat
  BY <1>2, PartBounds
<1>4. CASE p >= Offset(Last)
  <2>1. Offset(Last) \in Int /\ Length(Last) \in Int /\ Offset(Last) + Length(Last) = n
    BY <1>2, PartsInText
  <2>2. p - Offset(Last) \in 0 .. Length(Last) - 1 /\ p = (p - Offset(Last)) + Offset(Last)
    BY <1>1, <1>4, <2>1
  <2> QED
    BY <1>2, <2>2
<1>5. CASE p < Offset(Last)
  <2>1. p < Last * part_length
    BY <1>5 DEF Offset
  <2>2. part_length \in Nat \ {0}
    BY <1>1, <1>2, <1>3, <2>1
  <2> DEFINE id == p \div part_length
  <2>3. id \in Int /\ p = part_length * id + (p % part_length) /\ (p % part_length) \in 0 .. part_length - 1
    BY <1>1, <2>2, Division
  <2>4. id < Last
    <3>1. p < part_length * Last
      BY <1>2, <1>3, <2>1
    <3> QED
      BY <1>1, <1>2, <2>2, <3>1, QuotientBelow
  <2>5. id >= 0
    BY <1>1, <2>2, QuotientBelow
  <2>6. id \in Threads
    BY <1>1, <2>3, <2>4, <2>5 DEF Threads, Last
  <2>7. Length(id) = part_length
    BY <2>4 DEF Length
  <2>8. Offset(id) = part_length * id
    BY <1>3, <2>3 DEF Offset
  <2> HIDE DEF id
  <2>9. p = (p % part_length) + Offset(id)
    BY <1>1, <1>3, <2>3, <2>8
  <2> QED
    BY <2>3, <2>6, <2>7, <2>9
<1>6. Offset(Last) \in Int
  BY <1>2, PartBounds
<1> QED
  BY <1>1, <1>4, <1>5, <1>6

\* The k-th position of a part is one of the text.
LEMMA InText ==
  ASSUME SizesAssumption, SentinelAssumption, Sizes,
         NEW id \in Threads, NEW k \in 0 .. Length(id) - 1
  PROVE  k + Offset(id) \in Positions(s)
<1>1. /\ n \in Nat /\ n = Len(s) /\ Offset(id) \in 0 .. n - 1 /\ Length(id) \in Nat
      /\ Offset(id) + Length(id) <= n
  BY PartsInText DEF n
<1> QED
  BY <1>1 DEF Positions

-----------------------------------------------------------------------------
(* The invariant is kept *)

\* The text and its parts stay.
LEMMA Frame ==
  ASSUME UNCHANGED << s, thread_count >>
  PROVE  /\ n' = n /\ Threads' = Threads /\ Last' = Last
         /\ Positions(s)' = Positions(s) /\ Types(s)' = Types(s)
         /\ \A p : IsS(s, p)' = IsS(s, p) /\ TypeOf(p)' = TypeOf(p) /\ At(s, p)' = At(s, p)
         /\ \A id : Length(id)' = Length(id) /\ Offset(id)' = Offset(id)
BY DEF n, Threads, Last, Positions, Types, IsS, TypeOf, At, Length, Offset, part_length, rest_length

Grows == \A id \in Threads : \A p \in Positions(s) : IsSet(id, p) => IsSet(id, p)'

\* setBit with the right value, up to its load: the bit is set in the byte.
LEMMA LoadSets ==
  ASSUME BitsInv, DOMAIN byte = Threads, NEW id \in Threads, NEW p \in Positions(s),
         byte[id] = NotLoaded, NEW value \in { L_Type, S_Type },
         value = S_Type <=> IsS(s, p),
         LoadByte(id, p, value), UNCHANGED << s, thread_count, t >>
  PROVE  BitsInv' /\ Grows /\ Classified(id, p)'
<1> USE DEF L_Type, S_Type
<1>1. /\ n' = n /\ Threads' = Threads /\ Positions(s)' = Positions(s)
      /\ \A q : IsS(s, q)' = IsS(s, q)
  BY Frame
<1>2. byte'[id] = [ q \in { x \in Positions(s) : SameByte(x, p) } |->
                      IF q = p THEN (IF t[p] = 1 THEN 1 ELSE value) ELSE t[q] ]
  BY DEF LoadByte
<1>3. \A o \in Threads : o # id => byte'[o] = byte[o]
  BY DEF LoadByte
<1>4. p \in DOMAIN byte'[id] /\ DOMAIN byte'[id] \subseteq Positions(s)
  BY <1>2 DEF SameByte
<1>5. ASSUME NEW q \in DOMAIN byte'[id]
      PROVE  /\ q \in Positions(s) /\ byte'[id][q] \in { 0, 1 }
             /\ byte'[id][q] = 1 => IsS(s, q)
             /\ t[q] = 1 => byte'[id][q] = 1
  BY <1>2, <1>4 DEF BitsInv
<1>6. BitsInv'
  <2>1. ASSUME NEW o \in Threads, NEW q \in DOMAIN byte'[o]
        PROVE  /\ q \in Positions(s) /\ byte'[o][q] \in { 0, 1 }
               /\ byte'[o][q] = 1 => IsS(s, q)
               /\ t[q] = 1 => byte'[o][q] = 1
    BY <1>3, <1>5, <2>1 DEF BitsInv
  <2>2. t' = t /\ t \in [ Positions(s) -> { 0, 1 } ] /\ t[n - 1] = 1
        /\ \A q \in Positions(s) : t[q] = 1 => IsS(s, q)
    BY DEF BitsInv
  <2> QED
    BY <1>1, <2>1, <2>2 DEF BitsInv
<1>7. Grows
  BY <1>3 DEF Grows, IsSet, NotLoaded
<1>8. Classified(id, p)'
  BY <1>1, <1>2, <1>4 DEF Classified, IsSet
<1> QED
  BY <1>6, <1>7, <1>8

\* setBit's store: nobody else has the byte, so that no bit is lost.
LEMMA StoreKeeps ==
  ASSUME SizesAssumption, SentinelAssumption, Sizes, BitsInv, BytesNotShared,
         DOMAIN byte = Threads, NEW id \in Threads, StoreByte(id)
  PROVE  BitsInv' /\ Grows
<1> USE DEF L_Type, S_Type
<1>1. /\ n' = n /\ Threads' = Threads /\ Positions(s)' = Positions(s)
      /\ \A q : IsS(s, q)' = IsS(s, q)
  BY Frame DEF StoreByte
<1>2. t' = [ p \in Positions(s) |-> IF p \in DOMAIN byte[id] THEN byte[id][p] ELSE t[p] ]
  BY DEF StoreByte
<1>3. byte'[id] = NotLoaded /\ \A o \in Threads : o # id => byte'[o] = byte[o]
  BY DEF StoreByte
<1>4. ASSUME NEW q \in Positions(s)
      PROVE  t'[q] \in { 0, 1 } /\ (t[q] = 1 => t'[q] = 1) /\ (t'[q] = 1 => IsS(s, q))
  BY <1>2 DEF BitsInv
<1>5. t' \in [ Positions(s) -> { 0, 1 } ]
  BY <1>2, <1>4
<1>6. t'[n - 1] = 1
  <2>1. n - 1 \in Positions(s)
    BY DEF SizesAssumption, SentinelAssumption, Sizes, n, Positions
  <2> QED
    BY <1>4, <2>1 DEF BitsInv
<1>7. ASSUME NEW o \in Threads, NEW q \in DOMAIN byte'[o]
      PROVE  /\ q \in Positions(s) /\ byte'[o][q] \in { 0, 1 }
             /\ byte'[o][q] = 1 => IsS(s, q)
             /\ t'[q] = 1 => byte'[o][q] = 1
  <2>1. o # id /\ byte'[o] = byte[o] /\ q \in DOMAIN byte[o]
    BY <1>3, <1>7 DEF NotLoaded
  <2>2. q \notin DOMAIN byte[id]
    BY <2>1 DEF BytesNotShared
  <2>3. q \in Positions(s) /\ t'[q] = t[q]
    BY <1>2, <2>1, <2>2 DEF BitsInv
  <2> QED
    BY <2>1, <2>3 DEF BitsInv
<1>8. BitsInv'
  BY <1>1, <1>4, <1>5, <1>6, <1>7 DEF BitsInv
<1>9. Grows
  <2> SUFFICES ASSUME NEW o \in Threads, NEW p \in Positions(s), IsSet(o, p) PROVE IsSet(o, p)'
    BY DEF Grows
  <2>1. CASE t[p] = 1
    BY <1>4, <2>1 DEF IsSet
  <2>2. CASE p \in DOMAIN byte[o] /\ byte[o][p] = 1
    BY <1>2, <1>3, <2>2 DEF IsSet
  <2> QED
    BY <2>1, <2>2 DEF IsSet
<1> QED
  BY <1>8, <1>9

\* What is classified stays classified.
LEMMA StaysClassified ==
  ASSUME SizesAssumption, SentinelAssumption, Sizes, Grows, UNCHANGED << s, thread_count >>,
         NEW id \in Threads, NEW k \in 0 .. Length(id) - 1, Classified(id, k + Offset(id))
  PROVE  Classified(id, k + Offset(id))'
<1>1. k + Offset(id) \in Positions(s)
  BY InText
<1>2. Offset(id)' = Offset(id) /\ IsS(s, k + Offset(id))' = IsS(s, k + Offset(id))
  BY Frame
<1> QED
  BY <1>1, <1>2 DEF Classified, Grows, IsSet

\* A classified bit that is not waiting in a byte is the type.
LEMMA ClassifiedIsType ==
  ASSUME BitsInv, NEW id \in Threads, byte[id] = NotLoaded, NEW p \in Positions(s), Classified(id, p)
  PROVE  t[p] = TypeOf(p)
BY DEF BitsInv, Classified, IsSet, TypeOf, NotLoaded, L_Type, S_Type

\* A step of the first pass: what the loops have passed is classified.
LEMMA FirstPassStep ==
  ASSUME SizesAssumption, SentinelAssumption, BytesInv, TypesInv, NEW id \in Threads,
         phase = "first", ~StoreByte(id), TaskStep(id)
  PROVE  TypesInv'
<1>1. Sizes /\ Counters /\ BitsInv /\ RunsInv /\ FirstInv
  BY DEF BytesInv, TypesInv
<1>2. UNCHANGED << s, thread_count, t, phase >> /\ phase' = "first"
  BY DEF TaskStep, SkipLast, ClassifyByCharacter, ClassifyByNeighbour, MoveBorder, EndFirstPass, SetRest
<1>3. /\ n' = n /\ Threads' = Threads /\ Last' = Last /\ Positions(s)' = Positions(s)
      /\ \A p : IsS(s, p)' = IsS(s, p) /\ TypeOf(p)' = TypeOf(p) /\ At(s, p)' = At(s, p)
      /\ \A o : Length(o)' = Length(o) /\ Offset(o)' = Offset(o)
  BY <1>2, Frame
<1>4. /\ byte[id] = NotLoaded
      /\ i[id] \in Int /\ i[id] < thread_border[id]
      /\ thread_border[id] \in Nat /\ thread_border[id] <= Length(id)
      /\ n \in Nat \ {0} /\ Offset(id) \in 0 .. n - 1
      /\ Length(id) \in Nat /\ Offset(id) + Length(id) <= n
  BY <1>1, PartsInText
     DEF TaskStep, SkipLast, ClassifyByCharacter, ClassifyByNeighbour, MoveBorder, EndFirstPass, SetRest,
         InFirstPass, FirstInv, Counters
<1> PICK p \in Int : p = i[id] + Offset(id)
  BY <1>4
<1>5. UNCHANGED byte => BitsInv' /\ Grows
  BY <1>1, <1>2, <1>3 DEF BitsInv, Grows, IsSet
<1>6. SecondInv' /\ TypesAreCorrect'
  BY <1>2 DEF SecondInv, TypesAreCorrect
\* The loop goes on after its position has been classified.
<1>7. ASSUME BitsInv', Grows, Classified(id, p)', i[id] >= 0,
             UNCHANGED << thread_border, thread_info >>, i' = [ i EXCEPT ![id] = @ - 1 ],
             \A o \in Threads : o # id => byte'[o] = byte[o]
      PROVE  TypesInv'
  <2>1. RunsInv'
    BY <1>1, <1>3, <1>7 DEF RunsInv
  <2>2. ASSUME NEW o \in Threads
        PROVE  /\ i'[o] < thread_border[o]
               /\ \A k \in 0 .. thread_border[o] - 1 : i'[o] < k => Classified(o, k + Offset(o))'
               /\ i'[o] = -2 => /\ byte'[o] = NotLoaded
                                /\ thread_border[o] # 0 => thread_info[o] = TypeOf(Offset(o))
    <3>1. CASE o # id
      <4>1. i'[o] = i[o] /\ byte'[o] = byte[o]
        BY <1>1, <1>7, <3>1 DEF Counters
      <4>2. thread_border[o] \in Nat /\ thread_border[o] <= Length(o) /\ Length(o) \in Nat
        BY <1>1, PartsInText DEF Counters
      <4>3. ASSUME NEW k \in 0 .. thread_border[o] - 1, i[o] < k PROVE Classified(o, k + Offset(o))'
        <5>1. k \in 0 .. Length(o) - 1 /\ Classified(o, k + Offset(o))
          BY <1>1, <1>2, <4>2, <4>3 DEF FirstInv
        <5> QED
          BY <1>1, <1>2, <1>7, <5>1, StaysClassified
      <4> QED
        BY <1>1, <1>2, <4>1, <4>3 DEF FirstInv
    <3>2. CASE o = id
      <4>1. i'[id] = i[id] - 1
        BY <1>1, <1>7 DEF Counters
      <4>2. ASSUME NEW k \in 0 .. thread_border[id] - 1, i[id] - 1 < k PROVE Classified(id, k + Offset(id))'
        <5>1. CASE k = i[id]
          BY <1>3, <1>7, <5>1 DEF Classified, IsSet
        <5>2. CASE i[id] < k
          <6>1. k \in 0 .. Length(id) - 1 /\ Classified(id, k + Offset(id))
            BY <1>1, <1>2, <1>4, <5>2 DEF FirstInv
          <6> QED
            BY <1>1, <1>2, <1>7, <6>1, StaysClassified
        <5> QED
          BY <1>4, <4>2, <5>1, <5>2
      <4> QED
        BY <1>4, <1>7, <3>2, <4>1, <4>2
    <3> QED
      BY <3>1, <3>2
  <2>3. FirstInv'
    BY <1>2, <1>3, <1>7, <2>2 DEF FirstInv
  <2> QED
    BY <1>1, <1>3, <1>6, <1>7, <2>1, <2>3 DEF TypesInv
<1>8. CASE SkipLast(id)
  <2>1. i[id] >= 0 /\ p + 1 >= n /\ i[id] < Length(id)
    BY <1>1, <1>2, <1>4, <1>8 DEF SkipLast, InFirstPass
  <2>2. p = n - 1
    BY <1>4, <2>1
  <2>3. Classified(id, p)'
    <3>1. t'[n - 1] = S_Type
      BY <1>1, <1>2 DEF BitsInv
    <3> QED
      BY <1>3, <2>2, <3>1 DEF Classified, IsSet
  <2> QED
    BY <1>5, <1>7, <1>8, <2>1, <2>3 DEF SkipLast
<1>9. CASE ClassifyByCharacter(id) \/ ClassifyByNeighbour(id)
  <2>1. i[id] >= 0 /\ p + 1 < n
    BY <1>9 DEF ClassifyByCharacter, ClassifyByNeighbour, InFirstPass
  <2>2. p \in 0 .. n - 2 /\ p \in Positions(s) /\ p + 1 \in Positions(s)
    BY <1>4, <2>1 DEF Positions, n
  <2>3. /\ At(s, p) \in Int /\ At(s, p + 1) \in Int
    BY <1>1, <2>2 DEF Sizes, SentinelAssumption
  <2>4. PICK value \in { L_Type, S_Type } : LoadByte(id, p, value) /\ (value = S_Type <=> IsS(s, p))
    <3>1. CASE ClassifyByCharacter(id)
      <4>1. LoadByte(id, p, IF At(s, p + 1) < At(s, p) THEN L_Type ELSE S_Type) /\ At(s, p + 1) # At(s, p)
        BY <3>1 DEF ClassifyByCharacter
      <4>2. CASE At(s, p + 1) < At(s, p)
        <5>1. ~IsS(s, p)
          BY <1>1, <1>4, <2>2, <2>3, <4>2, TypeByNeighbour
        <5> QED
          BY <4>1, <4>2, <5>1 DEF L_Type, S_Type
      <4>3. CASE ~(At(s, p + 1) < At(s, p))
        <5>1. IsS(s, p)
          <6>1. At(s, p) < At(s, p + 1)
            BY <2>3, <4>1, <4>3
          <6> QED
            BY <1>1, <1>4, <2>2, <6>1, TypeByNeighbour
        <5> QED
          BY <4>1, <4>3, <5>1 DEF L_Type, S_Type
      <4> QED
        BY <4>2, <4>3
    <3>2. CASE ClassifyByNeighbour(id)
      <4>1. LoadByte(id, p, t[p + 1]) /\ At(s, p + 1) = At(s, p) /\ MayCopy(id)
        BY <3>2 DEF ClassifyByNeighbour
      <4>2. i[id] + 1 < thread_border[id]
        <5>1. CASE id = Last
          <6>1. thread_border[id] = Length(id) /\ Offset(id) + Length(id) = n
            BY <1>1, <5>1, PartsInText DEF RunsInv
          <6> QED
            BY <1>4, <2>1, <6>1
        <5>2. CASE id # Last
          BY <1>4, <4>1, <5>2 DEF MayCopy
        <5> QED
          BY <5>1, <5>2
      <4>3. Classified(id, (i[id] + 1) + Offset(id))
        <5>1. i[id] + 1 \in 0 .. thread_border[id] - 1 /\ i[id] < i[id] + 1
          BY <1>4, <2>1, <4>2
        <5> QED
          BY <1>1, <1>2, <5>1 DEF FirstInv
      <4>4. (i[id] + 1) + Offset(id) = p + 1
        BY <1>4
      <4>5. t[p + 1] = TypeOf(p + 1)
        BY <1>1, <1>4, <2>2, <4>3, <4>4, ClassifiedIsType
      <4>6. IsS(s, p) <=> IsS(s, p + 1)
        BY <1>1, <1>4, <2>2, <4>1, TypeByNeighbour
      <4> QED
        BY <4>1, <4>5, <4>6 DEF TypeOf, L_Type, S_Type
    <3> QED
      BY <1>9, <3>1, <3>2
  <2>5. UNCHANGED << thread_border, thread_info >> /\ i' = [ i EXCEPT ![id] = @ - 1 ]
    BY <1>9 DEF ClassifyByCharacter, ClassifyByNeighbour
  <2>6. DOMAIN byte = Threads
    BY <1>1 DEF Counters
  <2>7. \A o \in Threads : o # id => byte'[o] = byte[o]
    BY <2>4, <2>6 DEF LoadByte
  <2>8. BitsInv' /\ Grows /\ Classified(id, p)'
    BY <1>1, <1>2, <1>4, <2>2, <2>4, <2>6, LoadSets
  <2> QED
    BY <1>7, <2>1, <2>5, <2>7, <2>8
<1>10. CASE MoveBorder(id)
  <2>1. /\ i[id] >= 0 /\ At(s, p + 1) = At(s, p) /\ id # Last
        /\ ~(i[id] + 1 < Length(id) /\ thread_border[id] # i[id] + 1)
        /\ thread_border' = [ thread_border EXCEPT ![id] = i[id] ]
        /\ i' = [ i EXCEPT ![id] = @ - 1 ] /\ UNCHANGED << thread_info, byte >>
    BY <1>10 DEF MoveBorder, InFirstPass, MayCopy
  <2>2. thread_border[id] = i[id] + 1
    BY <1>4, <2>1
  <2>3. thread_border'[id] = i[id] /\ i'[id] = i[id] - 1
        /\ \A o \in Threads : o # id => thread_border'[o] = thread_border[o] /\ i'[o] = i[o]
    BY <1>1, <2>1 DEF Counters
  <2>4. RunsInv'
    <3>1. ASSUME NEW k \in i[id] .. Length(id) - 1 PROVE At(s, k + Offset(id)) = At(s, k + Offset(id) + 1)
      <4>1. CASE k = i[id]
        BY <2>1, <4>1
      <4>2. CASE k # i[id]
        <5>1. k \in thread_border[id] .. Length(id) - 1
          BY <1>4, <2>2, <4>2
        <5> QED
          BY <1>1, <5>1 DEF RunsInv
      <4> QED
        BY <4>1, <4>2
    <3>2. ASSUME NEW o \in Threads
          PROVE  /\ o = Last => thread_border'[o] = Length(o)
                 /\ \A k \in thread_border'[o] .. Length(o) - 1 :
                      At(s, k + Offset(o)) = At(s, k + Offset(o) + 1)
      <4>1. CASE o = id
        BY <2>1, <2>3, <3>1, <4>1
      <4>2. CASE o # id
        BY <1>1, <2>3, <4>2 DEF RunsInv
      <4> QED
        BY <4>1, <4>2
    <3> QED
      BY <1>3, <3>2 DEF RunsInv
  <2>5. FirstInv'
    <3>1. ASSUME NEW o \in Threads
          PROVE  /\ i'[o] < thread_border'[o]
                 /\ \A k \in 0 .. thread_border'[o] - 1 : i'[o] < k => Classified(o, k + Offset(o))'
                 /\ i'[o] = -2 => /\ byte[o] = NotLoaded
                                  /\ thread_border'[o] # 0 => thread_info[o] = TypeOf(Offset(o))
      <4>1. CASE o = id
        BY <1>4, <2>1, <2>3, <4>1
      <4>2. CASE o # id
        <5>1. thread_border[o] \in Nat /\ thread_border[o] <= Length(o) /\ Length(o) \in Nat
          BY <1>1, PartsInText DEF Counters
        <5>2. ASSUME NEW k \in 0 .. thread_border[o] - 1, i[o] < k PROVE Classified(o, k + Offset(o))'
          <6>1. k \in 0 .. Length(o) - 1 /\ Classified(o, k + Offset(o)) /\ Grows
            BY <1>1, <1>2, <1>5, <2>1, <5>1, <5>2 DEF FirstInv
          <6> QED
            BY <1>1, <1>2, <6>1, StaysClassified
        <5> QED
          BY <1>1, <1>2, <2>3, <4>2, <5>2 DEF FirstInv
      <4> QED
        BY <4>1, <4>2
    <3> QED
      BY <1>3, <2>1, <3>1 DEF FirstInv
  <2> QED
    BY <1>3, <1>5, <1>6, <2>1, <2>4, <2>5 DEF TypesInv
<1>11. CASE EndFirstPass(id)
  <2>1. /\ i[id] = -1 /\ UNCHANGED << byte, thread_border >> /\ i' = [ i EXCEPT ![id] = -2 ]
        /\ thread_info' = [ thread_info EXCEPT ![id] = IF thread_border[id] # 0 THEN t[Offset(id)] ELSE @ ]
    BY <1>11 DEF EndFirstPass
  <2>2. RunsInv'
    BY <1>1, <1>3, <2>1 DEF RunsInv
  <2>3. thread_border[id] # 0 => t[Offset(id)] = TypeOf(Offset(id))
    <3> SUFFICES ASSUME thread_border[id] # 0 PROVE t[Offset(id)] = TypeOf(Offset(id))
      OBVIOUS
    <3>1. 0 \in 0 .. thread_border[id] - 1 /\ i[id] < 0
      BY <1>4, <2>1
    <3>2. Classified(id, 0 + Offset(id)) /\ 0 + Offset(id) = Offset(id)
      BY <1>1, <1>2, <1>4, <3>1 DEF FirstInv
    <3>3. Offset(id) \in Positions(s)
      BY <1>4 DEF Positions, n
    <3> QED
      BY <1>1, <1>4, <3>2, <3>3, ClassifiedIsType
  <2>4. thread_info \in [ Threads -> { L_Type, S_Type } ]
    BY DEF TypesInv
  <2>5. thread_info' \in [ Threads -> { L_Type, S_Type } ]
    BY <2>1, <2>3, <2>4 DEF TypeOf
  <2>6. FirstInv'
    <3>1. ASSUME NEW o \in Threads
          PROVE  /\ i'[o] < thread_border[o]
                 /\ \A k \in 0 .. thread_border[o] - 1 : i'[o] < k => Classified(o, k + Offset(o))'
                 /\ i'[o] = -2 => /\ byte[o] = NotLoaded
                                  /\ thread_border[o] # 0 => thread_info'[o] = TypeOf(Offset(o))
      <4>1. /\ thread_border[o] \in Nat /\ thread_border[o] <= Length(o) /\ Length(o) \in Nat
            /\ i[o] \in Int /\ i[o] < thread_border[o]
        BY <1>1, <1>2, PartsInText DEF Counters, FirstInv
      <4>2. ASSUME NEW k \in 0 .. thread_border[o] - 1, i[o] < k PROVE Classified(o, k + Offset(o))'
        <5>1. k \in 0 .. Length(o) - 1 /\ Classified(o, k + Offset(o)) /\ Grows
          BY <1>1, <1>2, <1>5, <2>1, <4>1, <4>2 DEF FirstInv
        <5> QED
          BY <1>1, <1>2, <5>1, StaysClassified
      <4>3. CASE o = id
        <5>1. i'[o] = -2 /\ (thread_border[o] # 0 => thread_info'[o] = TypeOf(Offset(o)))
          BY <1>1, <2>1, <2>3, <2>4, <4>3 DEF Counters
        <5> QED
          BY <1>4, <2>1, <4>1, <4>2, <4>3, <5>1
      <4>4. CASE o # id
        <5>1. i'[o] = i[o] /\ thread_info'[o] = thread_info[o]
          BY <1>1, <2>1, <2>4, <4>4 DEF Counters
        <5> QED
          BY <1>1, <1>2, <4>1, <4>2, <5>1 DEF FirstInv
      <4> QED
        BY <4>3, <4>4
    <3> QED
      BY <1>3, <2>1, <3>1 DEF FirstInv
  <2> QED
    BY <1>3, <1>5, <1>6, <2>1, <2>2, <2>5, <2>6 DEF TypesInv
<1>12. ~SetRest(id)
  BY DEF SetRest
<1> QED
  BY <1>8, <1>9, <1>10, <1>11, <1>12 DEF TaskStep

\* A part that is one run of equal characters has the type of the part with the
\* next border information: what compute_types copies between the passes.
LEMMA InformedKnows ==
  ASSUME SizesAssumption, SentinelAssumption, BytesInv, TypesInv, phase = "first",
         NEW id \in Threads, \A o \in Threads : i[o] = -2
  PROVE  thread_info[Informed(id)] = TypeOf(Offset(id))
<1>1. Sizes /\ Counters /\ RunsInv /\ FirstInv
  BY DEF BytesInv, TypesInv
<1>2. /\ n \in Nat \ {0} /\ Last \in Threads /\ id <= Last /\ Length(Last) > 0
      /\ Threads \subseteq Nat /\ Threads = 0 .. Last /\ part_length \in Nat
  BY <1>1, PartsInText, PartBounds DEF Threads, Last
<1> DEFINE m == Informed(id)
<1>3. /\ m \in id .. Last /\ (thread_border[m] # 0 \/ m = Last)
      /\ \A k \in id .. m - 1 : thread_border[k] = 0
  <2> DEFINE Knows == { j \in id .. Last : thread_border[j] # 0 \/ j = Last }
  <2>1. Knows \subseteq Nat /\ Last \in Knows
    BY <1>2
  <2>2. PICK j \in Knows : \A k \in Knows : j <= k
    <3> HIDE DEF Knows
    <3> QED
      BY <2>1, Smallest
  <2>3. \A k \in id .. j - 1 : thread_border[k] = 0
    <3> SUFFICES ASSUME NEW k \in id .. j - 1, thread_border[k] # 0 PROVE FALSE
      OBVIOUS
    <3>1. k \in Knows /\ ~(j <= k)
      BY <1>2, <2>2
    <3> QED
      BY <2>2, <3>1
  <2> QED
    BY <2>2, <2>3 DEF Informed
<1> HIDE DEF m
<1>4. m \in Threads /\ m \in Nat /\ id \in Nat /\ Last \in Nat
  BY <1>2, <1>3
<1>5. thread_border[m] # 0
  <2>1. thread_border[Last] = Length(Last)
    BY <1>1, <1>2 DEF RunsInv
  <2> QED
    BY <1>2, <1>3, <2>1
<1>6. thread_info[m] = TypeOf(Offset(m))
  BY <1>1, <1>4, <1>5 DEF FirstInv
<1>7. \A q \in Offset(id) .. Offset(m) - 1 : At(s, q) = At(s, q + 1)
  <2> SUFFICES ASSUME NEW q \in Offset(id) .. Offset(m) - 1 PROVE At(s, q) = At(s, q + 1)
    OBVIOUS
  <2>1. /\ Offset(id) = id * part_length /\ Offset(m) = m * part_length
        /\ q \in Int /\ id * part_length <= q /\ q < m * part_length
        /\ id * part_length \in Int /\ m * part_length \in Int
    BY <1>2, <1>4 DEF Offset
  <2>2. part_length \in Nat \ {0}
    BY <1>2, <1>4, <2>1
  <2> DEFINE o == q \div part_length
  <2>3. o \in Int /\ q = part_length * o + (q % part_length) /\ (q % part_length) \in 0 .. part_length - 1
    BY <2>1, <2>2, Division
  <2>4. id <= o /\ o < m
    <3>1. q >= part_length * id /\ q < part_length * m
      BY <1>2, <1>4, <2>1
    <3> QED
      BY <1>4, <2>1, <2>2, <3>1, QuotientBelow
  <2> HIDE DEF o
  <2>5. o \in id .. m - 1 /\ o \in Threads /\ o < Last
    BY <1>2, <1>3, <1>4, <2>3, <2>4
  <2>6. thread_border[o] = 0 /\ Length(o) = part_length /\ Offset(o) = part_length * o
    BY <1>2, <1>3, <2>3, <2>5 DEF Length, Offset
  <2>7. (q % part_length) \in thread_border[o] .. Length(o) - 1 /\ (q % part_length) + Offset(o) = q
    BY <2>2, <2>3, <2>6
  <2> QED
    BY <1>1, <2>5, <2>7 DEF RunsInv
<1>8. Offset(m) \in 0 .. n - 1 /\ Offset(id) \in 0 .. Offset(m)
  <2>1. Offset(m) \in 0 .. n - 1 /\ Offset(id) \in 0 .. n - 1
    BY <1>1, <1>4, PartsInText
  <2>2. id * part_length <= m * part_length
    BY <1>2, <1>3, <1>4
  <2> QED
    BY <2>1, <2>2 DEF Offset
<1>9. IsS(s, Offset(id)) <=> IsS(s, Offset(m))
  BY <1>1, <1>2, <1>7, <1>8, RunHasOneType
<1> QED
  BY <1>6, <1>9 DEF TypeOf, m

\* The barrier between the passes: afterwards every part knows the type of its
\* first character (compute_types).
LEMMA TakeOverStep ==
  ASSUME SizesAssumption, SentinelAssumption, BytesInv, TypesInv, TakeOver
  PROVE  TypesInv'
<1>1. Sizes /\ Counters /\ BitsInv /\ RunsInv /\ FirstInv
  BY DEF BytesInv, TypesInv
<1>2. /\ phase = "first" /\ phase' = "second" /\ \A o \in Threads : i[o] = -2
      /\ i' = thread_border /\ UNCHANGED << s, thread_count, t, thread_border, byte >>
      /\ thread_info' = [ id \in Threads |-> thread_info[Informed(id)] ]
  BY DEF TakeOver
<1>3. /\ n' = n /\ Threads' = Threads /\ Last' = Last /\ Positions(s)' = Positions(s)
      /\ \A p : IsS(s, p)' = IsS(s, p) /\ TypeOf(p)' = TypeOf(p) /\ At(s, p)' = At(s, p)
      /\ \A o : Length(o)' = Length(o) /\ Offset(o)' = Offset(o)
  BY <1>2, Frame
<1>4. \A id \in Threads : thread_info'[id] = TypeOf(Offset(id))
  BY <1>2, InformedKnows
<1>5. thread_info' \in [ Threads -> { L_Type, S_Type } ]
  BY <1>2, <1>4 DEF TypeOf
<1>6. BitsInv' /\ RunsInv' /\ Grows
  BY <1>1, <1>2, <1>3 DEF BitsInv, RunsInv, Grows, IsSet
<1>7. SecondInv'
  <2>1. ASSUME NEW id \in Threads
        PROVE  /\ thread_border[id] <= i'[id]
               /\ \A k \in 0 .. Length(id) - 1 : k < i'[id] => Classified(id, k + Offset(id))'
    <3>1. thread_border[id] \in Nat /\ thread_border[id] <= Length(id) /\ Length(id) \in Nat
      BY <1>1, PartsInText DEF Counters
    <3>2. ASSUME NEW k \in 0 .. Length(id) - 1, k < thread_border[id] PROVE Classified(id, k + Offset(id))'
      <4>1. Classified(id, k + Offset(id))
        BY <1>1, <1>2, <3>1, <3>2 DEF FirstInv
      <4> QED
        BY <1>1, <1>2, <1>6, <4>1, StaysClassified
    <3> QED
      BY <1>2, <3>1, <3>2
  <2> QED
    BY <1>2, <1>3, <1>4, <2>1 DEF SecondInv
<1>8. FirstInv' /\ TypesAreCorrect'
  BY <1>2 DEF FirstInv, TypesAreCorrect
<1> QED
  BY <1>3, <1>5, <1>6, <1>7, <1>8 DEF TypesInv

\* A step of the second pass: a position of the run at the end of a part gets
\* the type of the next part's first character.
LEMMA SecondPassStep ==
  ASSUME SizesAssumption, SentinelAssumption, BytesInv, TypesInv, NEW id \in Threads, SetRest(id)
  PROVE  TypesInv'
<1>1. Sizes /\ Counters /\ BitsInv /\ RunsInv /\ SecondInv /\ thread_info \in [ Threads -> { L_Type, S_Type } ]
  BY DEF BytesInv, TypesInv
<1>2. /\ phase = "second" /\ phase' = "second" /\ byte[id] = NotLoaded /\ i[id] < Length(id)
      /\ LoadByte(id, i[id] + Offset(id), thread_info[id + 1])
      /\ i' = [ i EXCEPT ![id] = @ + 1 ]
      /\ UNCHANGED << s, thread_count, t, thread_border, thread_info >>
  BY DEF SetRest
<1>3. /\ n' = n /\ Threads' = Threads /\ Last' = Last /\ Positions(s)' = Positions(s)
      /\ \A p : IsS(s, p)' = IsS(s, p) /\ TypeOf(p)' = TypeOf(p) /\ At(s, p)' = At(s, p)
      /\ \A o : Length(o)' = Length(o) /\ Offset(o)' = Offset(o)
  BY <1>2, Frame
<1>4. /\ i[id] \in Int /\ thread_border[id] <= i[id] /\ thread_border[id] \in Nat
      /\ n \in Nat \ {0} /\ Offset(id) \in 0 .. n - 1 /\ Length(id) \in Nat
      /\ id \in Int /\ Last \in Int /\ id <= Last /\ part_length \in Nat
  BY <1>1, <1>2, PartsInText, PartBounds DEF Counters, SecondInv, Threads, Last
<1>5. id < Last
  BY <1>1, <1>2, <1>4 DEF RunsInv
<1>6. /\ id + 1 \in Threads /\ Length(id) = part_length
      /\ Offset(id + 1) = Offset(id) + part_length /\ Offset(id + 1) \in 0 .. n - 1
  BY <1>1, <1>5, PartsInText
<1> PICK p \in Int : p = i[id] + Offset(id)
  BY <1>4
<1>7. p \in 0 .. Offset(id + 1) /\ p \in Positions(s)
  BY <1>2, <1>4, <1>6 DEF Positions, n
<1>8. \A q \in p .. Offset(id + 1) - 1 : At(s, q) = At(s, q + 1)
  <2> SUFFICES ASSUME NEW q \in p .. Offset(id + 1) - 1 PROVE At(s, q) = At(s, q + 1)
    OBVIOUS
  <2>1. q - Offset(id) \in thread_border[id] .. Length(id) - 1 /\ (q - Offset(id)) + Offset(id) = q
    BY <1>4, <1>6
  <2> QED
    BY <1>1, <2>1 DEF RunsInv
<1>9. IsS(s, p) <=> IsS(s, Offset(id + 1))
  BY <1>1, <1>4, <1>6, <1>7, <1>8, RunHasOneType
<1>10. thread_info[id + 1] \in { L_Type, S_Type } /\ (thread_info[id + 1] = S_Type <=> IsS(s, p))
  BY <1>1, <1>2, <1>6, <1>9 DEF SecondInv, TypeOf, L_Type, S_Type
<1>11. BitsInv' /\ Grows /\ Classified(id, p)'
  BY <1>1, <1>2, <1>7, <1>10, LoadSets DEF Counters
<1>12. SecondInv'
  <2>1. ASSUME NEW o \in Threads
        PROVE  /\ thread_border[o] <= i'[o]
               /\ \A k \in 0 .. Length(o) - 1 : k < i'[o] => Classified(o, k + Offset(o))'
    <3>1. i[o] \in Int /\ thread_border[o] \in Nat /\ thread_border[o] <= i[o]
      BY <1>1, <1>2 DEF Counters, SecondInv
    <3>2. ASSUME NEW k \in 0 .. Length(o) - 1, k < i[o] PROVE Classified(o, k + Offset(o))'
      <4>1. Classified(o, k + Offset(o))
        BY <1>1, <1>2, <3>2 DEF SecondInv
      <4> QED
        BY <1>1, <1>2, <1>11, <4>1, StaysClassified
    <3>3. CASE o = id
      <4>1. i'[id] = i[id] + 1
        BY <1>1, <1>2 DEF Counters
      <4>2. ASSUME NEW k \in 0 .. Length(id) - 1, k < i[id] + 1 PROVE Classified(id, k + Offset(id))'
        <5>1. CASE k = i[id]
          BY <1>3, <1>11, <5>1 DEF Classified, IsSet
        <5> QED
          BY <1>4, <3>2, <3>3, <4>2, <5>1
      <4> QED
        BY <3>1, <3>3, <4>1, <4>2
    <3>4. CASE o # id
      <4>1. i'[o] = i[o]
        BY <1>1, <1>2, <3>4 DEF Counters
      <4> QED
        BY <3>1, <3>2, <4>1
    <3> QED
      BY <3>3, <3>4
  <2> QED
    BY <1>1, <1>2, <1>3, <2>1 DEF SecondInv
<1>13. RunsInv' /\ FirstInv' /\ TypesAreCorrect'
  BY <1>1, <1>2, <1>3 DEF RunsInv, FirstInv, TypesAreCorrect
<1> QED
  BY <1>1, <1>2, <1>3, <1>11, <1>12, <1>13 DEF TypesInv

\* Storing a byte makes no position unclassified.
LEMMA StoreStep ==
  ASSUME SizesAssumption, SentinelAssumption, BytesInv, TypesInv, NEW id \in Threads, StoreByte(id)
  PROVE  TypesInv'
<1>1. Sizes /\ Counters /\ BitsInv /\ RunsInv /\ FirstInv /\ SecondInv /\ TypesAreCorrect
  BY DEF BytesInv, TypesInv
<1>2. UNCHANGED << s, thread_count, thread_border, thread_info, phase, i >>
  BY DEF StoreByte
<1>3. /\ n' = n /\ Threads' = Threads /\ Last' = Last /\ Positions(s)' = Positions(s)
      /\ Types(s)' = Types(s)
      /\ \A p : IsS(s, p)' = IsS(s, p) /\ TypeOf(p)' = TypeOf(p) /\ At(s, p)' = At(s, p)
      /\ \A o : Length(o)' = Length(o) /\ Offset(o)' = Offset(o)
  BY <1>2, Frame
<1>4. BitsInv' /\ Grows
  BY <1>1, InvApart, StoreKeeps DEF Counters
<1>5. RunsInv'
  BY <1>1, <1>2, <1>3 DEF RunsInv
<1>6. ASSUME NEW o \in Threads, NEW k \in 0 .. Length(o) - 1, Classified(o, k + Offset(o))
      PROVE  Classified(o, k + Offset(o))'
  BY <1>1, <1>2, <1>4, <1>6, StaysClassified
<1>7. FirstInv'
  <2>1. ASSUME phase = "first", NEW o \in Threads
        PROVE  /\ i[o] < thread_border[o]
               /\ \A k \in 0 .. thread_border[o] - 1 : i[o] < k => Classified(o, k + Offset(o))'
               /\ i[o] = -2 => /\ byte'[o] = NotLoaded
                               /\ thread_border[o] # 0 => thread_info[o] = TypeOf(Offset(o))
    <3>1. thread_border[o] \in Nat /\ thread_border[o] <= Length(o) /\ Length(o) \in Nat
      BY <1>1, PartsInText DEF Counters
    <3>2. ASSUME NEW k \in 0 .. thread_border[o] - 1, i[o] < k PROVE Classified(o, k + Offset(o))'
      <4>1. k \in 0 .. Length(o) - 1 /\ Classified(o, k + Offset(o))
        BY <1>1, <2>1, <3>1, <3>2 DEF FirstInv
      <4> QED
        BY <1>6, <4>1
    <3>3. byte'[o] = byte[o] \/ byte'[o] = NotLoaded
      BY <1>1 DEF StoreByte, Counters
    <3> QED
      BY <1>1, <2>1, <3>2, <3>3 DEF FirstInv
  <2> QED
    BY <1>2, <1>3, <2>1 DEF FirstInv
<1>8. SecondInv'
  BY <1>1, <1>2, <1>3, <1>6 DEF SecondInv
<1>9. TypesAreCorrect'
  <2>1. ASSUME phase = "done" PROVE t' = Types(s)
    <3>1. t = Types(s) /\ t \in [ Positions(s) -> { 0, 1 } ] /\ t' \in [ Positions(s) -> { 0, 1 } ]
      BY <1>1, <1>3, <1>4, <2>1 DEF TypesAreCorrect, BitsInv, L_Type, S_Type
    <3>2. ASSUME NEW p \in Positions(s) PROVE t'[p] = t[p]
      <4>1. t[p] = 1 <=> IsS(s, p)
        BY <3>1 DEF Types, L_Type, S_Type
      <4>2. t'[p] = 1 => IsS(s, p)
        BY <1>3, <1>4 DEF BitsInv, S_Type
      <4>3. t[p] = 1 => t'[p] = 1
        <5>1. p \in DOMAIN byte[id] /\ t[p] = 1 => byte[id][p] = 1
          BY <1>1 DEF BitsInv, S_Type
        <5> QED
          BY <5>1 DEF StoreByte
      <4> QED
        BY <3>1, <4>1, <4>2, <4>3
    <3> QED
      BY <3>1, <3>2
  <2> QED
    BY <1>2, <1>3, <2>1 DEF TypesAreCorrect
<1>10. thread_info' \in [ Threads' -> { L_Type, S_Type } ]
  BY <1>2, <1>3 DEF TypesInv
<1> QED
  BY <1>4, <1>5, <1>7, <1>8, <1>9, <1>10 DEF TypesInv

\* When both passes are through and every byte is stored, every bit is the type.
LEMMA FinishStep ==
  ASSUME SizesAssumption, SentinelAssumption, BytesInv, TypesInv, Finish
  PROVE  TypesInv'
<1>1. Sizes /\ Counters /\ BitsInv /\ RunsInv /\ SecondInv
  BY DEF BytesInv, TypesInv
<1>2. /\ phase = "second" /\ phase' = "done"
      /\ \A id \in Threads : i[id] >= Length(id) /\ byte[id] = NotLoaded
      /\ UNCHANGED << s, thread_count, t, thread_border, thread_info, i, byte >>
  BY DEF Finish
<1>3. /\ n' = n /\ Threads' = Threads /\ Last' = Last /\ Positions(s)' = Positions(s)
      /\ Types(s)' = Types(s)
      /\ \A p : IsS(s, p)' = IsS(s, p) /\ TypeOf(p)' = TypeOf(p) /\ At(s, p)' = At(s, p)
      /\ \A o : Length(o)' = Length(o) /\ Offset(o)' = Offset(o)
  BY <1>2, Frame
<1>4. BitsInv' /\ RunsInv' /\ FirstInv' /\ Grows
  BY <1>1, <1>2, <1>3 DEF BitsInv, RunsInv, FirstInv, Grows, IsSet
<1>5. SecondInv'
  <2>1. ASSUME NEW o \in Threads, NEW k \in 0 .. Length(o) - 1, Classified(o, k + Offset(o))
        PROVE  Classified(o, k + Offset(o))'
    BY <1>1, <1>2, <1>4, <2>1, StaysClassified
  <2> QED
    BY <1>1, <1>2, <1>3, <2>1 DEF SecondInv
<1>6. t = Types(s)
  <2>1. ASSUME NEW p \in Positions(s) PROVE t[p] = TypeOf(p)
    <3>1. PICK id \in Threads : \E k \in 0 .. Length(id) - 1 : p = k + Offset(id)
      BY <1>1, PartsCover
    <3>2. PICK k \in 0 .. Length(id) - 1 : p = k + Offset(id)
      BY <3>1
    <3>3. Length(id) \in Nat /\ i[id] \in Int /\ i[id] >= Length(id)
      BY <1>1, <1>2, PartsInText DEF Counters
    <3>4. Classified(id, p)
      BY <1>1, <1>2, <3>2, <3>3 DEF SecondInv
    <3> QED
      BY <1>1, <1>2, <3>4, ClassifiedIsType
  <2> QED
    BY <1>1, <2>1 DEF BitsInv, Types, TypeOf
<1>7. TypesAreCorrect' /\ thread_info' \in [ Threads' -> { L_Type, S_Type } ]
  BY <1>2, <1>3, <1>6 DEF TypesAreCorrect, TypesInv
<1> QED
  BY <1>4, <1>5, <1>7 DEF TypesInv

\* At first only the sentinel has its type.
LEMMA InitTypes == SizesAssumption /\ SentinelAssumption /\ Init => TypesInv
<1> SUFFICES ASSUME SizesAssumption, SentinelAssumption, Init PROVE TypesInv
  OBVIOUS
<1>1. BytesInv /\ Sizes
  BY InitBytes DEF BytesInv
<1>2. \A id \in Threads : Length(id) \in Nat
  BY <1>1, PartsInText
<1>3. n \in Nat \ {0} /\ n = Len(s)
  BY <1>1 DEF SizesAssumption, SentinelAssumption, Sizes, n
<1>4. BitsInv
  BY <1>3 DEF Init, BitsInv, IsS, Positions, NotLoaded, L_Type, S_Type
<1>5. RunsInv
  BY <1>2 DEF Init, RunsInv
<1>6. FirstInv
  BY <1>2 DEF Init, FirstInv
<1> QED
  BY <1>4, <1>5, <1>6 DEF Init, TypesInv, SecondInv, TypesAreCorrect, L_Type

\* Every step of the tasks and of the main thread keeps the invariant.
LEMMA StepTypes ==
  SizesAssumption /\ SentinelAssumption /\ BytesInv /\ TypesInv /\ [Next]_vars => TypesInv'
<1> SUFFICES ASSUME SizesAssumption, SentinelAssumption, BytesInv, TypesInv, [Next]_vars
             PROVE  TypesInv'
  OBVIOUS
<1>1. ASSUME NEW id \in Threads, TaskStep(id) PROVE TypesInv'
  <2>1. CASE StoreByte(id)
    BY <2>1, StoreStep
  <2>2. CASE ~StoreByte(id) /\ phase = "first"
    BY <1>1, <2>2, FirstPassStep
  <2>3. CASE ~StoreByte(id) /\ phase # "first"
    <3>1. SetRest(id)
      BY <1>1, <2>3 DEF TaskStep, SkipLast, ClassifyByCharacter, ClassifyByNeighbour,
                        MoveBorder, EndFirstPass, InFirstPass
    <3> QED
      BY <3>1, SecondPassStep
  <2> QED
    BY <2>1, <2>2, <2>3
<1>2. CASE UNCHANGED vars
  BY <1>2, Frame
     DEF vars, TypesInv, BitsInv, RunsInv, FirstInv, SecondInv, Classified, IsSet, TypesAreCorrect
<1> QED
  BY <1>1, <1>2, TakeOverStep, FinishStep DEF Next, Terminating

\* The tasks compute the suffix types, for every text, number of parts, size of a
\* byte and interleaving of their loads and stores (compute_types).
THEOREM TypesComputed ==
  ASSUME SizesAssumption, SentinelAssumption PROVE Spec => []TypesAreCorrect
<1>1. Init => TypesInv
  BY InitTypes
<1>2. BytesInv /\ TypesInv /\ [Next]_vars => TypesInv'
  BY StepTypes
<1>3. TypesInv => TypesAreCorrect
  BY DEF TypesInv
<1> QED
  BY <1>1, <1>2, <1>3, BytesInvariance, PTL DEF Spec
=============================================================================
