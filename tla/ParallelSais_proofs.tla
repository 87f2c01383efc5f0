-------------------------- MODULE ParallelSais_proofs --------------------------
(***************************************************************************)
(* Proofs about parallel SAIS, for every set of texts, every part length   *)
(* and every cell width the modules' assumptions allow.                    *)
(*                                                                         *)
(* First the pipeline (PipelinedInducing), whose inductive invariant is    *)
(* PipelineInv.  Its heart is that at any time one write buffer belongs to *)
(* the block being induced (Filling) and the other to the block before it  *)
(* (Flushing), that the direct store leaves for the buffers only cells at  *)
(* least two blocks ahead of the scan, and that the update task empties a  *)
(* buffer before its parity comes round.                                   *)
(*                                                                         *)
(* RefinementInv strengthens it to show that the pipeline implements the   *)
(* sequential scan (InducingSeq): with the pending writes applied, SA is   *)
(* the scan's SA, of which SeqInv tells that a visited suffix still has a  *)
(* free cell in its bucket; the records match the cells they are for,      *)
(* although prepare reads SA while the other two tasks write it.           *)
(*                                                                         *)
(* Then what ParallelTypes_proofs proves of the tasks of compute_types, of *)
(* them as the constructor of ParallelSais runs them.                      *)
(*                                                                         *)
(* Last the constructor of ParallelSais itself.  Its invariant, SaisInv,   *)
(* says what each phase hands to the next:                                 *)
(*   InducingInv  a pass has put what it has visited in order (OrderInv);  *)
(*   NamesInv     names order the LMS suffixes as their substrings do;     *)
(*   ReducedInv   so do the characters of the reduced text;                *)
(*   SortedInv    the front of SA sorts the LMS suffixes;                  *)
(*   PlacingInv   they move to the ends of their buckets, in order.        *)
(***************************************************************************)
EXTENDS ParallelSais, FiniteSetTheorems, SequenceTheorems, WellFoundedInduction, TLAPS

\* Facts about the constants and the parities of neighbouring blocks.
LEMMA ConstantFacts ==
  /\ K \in Nat \ {0}
  /\ PartLength \in Nat \ {0}
  /\ None \in Nat
  /\ None >= 2 * LowBase - 1
<1>1. LowBase \in Nat \ {0} /\ HiBase \in Nat /\ HiBase >= 2
  BY ConstantsAssumption
<1>2. LowBase * HiBase \in Nat /\ LowBase * HiBase >= LowBase * 2
  BY <1>1, SMT
<1> QED
  BY <1>1, <1>2, ConstantsAssumption DEF None

LEMMA TextFacts ==
  ASSUME s \in Texts
  PROVE  /\ n \in Nat \ {0}
         /\ n < None
         /\ block_amount \in Nat \ {0}
         /\ Positions(s) = 0 .. n - 1
         /\ \A j \in Positions(s) : At(s, j) \in 0 .. K - 1
<1>1. s \in Seq(0 .. K - 1) /\ Len(s) > 0 /\ Len(s) + 1 < LowBase
  BY TextsAssumption
<1>2. LowBase \in Nat \ {0}
  BY ConstantsAssumption
<1>3. n \in Nat \ {0} /\ n < None
  BY <1>1, <1>2, ConstantFacts DEF n
<1>4. block_amount \in Nat \ {0}
  BY <1>3, ConstantFacts DEF block_amount
<1>5. \A j \in 0 .. n - 1 : At(s, j) \in 0 .. K - 1
  <2> TAKE j \in 0 .. n - 1
  <2>1. j + 1 \in 1 .. Len(s)
    BY <1>3 DEF n
  <2>2. s[j + 1] \in 0 .. K - 1
    BY <1>1, <2>1, ElementOfSeq
  <2> QED
    BY <2>2 DEF At
<1> QED
  BY <1>3, <1>4, <1>5 DEF Positions, n

LEMMA ParityFacts ==
  ASSUME NEW k \in Int
  PROVE  /\ k % 2 \in Parities
         /\ (k - 1) % 2 \in Parities
         /\ (k + 1) % 2 \in Parities
         /\ (k - 1) % 2 # k % 2
         /\ (k + 1) % 2 # k % 2
         /\ (k - 2) % 2 = k % 2
         /\ (k + 2) % 2 = k % 2
         /\ (k + 1) % 2 = (k - 1) % 2
         /\ \A p \in Parities : p = k % 2 \/ p = (k - 1) % 2
BY DEF Parities

\* The blocks of the three tasks of an iteration are neighbours.
LEMMA BlockFacts ==
  ASSUME TypeOK
  PROVE  /\ Filling \in Int
         /\ Flushing \in Int
         /\ Filling % 2 \in Parities
         /\ Flushing % 2 \in Parities
         /\ Filling % 2 # Flushing % 2
         /\ \A p \in Parities : p = Filling % 2 \/ p = Flushing % 2
         /\ BlockOf(blocknum) \in Int
         /\ BlockOf(blocknum) % 2 = Flushing % 2
         /\ IF type = L_Type THEN Flushing = Filling - 1 ELSE Flushing = Filling + 1
<1>1. blocknum \in Int /\ block_amount \in Int /\ type \in { L_Type, S_Type }
  BY TextFacts DEF TypeOK
<1>2. /\ Filling \in Int
      /\ Flushing \in Int
      /\ BlockOf(blocknum) \in Int
      /\ IF type = L_Type THEN Flushing = Filling - 1 ELSE Flushing = Filling + 1
      /\ IF type = L_Type THEN BlockOf(blocknum) = Flushing + 2
                          ELSE BlockOf(blocknum) = Flushing - 2
  BY <1>1 DEF Filling, Flushing, BlockOf, L_Type, S_Type
<1>3. /\ Filling % 2 \in Parities
      /\ \A p \in Parities : p = Filling % 2 \/ p = (Filling - 1) % 2
      /\ (Filling - 1) % 2 # Filling % 2
      /\ (Filling + 1) % 2 = (Filling - 1) % 2
      /\ (Filling - 1) % 2 \in Parities
  BY <1>2, ParityFacts
<1>4. (Flushing + 2) % 2 = Flushing % 2 /\ (Flushing - 2) % 2 = Flushing % 2
  BY <1>2, ParityFacts
<1> QED
  BY <1>2, <1>3, <1>4

\* What a running task works on.
LEMMA TaskFacts ==
  ASSUME TypeOK, Schedule
  PROVE  /\ pc["induce"] # "idle" =>
              Block("induce") = Filling /\ Parity("induce") = Filling % 2
         /\ pc["update"] # "idle" =>
              Block("update") = Flushing /\ Parity("update") = Flushing % 2
         /\ pc["prepare"] # "idle" => Parity("prepare") = Flushing % 2
<1>1. blocknum \in Int /\ block_amount \in Int
  BY TextFacts DEF TypeOK
<1>2. pc["induce"] # "idle" => StageOf("induce", blocknum) = blocknum - 1
  BY <1>1 DEF Schedule, StageOf, Tasks
<1>3. StageOf("update", blocknum) = blocknum - 2
  BY DEF StageOf
<1>4. pc["prepare"] # "idle" => StageOf("prepare", blocknum) = blocknum
  BY <1>1 DEF Schedule, StageOf, Tasks
<1> QED
  BY <1>2, <1>3, <1>4, BlockFacts DEF Block, Parity, Filling, Flushing

-----------------------------------------------------------------------------
(* The initial states *)

LEMMA BucketsType ==
  ASSUME s \in Texts, NEW end \in BOOLEAN
  PROVE  generate_buckets(s, K, end) \in [0 .. K - 1 -> Int]
<1> DEFINE Counted(c) ==
             { loc \in Positions(s) : IF end THEN At(s, loc) <= c ELSE At(s, loc) < c }
<1>1. IsFiniteSet(Positions(s))
  BY TextFacts, FS_Interval
<1>2. \A c \in 0 .. K - 1 : Cardinality(Counted(c)) \in Nat
  <2> TAKE c \in 0 .. K - 1
  <2>1. Counted(c) \subseteq Positions(s)
    OBVIOUS
  <2> QED
    BY <1>1, <2>1, FS_Subset, FS_CardinalityType
<1> QED
  BY <1>2 DEF generate_buckets

LEMMA InsertedType ==
  ASSUME s \in Texts, NEW turn
  PROVE  InsertLMS(s, t, turn) \in [Positions(s) -> 0 .. None]
<1> DEFINE ends == generate_buckets(s, K, TRUE)
           cell(p) == ends[At(s, p)] - 1 -
             Cardinality({ q \in LMSPositions(s, t) :
                             At(s, q) = At(s, p) /\ turn[q] < turn[p] })
           value(c) == IF \E p \in LMSPositions(s, t) : cell(p) = c
                         THEN CHOOSE p \in LMSPositions(s, t) : cell(p) = c
                         ELSE None
<1>1. InsertLMS(s, t, turn) = [ c \in Positions(s) |-> value(c) ]
  BY DEF InsertLMS
<1>2. LMSPositions(s, t) \subseteq 0 .. None
  BY TextFacts, ConstantFacts DEF LMSPositions
<1>3. None \in 0 .. None
  BY ConstantFacts
<1> HIDE DEF cell
<1>4. \A c \in Positions(s) : value(c) \in 0 .. None
  BY <1>2, <1>3
<1> HIDE DEF value
<1> QED
  BY <1>1, <1>4

LEMMA EmptyEntryType ==
  NoRecord \in (0 .. K - 1) \X (0 .. None) /\ NoRecord \in Int \X (0 .. None)
<1>1. 0 \in 0 .. K - 1 /\ None \in 0 .. None
  BY ConstantFacts
<1> QED
  BY <1>1 DEF NoRecord

\* Empty entries are no pending writes.
LEMMA EmptyEntries ==
  ~Valid(NoRecord) /\ ~Valid(<< 0, 0 >>)
BY DEF Valid, NoRecord

LEMMA SpawnedFacts ==
  ASSUME s \in Texts, NEW b \in 0 .. block_amount + 2
  PROVE  /\ Spawned(b) \in [Tasks -> { "idle", "start", "run" }]
         /\ \A task \in Tasks : Spawned(b)[task] # "idle" => StageOf(task, b) >= 0
         /\ \A task \in Tasks : Spawned(b)[task] # "run"
         /\ Spawned(b)["induce"] = "idle" <=> StageOf("induce", b) < 0
         /\ Spawned(b)["update"] = "idle" <=> b < 2
BY TextFacts DEF Spawned, Tasks, StageOf

LEMMA InitEstablishes == Init => PipelineInv
<1> SUFFICES ASSUME Init PROVE PipelineInv
  OBVIOUS
<1> USE DEF Init, BuffersInit
<1>1. s \in Texts
  OBVIOUS
<1>2. TypeOK
  <2>1. t \in [Positions(s) -> { L_Type, S_Type }]
    BY DEF Types
  <2>2. SA \in [Positions(s) -> 0 .. None]
    BY <1>1, InsertedType
  <2>3. buckets \in [0 .. K - 1 -> Int]
    BY <1>1, BucketsType
  <2>4. blocknum \in 0 .. block_amount + 2 /\ blocknum \in 0 .. block_amount + 3
    BY <1>1, TextFacts
  <2>5. pc \in [Tasks -> { "idle", "start", "run" }]
    BY <1>1, <2>4, SpawnedFacts
  <2>6. /\ index \in [Tasks -> Int]
        /\ r \in [Parities -> [0 .. PartLength -> (0 .. K - 1) \X (0 .. None)]]
        /\ w \in [Parities -> [0 .. PartLength -> Int \X (0 .. None)]]
        /\ w_count \in [Parities -> 0 .. PartLength]
    BY ConstantFacts
  <2> QED
    BY <2>1, <2>2, <2>3, <2>4, <2>5, <2>6 DEF TypeOK
<1>3. Schedule
  <2>1. \A task \in Tasks : pc[task] # "idle" => StageOf(task, blocknum) >= 0
    BY <1>1, SpawnedFacts, TextFacts
  <2>2. pc["induce"] # "run" /\ pc["update"] # "run"
    BY <1>1, SpawnedFacts, TextFacts DEF Tasks
  <2> QED
    BY <1>1, <2>1, <2>2, TextFacts DEF Schedule
<1>4. \A p \in Parities, x \in 0 .. PartLength : ~Valid(w[p][x])
  BY EmptyEntries
<1>5. \A p \in Parities : w_count[p] = 0
  OBVIOUS
<1>6. pc["induce"] # "run"
  BY <1>1, SpawnedFacts, TextFacts DEF Tasks
<1> HIDE DEF Init, BuffersInit
<1> QED
  BY <1>2, <1>3, <1>4, <1>5, <1>6, BlockFacts
     DEF PipelineInv, FillingInOrder, FlushingInOrder

-----------------------------------------------------------------------------
(* The steps of the tasks *)

\* A step that stays in the iteration leaves the blocks where they are.
LEMMA FrameFacts ==
  ASSUME PipelineInv, UNCHANGED << s, type, blocknum >>
  PROVE  /\ n' = n
         /\ block_amount' = block_amount
         /\ Filling' = Filling
         /\ Flushing' = Flushing
         /\ \A task \in Tasks : StageOf(task, blocknum)' = StageOf(task, blocknum)
<1>1. n' = n /\ block_amount' = block_amount
  BY DEF n, block_amount
<1> QED
  BY <1>1 DEF Filling, Flushing, BlockOf, StageOf

LEMMA PrepareResetPreserves == PipelineInv /\ PrepareReset => PipelineInv'
<1> SUFFICES ASSUME PipelineInv, PrepareReset PROVE PipelineInv'
  OBVIOUS
<1> USE DEF PrepareReset
<1>1. TypeOK /\ Schedule /\ FillingInOrder /\ FlushingInOrder
  BY DEF PipelineInv
<1>2. TypeOK'
  <2>1. r' \in [Parities -> [0 .. PartLength -> (0 .. K - 1) \X (0 .. None)]]
    <3>1. [ loc \in 0 .. PartLength |-> NoRecord ]
            \in [0 .. PartLength -> (0 .. K - 1) \X (0 .. None)]
      BY EmptyEntryType
    <3> QED
      BY <1>1, <3>1 DEF TypeOK
  <2>2. pc' \in [Tasks -> { "idle", "start", "run" }] /\ index' \in [Tasks -> Int]
    BY <1>1 DEF TypeOK, Tasks
  <2> QED
    BY <1>1, <2>1, <2>2, FrameFacts DEF TypeOK
<1>3. Schedule'
  BY <1>1, FrameFacts DEF Schedule, TypeOK, Tasks
<1>4. FillingInOrder'
  BY <1>1, FrameFacts DEF FillingInOrder, TypeOK, Tasks, Far, Valid
<1>5. FlushingInOrder'
  BY <1>1, FrameFacts DEF FlushingInOrder, TypeOK, Tasks, Far, Valid
<1> QED
  BY <1>2, <1>3, <1>4, <1>5 DEF PipelineInv

LEMMA PrepareCellPreserves == PipelineInv /\ PrepareCell => PipelineInv'
<1> SUFFICES ASSUME PipelineInv, PrepareCell PROVE PipelineInv'
  OBVIOUS
<1> USE DEF PrepareCell
<1>1. TypeOK /\ Schedule /\ FillingInOrder /\ FlushingInOrder
  BY DEF PipelineInv
<1>2. TypeOK'
  <2>1. r' \in [Parities -> [0 .. PartLength -> (0 .. K - 1) \X (0 .. None)]]
    <3> DEFINE loc == index["prepare"]
               j == translate("prepare") + loc
    <3>1. PICK v \in (IF j < n THEN ReadCell(j) ELSE { None }) :
            r' = IF Recordable(v)
                   THEN [ r EXCEPT ![Parity("prepare")][loc] = << At(s, v - 1), v - 1 >> ]
                   ELSE r
      OBVIOUS
    <3>2. CASE ~Recordable(v)
      BY <1>1, <3>1, <3>2 DEF TypeOK
    <3>3. CASE Recordable(v)
      <4>1. v - 1 \in Positions(s)
        BY <3>3 DEF Recordable
      <4>2. At(s, v - 1) \in 0 .. K - 1
        BY <1>1, <4>1, TextFacts DEF TypeOK
      <4>3. v - 1 \in 0 .. None
        BY <1>1, <4>1, TextFacts, ConstantFacts DEF TypeOK
      <4> HIDE DEF loc
      <4> QED
        BY <1>1, <3>1, <3>3, <4>2, <4>3 DEF TypeOK
    <3> QED
      BY <3>2, <3>3
  <2>2. index' \in [Tasks -> Int]
    BY <1>1 DEF TypeOK, Tasks
  <2> QED
    BY <1>1, <2>1, <2>2, FrameFacts DEF TypeOK
<1>3. Schedule'
  BY <1>1, FrameFacts DEF Schedule, TypeOK, Tasks
<1>4. FillingInOrder'
  BY <1>1, FrameFacts DEF FillingInOrder, TypeOK, Tasks, Far, Valid
<1>5. FlushingInOrder'
  BY <1>1, FrameFacts DEF FlushingInOrder, TypeOK, Tasks, Far, Valid
<1> QED
  BY <1>2, <1>3, <1>4, <1>5 DEF PipelineInv

LEMMA PrepareEndPreserves == PipelineInv /\ PrepareEnd => PipelineInv'
<1> SUFFICES ASSUME PipelineInv, PrepareEnd PROVE PipelineInv'
  OBVIOUS
<1> USE DEF PrepareEnd
<1>1. TypeOK /\ Schedule /\ FillingInOrder /\ FlushingInOrder
  BY DEF PipelineInv
<1>2. TypeOK'
  BY <1>1, FrameFacts DEF TypeOK, Tasks
<1>3. Schedule'
  BY <1>1, FrameFacts DEF Schedule, TypeOK, Tasks
<1>4. FillingInOrder'
  BY <1>1, FrameFacts DEF FillingInOrder, TypeOK, Tasks, Far, Valid
<1>5. FlushingInOrder'
  BY <1>1, FrameFacts DEF FlushingInOrder, TypeOK, Tasks, Far, Valid
<1> QED
  BY <1>2, <1>3, <1>4, <1>5 DEF PipelineInv

LEMMA InduceStartPreserves == PipelineInv /\ InduceStart => PipelineInv'
<1> SUFFICES ASSUME PipelineInv, InduceStart PROVE PipelineInv'
  OBVIOUS
<1> USE DEF InduceStart
<1>1. TypeOK /\ Schedule /\ FillingInOrder /\ FlushingInOrder
  BY DEF PipelineInv
<1>2. Block("induce") = Filling /\ Filling \in Int
  BY <1>1, TaskFacts, BlockFacts
<1>3. FirstIndex(Filling) \in Int
      /\ IF type = L_Type THEN FirstIndex(Filling) = 0
         ELSE FirstIndex(Filling) < PartLength
  BY <1>1, <1>2, TextFacts, ConstantFacts DEF FirstIndex, TypeOK
<1>4. TypeOK'
  BY <1>1, <1>2, <1>3, FrameFacts DEF TypeOK, Tasks
<1>5. Schedule'
  BY <1>1, <1>2, <1>3, ConstantFacts, FrameFacts DEF Schedule, TypeOK, Tasks
<1>6. w_count[Filling % 2] = 0
  BY <1>1 DEF FillingInOrder
<1>7. FillingInOrder'
  <2>1. \A x \in 0 .. PartLength : ~Valid(w[Filling % 2][x])
    BY <1>1, <1>6, ConstantFacts DEF FillingInOrder
  <2>2. /\ pc'["induce"] = "run"
        /\ index'["induce"] = FirstIndex(Filling)
    BY <1>1, <1>2 DEF TypeOK, Tasks
  <2>3. type = L_Type \/ type # L_Type
    OBVIOUS
  <2> QED
    BY <1>1, <1>3, <1>6, <2>1, <2>2, ConstantFacts, FrameFacts
       DEF FillingInOrder, Valid
<1>8. FlushingInOrder'
  BY <1>1, FrameFacts DEF FlushingInOrder, TypeOK, Tasks, Far, Valid
<1> QED
  BY <1>4, <1>5, <1>7, <1>8 DEF PipelineInv

LEMMA InduceEndPreserves == PipelineInv /\ InduceEnd => PipelineInv'
<1> SUFFICES ASSUME PipelineInv, InduceEnd PROVE PipelineInv'
  OBVIOUS
<1> USE DEF InduceEnd
<1>1. TypeOK /\ Schedule /\ FillingInOrder /\ FlushingInOrder
  BY DEF PipelineInv
<1>2. TypeOK'
  BY <1>1, FrameFacts DEF TypeOK, Tasks
<1>3. Schedule'
  BY <1>1, FrameFacts DEF Schedule, TypeOK, Tasks
<1>4. FillingInOrder'
  BY <1>1, FrameFacts DEF FillingInOrder, Schedule, TypeOK, Tasks, Far, Valid
<1>5. FlushingInOrder'
  BY <1>1, FrameFacts DEF FlushingInOrder, TypeOK, Tasks, Far, Valid
<1> QED
  BY <1>2, <1>3, <1>4, <1>5 DEF PipelineInv

LEMMA InduceStorePreserves == PipelineInv /\ InduceStore => PipelineInv'
<1> SUFFICES ASSUME PipelineInv, InduceStore PROVE PipelineInv'
  OBVIOUS
<1> USE DEF InduceStore
<1>1. TypeOK /\ Schedule /\ FillingInOrder /\ FlushingInOrder
  BY DEF PipelineInv
<1>2. TypeOK'
  <2>1. store[2] \in 0 .. None
    BY <1>1 DEF TypeOK
  <2>2. SA' \in [Positions(s) -> 0 .. None]
    BY <1>1, <2>1 DEF TypeOK
  <2> QED
    BY <1>1, <2>2, FrameFacts DEF TypeOK
<1>3. Schedule'
  BY <1>1, FrameFacts DEF Schedule
<1>4. FillingInOrder'
  BY <1>1, FrameFacts DEF FillingInOrder, Far, Valid, Tasks
<1>5. FlushingInOrder'
  BY <1>1, FrameFacts DEF FlushingInOrder, Far, Valid
<1> QED
  BY <1>2, <1>3, <1>4, <1>5 DEF PipelineInv

LEMMA UpdateStartPreserves == PipelineInv /\ UpdateStart => PipelineInv'
<1> SUFFICES ASSUME PipelineInv, UpdateStart PROVE PipelineInv'
  OBVIOUS
<1> USE DEF UpdateStart
<1>1. TypeOK /\ Schedule /\ FillingInOrder /\ FlushingInOrder
  BY DEF PipelineInv
<1>2. TypeOK'
  BY <1>1, FrameFacts DEF TypeOK, Tasks
<1>3. Schedule'
  BY <1>1, FrameFacts DEF Schedule, TypeOK, Tasks
<1>4. FillingInOrder'
  BY <1>1, FrameFacts DEF FillingInOrder, TypeOK, Tasks, Far, Valid
<1>5. FlushingInOrder'
  BY <1>1, FrameFacts DEF FlushingInOrder, TypeOK, Tasks, Far, Valid
<1> QED
  BY <1>2, <1>3, <1>4, <1>5 DEF PipelineInv

LEMMA UpdateEntryPreserves == PipelineInv /\ UpdateEntry => PipelineInv'
<1> SUFFICES ASSUME PipelineInv, UpdateEntry PROVE PipelineInv'
  OBVIOUS
<1>1. TypeOK /\ Schedule /\ FillingInOrder /\ FlushingInOrder
  BY DEF PipelineInv
<1> DEFINE loc == index["update"]
           p == Flushing % 2
           e == w[p][loc]
<1>2. /\ pc["update"] = "run"
      /\ IF Valid(e) THEN /\ SA' = [ SA EXCEPT ![e[1]] = e[2] ]
                          /\ w' = [ w EXCEPT ![p][loc] = NoRecord ]
                     ELSE UNCHANGED << SA, w >>
      /\ loc <= PartLength
      /\ index' = [ index EXCEPT !["update"] = loc + 1 ]
      /\ UNCHANGED << s, t, buckets, type, blocknum, pc, r, w_count, store >>
  BY <1>1, TaskFacts DEF UpdateEntry, InUpdate
<1>3. p \in Parities /\ p # Filling % 2
  BY <1>1, BlockFacts
<1>4. loc \in 0 .. PartLength
  BY <1>1, <1>2, ConstantFacts DEF Schedule, TypeOK, Tasks
<1>5. e \in Int \X (0 .. None)
  <2>1. w[p] \in [0 .. PartLength -> Int \X (0 .. None)]
    BY <1>1, <1>3 DEF TypeOK
  <2> QED
    BY <1>4, <2>1
<1>6. NoRecord \in Int \X (0 .. None)
  BY EmptyEntryType
<1>7. TypeOK'
  <2>1. SA' \in [Positions(s) -> 0 .. None]
    BY <1>1, <1>2, <1>5 DEF TypeOK
  <2>2. w' \in [Parities -> [0 .. PartLength -> Int \X (0 .. None)]]
    <3>1. w[p] \in [0 .. PartLength -> Int \X (0 .. None)]
      BY <1>1, <1>3 DEF TypeOK
    <3>2. [ w[p] EXCEPT ![loc] = NoRecord ]
             \in [0 .. PartLength -> Int \X (0 .. None)]
      BY <1>4, <1>6, <3>1
    <3>3. w' = w \/ w' = [ w EXCEPT ![p] = [ w[p] EXCEPT ![loc] = NoRecord ] ]
      BY <1>2
    <3> HIDE DEF p, loc
    <3> QED
      BY <1>1, <3>2, <3>3 DEF TypeOK
  <2>3. index' \in [Tasks -> Int]
    BY <1>1, <1>2 DEF TypeOK, Tasks
  <2> QED
    BY <1>1, <1>2, <2>1, <2>2, <2>3, FrameFacts DEF TypeOK
<1>8. Schedule'
  BY <1>1, <1>2, FrameFacts DEF Schedule, TypeOK, Tasks
<1>9. w'[Filling % 2] = w[Filling % 2]
  <2>1. \A q \in Parities : q # p => w'[q] = w[q]
    BY <1>1, <1>2 DEF TypeOK
  <2> QED
    BY <1>1, <1>3, <2>1, BlockFacts
<1>10. FillingInOrder'
  BY <1>1, <1>2, <1>9, FrameFacts DEF FillingInOrder, TypeOK, Tasks, Far, Valid
<1>11. \A x \in 0 .. PartLength :
         Valid(w'[p][x]) => w'[p][x] = w[p][x] /\ x # loc
  <2>1. w[p] \in [0 .. PartLength -> Int \X (0 .. None)] /\ p \in DOMAIN w
    BY <1>1, <1>3 DEF TypeOK
  <2>2. CASE Valid(e)
    <3>1. w'[p] = [ w[p] EXCEPT ![loc] = NoRecord ]
      BY <1>2, <2>1, <2>2
    <3> HIDE DEF p, loc
    <3> QED
      BY <2>1, <3>1, EmptyEntries
  <2>3. CASE ~Valid(e)
    BY <1>2, <2>3
  <2> QED
    BY <2>2, <2>3
<1>12. FlushingInOrder'
  <2>1. \A x \in 0 .. PartLength : Valid(w'[p][x]) =>
          Far(Flushing, w'[p][x][1]) /\ x < w_count[p] /\ x >= loc + 1
    BY <1>1, <1>2, <1>4, <1>11, ConstantFacts DEF FlushingInOrder
  <2>2. index'["update"] = loc + 1
    BY <1>1, <1>2 DEF TypeOK, Tasks
  <2> QED
    BY <1>1, <1>2, <2>1, <2>2, FrameFacts DEF FlushingInOrder, Far, Valid
<1> QED
  BY <1>7, <1>8, <1>10, <1>12 DEF PipelineInv

LEMMA UpdateEndPreserves == PipelineInv /\ UpdateEnd => PipelineInv'
<1> SUFFICES ASSUME PipelineInv, UpdateEnd PROVE PipelineInv'
  OBVIOUS
<1>1. TypeOK /\ Schedule /\ FillingInOrder /\ FlushingInOrder
  BY DEF PipelineInv
<1> DEFINE p == Flushing % 2
<1>2. /\ pc["update"] = "run"
      /\ ~(index["update"] <= PartLength /\ index["update"] <= w_count[p] + 1)
      /\ w_count' = [ w_count EXCEPT ![p] = 0 ]
      /\ pc' = [ pc EXCEPT !["update"] = "idle" ]
      /\ UNCHANGED << s, t, SA, buckets, type, blocknum, index, r, w, store >>
  BY <1>1, TaskFacts DEF UpdateEnd, InUpdate
<1>3. p \in Parities /\ p # Filling % 2 /\ Filling % 2 \in Parities
  BY <1>1, BlockFacts
<1>4. TypeOK'
  <2>1. 0 \in 0 .. PartLength
    BY ConstantFacts
  <2>2. w_count' \in [Parities -> 0 .. PartLength]
    BY <1>1, <1>2, <2>1 DEF TypeOK
  <2>3. pc' \in [Tasks -> { "idle", "start", "run" }]
    BY <1>1, <1>2 DEF TypeOK, Tasks
  <2> QED
    BY <1>1, <1>2, <2>2, <2>3, FrameFacts DEF TypeOK
<1>5. Schedule'
  BY <1>1, <1>2, FrameFacts DEF Schedule, TypeOK, Tasks
<1>6. w_count'[Filling % 2] = w_count[Filling % 2] /\ w_count'[p] = 0
  BY <1>1, <1>2, <1>3 DEF TypeOK
<1>7. FillingInOrder'
  BY <1>1, <1>2, <1>6, FrameFacts DEF FillingInOrder, TypeOK, Tasks, Far, Valid
<1>8. \A x \in 0 .. PartLength : ~Valid(w[p][x])
  <2> SUFFICES ASSUME NEW x \in 0 .. PartLength, Valid(w[p][x]) PROVE FALSE
    OBVIOUS
  <2>1. x < w_count[p] /\ x >= index["update"]
    BY <1>1, <1>2 DEF FlushingInOrder
  <2>2. w_count[p] \in Int /\ index["update"] \in Int
    BY <1>1, <1>3 DEF TypeOK, Tasks
  <2> QED
    BY <1>2, <2>1, <2>2, ConstantFacts
<1>9. FlushingInOrder'
  BY <1>2, <1>6, <1>8, FrameFacts DEF FlushingInOrder, Valid
<1> QED
  BY <1>4, <1>5, <1>7, <1>9 DEF PipelineInv

\* The scan: the only step that appends to a write buffer.
LEMMA InduceCellPreserves == PipelineInv /\ InduceCell => PipelineInv'
<1> SUFFICES ASSUME PipelineInv, InduceCell PROVE PipelineInv'
  OBVIOUS
<1>1. TypeOK /\ Schedule /\ FillingInOrder /\ FlushingInOrder
  BY DEF PipelineInv
<1> DEFINE loc == index["induce"]
           p == Filling % 2
<1>2. /\ pc["induce"] = "run"
      /\ store = NoStore
      /\ InScan(Filling, loc)
      /\ index' = [ index EXCEPT !["induce"] = NextCell(loc) ]
      /\ UNCHANGED << s, t, SA, type, blocknum, pc >>
      /\ Block("induce") = Filling
      /\ Parity("induce") = p
      /\ translate("induce") = Filling * PartLength
  BY <1>1, TaskFacts DEF InduceCell, translate
<1>3. /\ p \in Parities
      /\ p # Flushing % 2
      /\ Flushing % 2 \in Parities
      /\ Filling \in Int
  BY <1>1, BlockFacts
<1>4. loc \in Int /\ IF type = L_Type THEN 0 <= loc /\ loc < PartLength
                                    ELSE 0 <= loc /\ loc < PartLength
  <2>1. loc \in Int
    BY <1>1 DEF TypeOK, Tasks
  <2> QED
    BY <1>1, <1>2, <2>1 DEF InScan, Schedule
<1>5. index'["induce"] = (IF type = L_Type THEN loc + 1 ELSE loc - 1)
      /\ index' \in [Tasks -> Int]
      /\ index'["update"] = index["update"]
  BY <1>1, <1>2, <1>4 DEF TypeOK, Tasks, NextCell
<1>6. Schedule'
  BY <1>1, <1>2, <1>4, <1>5, ConstantFacts, FrameFacts DEF Schedule
<1>7. PICK v \in ReadCell(translate("induce") + loc) :
        LET pos == v - 1
            chr == InducedChar(r[p][loc], pos)
            idx == IF type = L_Type THEN buckets[chr] ELSE buckets[chr] - 1
        IN  IF Inducible(v)
              THEN /\ r' = [ r EXCEPT ![p][loc] = IF @[1] = 0 THEN @ ELSE NoRecord ]
                   /\ buckets' = [ buckets EXCEPT
                         ![chr] = IF type = L_Type THEN @ + 1 ELSE @ - 1 ]
                   /\ IF Near(idx, loc)
                        THEN /\ store' = << idx, pos >>
                             /\ UNCHANGED << w, w_count >>
                        ELSE /\ w' = [ w EXCEPT ![p][w_count[p]] = << idx, pos >> ]
                             /\ w_count' = [ w_count EXCEPT ![p] = @ + 1 ]
                             /\ store' = store
              ELSE UNCHANGED << r, buckets, w, w_count, store >>
  BY <1>2 DEF InduceCell
<1> DEFINE pos == v - 1
           chr == InducedChar(r[p][loc], pos)
           idx == IF type = L_Type THEN buckets[chr] ELSE buckets[chr] - 1
<1>8. w_count[p] \in 0 .. PartLength /\ w[p] \in [0 .. PartLength -> Int \X (0 .. None)]
  BY <1>1, <1>3 DEF TypeOK
<1>9. w_count[p] <= (IF type = L_Type THEN loc ELSE PartLength - 1 - loc)
  BY <1>1, <1>2 DEF FillingInOrder
<1>10. CASE UNCHANGED << w, w_count >>
           /\ r' \in [Parities -> [0 .. PartLength -> (0 .. K - 1) \X (0 .. None)]]
           /\ buckets' \in [0 .. K - 1 -> Int]
           /\ (store' = NoStore \/ store' \in Int \X (0 .. None))
  <2>1. TypeOK'
    BY <1>1, <1>2, <1>5, <1>10, FrameFacts DEF TypeOK
  <2>2. FillingInOrder'
    <3>1. \A x \in 0 .. PartLength : w[p][x][1] \in Int
      BY <1>8
    <3>2. \A x \in 0 .. PartLength : Valid(w[p][x]) =>
            /\ Far(Filling, w[p][x][1])
            /\ x < w_count[p]
            /\ type = S_Type =>
                 \/ w[p][x][1] < Filling * PartLength - 2 * PartLength
                 \/ w[p][x][1] > Filling * PartLength + loc
      BY <1>1, <1>2 DEF FillingInOrder
    <3>3. \A x \in 0 .. PartLength : Valid(w[p][x]) /\ type = S_Type =>
              \/ w[p][x][1] < Filling * PartLength - 2 * PartLength
              \/ w[p][x][1] > Filling * PartLength + (loc - 1)
      <4> HIDE DEF loc, p
      <4> QED
        BY <1>3, <1>4, <3>1, <3>2, ConstantFacts
    <3>4. w_count[p] <= (IF type = L_Type THEN loc + 1 ELSE PartLength - 1 - (loc - 1))
      BY <1>4, <1>8, <1>9, ConstantFacts
    <3>5. StageOf("induce", blocknum) >= 0 /\ StageOf("induce", blocknum) \in Int
      BY <1>1, <1>2, TextFacts DEF Schedule, Tasks, StageOf, TypeOK
    <3>6. index'["induce"] = (IF type = S_Type THEN loc - 1 ELSE loc + 1)
          /\ (type = L_Type <=> type # S_Type)
      BY <1>1, <1>5 DEF L_Type, S_Type, TypeOK
    <3>7. Filling' = Filling /\ type' = type /\ pc' = pc
          /\ StageOf("induce", blocknum)' = StageOf("induce", blocknum)
      BY <1>2, FrameFacts DEF Tasks
    <3>8. \A k, x : Far(k, x)' <=> Far(k, x)
      BY <1>2 DEF Far
    <3>9. \A x : Valid(x)' <=> Valid(x)
      BY DEF Valid
    <3> HIDE DEF loc
    <3> QED
      BY <1>2, <1>10, <3>2, <3>3, <3>4, <3>5, <3>6, <3>7, <3>8, <3>9 DEF FillingInOrder
  <2>3. FlushingInOrder'
    BY <1>1, <1>2, <1>5, <1>10, FrameFacts DEF FlushingInOrder, Far, Valid
  <2> QED
    BY <1>6, <2>1, <2>2, <2>3 DEF PipelineInv
<1>11. CASE ~Inducible(v)
  <2>1. UNCHANGED << r, buckets, w, w_count, store >>
    BY <1>7, <1>11
  <2> QED
    BY <1>1, <1>10, <2>1 DEF TypeOK
<1>12. CASE Inducible(v)
  <2>1. pos \in Positions(s)
    BY <1>12 DEF Inducible
  <2>2. pos \in 0 .. None /\ At(s, pos) \in 0 .. K - 1
    BY <1>1, <2>1, TextFacts, ConstantFacts DEF TypeOK
  <2>3. loc \in 0 .. PartLength
    BY <1>4, ConstantFacts
  <2>4. r[p] \in [0 .. PartLength -> (0 .. K - 1) \X (0 .. None)]
        /\ r[p][loc] \in (0 .. K - 1) \X (0 .. None)
    <3>1. r[p] \in [0 .. PartLength -> (0 .. K - 1) \X (0 .. None)]
      BY <1>1, <1>3 DEF TypeOK
    <3> QED
      BY <2>3, <3>1
  <2>5. chr \in 0 .. K - 1
    BY <2>2, <2>4 DEF InducedChar
  <2>6. buckets[chr] \in Int /\ idx \in Int
    BY <1>1, <2>5 DEF TypeOK
  <2>7. r' \in [Parities -> [0 .. PartLength -> (0 .. K - 1) \X (0 .. None)]]
    <3> DEFINE rec == IF r[p][loc][1] = 0 THEN r[p][loc] ELSE NoRecord
    <3>1. rec \in (0 .. K - 1) \X (0 .. None)
      BY <2>4, EmptyEntryType
    <3>2. [ r[p] EXCEPT ![loc] = rec ] \in [0 .. PartLength -> (0 .. K - 1) \X (0 .. None)]
      BY <2>3, <2>4, <3>1
    <3>3. r' = [ r EXCEPT ![p] = [ r[p] EXCEPT ![loc] = rec ] ]
      BY <1>1, <1>3, <1>7, <1>12, <2>3 DEF TypeOK
    <3> HIDE DEF p, loc, rec
    <3> QED
      BY <1>1, <3>2, <3>3 DEF TypeOK
  <2>8. buckets' \in [0 .. K - 1 -> Int]
    <3> DEFINE next == IF type = L_Type THEN buckets[chr] + 1 ELSE buckets[chr] - 1
    <3>1. buckets' = [ buckets EXCEPT ![chr] = next ]
      BY <1>7, <1>12
    <3>2. next \in Int
      BY <2>6
    <3> HIDE DEF chr, next
    <3> QED
      BY <1>1, <3>1, <3>2 DEF TypeOK
  <2>9. CASE Near(idx, loc)
    <3>1. store' = << idx, pos >> /\ UNCHANGED << w, w_count >>
      BY <1>7, <1>12, <2>9
    <3>2. store' \in Int \X (0 .. None)
      BY <2>2, <2>6, <3>1
    <3> QED
      BY <1>10, <2>7, <2>8, <3>1, <3>2
  <2>10. CASE ~Near(idx, loc)
    <3> DEFINE e == << idx, pos >>
               c == w_count[p]
    <3>1. /\ w' = [ w EXCEPT ![p][c] = e ]
          /\ w_count' = [ w_count EXCEPT ![p] = c + 1 ]
          /\ store' = store
      BY <1>7, <1>12, <2>10
    <3>2. e \in Int \X (0 .. None)
      BY <2>2, <2>6
    <3>3. c \in 0 .. PartLength - 1 /\ c + 1 \in 0 .. PartLength
      BY <1>4, <1>8, <1>9, ConstantFacts
    <3>4. /\ w'[p] = [ w[p] EXCEPT ![c] = e ]
          /\ w_count'[p] = c + 1
          /\ w'[Flushing % 2] = w[Flushing % 2]
          /\ w_count'[Flushing % 2] = w_count[Flushing % 2]
      <4> HIDE DEF p, c, e
      <4> QED
        BY <1>1, <1>3, <3>1 DEF TypeOK
    <3>5. TypeOK'
      <4>1. [ w[p] EXCEPT ![c] = e ] \in [0 .. PartLength -> Int \X (0 .. None)]
        BY <1>8, <3>2
      <4>2. w' \in [Parities -> [0 .. PartLength -> Int \X (0 .. None)]]
        <5>1. w' = [ w EXCEPT ![p] = [ w[p] EXCEPT ![c] = e ] ]
          BY <1>1, <1>3, <3>1 DEF TypeOK
        <5> HIDE DEF p, c, e
        <5> QED
          BY <1>1, <4>1, <5>1 DEF TypeOK
      <4>3. w_count' \in [Parities -> 0 .. PartLength]
        <5> HIDE DEF p, c
        <5> QED
          BY <1>1, <3>1, <3>3 DEF TypeOK
      <4> QED
        BY <1>1, <1>2, <1>5, <2>7, <2>8, <3>1, <4>2, <4>3, FrameFacts DEF TypeOK
    <3>6. Far(Filling, idx) /\
          (type # L_Type => \/ idx < Filling * PartLength - 2 * PartLength
                            \/ idx > Filling * PartLength + loc)
      BY <1>2, <1>3, <1>4, <2>6, <2>10, ConstantFacts DEF Near, Far
    <3>7. FillingInOrder'
      <4>1. \A x \in 0 .. PartLength :
              w'[p][x] = (IF x = c THEN e ELSE w[p][x])
        BY <1>8, <3>4
      <4>2. ASSUME NEW x \in 0 .. PartLength, Valid(w'[p][x])
            PROVE  /\ Far(Filling, w'[p][x][1])
                   /\ x < c + 1
                   /\ type = S_Type =>
                        \/ w'[p][x][1] < Filling * PartLength - 2 * PartLength
                        \/ w'[p][x][1] > Filling * PartLength + (loc - 1)
        <5>1. CASE x = c
          <6>1. w'[p][x][1] = idx
            BY <4>1, <5>1
          <6> HIDE DEF p, c, e, idx, loc
          <6> QED
            BY <1>3, <1>4, <2>6, <3>3, <3>6, <5>1, <6>1, ConstantFacts DEF L_Type, S_Type
        <5>2. CASE x # c
          <6>1. w'[p][x] = w[p][x] /\ Valid(w[p][x])
            BY <4>1, <4>2, <5>2
          <6>2. /\ Far(Filling, w[p][x][1])
                /\ x < c
                /\ type = S_Type =>
                     \/ w[p][x][1] < Filling * PartLength - 2 * PartLength
                     \/ w[p][x][1] > Filling * PartLength + loc
            BY <1>1, <1>2, <6>1 DEF FillingInOrder
          <6>3. w[p][x][1] \in Int
            BY <1>8
          <6> HIDE DEF p, c, e, loc
          <6> QED
            BY <1>3, <1>4, <3>3, <6>1, <6>2, <6>3, ConstantFacts
        <5> QED
          BY <5>1, <5>2
      <4>3. c + 1 <= (IF type = L_Type THEN loc + 1 ELSE PartLength - 1 - (loc - 1))
        BY <1>4, <1>8, <1>9, ConstantFacts
      <4>4. StageOf("induce", blocknum) >= 0
        BY <1>1, <1>2 DEF Schedule, Tasks
      <4>5. /\ \A x \in 0 .. PartLength : Valid(w'[p][x]) =>
                 /\ Far(Filling, w'[p][x][1])
                 /\ x < w_count'[p]
                 /\ type = S_Type =>
                      \/ w'[p][x][1] < Filling * PartLength - 2 * PartLength
                      \/ w'[p][x][1] > Filling * PartLength + index'["induce"]
            /\ w_count'[p] <= (IF type = L_Type THEN index'["induce"]
                               ELSE PartLength - 1 - index'["induce"])
        BY <1>5, <3>4, <4>2, <4>3 DEF L_Type, S_Type
      <4>6. Filling' = Filling /\ type' = type /\ pc' = pc
            /\ StageOf("induce", blocknum)' = StageOf("induce", blocknum)
        BY <1>2, FrameFacts DEF Tasks
      <4>7. \A k, x : Far(k, x)' <=> Far(k, x)
        BY <1>2 DEF Far
      <4>8. \A x : Valid(x)' <=> Valid(x)
        BY DEF Valid
      <4>9. StageOf("induce", blocknum) \in Int
        BY <1>1, TextFacts DEF StageOf, TypeOK
      <4> HIDE DEF p, c, e, loc
      <4> QED
        BY <1>2, <4>4, <4>5, <4>6, <4>7, <4>8, <4>9 DEF FillingInOrder, p
    <3>8. FlushingInOrder'
      BY <1>1, <1>2, <1>5, <3>4, FrameFacts DEF FlushingInOrder, Far, Valid
    <3> QED
      BY <1>6, <3>5, <3>7, <3>8 DEF PipelineInv
  <2> QED
    BY <2>9, <2>10
<1> QED
  BY <1>11, <1>12

-----------------------------------------------------------------------------
(* The barrier and the passes *)

\* Once all the tasks of an iteration have ended, the flushed buffer is empty.
LEMMA FlushedAtBarrier ==
  ASSUME PipelineInv, AllIdle
  PROVE  /\ store = NoStore
         /\ w_count[Flushing % 2] = 0
         /\ \A x \in 0 .. PartLength : ~Valid(w[Flushing % 2][x])
         /\ StageOf("induce", blocknum) < 0 =>
              /\ w_count[Filling % 2] = 0
              /\ \A x \in 0 .. PartLength : ~Valid(w[Filling % 2][x])
<1>1. TypeOK /\ Schedule /\ FillingInOrder /\ FlushingInOrder
  BY DEF PipelineInv
<1>2. \A task \in Tasks : pc[task] = "idle"
  BY DEF AllIdle
<1>3. store = NoStore
  BY <1>1, <1>2 DEF Schedule, Tasks
<1>4. w_count[Flushing % 2] = 0
  BY <1>1, <1>2 DEF FlushingInOrder, Tasks
<1>5. \A x \in 0 .. PartLength : ~Valid(w[Flushing % 2][x])
  BY <1>1, <1>4, ConstantFacts DEF FlushingInOrder
<1>6. ASSUME StageOf("induce", blocknum) < 0
      PROVE  /\ w_count[Filling % 2] = 0
             /\ \A x \in 0 .. PartLength : ~Valid(w[Filling % 2][x])
  BY <1>1, <1>6, ConstantFacts DEF FillingInOrder
<1> QED
  BY <1>3, <1>4, <1>5, <1>6

LEMMA NextIterationPreserves == PipelineInv /\ NextIteration => PipelineInv'
<1> SUFFICES ASSUME PipelineInv, NextIteration PROVE PipelineInv'
  OBVIOUS
<1>1. TypeOK /\ Schedule /\ FillingInOrder /\ FlushingInOrder /\ AllIdle
  BY DEF PipelineInv, NextIteration
<1>2. /\ blocknum <= block_amount + 2
      /\ blocknum' = blocknum + 1
      /\ UNCHANGED << s, t, SA, buckets, type, index, r, w, w_count, store >>
      /\ pc' = IF blocknum < block_amount + 2 THEN Spawned(blocknum + 1) ELSE pc
      /\ \A task \in Tasks : pc[task] = "idle"
  BY DEF NextIteration, AllIdle
<1>3. /\ blocknum \in Nat
      /\ block_amount \in Nat
      /\ n' = n
      /\ block_amount' = block_amount
  BY <1>1, <1>2, TextFacts DEF TypeOK, n, block_amount
<1>4. \A b : StageOf("induce", b)' = StageOf("induce", b')
  BY <1>3 DEF StageOf
<1>5. /\ Filling' = BlockOf(blocknum)
      /\ Filling' % 2 = Flushing % 2
      /\ Flushing' = Filling
  BY <1>1, <1>2, <1>3, BlockFacts DEF Filling, Flushing, BlockOf
<1>6. /\ pc' \in [Tasks -> { "idle", "start", "run" }]
      /\ \A task \in Tasks : pc'[task] # "run"
      /\ \A task \in Tasks : pc'[task] # "idle" =>
           StageOf(task, blocknum + 1) >= 0 /\ blocknum < block_amount + 2
      /\ pc'["update"] = "idle" => blocknum = 0 \/ blocknum = block_amount + 2
  <2>1. CASE blocknum < block_amount + 2
    <3>1. blocknum + 1 \in 0 .. block_amount + 2
      BY <1>3, <2>1
    <3> QED
      BY <1>1, <1>2, <1>3, <2>1, <3>1, SpawnedFacts DEF TypeOK
  <2>2. CASE blocknum >= block_amount + 2
    BY <1>1, <1>2, <1>3, <2>2 DEF TypeOK, Tasks
  <2> QED
    BY <1>3, <2>1, <2>2
<1>7. TypeOK'
  BY <1>1, <1>2, <1>3, <1>6 DEF TypeOK
<1>8. Schedule'
  <2>1. \A task \in Tasks : StageOf(task, blocknum)' = StageOf(task, blocknum + 1)
    BY <1>2, <1>3 DEF StageOf
  <2>2. store' = NoStore
    BY <1>1, <1>2, FlushedAtBarrier
  <2>3. pc'["induce"] # "run" /\ pc'["update"] # "run"
    BY <1>6 DEF Tasks
  <2> QED
    BY <1>2, <1>3, <1>6, <2>1, <2>2, <2>3 DEF Schedule
<1>9. FillingInOrder'
  <2>1. w_count'[Filling' % 2] = 0 /\ \A x \in 0 .. PartLength : ~Valid(w[Filling' % 2][x])
    BY <1>1, <1>2, <1>5, FlushedAtBarrier
  <2>2. pc'["induce"] # "run"
    BY <1>6 DEF Tasks
  <2> QED
    BY <1>2, <2>1, <2>2 DEF FillingInOrder, Valid
<1>10. FlushingInOrder'
  <2>1. \A x \in 0 .. PartLength : Valid(w[Filling % 2][x]) =>
          Far(Filling, w[Filling % 2][x][1]) /\ x < w_count[Filling % 2]
    BY <1>1 DEF FillingInOrder
  <2>2. pc'["update"] # "run"
    BY <1>6 DEF Tasks
  <2>3. ASSUME pc'["update"] = "idle" PROVE w_count[Filling % 2] = 0
    <3>1. StageOf("induce", blocknum) < 0
      BY <1>3, <1>6, <2>3 DEF StageOf
    <3> QED
      BY <1>1, <3>1, FlushedAtBarrier
  <2> QED
    BY <1>2, <1>5, <2>1, <2>2, <2>3 DEF FlushingInOrder, Valid, Far
<1> QED
  BY <1>7, <1>8, <1>9, <1>10 DEF PipelineInv

\* At the end of a pass both buffers are empty.
LEMMA EmptyAtPassEnd ==
  ASSUME PipelineInv, PassDone
  PROVE  /\ store = NoStore
         /\ \A p \in Parities : w_count[p] = 0
         /\ \A p \in Parities, x \in 0 .. PartLength : ~Valid(w[p][x])
<1>1. TypeOK /\ AllIdle /\ blocknum = block_amount + 3
  BY DEF PipelineInv, PassDone
<1>2. StageOf("induce", blocknum) < 0
  BY <1>1, TextFacts DEF StageOf, TypeOK
<1> QED
  BY <1>1, <1>2, FlushedAtBarrier, BlockFacts

LEMMA SecondPassPreserves == PipelineInv /\ SecondPass => PipelineInv'
<1> SUFFICES ASSUME PipelineInv, SecondPass PROVE PipelineInv'
  OBVIOUS
<1>1. TypeOK /\ PassDone
  BY DEF PipelineInv, SecondPass
<1>2. /\ type' = S_Type
      /\ buckets' = generate_buckets(s, K, TRUE)
      /\ blocknum' = 0
      /\ pc' = Spawned(0)
      /\ w_count' = [ p \in Parities |-> 0 ]
      /\ UNCHANGED << s, t, SA, index, r, w, store >>
  BY DEF SecondPass, EnterPass
<1>3. s \in Texts /\ n' = n /\ block_amount' = block_amount /\ block_amount \in Nat \ {0}
  BY <1>1, <1>2, TextFacts DEF TypeOK, n, block_amount
<1>4. /\ pc' \in [Tasks -> { "idle", "start", "run" }]
      /\ \A task \in Tasks : pc'[task] # "run"
      /\ \A task \in Tasks : pc'[task] # "idle" => StageOf(task, 0) >= 0
  <2>1. 0 \in 0 .. block_amount + 2
    BY <1>3
  <2> QED
    BY <1>2, <1>3, <2>1, SpawnedFacts
<1>5. TypeOK'
  <2>1. buckets' \in [0 .. K - 1 -> Int]
    BY <1>2, <1>3, BucketsType
  <2>2. w_count' \in [Parities -> 0 .. PartLength] /\ blocknum' \in 0 .. block_amount + 3
    BY <1>2, <1>3, ConstantFacts
  <2> QED
    BY <1>1, <1>2, <1>3, <1>4, <2>1, <2>2 DEF TypeOK
<1>6. Schedule'
  <2>1. \A task \in Tasks : StageOf(task, blocknum)' = StageOf(task, 0)
    BY <1>2, <1>3 DEF StageOf
  <2>2. store' = NoStore
    BY <1>1, <1>2, EmptyAtPassEnd
  <2> QED
    BY <1>2, <1>3, <1>4, <2>1, <2>2 DEF Schedule, Tasks
<1>7. /\ Filling' % 2 \in Parities
      /\ Flushing' % 2 \in Parities
  <2>1. Filling' = block_amount + 1 /\ Flushing' = block_amount + 2
    BY <1>2, <1>3 DEF Filling, Flushing, BlockOf, L_Type, S_Type
  <2> QED
    BY <1>3, <2>1, ParityFacts
<1>8. \A p \in Parities, x \in 0 .. PartLength : ~Valid(w[p][x])'
  BY <1>1, <1>2, EmptyAtPassEnd DEF Valid
<1>9. \A p \in Parities : w_count'[p] = 0
  BY <1>2
<1>10. pc'["induce"] # "run" /\ pc'["update"] # "run"
  BY <1>4 DEF Tasks
<1> QED
  BY <1>5, <1>6, <1>7, <1>8, <1>9, <1>10
     DEF PipelineInv, FillingInOrder, FlushingInOrder

LEMMA NextPreserves == PipelineInv /\ [Next]_vars => PipelineInv'
<1> SUFFICES ASSUME PipelineInv, [Next]_vars PROVE PipelineInv'
  OBVIOUS
<1>1. CASE PrepareReset
  BY <1>1, PrepareResetPreserves
<1>2. CASE PrepareCell
  BY <1>2, PrepareCellPreserves
<1>3. CASE PrepareEnd
  BY <1>3, PrepareEndPreserves
<1>4. CASE InduceStart
  BY <1>4, InduceStartPreserves
<1>5. CASE InduceCell
  BY <1>5, InduceCellPreserves
<1>6. CASE InduceStore
  BY <1>6, InduceStorePreserves
<1>7. CASE InduceEnd
  BY <1>7, InduceEndPreserves
<1>8. CASE UpdateStart
  BY <1>8, UpdateStartPreserves
<1>9. CASE UpdateEntry
  BY <1>9, UpdateEntryPreserves
<1>10. CASE UpdateEnd
  BY <1>10, UpdateEndPreserves
<1>11. CASE NextIteration
  BY <1>11, NextIterationPreserves
<1>12. CASE SecondPass
  BY <1>12, SecondPassPreserves
<1>13. CASE UNCHANGED vars
  <2>1. UNCHANGED << s, type, blocknum >>
    BY <1>13 DEF vars
  <2>2. TypeOK' /\ Schedule'
    BY <1>13, <2>1, FrameFacts DEF vars, PipelineInv, TypeOK, Schedule
  <2>3. FillingInOrder' /\ FlushingInOrder'
    BY <1>13, <2>1, FrameFacts
       DEF vars, PipelineInv, FillingInOrder, FlushingInOrder, Far, Valid, Tasks
  <2> QED
    BY <2>2, <2>3 DEF PipelineInv
<1> QED
  BY <1>1, <1>2, <1>3, <1>4, <1>5, <1>6, <1>7, <1>8, <1>9, <1>10, <1>11, <1>12, <1>13
     DEF Next, PipelineStep, TaskStep, Terminating

\* pipelined_Inducing keeps its inductive invariant.
THEOREM Invariance == Spec => []PipelineInv
<1>1. Init => PipelineInv
  BY InitEstablishes
<1>2. PipelineInv /\ [Next]_vars => PipelineInv'
  BY NextPreserves
<1> QED
  BY <1>1, <1>2, PTL DEF Spec

-----------------------------------------------------------------------------
(* The theorems *)

\* The variables have their types; in particular no block induces more entries
\* into a write buffer than it has cells, so the buffers of part_length + 1
\* entries never overflow.
THEOREM TypeCorrect == Spec => []TypeOK
<1>1. PipelineInv => TypeOK
  BY DEF PipelineInv
<1> QED
  BY <1>1, Invariance, PTL

\* Concurrent tasks never work on the same read or write buffer.
THEOREM BuffersDisjoint == Spec => []BuffersNotShared
<1>1. PipelineInv => BuffersNotShared
  <2> SUFFICES ASSUME PipelineInv PROVE BuffersNotShared
    OBVIOUS
  <2> QED
    BY TaskFacts, BlockFacts DEF PipelineInv, BuffersNotShared
<1> QED
  BY <1>1, Invariance, PTL

\* No entry of a write buffer is for a cell the scan has still to visit in its
\* block (InduceCell reads the cell from SA).
LEMMA ScanSeesWrites == PipelineInv => ScanSeesAllWrites
<1> SUFFICES ASSUME PipelineInv,
                    pc["induce"] = "run",
                    NEW loc \in 0 .. PartLength - 1, Unvisited(loc),
                    NEW p \in Parities, NEW k \in 0 .. PartLength,
                    Valid(w[p][k])
             PROVE  w[p][k][1] # translate("induce") + loc
  BY DEF ScanSeesAllWrites
<1>1. TypeOK /\ Schedule /\ FillingInOrder /\ FlushingInOrder
  BY DEF PipelineInv
<1>2. translate("induce") = Filling * PartLength
  BY <1>1, TaskFacts DEF translate
<1>3. /\ Filling \in Int
      /\ Flushing \in Int
      /\ IF type = L_Type THEN Flushing = Filling - 1 ELSE Flushing = Filling + 1
  BY <1>1, BlockFacts
<1>4. w[p][k][1] \in Int
  BY <1>1 DEF TypeOK
<1>5. index["induce"] \in Int /\ (type # L_Type => loc <= index["induce"])
  BY <1>1 DEF Unvisited, TypeOK, Tasks
<1>6. CASE p = Filling % 2
  <2>1. Far(Filling, w[p][k][1]) /\
        (type = S_Type => \/ w[p][k][1] < Filling * PartLength - 2 * PartLength
                          \/ w[p][k][1] > Filling * PartLength + index["induce"])
    BY <1>1, <1>6 DEF FillingInOrder
  <2>2. type \in { L_Type, S_Type }
    BY <1>1 DEF TypeOK
  <2> QED
    BY <1>2, <1>3, <1>4, <1>5, <2>1, <2>2, ConstantFacts DEF Far
<1>7. CASE p = Flushing % 2
  <2>1. Far(Flushing, w[p][k][1])
    BY <1>1, <1>7 DEF FlushingInOrder
  <2> QED
    BY <1>2, <1>3, <1>4, <2>1, ConstantFacts DEF Far
<1> QED
  BY <1>1, <1>6, <1>7, BlockFacts

\* When the scan visits a cell, no entry of a write buffer is still to be
\* copied to it.
THEOREM WritesBeforeScan == Spec => []ScanSeesAllWrites
BY ScanSeesWrites, Invariance, PTL

\* A pass leaves no write behind.
THEOREM PassLeavesNothing == Spec => []NothingLeftBehind
<1>1. PipelineInv => NothingLeftBehind
  BY EmptyAtPassEnd DEF NothingLeftBehind, Pending
<1> QED
  BY <1>1, Invariance, PTL

-----------------------------------------------------------------------------
(* The sequential scan                                                     *)
(*                                                                         *)
(* What an array A, with the next free cells b of the buckets, satisfies   *)
(* when sc of its cells have been visited by the sequential pass ty.       *)

\* The suffixes with a first character and a type, and the part of the
\* character's bucket that the pass fills with them.
OfKind(c, ty) == { q \in Positions(s) : At(s, q) = c /\ t[q] = ty }
Count(c, ty) == Cardinality(OfKind(c, ty))
Start(c) == generate_buckets(s, K, FALSE)[c]
End(c) == generate_buckets(s, K, TRUE)[c]

Region(ty, c) ==
  IF ty = L_Type THEN Start(c) .. Start(c) + Count(c, L_Type) - 1
  ELSE End(c) - Count(c, S_Type) .. End(c) - 1

Filled(ty, b, c) == IF ty = L_Type THEN Start(c) .. b[c] - 1 ELSE b[c] .. End(c) - 1

InBounds(ty, b, c) ==
  IF ty = L_Type THEN b[c] >= Start(c) /\ b[c] <= Start(c) + Count(c, L_Type)
  ELSE b[c] >= End(c) - Count(c, S_Type) /\ b[c] <= End(c)

Visited(ty, sc) == IF ty = L_Type THEN 0 .. sc - 1 ELSE n - sc .. n - 1

\* A cell with value v induces a suffix in pass ty.
Induces(ty, v) == v - 1 \in Positions(s) /\ t[v - 1] = ty

\* A pass fills a bucket with suffixes of its type, none twice, whose successors
\* have been visited; what it has still to fill induces nothing, so that nothing
\* that is still to be read gets lost; and what it reads is in one cell only.
SeqInv(ty, A, b, sc) ==
  /\ A \in [ Positions(s) -> Positions(s) \cup { None } ]
  /\ b \in [ 0 .. K - 1 -> Int ]
  /\ \A c \in 0 .. K - 1 :
       /\ InBounds(ty, b, c)
       /\ \A x \in Filled(ty, b, c) :
            A[x] \in OfKind(c, ty) /\ \E y \in Visited(ty, sc) : A[y] = A[x] + 1
       /\ \A x, y \in Filled(ty, b, c) : A[x] = A[y] => x = y
       /\ \A x \in Region(ty, c) \ Filled(ty, b, c) : ~Induces(ty, A[x])
  /\ \A x, y \in Positions(s) : A[x] = A[y] /\ Induces(ty, A[x]) => x = y
  /\ \A x \in Positions(s) :
       /\ A[x] # None /\ t[A[x]] = ty /\ ~is_LMS(t, A[x]) => x \in Filled(ty, b, At(s, A[x]))
       /\ ty = L_Type /\ A[x] # None /\ t[A[x]] = S_Type => is_LMS(t, A[x])

-----------------------------------------------------------------------------
(* The pipeline against the scan *)

VisibleSA == [ c \in Positions(s) |-> Visible(c) ]

\* A scan from right to left starts at FirstIndex and stops at -1.
IndexInv ==
  pc["induce"] = "run" /\ type = S_Type =>
    /\ index["induce"] <= FirstIndex(Filling)
    /\ index["induce"] >= -1 \/ index["induce"] = FirstIndex(Filling)

\* A pending write is for a cell that the scan has filled but that still holds a
\* value that induces nothing, and it is the only one for its cell.
PendingInv ==
  /\ \A c \in Positions(s) : SA[c] \in Positions(s) \cup { None }
  /\ \A e \in Pending :
       /\ e[1] \in Positions(s) /\ e[2] \in Positions(s)
       /\ \E c \in 0 .. K - 1 : e[1] \in Filled(type, buckets, c)
       /\ ~Induces(type, SA[e[1]])
  /\ \A p, q \in Parities, x, y \in 0 .. PartLength :
       Valid(w[p][x]) /\ Valid(w[q][y]) /\ w[p][x][1] = w[q][y][1] => p = q /\ x = y
  /\ store # NoStore =>
       \A p \in Parities, x \in 0 .. PartLength : Valid(w[p][x]) => w[p][x][1] # store[1]

\* A record is for a cell's value once the pending writes have been applied; of
\* the block being induced, for the value the cell has.
RecordOf(v) == << At(s, v - 1), v - 1 >>

Matches(k, A) ==
  \A x \in 0 .. PartLength - 1 :
    r[k % 2][x][1] # 0 =>
      LET c == k * PartLength + x
      IN  /\ c \in Positions(s)
          /\ Induces(type, A[c])
          /\ r[k % 2][x] = RecordOf(A[c])

RecordsInv ==
  /\ StageOf("prepare", blocknum) >= 0 /\ pc["prepare"] # "start" =>
       Matches(BlockOf(blocknum), VisibleSA)
  /\ StageOf("induce", blocknum) >= 0 => Matches(Filling, SA)

RefinementInv ==
  /\ PipelineInv /\ IndexInv /\ PendingInv /\ RecordsInv
  /\ SeqInv(type, VisibleSA, buckets, ScannedCells)

-----------------------------------------------------------------------------
(* Buckets *)

TypesGiven == s \in Texts /\ t \in [ Positions(s) -> { L_Type, S_Type } ]

\* Suffixes of a kind are counted by a natural number.
LEMMA KindsFinite ==
  ASSUME TypesGiven, NEW c, NEW ty
  PROVE  IsFiniteSet(OfKind(c, ty)) /\ Count(c, ty) \in Nat
<1>1. IsFiniteSet(Positions(s))
  BY TextFacts, FS_Interval DEF TypesGiven
<1>2. OfKind(c, ty) \subseteq Positions(s)
  BY DEF OfKind
<1> QED
  BY <1>1, <1>2, FS_Subset, FS_CardinalityType DEF Count

\* A bucket has room for the L-type and the S-type suffixes of its character,
\* the buckets lie in the order of the characters, and cell 0 is the sentinel's
\* (generate_buckets).
LEMMA BucketBounds ==
  ASSUME TypesGiven, NEW c \in 0 .. K - 1
  PROVE  /\ Start(c) \in Nat /\ End(c) \in Nat /\ End(c) <= n
         /\ Count(c, L_Type) \in Nat /\ Count(c, S_Type) \in Nat
         /\ End(c) = Start(c) + Count(c, L_Type) + Count(c, S_Type)
         /\ \A d \in 0 .. K - 1 : c < d => End(c) <= Start(d)
         /\ c # 0 => Start(c) >= 1
<1>1. /\ s \in Texts /\ n \in Nat \ {0} /\ Positions(s) = 0 .. n - 1
      /\ \A q \in Positions(s) : At(s, q) \in 0 .. K - 1
      /\ K \in Nat \ {0}
  BY TextFacts, ConstantFacts DEF TypesGiven
<1> DEFINE Below(d) == { q \in Positions(s) : At(s, q) < d }
           UpTo(d) == { q \in Positions(s) : At(s, q) <= d }
<1>2. \A d \in 0 .. K - 1 : Start(d) = Cardinality(Below(d)) /\ End(d) = Cardinality(UpTo(d))
  BY DEF Start, End, generate_buckets
<1>3. /\ IsFiniteSet(Positions(s)) /\ Cardinality(Positions(s)) = n
  BY <1>1, FS_Interval
<1>4. \A d \in 0 .. K - 1 :
        /\ IsFiniteSet(Below(d)) /\ Cardinality(Below(d)) \in Nat
        /\ IsFiniteSet(UpTo(d)) /\ Cardinality(UpTo(d)) \in Nat /\ Cardinality(UpTo(d)) <= n
  <2> TAKE d \in 0 .. K - 1
  <2>1. Below(d) \subseteq Positions(s) /\ UpTo(d) \subseteq Positions(s)
    OBVIOUS
  <2> HIDE DEF Below, UpTo
  <2> QED
    BY <1>3, <2>1, FS_Subset, FS_CardinalityType
<1>5. Count(c, L_Type) \in Nat /\ Count(c, S_Type) \in Nat
      /\ IsFiniteSet(OfKind(c, L_Type)) /\ IsFiniteSet(OfKind(c, S_Type))
  BY KindsFinite
<1>6. End(c) = Start(c) + Count(c, L_Type) + Count(c, S_Type)
  <2> DEFINE Ls == OfKind(c, L_Type)
             Ss == OfKind(c, S_Type)
  <2>1. UpTo(c) = Below(c) \cup (Ls \cup Ss)
    BY <1>1 DEF OfKind, TypesGiven
  <2>2. Ls \cap Ss = {} /\ Below(c) \cap (Ls \cup Ss) = {}
    BY <1>1 DEF OfKind, L_Type, S_Type
  <2>3. /\ IsFiniteSet(Ls) /\ Cardinality(Ls) = Count(c, L_Type)
        /\ IsFiniteSet(Ss) /\ Cardinality(Ss) = Count(c, S_Type)
        /\ IsFiniteSet(Below(c)) /\ Cardinality(Below(c)) = Start(c)
        /\ Cardinality(UpTo(c)) = End(c)
    BY <1>2, <1>4, <1>5 DEF Count
  <2>4. Start(c) \in Nat
    BY <1>2, <1>4
  <2>5. Cardinality({}) = 0
    BY FS_EmptySet
  <2> HIDE DEF Ls, Ss, Below, UpTo
  <2>6. IsFiniteSet(Ls \cup Ss) /\ Cardinality(Ls \cup Ss) = Count(c, L_Type) + Count(c, S_Type)
    <3>1. Cardinality(Ls \cup Ss) = Cardinality(Ls) + Cardinality(Ss) - Cardinality(Ls \cap Ss)
          /\ IsFiniteSet(Ls \cup Ss)
      BY <2>3, FS_Union
    <3>2. Cardinality(Ls \cap Ss) = 0
      BY <2>2, <2>5, Zenon
    <3> QED
      BY <1>5, <2>3, <3>1, <3>2
  <2>7. Cardinality(Below(c) \cup (Ls \cup Ss)) =
          Cardinality(Below(c)) + Cardinality(Ls \cup Ss) - Cardinality(Below(c) \cap (Ls \cup Ss))
    BY <2>3, <2>6, FS_Union
  <2>8. Cardinality(Below(c) \cap (Ls \cup Ss)) = 0
    BY <2>2, <2>5, Zenon
  <2>9. Cardinality(Below(c) \cup (Ls \cup Ss)) = End(c)
    BY <2>1, <2>3, Zenon
  <2> QED
    BY <1>5, <2>3, <2>4, <2>6, <2>7, <2>8, <2>9
<1>7. ASSUME NEW d \in 0 .. K - 1, c < d PROVE End(c) <= Start(d)
  <2>1. UpTo(c) \subseteq Below(d)
    BY <1>1, <1>7
  <2> HIDE DEF Below, UpTo
  <2> QED
    BY <1>2, <1>4, <2>1, FS_Subset
<1>8. ASSUME c # 0 PROVE Start(c) >= 1
  <2>1. n - 1 \in Below(c)
    BY <1>1, <1>8, TextsAssumption DEF n
  <2>2. Below(c) # {}
    BY <2>1
  <2>3. IsFiniteSet(Below(c)) /\ Cardinality(Below(c)) \in Nat /\ Start(c) = Cardinality(Below(c))
    BY <1>2, <1>4
  <2> HIDE DEF Below
  <2>4. Cardinality(Below(c)) # 0
    BY <2>2, <2>3, FS_EmptySet
  <2> QED
    BY <2>3, <2>4
<1> HIDE DEF Below, UpTo
<1> QED
  BY <1>2, <1>4, <1>5, <1>6, <1>7, <1>8

\* The regions of different passes or characters have no cell in common.
LEMMA RegionsApart ==
  ASSUME TypesGiven, NEW c \in 0 .. K - 1, NEW ty \in { L_Type, S_Type }, NEW x \in Region(ty, c)
  PROVE  /\ x \in Positions(s)
         /\ c # 0 => x # 0
         /\ \A d \in 0 .. K - 1 : \A tz \in { L_Type, S_Type } :
              x \in Region(tz, d) => d = c /\ tz = ty
<1>1. /\ n \in Nat /\ Positions(s) = 0 .. n - 1 /\ K \in Nat
      /\ Start(c) \in Nat /\ End(c) \in Nat /\ End(c) <= n
      /\ Count(c, L_Type) \in Nat /\ Count(c, S_Type) \in Nat
      /\ End(c) = Start(c) + Count(c, L_Type) + Count(c, S_Type)
      /\ c # 0 => Start(c) >= 1
  BY TextFacts, ConstantFacts, BucketBounds DEF TypesGiven
<1>2. \A d \in 0 .. K - 1 :
        /\ Start(d) \in Nat /\ End(d) \in Nat
        /\ Count(d, L_Type) \in Nat /\ Count(d, S_Type) \in Nat
        /\ End(d) = Start(d) + Count(d, L_Type) + Count(d, S_Type)
        /\ c < d => End(c) <= Start(d)
        /\ d < c => End(d) <= Start(c)
  BY BucketBounds
<1>3. x \in Int /\ Start(c) <= x /\ x < End(c)
  BY <1>1 DEF Region
<1>4. x \in Positions(s) /\ (c # 0 => x # 0)
  BY <1>1, <1>3
<1>5. ASSUME NEW d \in 0 .. K - 1, NEW tz \in { L_Type, S_Type }, x \in Region(tz, d)
      PROVE  d = c /\ tz = ty
  <2>1. Start(d) <= x /\ x < End(d)
    BY <1>2, <1>5 DEF Region
  <2>2. ~(c < d) /\ ~(d < c)
    BY <1>1, <1>2, <1>3, <2>1
  <2>3. d = c
    BY <2>2
  <2>4. tz = ty
    BY <1>1, <1>5, <2>3 DEF Region, L_Type, S_Type
  <2> QED
    BY <2>3, <2>4
<1> QED
  BY <1>4, <1>5

\* The next free cell of a bucket, and the buckets once it has been filled.
NextFree(ty, b, c) == IF ty = L_Type THEN b[c] ELSE b[c] - 1
Advanced(ty, b, c) == [ b EXCEPT ![c] = IF ty = L_Type THEN @ + 1 ELSE @ - 1 ]

\* The cell a pass visits after sc others.
CellAfter(ty, sc) == IF ty = L_Type THEN sc ELSE n - 1 - sc

\* What a filled cell is: a cell of its bucket's region.
LEMMA FilledInRegion ==
  ASSUME TypesGiven, NEW ty \in { L_Type, S_Type }, NEW A, NEW b, NEW sc,
         SeqInv(ty, A, b, sc), NEW c \in 0 .. K - 1
  PROVE  Filled(ty, b, c) \subseteq Region(ty, c)
<1>1. /\ Start(c) \in Nat /\ End(c) \in Nat
      /\ Count(c, L_Type) \in Nat /\ Count(c, S_Type) \in Nat
  BY BucketBounds
<1>2. b[c] \in Int
      /\ InBounds(ty, b, c)
  BY DEF SeqInv
<1> QED
  BY <1>1, <1>2 DEF Filled, Region, InBounds

\* As long as a suffix is not in its bucket the bucket has a free cell: the
\* cells filled so far hold different suffixes of the same kind (the counting
\* that generate_buckets relies on).
LEMMA HasRoom ==
  ASSUME TypesGiven, NEW ty \in { L_Type, S_Type }, NEW A, NEW b, NEW sc,
         SeqInv(ty, A, b, sc), NEW q \in Positions(s), t[q] = ty,
         \A x \in Filled(ty, b, At(s, q)) : A[x] # q
  PROVE  /\ NextFree(ty, b, At(s, q)) \in Region(ty, At(s, q))
         /\ NextFree(ty, b, At(s, q)) \notin Filled(ty, b, At(s, q))
<1> DEFINE c == At(s, q)
           From == Filled(ty, b, c)
           Others == OfKind(c, ty) \ { q }
           f == [ x \in From |-> A[x] ]
<1>1. c \in 0 .. K - 1
  BY TextFacts DEF TypesGiven
<1>2. q \in OfKind(c, ty)
  BY DEF OfKind
<1>3. /\ \A x \in From : A[x] \in OfKind(c, ty)
      /\ \A x, y \in From : A[x] = A[y] => x = y
      /\ b[c] \in Int
      /\ IF ty = L_Type THEN b[c] >= Start(c) /\ b[c] <= Start(c) + Count(c, L_Type)
          ELSE b[c] >= End(c) - Count(c, S_Type) /\ b[c] <= End(c)
  BY <1>1 DEF SeqInv, InBounds
<1>4. f \in Injection(From, Others)
  <2>1. \A x \in From : A[x] \in Others
    BY <1>3
  <2>2. f \in [ From -> Others ] /\ \A x \in From : f[x] = A[x]
    BY <2>1
  <2> HIDE DEF f, From, Others
  <2> QED
    BY <1>3, <2>2 DEF Injection, IsInjective
<1>5. /\ IsFiniteSet(Others) /\ Cardinality(Others) = Count(c, ty) - 1
      /\ Count(c, ty) \in Nat
  BY <1>2, KindsFinite, FS_RemoveElement DEF Count
<1>6. Cardinality(From) <= Cardinality(Others)
  <2> HIDE DEF f, From, Others
  <2> QED
    BY <1>4, <1>5, FS_Injection
<1>7. Start(c) \in Nat /\ End(c) \in Nat
      /\ Count(c, L_Type) \in Nat /\ Count(c, S_Type) \in Nat
  BY <1>1, BucketBounds
<1>8. CASE ty = L_Type
  <2>1. From = Start(c) .. b[c] - 1
    BY <1>8 DEF Filled
  <2>2. Cardinality(From) = b[c] - Start(c)
    <3>1. Cardinality(Start(c) .. b[c] - 1) =
            IF Start(c) > b[c] - 1 THEN 0 ELSE b[c] - 1 - Start(c) + 1
      <4>1. Start(c) \in Int /\ b[c] - 1 \in Int
        BY <1>3, <1>7
      <4> HIDE DEF c
      <4> QED
        BY <4>1, FS_Interval
    <3> HIDE DEF c
    <3> QED
      BY <1>3, <1>7, <1>8, <2>1, <3>1
  <2>3. b[c] <= Start(c) + Count(c, L_Type) - 1
    <3> HIDE DEF c, From, Others
    <3> QED
      BY <1>3, <1>5, <1>6, <1>7, <1>8, <2>2
  <2> QED
    BY <1>3, <1>7, <1>8, <2>3 DEF NextFree, Region, Filled
<1>9. CASE ty = S_Type
  <2>1. ty # L_Type /\ From = b[c] .. End(c) - 1
    BY <1>9 DEF Filled, L_Type, S_Type
  <2>2. Cardinality(From) = End(c) - b[c]
    <3>1. Cardinality(b[c] .. End(c) - 1) =
            IF b[c] > End(c) - 1 THEN 0 ELSE End(c) - 1 - b[c] + 1
      <4>1. b[c] \in Int /\ End(c) - 1 \in Int
        BY <1>3, <1>7
      <4> HIDE DEF c
      <4> QED
        BY <4>1, FS_Interval
    <3> HIDE DEF c
    <3> QED
      BY <1>3, <1>7, <2>1, <3>1
  <2>3. b[c] - 1 >= End(c) - Count(c, S_Type)
    <3> HIDE DEF c, From, Others
    <3> QED
      BY <1>3, <1>5, <1>6, <1>7, <1>9, <2>1, <2>2
  <2> QED
    BY <1>3, <1>7, <2>1, <2>3 DEF NextFree, Region, Filled
<1> QED
  BY <1>8, <1>9

\* A visited cell that induces nothing: the pass only goes on.
LEMMA VisitNothing ==
  ASSUME TypesGiven, NEW ty \in { L_Type, S_Type }, NEW A, NEW b, NEW sc \in 0 .. n - 1,
         SeqInv(ty, A, b, sc)
  PROVE  SeqInv(ty, A, b, sc + 1)
<1>1. Visited(ty, sc) \subseteq Visited(ty, sc + 1)
  BY TextFacts DEF Visited, TypesGiven
<1> QED
  BY <1>1 DEF SeqInv

\* The suffix a visited cell induces: it has its own character's bucket, is in
\* no filled cell yet, and the cell it goes to induces nothing.
LEMMA InducedFacts ==
  ASSUME TypesGiven, NEW ty \in { L_Type, S_Type }, NEW A, NEW b, NEW sc \in 0 .. n - 1,
         SeqInv(ty, A, b, sc), Induces(ty, A[CellAfter(ty, sc)]),
         NEW q, q = A[CellAfter(ty, sc)] - 1
  PROVE  /\ CellAfter(ty, sc) \in Positions(s)
         /\ A[CellAfter(ty, sc)] \in Positions(s)
         /\ q \in Positions(s) /\ t[q] = ty
         /\ At(s, q) \in 1 .. K - 1
         /\ \A x \in Filled(ty, b, At(s, q)) : A[x] # q
         /\ NextFree(ty, b, At(s, q)) \in Region(ty, At(s, q))
         /\ NextFree(ty, b, At(s, q)) \in Positions(s)
         /\ NextFree(ty, b, At(s, q)) # 0
         /\ \A c \in 0 .. K - 1 : NextFree(ty, b, At(s, q)) \notin Filled(ty, b, c)
         /\ ~Induces(ty, A[NextFree(ty, b, At(s, q))])
<1> DEFINE cell == CellAfter(ty, sc)
           c == At(s, q)
           idx == NextFree(ty, b, c)
<1>1. /\ n \in Nat \ {0} /\ Positions(s) = 0 .. n - 1 /\ n + 1 < LowBase
      /\ LowBase \in Nat /\ None >= 2 * LowBase - 1 /\ None \in Nat
  BY TextFacts, TextsAssumption, ConstantsAssumption, ConstantFacts DEF TypesGiven, n
<1>2. cell \in Positions(s) /\ cell \notin Visited(ty, sc)
  BY <1>1 DEF CellAfter, Visited
<1>3. q \in Positions(s) /\ t[q] = ty
  BY DEF Induces
<1>4. A[cell] \in Positions(s) /\ A[cell] = q + 1
  <2>1. A[cell] \in Positions(s) \cup { None }
    BY <1>2 DEF SeqInv
  <2> HIDE DEF cell
  <2>2. A[cell] - 1 \in Positions(s)
    BY DEF Induces, cell
  <2>3. A[cell] \in Positions(s)
    BY <1>1, <2>1, <2>2
  <2> QED
    BY <1>1, <2>3 DEF cell
<1>5. c \in 0 .. K - 1 /\ c # 0
  <2>1. q # n - 1
    BY <1>1, <1>3, <1>4
  <2> QED
    BY <1>3, <2>1, TextFacts, TextsAssumption DEF TypesGiven, n
<1>6. ASSUME NEW x \in Filled(ty, b, c), A[x] = q PROVE FALSE
  <2>1. PICK y \in Visited(ty, sc) : A[y] = A[x] + 1
    BY <1>5, <1>6 DEF SeqInv
  <2>2. y \in Positions(s)
    BY <1>1 DEF Visited
  <2>3. A[y] = A[cell]
    BY <1>4, <1>6, <2>1
  <2>4. y = cell
    BY <1>2, <2>2, <2>3 DEF SeqInv
  <2> QED
    BY <1>2, <2>4
<1>7. idx \in Region(ty, c) /\ idx \notin Filled(ty, b, c)
  BY <1>3, <1>6, HasRoom
<1>8. /\ idx \in Positions(s) /\ idx # 0
      /\ \A d \in 0 .. K - 1 : idx \in Region(ty, d) => d = c
  BY <1>5, <1>7, RegionsApart
<1>9. \A d \in 0 .. K - 1 : idx \notin Filled(ty, b, d)
  BY <1>5, <1>7, <1>8, FilledInRegion
<1>10. ~Induces(ty, A[idx])
  BY <1>5, <1>7 DEF SeqInv
<1>11. c \in 1 .. K - 1
  BY <1>5, ConstantFacts
<1> QED
  BY <1>2, <1>3, <1>4, <1>6, <1>7, <1>8, <1>9, <1>10, <1>11

\* The buckets after an induction: one more filled cell in one bucket.
LEMMA AdvancedFilled ==
  ASSUME TypesGiven, NEW ty \in { L_Type, S_Type }, NEW A, NEW b, NEW sc,
         SeqInv(ty, A, b, sc), NEW c \in 0 .. K - 1, NextFree(ty, b, c) \in Region(ty, c),
         NEW d \in 0 .. K - 1
  PROVE  /\ Advanced(ty, b, c) \in [ 0 .. K - 1 -> Int ]
         /\ Filled(ty, Advanced(ty, b, c), d) =
              (IF d = c THEN Filled(ty, b, c) \cup { NextFree(ty, b, c) } ELSE Filled(ty, b, d))
         /\ InBounds(ty, Advanced(ty, b, c), d)
<1>1. /\ b \in [ 0 .. K - 1 -> Int ]
      /\ b[c] \in Int /\ b[d] \in Int
      /\ InBounds(ty, b, c) /\ InBounds(ty, b, d)
  BY DEF SeqInv
<1>2. /\ \A e \in { c, d } :
           /\ Start(e) \in Nat /\ End(e) \in Nat
           /\ Count(e, L_Type) \in Nat /\ Count(e, S_Type) \in Nat
  BY BucketBounds
<1>3. Advanced(ty, b, c) \in [ 0 .. K - 1 -> Int ]
      /\ Advanced(ty, b, c)[d] = (IF d = c THEN (IF ty = L_Type THEN b[c] + 1 ELSE b[c] - 1)
                                  ELSE b[d])
  BY <1>1 DEF Advanced
<1>4. CASE d # c
  BY <1>1, <1>3, <1>4 DEF Filled, InBounds
<1>5. CASE d = c
  <2>1. IF ty = L_Type THEN b[c] <= Start(c) + Count(c, L_Type) - 1
        ELSE b[c] - 1 >= End(c) - Count(c, S_Type)
    BY <1>1, <1>2 DEF NextFree, Region, InBounds
  <2>2. Filled(ty, Advanced(ty, b, c), c) = Filled(ty, b, c) \cup { NextFree(ty, b, c) }
    <3>1. /\ b[c] \in Int /\ Start(c) \in Int /\ End(c) \in Int
          /\ IF ty = L_Type THEN b[c] >= Start(c) ELSE b[c] <= End(c)
          /\ Advanced(ty, b, c)[c] = IF ty = L_Type THEN b[c] + 1 ELSE b[c] - 1
      BY <1>1, <1>2, <1>3, <1>5 DEF InBounds
    <3>2. CASE ty = L_Type
      BY <3>1, <3>2 DEF Filled, NextFree
    <3>3. CASE ty # L_Type
      BY <3>1, <3>3 DEF Filled, NextFree
    <3> QED
      BY <3>2, <3>3
  <2> QED
    BY <1>1, <1>2, <1>3, <1>5, <2>1, <2>2 DEF InBounds
<1> QED
  BY <1>4, <1>5

\* A visited cell that induces a suffix: the invariant of the scan holds on.
LEMMA VisitInduces ==
  ASSUME TypesGiven, NEW ty \in { L_Type, S_Type }, NEW A, NEW b, NEW sc \in 0 .. n - 1,
         SeqInv(ty, A, b, sc), Induces(ty, A[CellAfter(ty, sc)]),
         NEW q, q = A[CellAfter(ty, sc)] - 1
  PROVE  SeqInv(ty, [ A EXCEPT ![NextFree(ty, b, At(s, q))] = q ],
                Advanced(ty, b, At(s, q)), sc + 1)
<1> DEFINE cell == CellAfter(ty, sc)
           c == At(s, q)
           idx == NextFree(ty, b, c)
           A2 == [ A EXCEPT ![idx] = q ]
           b2 == Advanced(ty, b, c)
<1>1. /\ n \in Nat \ {0} /\ Positions(s) = 0 .. n - 1
      /\ cell \in Visited(ty, sc + 1)
      /\ Visited(ty, sc) \subseteq Visited(ty, sc + 1)
      /\ Visited(ty, sc) \subseteq Positions(s)
  BY TextFacts DEF TypesGiven, CellAfter, Visited
<1>2. /\ cell \in Positions(s) /\ A[cell] \in Positions(s)
      /\ q \in Positions(s) /\ t[q] = ty
      /\ c \in 0 .. K - 1
      /\ \A x \in Filled(ty, b, c) : A[x] # q
      /\ idx \in Region(ty, c)
      /\ idx \in Positions(s)
      /\ \A d \in 0 .. K - 1 : idx \notin Filled(ty, b, d)
      /\ ~Induces(ty, A[idx])
  BY InducedFacts
<1>3. A[cell] = q + 1 /\ cell # idx
  BY <1>1, <1>2
<1> HIDE DEF cell, idx
<1>4. /\ b2 \in [ 0 .. K - 1 -> Int ]
      /\ \A d \in 0 .. K - 1 :
           /\ Filled(ty, b2, d) =
                (IF d = c THEN Filled(ty, b, c) \cup { idx } ELSE Filled(ty, b, d))
           /\ InBounds(ty, b2, d)
  <2>1. b2 \in [ 0 .. K - 1 -> Int ]
    BY <1>2, AdvancedFilled DEF idx
  <2>2. NextFree(ty, b, c) \in Region(ty, c)
    BY <1>2 DEF idx
  <2> HIDE DEF c
  <2>3. ASSUME NEW d \in 0 .. K - 1
        PROVE  /\ Filled(ty, b2, d) =
                   (IF d = c THEN Filled(ty, b, c) \cup { idx } ELSE Filled(ty, b, d))
               /\ InBounds(ty, b2, d)
    BY <1>2, <2>2, AdvancedFilled DEF idx
  <2> QED
    BY <2>1, <2>3
<1>5. /\ A \in [ Positions(s) -> Positions(s) \cup { None } ]
      /\ A2 \in [ Positions(s) -> Positions(s) \cup { None } ]
      /\ A2[idx] = q
      /\ \A x \in Positions(s) : x # idx => A2[x] = A[x]
  BY <1>2 DEF SeqInv
<1>6. \A d \in 0 .. K - 1 :
        /\ Filled(ty, b, d) \subseteq Positions(s) /\ Region(ty, d) \subseteq Positions(s)
        /\ \A x \in Filled(ty, b, d) : x # idx /\ A2[x] = A[x]
  <2> TAKE d \in 0 .. K - 1
  <2>1. Filled(ty, b, d) \subseteq Region(ty, d)
    BY FilledInRegion
  <2>2. Region(ty, d) \subseteq Positions(s)
    BY RegionsApart
  <2> QED
    BY <1>2, <1>5, <2>1, <2>2
<1> HIDE DEF A2, b2, c
<1>7. ASSUME NEW d \in 0 .. K - 1, NEW x \in Filled(ty, b2, d)
      PROVE  A2[x] \in OfKind(d, ty) /\ \E y \in Visited(ty, sc + 1) : A2[y] = A2[x] + 1
  <2>1. CASE x = idx
    <3>1. d = c
      BY <1>2, <1>4, <1>7, <2>1
    <3>2. A2[cell] = A2[x] + 1
      BY <1>2, <1>3, <1>5, <2>1
    <3> QED
      BY <1>1, <1>2, <1>5, <2>1, <3>1, <3>2 DEF OfKind, c
  <2>2. CASE x # idx
    <3>1. x \in Filled(ty, b, d)
      BY <1>4, <1>7, <2>2
    <3>2. PICK y \in Visited(ty, sc) : A[y] = A[x] + 1
      BY <3>1 DEF SeqInv
    <3>3. A[x] \in OfKind(d, ty)
      BY <3>1 DEF SeqInv
    <3>4. Induces(ty, A[y])
      BY <1>1, <3>2, <3>3 DEF Induces, OfKind
    <3>5. y # idx
      BY <1>2, <3>4
    <3> QED
      BY <1>1, <1>5, <1>6, <3>1, <3>2, <3>3, <3>5
  <2> QED
    BY <2>1, <2>2
<1>8. ASSUME NEW d \in 0 .. K - 1, NEW x \in Filled(ty, b2, d), NEW y \in Filled(ty, b2, d),
             A2[x] = A2[y]
      PROVE  x = y
  <2>1. x # idx => x \in Filled(ty, b, d) /\ A2[x] = A[x]
    BY <1>4, <1>6, <1>8
  <2>2. y # idx => y \in Filled(ty, b, d) /\ A2[y] = A[y]
    BY <1>4, <1>6, <1>8
  <2>3. x = idx \/ y = idx => d = c
    BY <1>2, <1>4, <1>8
  <2>4. CASE x # idx /\ y # idx
    BY <1>8, <2>1, <2>2, <2>4 DEF SeqInv
  <2>5. CASE x = idx \/ y = idx
    BY <1>2, <1>5, <1>8, <2>1, <2>2, <2>3, <2>5
  <2> QED
    BY <2>4, <2>5
<1>9. ASSUME NEW d \in 0 .. K - 1, NEW x \in Region(ty, d) \ Filled(ty, b2, d)
      PROVE  ~Induces(ty, A2[x])
  <2>1. x \in Region(ty, d) \ Filled(ty, b, d)
    BY <1>4, <1>9
  <2>2. x # idx
    <3>1. x = idx => d = c
      BY <1>2, RegionsApart
    <3> QED
      BY <1>4, <1>9, <3>1
  <2> QED
    BY <1>5, <1>6, <2>1, <2>2 DEF SeqInv
<1>10. ASSUME NEW x \in Positions(s), A[x] = q PROVE ~Induces(ty, q)
  <2> SUFFICES ASSUME Induces(ty, q) PROVE FALSE
    OBVIOUS
  <2>1. q - 1 \in Positions(s) /\ t[q - 1] = ty
    BY DEF Induces
  <2>2. ~is_LMS(t, q)
    BY <1>2, <2>1 DEF is_LMS, L_Type, S_Type
  <2>3. q # None
    BY <1>1, <1>2, TextFacts DEF TypesGiven
  <2>4. x \in Filled(ty, b, c)
    BY <1>2, <1>10, <2>2, <2>3 DEF SeqInv, c
  <2> QED
    BY <1>2, <1>10, <2>4
<1>11. ASSUME NEW x \in Positions(s), NEW y \in Positions(s), A2[x] = A2[y], Induces(ty, A2[x])
       PROVE  x = y
  <2>1. CASE x # idx /\ y # idx
    BY <1>5, <1>11, <2>1 DEF SeqInv
  <2>2. CASE x = idx /\ y # idx
    BY <1>5, <1>10, <1>11, <2>2
  <2>3. CASE x # idx /\ y = idx
    BY <1>5, <1>10, <1>11, <2>3
  <2> QED
    BY <2>1, <2>2, <2>3
<1>12. ASSUME NEW x \in Positions(s)
       PROVE  /\ A2[x] # None /\ t[A2[x]] = ty /\ ~is_LMS(t, A2[x]) =>
                   x \in Filled(ty, b2, At(s, A2[x]))
              /\ ty = L_Type /\ A2[x] # None /\ t[A2[x]] = S_Type => is_LMS(t, A2[x])
  <2>1. CASE x = idx
    <3>1. A2[x] = q /\ c = At(s, q)
      BY <1>5, <2>1 DEF c
    <3>2. x \in Filled(ty, b2, c)
      BY <1>2, <1>4, <2>1
    <3> QED
      BY <1>2, <3>1, <3>2 DEF L_Type, S_Type
  <2>2. CASE x # idx
    <3>1. A2[x] = A[x] /\ A[x] \in Positions(s) \cup { None }
      BY <1>5, <2>2
    <3>2. A[x] # None => At(s, A[x]) \in 0 .. K - 1
      BY <3>1, TextFacts DEF TypesGiven
    <3>3. A[x] # None => Filled(ty, b, At(s, A[x])) \subseteq Filled(ty, b2, At(s, A[x]))
      BY <1>4, <3>2
    <3>4. /\ A[x] # None /\ t[A[x]] = ty /\ ~is_LMS(t, A[x]) =>
                   x \in Filled(ty, b, At(s, A[x]))
          /\ ty = L_Type /\ A[x] # None /\ t[A[x]] = S_Type => is_LMS(t, A[x])
      BY DEF SeqInv
    <3> QED
      BY <3>1, <3>3, <3>4
  <2> QED
    BY <2>1, <2>2
<1>13. SeqInv(ty, A2, b2, sc + 1)
  BY <1>4, <1>5, <1>7, <1>8, <1>9, <1>11, <1>12 DEF SeqInv
<1> QED
  BY <1>13 DEF A2, b2, c, idx

\* Between the passes: what the L pass leaves is what the S pass starts with.
LEMMA SwitchPass ==
  ASSUME TypesGiven, NEW A, NEW b, SeqInv(L_Type, A, b, n)
  PROVE  SeqInv(S_Type, A, generate_buckets(s, K, TRUE), 0)
<1> DEFINE b2 == generate_buckets(s, K, TRUE)
<1>1. /\ n \in Nat \ {0} /\ Positions(s) = 0 .. n - 1 /\ None \in Nat /\ n < None
      /\ L_Type # S_Type
      /\ A \in [ Positions(s) -> Positions(s) \cup { None } ]
  BY TextFacts, ConstantFacts DEF TypesGiven, L_Type, S_Type, SeqInv
<1>2. b2 \in [ 0 .. K - 1 -> Int ]
  BY BucketsType DEF TypesGiven
<1>3. \A c \in 0 .. K - 1 : InBounds(S_Type, b2, c) /\ Filled(S_Type, b2, c) = {}
  <2> TAKE c \in 0 .. K - 1
  <2>1. b2[c] = End(c) /\ End(c) \in Nat /\ Count(c, S_Type) \in Nat
    BY BucketBounds DEF End
  <2> HIDE DEF b2
  <2> QED
    BY <1>1, <2>1 DEF InBounds, Filled
<1> HIDE DEF b2
<1>4. ASSUME NEW x \in Positions(s), A[x] # None
      PROVE  /\ A[x] \in Positions(s)
             /\ At(s, A[x]) \in 0 .. K - 1
             /\ t[A[x]] = L_Type => x \in Filled(L_Type, b, At(s, A[x]))
             /\ t[A[x]] = S_Type => is_LMS(t, A[x])
             /\ t[A[x]] \in { L_Type, S_Type }
  <2>1. A[x] \in Positions(s)
    BY <1>1, <1>4
  <2>2. /\ t[A[x]] = L_Type /\ ~is_LMS(t, A[x]) => x \in Filled(L_Type, b, At(s, A[x]))
        /\ t[A[x]] = S_Type => is_LMS(t, A[x])
    BY <1>4 DEF SeqInv
  <2>3. t[A[x]] = L_Type => ~is_LMS(t, A[x])
    BY <1>1 DEF is_LMS
  <2> QED
    BY <2>1, <2>2, <2>3, TextFacts DEF TypesGiven
<1>5. ASSUME NEW x \in Positions(s), Induces(S_Type, A[x])
      PROVE  A[x] # None /\ t[A[x]] = L_Type
  <2>1. A[x] # None
    <3>1. None - 1 \notin Positions(s)
      BY <1>1, TextsAssumption, ConstantsAssumption, ConstantFacts DEF TypesGiven, n
    <3> QED
      BY <1>5, <3>1 DEF Induces
  <2>2. ~is_LMS(t, A[x])
    BY <1>1, <1>5 DEF Induces, is_LMS
  <2> QED
    BY <1>4, <2>1, <2>2
<1>6. ASSUME NEW c \in 0 .. K - 1, NEW x \in Region(S_Type, c) PROVE ~Induces(S_Type, A[x])
  <2> SUFFICES ASSUME Induces(S_Type, A[x]) PROVE FALSE
    OBVIOUS
  <2>1. x \in Positions(s)
    BY <1>6, RegionsApart
  <2>2. A[x] # None /\ t[A[x]] = L_Type
    BY <1>5, <2>1
  <2>3. At(s, A[x]) \in 0 .. K - 1 /\ x \in Filled(L_Type, b, At(s, A[x]))
    BY <1>4, <2>1, <2>2
  <2>4. x \in Region(L_Type, At(s, A[x]))
    BY <2>3, FilledInRegion
  <2> QED
    BY <1>1, <2>3, <2>4, RegionsApart
<1>7. ASSUME NEW x \in Positions(s), NEW y \in Positions(s), A[x] = A[y], Induces(S_Type, A[x])
      PROVE  x = y
  <2>1. A[x] # None /\ t[A[x]] = L_Type
    BY <1>5, <1>7
  <2>2. /\ At(s, A[x]) \in 0 .. K - 1
        /\ x \in Filled(L_Type, b, At(s, A[x])) /\ y \in Filled(L_Type, b, At(s, A[x]))
    BY <1>4, <1>7, <2>1
  <2> QED
    BY <1>7, <2>2 DEF SeqInv
<1>8. \A x \in Positions(s) : A[x] # None /\ t[A[x]] = S_Type => is_LMS(t, A[x])
  BY <1>4
<1> QED
  BY <1>1, <1>2, <1>3, <1>6, <1>7, <1>8 DEF SeqInv, b2

\* The LMS suffixes that run_saca inserts lie in the S-type part of their
\* buckets, at most one in a cell, whatever the order of insertion.
LEMMA InsertedFacts ==
  ASSUME TypesGiven, NEW turn \in [ Positions(s) -> Int ]
  PROVE  /\ InsertLMS(s, t, turn) \in [ Positions(s) -> Positions(s) \cup { None } ]
         /\ \A x \in Positions(s) : InsertLMS(s, t, turn)[x] # None =>
              /\ is_LMS(t, InsertLMS(s, t, turn)[x])
              /\ x \in Region(S_Type, At(s, InsertLMS(s, t, turn)[x]))
         /\ \A x, y \in Positions(s) :
              InsertLMS(s, t, turn)[x] # None
              /\ InsertLMS(s, t, turn)[x] = InsertLMS(s, t, turn)[y] => x = y
<1> DEFINE earlier(p) == { q \in LMSPositions(s, t) : At(s, q) = At(s, p) /\ turn[q] < turn[p] }
           cell(p) == generate_buckets(s, K, TRUE)[At(s, p)] - 1 - Cardinality(earlier(p))
           A == InsertLMS(s, t, turn)
<1>1. A = [ c \in Positions(s) |->
              IF \E p \in LMSPositions(s, t) : cell(p) = c
                THEN CHOOSE p \in LMSPositions(s, t) : cell(p) = c
                ELSE None ]
  BY DEF InsertLMS
<1>2. ASSUME NEW p \in LMSPositions(s, t)
      PROVE  p \in Positions(s) /\ is_LMS(t, p) /\ cell(p) \in Region(S_Type, At(s, p))
  <2> DEFINE c == At(s, p)
  <2>1. p \in Positions(s) /\ is_LMS(t, p) /\ c \in 0 .. K - 1 /\ p \in OfKind(c, S_Type)
    BY <1>2, TextFacts DEF LMSPositions, TypesGiven, OfKind, is_LMS
  <2>2. earlier(p) \subseteq OfKind(c, S_Type) \ { p }
    <3>1. \A q \in Positions(s) : turn[q] \in Int
      OBVIOUS
    <3> QED
      BY <2>1, <3>1 DEF LMSPositions, OfKind, is_LMS
  <2>3. /\ IsFiniteSet(OfKind(c, S_Type) \ { p })
        /\ Cardinality(OfKind(c, S_Type) \ { p }) = Count(c, S_Type) - 1
        /\ Count(c, S_Type) \in Nat
    BY <2>1, KindsFinite, FS_RemoveElement DEF Count
  <2> HIDE DEF c, earlier
  <2>4. /\ Cardinality(earlier(p)) \in Nat
        /\ Cardinality(earlier(p)) <= Count(c, S_Type) - 1
    BY <2>2, <2>3, FS_Subset, FS_CardinalityType
  <2>5. End(c) \in Nat /\ cell(p) = End(c) - 1 - Cardinality(earlier(p))
    BY <2>1, BucketBounds DEF End, c
  <2> HIDE DEF cell
  <2>6. cell(p) \in End(c) - Count(c, S_Type) .. End(c) - 1
    BY <2>3, <2>4, <2>5
  <2> QED
    BY <2>1, <2>6 DEF Region, c, L_Type, S_Type
<1> HIDE DEF cell
<1>3. ASSUME NEW x \in Positions(s)
      PROVE  \/ A[x] = None
             \/ A[x] \in LMSPositions(s, t) /\ cell(A[x]) = x
  BY <1>1
<1> HIDE DEF A
<1>4. A \in [ Positions(s) -> Positions(s) \cup { None } ]
  <2>1. \A x \in Positions(s) : A[x] \in Positions(s) \cup { None }
    BY <1>2, <1>3
  <2> QED
    BY <1>1, <2>1
<1>5. \A x \in Positions(s) : A[x] # None => is_LMS(t, A[x]) /\ x \in Region(S_Type, At(s, A[x]))
  BY <1>2, <1>3
<1>6. \A x, y \in Positions(s) : A[x] # None /\ A[x] = A[y] => x = y
  BY <1>3
<1> QED
  BY <1>4, <1>5, <1>6 DEF A

\* What the first pass starts with.
LEMMA FirstPassInv ==
  ASSUME TypesGiven, NEW turn \in [ Positions(s) -> Int ]
  PROVE  SeqInv(L_Type, InsertLMS(s, t, turn), generate_buckets(s, K, FALSE), 0)
<1> DEFINE b == generate_buckets(s, K, FALSE)
           A == InsertLMS(s, t, turn)
<1>1. /\ n \in Nat \ {0} /\ Positions(s) = 0 .. n - 1 /\ None \in Nat /\ n < None
      /\ L_Type # S_Type
  BY TextFacts, ConstantFacts DEF TypesGiven, L_Type, S_Type
<1>2. b \in [ 0 .. K - 1 -> Int ]
  BY BucketsType DEF TypesGiven
<1>3. \A c \in 0 .. K - 1 : InBounds(L_Type, b, c) /\ Filled(L_Type, b, c) = {}
  <2> TAKE c \in 0 .. K - 1
  <2>1. b[c] = Start(c) /\ Start(c) \in Nat /\ Count(c, L_Type) \in Nat
    BY BucketBounds DEF Start
  <2> HIDE DEF b
  <2> QED
    BY <1>1, <2>1 DEF InBounds, Filled
<1>4. /\ A \in [ Positions(s) -> Positions(s) \cup { None } ]
      /\ \A x \in Positions(s) : A[x] # None =>
           is_LMS(t, A[x]) /\ x \in Region(S_Type, At(s, A[x]))
      /\ \A x, y \in Positions(s) : A[x] # None /\ A[x] = A[y] => x = y
  BY InsertedFacts
<1> HIDE DEF A, b
<1>5. \A v : Induces(L_Type, v) => v # None
  <2>1. None - 1 \notin Positions(s)
    BY <1>1, TextsAssumption, ConstantsAssumption, ConstantFacts DEF TypesGiven, n
  <2> QED
    BY <2>1 DEF Induces
<1>6. ASSUME NEW c \in 0 .. K - 1, NEW x \in Region(L_Type, c) PROVE ~Induces(L_Type, A[x])
  <2>1. x \in Positions(s)
    BY <1>6, RegionsApart
  <2>2. ASSUME A[x] # None PROVE FALSE
    <3>1. A[x] \in Positions(s) /\ At(s, A[x]) \in 0 .. K - 1
      BY <1>4, <2>1, <2>2, TextFacts DEF TypesGiven
    <3>2. x \in Region(S_Type, At(s, A[x]))
      BY <1>4, <2>1, <2>2
    <3> QED
      BY <1>1, <3>1, <3>2, RegionsApart
  <2> QED
    BY <1>5, <2>2
<1>7. \A x, y \in Positions(s) : A[x] = A[y] /\ Induces(L_Type, A[x]) => x = y
  BY <1>4, <1>5
<1>8. \A x \in Positions(s) : A[x] # None => t[A[x]] # L_Type /\ is_LMS(t, A[x])
  BY <1>1, <1>4 DEF is_LMS
<1> QED
  BY <1>2, <1>3, <1>4, <1>6, <1>7, <1>8 DEF SeqInv, A, b

-----------------------------------------------------------------------------
(* Pending writes *)

\* An array with writes applied to it; at most one write for a cell.
Applied(P, A) ==
  [ c \in Positions(s) |->
      IF \E e \in P : e[1] = c THEN (CHOOSE e \in P : e[1] = c)[2] ELSE A[c] ]

Written(A, x, v) == [ A EXCEPT ![x] = v ]

OneEach(P) == \A e, f \in P : e[1] = f[1] => e = f

\* A cell shows the write for it, if there is one.
LEMMA AppliedFacts ==
  ASSUME NEW P, NEW A, OneEach(P)
  PROVE  /\ \A e \in P : e[1] \in Positions(s) => Applied(P, A)[e[1]] = e[2]
         /\ \A c \in Positions(s) : (\A e \in P : e[1] # c) => Applied(P, A)[c] = A[c]
<1>1. ASSUME NEW e \in P, e[1] \in Positions(s) PROVE Applied(P, A)[e[1]] = e[2]
  <2> DEFINE f == CHOOSE f \in P : f[1] = e[1]
  <2>1. f \in P /\ f[1] = e[1]
    BY <1>1
  <2>2. f = e
    BY <1>1, <2>1 DEF OneEach
  <2>3. Applied(P, A)[e[1]] = f[2]
    BY <1>1 DEF Applied
  <2> QED
    BY <2>2, <2>3
<1>2. \A c \in Positions(s) : (\A e \in P : e[1] # c) => Applied(P, A)[c] = A[c]
  BY DEF Applied
<1> QED
  BY <1>1, <1>2

\* When a pending write reaches the array, what the array shows stays the same.
LEMMA StoreApplied ==
  ASSUME NEW P, NEW V, NEW A \in [ Positions(s) -> V ], OneEach(P),
         NEW e \in P, e[1] \in Positions(s)
  PROVE  Applied(P \ { e }, [ A EXCEPT ![e[1]] = e[2] ]) = Applied(P, A)
<1> DEFINE Q == P \ { e }
           B == [ A EXCEPT ![e[1]] = e[2] ]
<1>1. OneEach(Q) /\ \A f \in Q : f[1] # e[1]
  BY DEF OneEach
<1>2. B[e[1]] = e[2] /\ \A c \in Positions(s) : c # e[1] => B[c] = A[c]
  OBVIOUS
<1>3. ASSUME NEW c \in Positions(s) PROVE Applied(Q, B)[c] = Applied(P, A)[c]
  <2>1. CASE c = e[1]
    <3>1. Applied(P, A)[c] = e[2]
      BY <2>1, AppliedFacts
    <3>2. B[c] = e[2] /\ \A f \in Q : f[1] # c
      BY <1>1, <1>2, <2>1
    <3> HIDE DEF Q, B
    <3>3. Applied(Q, B)[c] = B[c]
      BY <1>1, <3>2, AppliedFacts
    <3> QED
      BY <3>1, <3>2, <3>3
  <2>2. CASE \E f \in Q : f[1] = c
    <3>1. PICK f \in Q : f[1] = c
      BY <2>2
    <3>2. f \in P
      BY <3>1
    <3> HIDE DEF Q, B
    <3> QED
      BY <1>1, <3>1, <3>2, AppliedFacts
  <2>3. CASE c # e[1] /\ ~\E f \in Q : f[1] = c
    <3>1. \A f \in P : f[1] # c
      BY <2>3
    <3>2. Applied(P, A)[c] = A[c]
      BY <3>1, AppliedFacts
    <3>3. B[c] = A[c] /\ \A f \in Q : f[1] # c
      BY <1>2, <2>3
    <3> HIDE DEF Q, B
    <3> QED
      BY <1>1, <3>2, <3>3, AppliedFacts
  <2> QED
    BY <2>1, <2>2, <2>3
<1> HIDE DEF Q, B
<1>4. Applied(Q, B) = Applied(P, A)
  BY <1>3 DEF Applied
<1> QED
  BY <1>4 DEF Q, B

\* A new pending write shows at once.
LEMMA WritePending ==
  ASSUME NEW P, NEW A, OneEach(P), NEW x \in Positions(s), NEW v, \A f \in P : f[1] # x
  PROVE  /\ OneEach(P \cup { << x, v >> })
         /\ Applied(P \cup { << x, v >> }, A) = Written(Applied(P, A), x, v)
<1> DEFINE Q == P \cup { << x, v >> }
           B == [ Applied(P, A) EXCEPT ![x] = v ]
<1>1. OneEach(Q)
  BY DEF OneEach
<1>2. \A c \in Positions(s) : B[c] = IF c = x THEN v ELSE Applied(P, A)[c]
  BY DEF Applied
<1>3. ASSUME NEW c \in Positions(s) PROVE Applied(Q, A)[c] = B[c]
  <2>1. CASE c = x
    <3>1. << x, v >> \in Q /\ << x, v >>[1] = x /\ << x, v >>[2] = v
      OBVIOUS
    <3>2. Applied(Q, A)[<< x, v >>[1]] = << x, v >>[2]
      <4> HIDE DEF Q
      <4> QED
        BY <1>1, <3>1, AppliedFacts
    <3> QED
      BY <1>2, <2>1, <3>1, <3>2
  <2>2. CASE c # x /\ \E f \in P : f[1] = c
    <3>1. PICK f \in P : f[1] = c
      BY <2>2
    <3>2. f \in Q
      BY <3>1
    <3> HIDE DEF Q, B
    <3> QED
      BY <1>1, <1>2, <2>2, <3>1, <3>2, AppliedFacts
  <2>3. CASE c # x /\ ~\E f \in P : f[1] = c
    <3>1. \A f \in Q : f[1] # c
      BY <2>3
    <3> HIDE DEF Q, B
    <3> QED
      BY <1>1, <1>2, <2>3, <3>1, AppliedFacts
  <2> QED
    BY <2>1, <2>2, <2>3
<1> HIDE DEF Q, B
<1>4. Applied(Q, A) = [ c \in Positions(s) |-> Applied(Q, A)[c] ]
  BY DEF Applied
<1>5. B = [ c \in Positions(s) |-> B[c] ]
  BY DEF B, Applied
<1>6. Applied(Q, A) = B
  BY <1>3, <1>4, <1>5
<1> QED
  BY <1>1, <1>6 DEF Q, B, Written

LEMMA VisibleIsApplied ==
  /\ VisibleSA = Applied(Pending, SA)
  /\ VisibleSA' = Applied(Pending, SA)'
BY DEF VisibleSA, Visible, Applied

\* The pending writes, slot by slot.
LEMMA PendingMembers ==
  ASSUME NEW e
  PROVE  e \in Pending <=>
           \/ \E p \in Parities, x \in 0 .. PartLength : e = w[p][x] /\ Valid(e)
           \/ store # NoStore /\ e = store
BY DEF Pending

\* There is at most one pending write for a cell, and the cell shows it.
LEMMA PendingFacts ==
  ASSUME PendingInv
  PROVE  /\ OneEach(Pending)
         /\ \A e \in Pending : e[1] \in Positions(s) /\ VisibleSA[e[1]] = e[2]
         /\ \A c \in Positions(s) : (\A e \in Pending : e[1] # c) => VisibleSA[c] = SA[c]
<1>1. OneEach(Pending)
  <2> SUFFICES ASSUME NEW e \in Pending, NEW f \in Pending, e[1] = f[1] PROVE e = f
    BY DEF OneEach
  <2>1. \/ \E p \in Parities, x \in 0 .. PartLength : e = w[p][x] /\ Valid(e)
        \/ store # NoStore /\ e = store
    BY PendingMembers
  <2>2. \/ \E p \in Parities, x \in 0 .. PartLength : f = w[p][x] /\ Valid(f)
        \/ store # NoStore /\ f = store
    BY PendingMembers
  <2> QED
    BY <2>1, <2>2 DEF PendingInv
<1>2. \A e \in Pending : e[1] \in Positions(s)
  BY DEF PendingInv
<1> QED
  BY <1>1, <1>2, AppliedFacts, VisibleIsApplied

-----------------------------------------------------------------------------
(* How far the scan is *)

Progress ==
  /\ blocknum = 0 => ScannedCells = 0
  /\ blocknum > block_amount + 1 => ScannedCells = n
  /\ blocknum \in 1 .. block_amount + 1 =>
       /\ pc["induce"] = "start" => ScannedCells = CellsUpTo(Filling)
       /\ pc["induce"] = "idle" => ScannedCells = CellsThrough(Filling)
       /\ pc["induce"] = "run" /\ type = L_Type =>
            ScannedCells = AtMost(n, Filling * PartLength + index["induce"])
       /\ pc["induce"] = "run" /\ type = S_Type =>
            ScannedCells = IF index["induce"] < -1 THEN CellsUpTo(Filling)
                           ELSE n - 1 - (Filling * PartLength + index["induce"])

\* ScannedCells, phase by phase.
LEMMA ScanProgress == TypeOK /\ Schedule => Progress
<1> SUFFICES ASSUME TypeOK, Schedule PROVE Progress
  OBVIOUS
<1>1. blocknum \in Nat /\ block_amount \in Nat /\ type \in { L_Type, S_Type } /\ L_Type # S_Type
  BY TextFacts DEF TypeOK, L_Type, S_Type
<1>2. CASE blocknum = 0
  BY <1>1, <1>2 DEF Progress, ScannedCells
<1>3. CASE blocknum > block_amount + 1
  BY <1>1, <1>3 DEF Progress, ScannedCells
<1>4. CASE blocknum \in 1 .. block_amount + 1
  <2>1. StageOf("induce", blocknum) = blocknum - 1
    BY <1>1, <1>4 DEF StageOf
  <2>2. Block("induce") = Filling /\ translate("induce") = Filling * PartLength
    BY <2>1 DEF Block, Filling, translate
  <2>3. blocknum # 0 /\ ~(blocknum > block_amount + 1)
    BY <1>1, <1>4
  <2>4. ScannedCells =
          CASE pc["induce"] = "start" -> CellsUpTo(Filling)
            [] pc["induce"] = "idle" -> CellsThrough(Filling)
            [] pc["induce"] = "run" ->
                 IF type = L_Type
                   THEN AtMost(n, Filling * PartLength + index["induce"])
                   ELSE IF index["induce"] < -1 THEN CellsUpTo(Filling)
                        ELSE n - 1 - (Filling * PartLength + index["induce"])
    BY <2>2, <2>3 DEF ScannedCells
  <2>5. CASE pc["induce"] = "start"
    BY <1>4, <2>3, <2>4, <2>5 DEF Progress
  <2>6. CASE pc["induce"] = "idle"
    BY <1>4, <2>3, <2>4, <2>6 DEF Progress
  <2>7. CASE pc["induce"] = "run"
    BY <1>1, <1>4, <2>3, <2>4, <2>7 DEF Progress
  <2> QED
    BY <2>5, <2>6, <2>7 DEF TypeOK, Tasks
<1> QED
  BY <1>1, <1>2, <1>3, <1>4

LEMMA ScanProgressNext == TypeOK' /\ Schedule' => Progress'
BY ScanProgress, PTL

\* The blocks cover the text.
LEMMA BlocksCover ==
  ASSUME s \in Texts
  PROVE  n <= (block_amount + 1) * PartLength
<1>1. n \in Nat /\ PartLength \in Nat \ {0}
  BY TextFacts, ConstantFacts
<1>2. n \div PartLength \in Nat /\ n < (n \div PartLength + 1) * PartLength
  BY <1>1, SMT
<1>3. CASE n \div PartLength = 0
  <2>1. block_amount = 1
    BY <1>3 DEF block_amount
  <2> QED
    BY <1>1, <1>2, <1>3, <2>1
<1>4. CASE n \div PartLength # 0
  <2>1. block_amount = n \div PartLength
    BY <1>4 DEF block_amount
  <2> QED
    BY <1>1, <1>2, <2>1
<1> QED
  BY <1>3, <1>4

\* The block being scanned is one of the text's.
LEMMA FillingBlock ==
  ASSUME TypeOK, Schedule, pc["induce"] # "idle"
  PROVE  /\ blocknum \in 1 .. block_amount + 1
         /\ StageOf("induce", blocknum) = blocknum - 1
         /\ Filling \in Nat /\ Filling <= block_amount
         /\ Filling * PartLength \in Nat
         /\ Block("induce") = Filling
         /\ translate("induce") = Filling * PartLength
<1>1. blocknum \in Nat /\ block_amount \in Nat /\ PartLength \in Nat
  BY TextFacts, ConstantFacts DEF TypeOK
<1>2. StageOf("induce", blocknum) >= 0
  BY DEF Schedule, Tasks
<1>3. blocknum \in 1 .. block_amount + 1
  BY <1>1, <1>2 DEF StageOf
<1>4. Filling \in Nat /\ Filling <= block_amount
  BY <1>1, <1>3 DEF Filling, BlockOf
<1>5. Filling * PartLength \in Nat
  BY <1>1, <1>4
<1> QED
  BY <1>3, <1>4, <1>5, TaskFacts DEF translate, StageOf

-----------------------------------------------------------------------------
(* The steps of the pipeline against the steps of the scan *)

\* A step of the pipeline is a step of the scan, or shows nothing of itself.
Refines ==
  \/ Sequential!Visit
  \/ Sequential!NextPass
  \/ UNCHANGED Sequential!vars

\* The scan's view stays the same.
SameView == UNCHANGED << s, t, VisibleSA, buckets, type, ScannedCells >>

LEMMA SameViewRefines ==
  SameView => Refines
BY DEF SameView, Refines, Sequential!vars, VisibleSA

\* The invariant of the scan is about the text and what the scan sees only.
LEMMA SeqInvNext ==
  ASSUME UNCHANGED << s, t >>, SeqInv(type', VisibleSA', buckets', ScannedCells')
  PROVE  SeqInv(type, VisibleSA, buckets, ScannedCells)'
<1>1. /\ n' = n
      /\ \A c, ty : OfKind(c, ty)' = OfKind(c, ty) /\ Count(c, ty)' = Count(c, ty)
      /\ \A c : Start(c)' = Start(c) /\ End(c)' = End(c)
      /\ \A ty, v : Induces(ty, v)' <=> Induces(ty, v)
  BY DEF n, OfKind, Count, Start, End, Induces
<1>2. /\ \A ty, b, c : InBounds(ty, b, c)' <=> InBounds(ty, b, c)
      /\ \A ty, b, c : Filled(ty, b, c)' = Filled(ty, b, c)
      /\ \A ty, c : Region(ty, c)' = Region(ty, c)
      /\ \A ty, sc : Visited(ty, sc)' = Visited(ty, sc)
  BY <1>1 DEF InBounds, Filled, Region, Visited
<1> QED
  BY <1>1, <1>2 DEF SeqInv

LEMMA SameViewKeeps ==
  SeqInv(type, VisibleSA, buckets, ScannedCells) /\ SameView
    => SeqInv(type, VisibleSA, buckets, ScannedCells)'
BY SeqInvNext DEF SameView

\* Steps that touch neither SA nor what is pending.
LEMMA QuietStep ==
  ASSUME PendingInv, UNCHANGED << s, t, SA, buckets, type, w, store >>
  PROVE  /\ PendingInv'
         /\ VisibleSA' = VisibleSA
<1>1. Pending' = Pending
  BY DEF Pending, Valid
<1>2. VisibleSA' = VisibleSA
  BY <1>1 DEF VisibleSA, Visible
<1>3. PendingInv'
  BY <1>1 DEF PendingInv, Valid, Filled, Start, End, Induces
<1> QED
  BY <1>2, <1>3

\* The types of the text do not change.
LEMMA TypedText == TypeOK => TypesGiven
BY DEF TypeOK, TypesGiven

\* InduceStart: the scan of a block starts where the block before it ended.
LEMMA InduceStartRefines ==
  ASSUME RefinementInv, PipelineInv', InduceStart
  PROVE  RefinementInv' /\ SameView
<1>1. /\ TypeOK /\ Schedule /\ TypeOK' /\ Schedule'
      /\ IndexInv /\ PendingInv /\ RecordsInv
      /\ SeqInv(type, VisibleSA, buckets, ScannedCells)
  BY DEF RefinementInv, PipelineInv
<1>2. /\ pc["induce"] = "start" /\ pc'["induce"] = "run" /\ pc'["prepare"] = pc["prepare"]
      /\ index'["induce"] = FirstIndex(Filling)
      /\ UNCHANGED << s, t, SA, buckets, type, blocknum, r, w, store >>
  BY <1>1, TaskFacts DEF InduceStart, TypeOK, Tasks
<1>3. /\ n' = n /\ block_amount' = block_amount /\ Filling' = Filling
      /\ \A task \in Tasks : StageOf(task, blocknum)' = StageOf(task, blocknum)
  BY <1>2, FrameFacts DEF RefinementInv
<1>4. PendingInv' /\ VisibleSA' = VisibleSA
  BY <1>1, <1>2, QuietStep
<1>5. FirstIndex(Filling)' = FirstIndex(Filling) /\ FirstIndex(Filling) \in Int
  <2>1. n \in Int /\ PartLength \in Int /\ Filling \in Int
    <3>1. s \in Texts
      BY <1>1 DEF TypeOK
    <3> QED
      BY <1>1, <3>1, TextFacts, ConstantFacts, BlockFacts
  <2> QED
    BY <1>2, <1>3, <2>1 DEF FirstIndex
<1>6. IndexInv'
  BY <1>2, <1>3, <1>5 DEF IndexInv
<1>7. RecordsInv'
  BY <1>1, <1>2, <1>3, <1>4 DEF RecordsInv, Matches, BlockOf, RecordOf, Induces, Tasks
<1>8. ScannedCells' = ScannedCells
  <2>1. /\ blocknum \in 1 .. block_amount + 1 /\ Filling \in Nat /\ n \in Nat \ {0}
        /\ PartLength \in Nat \ {0} /\ type \in { L_Type, S_Type }
    <3>1. s \in Texts /\ type \in { L_Type, S_Type } /\ pc["induce"] # "idle"
      BY <1>1, <1>2 DEF TypeOK
    <3> QED
      BY <1>1, <3>1, FillingBlock, TextFacts, ConstantFacts
  <2>2. Filling * PartLength \in Nat /\ (Filling + 1) * PartLength = Filling * PartLength + PartLength
    BY <2>1
  <2>3. ScannedCells = CellsUpTo(Filling)
    BY <1>1, <1>2, <2>1, ScanProgress DEF Progress
  <2>4. CellsUpTo(Filling)' = CellsUpTo(Filling)
    BY <1>2, <1>3 DEF CellsUpTo, AtMost
  <2>5. CASE type = L_Type
    <3>1. ScannedCells' = AtMost(n, Filling * PartLength + 0)
      BY <1>1, <1>2, <1>3, <2>1, <2>5, ScanProgressNext DEF Progress, FirstIndex, AtMost
    <3> QED
      BY <2>2, <2>3, <2>5, <3>1 DEF CellsUpTo
  <2>6. CASE type = S_Type
    <3>1. type # L_Type
      BY <2>6 DEF L_Type, S_Type
    <3>2. ScannedCells' = IF FirstIndex(Filling) < -1 THEN CellsUpTo(Filling)
                           ELSE n - 1 - (Filling * PartLength + FirstIndex(Filling))
      BY <1>1, <1>2, <1>3, <2>1, <2>4, <2>6, ScanProgressNext DEF Progress
    <3>3. FirstIndex(Filling) = (IF PartLength <= n - Filling * PartLength
                                   THEN PartLength ELSE n - Filling * PartLength) - 1
      BY <3>1 DEF FirstIndex
    <3>4. CellsUpTo(Filling) = n - AtMost(n, Filling * PartLength + PartLength)
      BY <2>2, <3>1 DEF CellsUpTo
    <3> HIDE DEF Filling
    <3> QED
      BY <2>1, <2>2, <2>3, <3>2, <3>3, <3>4 DEF AtMost
  <2> QED
    BY <2>1, <2>5, <2>6
<1>9. SameView
  BY <1>2, <1>4, <1>8 DEF SameView
<1> QED
  BY <1>1, <1>4, <1>6, <1>7, <1>9, SameViewKeeps DEF RefinementInv

\* InduceEnd: the scan of a block ends behind the block's last cell.
LEMMA InduceEndRefines ==
  ASSUME RefinementInv, PipelineInv', InduceEnd
  PROVE  RefinementInv' /\ SameView
<1>1. /\ TypeOK /\ Schedule /\ TypeOK' /\ Schedule'
      /\ IndexInv /\ PendingInv /\ RecordsInv
      /\ SeqInv(type, VisibleSA, buckets, ScannedCells)
  BY DEF RefinementInv, PipelineInv
<1>2. /\ pc["induce"] = "run" /\ pc'["induce"] = "idle" /\ pc'["prepare"] = pc["prepare"]
      /\ ~InScan(Filling, index["induce"])
      /\ UNCHANGED << s, t, SA, buckets, type, blocknum, index, r, w, store >>
  BY <1>1, TaskFacts DEF InduceEnd, TypeOK, Tasks
<1>3. /\ n' = n /\ block_amount' = block_amount /\ Filling' = Filling
      /\ \A task \in Tasks : StageOf(task, blocknum)' = StageOf(task, blocknum)
  BY <1>2, FrameFacts DEF RefinementInv
<1>4. PendingInv' /\ VisibleSA' = VisibleSA
  BY <1>1, <1>2, QuietStep
<1>5. IndexInv'
  BY <1>2 DEF IndexInv
<1>6. RecordsInv'
  BY <1>1, <1>2, <1>3, <1>4 DEF RecordsInv, Matches, BlockOf, RecordOf, Induces, Tasks
<1>7. ScannedCells' = ScannedCells
  <2> DEFINE loc == index["induce"]
  <2>1. /\ blocknum \in 1 .. block_amount + 1 /\ Filling \in Nat /\ n \in Nat \ {0}
        /\ PartLength \in Nat \ {0} /\ type \in { L_Type, S_Type } /\ loc \in Int
    <3>1. s \in Texts /\ type \in { L_Type, S_Type } /\ loc \in Int /\ pc["induce"] # "idle"
      BY <1>1, <1>2 DEF TypeOK, Tasks
    <3> QED
      BY <1>1, <3>1, FillingBlock, TextFacts, ConstantFacts
  <2>2. Filling * PartLength \in Nat /\ (Filling + 1) * PartLength = Filling * PartLength + PartLength
    BY <2>1
  <2>3. ScannedCells' = CellsThrough(Filling)
    BY <1>1, <1>2, <1>3, <2>1, ScanProgressNext DEF Progress, CellsThrough, AtMost
  <2>4. CASE type = L_Type
    <3>1. ScannedCells = AtMost(n, Filling * PartLength + loc)
      BY <1>1, <1>2, <2>1, <2>4, ScanProgress DEF Progress
    <3>2. loc <= PartLength /\ (loc >= PartLength \/ loc + Filling * PartLength >= n)
      BY <1>1, <1>2, <2>1, <2>2, <2>4 DEF Schedule, InScan
    <3>3. CellsThrough(Filling) = AtMost(n, Filling * PartLength + PartLength)
      BY <2>2, <2>4 DEF CellsThrough
    <3> HIDE DEF loc
    <3> QED
      BY <2>1, <2>2, <2>3, <3>1, <3>2, <3>3 DEF AtMost
  <2>5. CASE type = S_Type
    <3>1. type # L_Type
      BY <2>5 DEF L_Type, S_Type
    <3>2. ScannedCells = IF loc < -1 THEN CellsUpTo(Filling)
                         ELSE n - 1 - (Filling * PartLength + loc)
      BY <1>1, <1>2, <2>1, <2>5, ScanProgress DEF Progress
    <3>3. FirstIndex(Filling) = (IF PartLength <= n - Filling * PartLength
                                   THEN PartLength ELSE n - Filling * PartLength) - 1
      BY <3>1 DEF FirstIndex
    <3>4. loc < 0 /\ loc <= FirstIndex(Filling) /\ (loc >= -1 \/ loc = FirstIndex(Filling))
      BY <1>1, <1>2, <2>1, <2>5, <3>1 DEF IndexInv, InScan
    <3>5. /\ CellsUpTo(Filling) = n - AtMost(n, Filling * PartLength + PartLength)
          /\ CellsThrough(Filling) = n - AtMost(n, Filling * PartLength)
      BY <2>2, <3>1 DEF CellsUpTo, CellsThrough
    <3> HIDE DEF loc
    <3> QED
      BY <2>1, <2>2, <2>3, <3>2, <3>3, <3>4, <3>5 DEF AtMost
  <2> QED
    BY <2>1, <2>4, <2>5
<1>8. SameView
  BY <1>2, <1>4, <1>7 DEF SameView
<1> QED
  BY <1>1, <1>4, <1>5, <1>6, <1>8, SameViewKeeps DEF RefinementInv

\* Steps that leave the scan where it is.
LEMMA SteadyScan ==
  ASSUME RefinementInv, UNCHANGED << s, type, blocknum >>,
         pc'["induce"] = pc["induce"], index'["induce"] = index["induce"]
  PROVE  /\ ScannedCells' = ScannedCells
         /\ IndexInv'
         /\ n' = n /\ Filling' = Filling /\ Flushing' = Flushing
         /\ \A task \in Tasks : StageOf(task, blocknum)' = StageOf(task, blocknum)
         /\ \A k : BlockOf(k)' = BlockOf(k)
<1>1. /\ n' = n /\ block_amount' = block_amount /\ Filling' = Filling /\ Flushing' = Flushing
      /\ \A task \in Tasks : StageOf(task, blocknum)' = StageOf(task, blocknum)
      /\ \A k : FirstIndex(k)' = FirstIndex(k) /\ BlockOf(k)' = BlockOf(k)
      /\ \A k : CellsUpTo(k)' = CellsUpTo(k) /\ CellsThrough(k)' = CellsThrough(k)
      /\ \A x, y : AtMost(x, y)' = AtMost(x, y)
  BY FrameFacts DEF RefinementInv, FirstIndex, BlockOf, CellsUpTo, CellsThrough, AtMost
<1>2. IndexInv'
  BY <1>1 DEF IndexInv, RefinementInv
<1>3. Block("induce")' = Block("induce") /\ translate("induce")' = translate("induce")
  BY <1>1 DEF Block, translate, Tasks, BlockOf
<1>4. ScannedCells' = ScannedCells
  BY <1>1, <1>3 DEF ScannedCells
<1> QED
  BY <1>1, <1>2, <1>4

\* PrepareReset, PrepareEnd, UpdateStart, UpdateEnd: nothing of SA, of the
\* buckets or of the scan changes, and no record appears.
LEMMA OtherTasksRefine ==
  ASSUME RefinementInv, PipelineInv', PrepareReset \/ PrepareEnd \/ UpdateStart \/ UpdateEnd
  PROVE  RefinementInv' /\ SameView
<1>1. /\ TypeOK /\ Schedule /\ TypeOK' /\ Schedule'
      /\ IndexInv /\ PendingInv /\ RecordsInv
      /\ SeqInv(type, VisibleSA, buckets, ScannedCells)
  BY DEF RefinementInv, PipelineInv
<1>2. /\ pc'["induce"] = pc["induce"] /\ index'["induce"] = index["induce"]
      /\ UNCHANGED << s, t, SA, buckets, type, blocknum, w, store >>
  BY <1>1 DEF PrepareReset, PrepareEnd, UpdateStart, UpdateEnd, TypeOK, Tasks
<1>3. /\ ScannedCells' = ScannedCells /\ IndexInv'
      /\ n' = n /\ Filling' = Filling
      /\ \A task \in Tasks : StageOf(task, blocknum)' = StageOf(task, blocknum)
      /\ \A k : BlockOf(k)' = BlockOf(k)
  BY <1>2, SteadyScan
<1>4. PendingInv' /\ VisibleSA' = VisibleSA
  BY <1>1, <1>2, QuietStep
<1>5. RecordsInv'
  <2>1. Flushing % 2 # Filling % 2 /\ BlockOf(blocknum) % 2 = Flushing % 2
        /\ Flushing % 2 \in Parities /\ Filling % 2 \in Parities
    BY <1>1, BlockFacts
  <2>2. CASE PrepareReset
    <3>1. /\ r'[Flushing % 2] = [ x \in 0 .. PartLength |-> NoRecord ]
          /\ r'[Filling % 2] = r[Filling % 2]
      BY <1>1, <2>1, <2>2, TaskFacts DEF PrepareReset, TypeOK
    <3>2. \A x \in 0 .. PartLength - 1 : r'[Flushing % 2][x][1] = 0
      BY <3>1, ConstantFacts DEF NoRecord
    <3> QED
      BY <1>1, <1>2, <1>3, <2>1, <3>1, <3>2
         DEF RecordsInv, Matches, RecordOf, Induces, Tasks
  <2>3. CASE ~PrepareReset
    <3>1. r' = r /\ (pc'["prepare"] # "start" => pc["prepare"] # "start")
      BY <1>1, <2>3 DEF PrepareEnd, UpdateStart, UpdateEnd, TypeOK, Tasks, PrepareReset
    <3>2. pc["prepare"] # "start" \/ pc'["prepare"] = "start"
      BY <3>1
    <3> QED
      BY <1>1, <1>2, <1>3, <1>4, <3>1, <3>2 DEF RecordsInv, Matches, RecordOf, Induces, Tasks
  <2> QED
    BY <2>2, <2>3
<1>6. SameView
  BY <1>2, <1>3, <1>4 DEF SameView
<1> QED
  BY <1>1, <1>3, <1>4, <1>5, <1>6, SameViewKeeps DEF RefinementInv

\* Positions fit in the low part of a cell: a mixture of two of them is one of
\* them, and a mixture with an empty cell is no position plus one.
LEMMA Mixtures ==
  ASSUME NEW x \in 0 .. LowBase - 2
  PROVE  /\ \A y \in 0 .. LowBase - 2 : Mix(x, y) = y
         /\ Mix(x, None) = LowBase - 1
         /\ Mix(None, x) \in Int /\ Mix(None, x) >= LowBase
<1>1. LowBase \in Nat \ {0} /\ HiBase \in Nat /\ HiBase >= 2
  BY ConstantsAssumption
<1>2. \A y \in 0 .. LowBase - 2 : y \div LowBase = 0 /\ (y % LowBase) = y
  BY <1>1, SMT
<1>3. None \div LowBase = HiBase - 1 /\ (None % LowBase) = LowBase - 1
  <2>1. None = (HiBase - 1) * LowBase + (LowBase - 1)
    BY <1>1 DEF None
  <2> QED
    BY <1>1, <2>1, SMT
<1>4. 0 * LowBase = 0 /\ (HiBase - 1) * LowBase >= LowBase /\ (HiBase - 1) * LowBase \in Int
  BY <1>1, SMT
<1>5. \A y : Mix(x, y) = (y % LowBase) + 0 * LowBase \/ ~((y % LowBase) \in Int)
  BY <1>1, <1>2, <1>4 DEF Mix
<1>6. Mix(None, x) = (HiBase - 1) * LowBase + x
  BY <1>2, <1>3 DEF Mix
<1> QED
  BY <1>1, <1>2, <1>3, <1>4, <1>5, <1>6

\* Whatever a racing read of a cell returns, a value that can be recorded is
\* the one the cell shows: the value being overwritten induces nothing, and a
\* mixture of an empty and a full cell is not a suffix with a predecessor.
LEMMA RacingRead ==
  ASSUME TypeOK, PendingInv, NEW c \in Positions(s), NEW v \in ReadCell(c), Recordable(v)
  PROVE  v = VisibleSA[c] /\ Induces(type, v) /\ At(s, v - 1) \in 0 .. K - 1
<1>1. /\ n \in Nat \ {0} /\ Positions(s) = 0 .. n - 1 /\ n + 1 < LowBase
      /\ LowBase \in Nat \ {0} /\ HiBase \in Nat /\ HiBase >= 2
  <2>1. s \in Texts
    BY DEF TypeOK
  <2> QED
    BY <2>1, TextFacts, TextsAssumption, ConstantsAssumption DEF n
<1>2. Induces(type, v) /\ v # None
  BY DEF Recordable, Induces
<1>3. At(s, v - 1) \in 0 .. K - 1
  <2>1. s \in Texts
    BY DEF TypeOK
  <2> QED
    BY <1>2, <2>1, TextFacts DEF Induces
<1>4. StoresInProgress \subseteq Pending
  BY DEF StoresInProgress, Pending
<1>5. CASE v = SA[c]
  <2>1. ASSUME NEW e \in Pending, e[1] = c PROVE FALSE
    BY <1>2, <1>5, <2>1 DEF PendingInv
  <2> QED
    BY <1>2, <1>3, <1>5, <2>1, PendingFacts
<1>6. ASSUME v # SA[c] PROVE v = VisibleSA[c]
  <2>1. PICK e \in StoresInProgress :
          e[1] = c /\ v \in { e[2], Mix(SA[c], e[2]), Mix(e[2], SA[c]) }
    BY <1>6 DEF ReadCell
  <2>2. /\ VisibleSA[c] = e[2] /\ e[2] \in Positions(s)
        /\ ~Induces(type, SA[c])
        /\ SA[c] \in Positions(s) \/ SA[c] = None
    BY <1>4, <2>1, PendingFacts DEF PendingInv
  <2>3. v - 1 \in 0 .. n - 1
    BY <1>1, <1>2 DEF Induces
  <2>4. /\ Positions(s) \subseteq 0 .. LowBase - 2
        /\ e[2] \in 0 .. LowBase - 2
    BY <1>1, <2>2
  <2>5. CASE SA[c] \in Positions(s)
    <3>1. Mix(SA[c], e[2]) = e[2] /\ Mix(e[2], SA[c]) = SA[c]
      BY <2>4, <2>5, Mixtures
    <3> QED
      BY <1>6, <2>1, <2>2, <3>1
  <2>6. CASE SA[c] = None
    <3>1. /\ Mix(e[2], SA[c]) = LowBase - 1
          /\ Mix(SA[c], e[2]) \in Int /\ Mix(SA[c], e[2]) >= LowBase
      BY <2>4, <2>6, Mixtures
    <3>2. v # Mix(e[2], SA[c]) /\ v # Mix(SA[c], e[2])
      BY <1>1, <2>3, <3>1
    <3> QED
      BY <2>1, <2>2, <3>2
  <2> QED
    BY <2>2, <2>5, <2>6
<1> QED
  BY <1>2, <1>3, <1>5, <1>6

\* What a pending write that reaches SA changes: nothing that is to be seen,
\* and no cell that induces.
LEMMA WriteReaches ==
  ASSUME TypeOK, PendingInv, UNCHANGED << s, t, buckets, type >>,
         NEW e \in Pending, SA' = [ SA EXCEPT ![e[1]] = e[2] ], Pending' = Pending \ { e }
  PROVE  /\ VisibleSA' = VisibleSA
         /\ \A c \in Positions(s) : Induces(type, SA[c]) => SA'[c] = SA[c]
         /\ \A c \in Positions(s) : SA'[c] \in Positions(s) \cup { None }
         /\ \A f \in Pending' :
              /\ f[1] \in Positions(s) /\ f[2] \in Positions(s)
              /\ \E c \in 0 .. K - 1 : f[1] \in Filled(type, buckets, c)
              /\ ~Induces(type, SA'[f[1]])
<1>1. /\ e[1] \in Positions(s) /\ e[2] \in Positions(s) /\ ~Induces(type, SA[e[1]])
      /\ \A c \in Positions(s) : SA[c] \in Positions(s) \cup { None }
  BY DEF PendingInv
<1>2. SA'[e[1]] = e[2] /\ \A c \in Positions(s) : c # e[1] => SA'[c] = SA[c]
  BY <1>1 DEF TypeOK
<1>3. OneEach(Pending)
  BY PendingFacts
<1>4. VisibleSA' = VisibleSA
  <2>1. SA \in [ Positions(s) -> 0 .. None ]
    BY DEF TypeOK
  <2>2. Applied(Pending \ { e }, [ SA EXCEPT ![e[1]] = e[2] ]) = Applied(Pending, SA)
    BY <1>1, <1>3, <2>1, StoreApplied
  <2>3. Applied(Pending, SA)' = Applied(Pending \ { e }, [ SA EXCEPT ![e[1]] = e[2] ])
    BY DEF Applied
  <2> QED
    BY <2>2, <2>3, VisibleIsApplied
<1>5. \A c \in Positions(s) : Induces(type, SA[c]) => SA'[c] = SA[c]
  BY <1>1, <1>2
<1>6. \A c \in Positions(s) : SA'[c] \in Positions(s) \cup { None }
  BY <1>1, <1>2
<1>7. ASSUME NEW f \in Pending'
      PROVE  /\ f[1] \in Positions(s) /\ f[2] \in Positions(s)
             /\ \E c \in 0 .. K - 1 : f[1] \in Filled(type, buckets, c)
             /\ ~Induces(type, SA'[f[1]])
  <2>1. f \in Pending /\ f[1] # e[1]
    BY <1>3, <1>7 DEF OneEach
  <2> QED
    BY <1>2, <2>1 DEF PendingInv
<1> QED
  BY <1>4, <1>5, <1>6, <1>7

\* PendingInv of the next state, from what can be said without primes.
LEMMA PendingNext ==
  ASSUME UNCHANGED << s, t, type >>,
         \A c \in Positions(s) : SA'[c] \in Positions(s) \cup { None },
         \A f \in Pending' :
           /\ f[1] \in Positions(s) /\ f[2] \in Positions(s)
           /\ \E c \in 0 .. K - 1 : f[1] \in Filled(type, buckets', c)
           /\ ~Induces(type, SA'[f[1]]),
         \A p, q \in Parities, x, y \in 0 .. PartLength :
           Valid(w'[p][x]) /\ Valid(w'[q][y]) /\ w'[p][x][1] = w'[q][y][1] => p = q /\ x = y,
         store' # NoStore =>
           \A p \in Parities, x \in 0 .. PartLength : Valid(w'[p][x]) => w'[p][x][1] # store'[1]
  PROVE  PendingInv'
<1>1. /\ \A c : Start(c)' = Start(c) /\ End(c)' = End(c)
      /\ \A ty, v : Induces(ty, v)' <=> Induces(ty, v)
      /\ \A e : Valid(e)' <=> Valid(e)
  BY DEF Start, End, Induces, Valid
<1>2. \A ty, b, c : Filled(ty, b, c)' = Filled(ty, b, c)
  BY <1>1 DEF Filled
<1> QED
  BY <1>1, <1>2 DEF PendingInv

\* RecordsInv of the next state when SA and the records stay right.
LEMMA RecordsNext ==
  ASSUME RefinementInv, UNCHANGED << s, t, type, blocknum, r >>,
         pc'["induce"] = pc["induce"], index'["induce"] = index["induce"],
         pc'["prepare"] = pc["prepare"], VisibleSA' = VisibleSA,
         \A c \in Positions(s) : Induces(type, SA[c]) => SA'[c] = SA[c]
  PROVE  RecordsInv'
<1>1. /\ Filling' = Filling
      /\ \A task \in Tasks : StageOf(task, blocknum)' = StageOf(task, blocknum)
      /\ \A k : BlockOf(k)' = BlockOf(k)
  BY SteadyScan
<1>2. RecordsInv
  BY DEF RefinementInv
<1>3. /\ \A ty, v : Induces(ty, v)' <=> Induces(ty, v)
      /\ \A v : RecordOf(v)' = RecordOf(v)
  BY DEF Induces, RecordOf
<1>4. ASSUME Matches(BlockOf(blocknum), VisibleSA) PROVE Matches(BlockOf(blocknum), VisibleSA)'
  BY <1>1, <1>3, <1>4 DEF Matches
<1>5. ASSUME Matches(Filling, SA) PROVE Matches(Filling, SA)'
  BY <1>1, <1>3, <1>5 DEF Matches
<1> QED
  BY <1>1, <1>2, <1>4, <1>5 DEF RecordsInv, Tasks

\* InduceStore: the direct store reaches SA.
LEMMA InduceStoreRefines ==
  ASSUME RefinementInv, PipelineInv', InduceStore
  PROVE  RefinementInv' /\ SameView
<1>1. /\ TypeOK /\ PendingInv /\ SeqInv(type, VisibleSA, buckets, ScannedCells)
  BY DEF RefinementInv, PipelineInv
<1>2. /\ store # NoStore /\ store' = NoStore
      /\ SA' = [ SA EXCEPT ![store[1]] = store[2] ]
      /\ UNCHANGED << s, t, buckets, type, blocknum, pc, index, r, w >>
  BY DEF InduceStore
<1>3. store \in Pending /\ Pending' = Pending \ { store }
  <2>1. \A p \in Parities, x \in 0 .. PartLength : Valid(w[p][x]) => w[p][x] # store
    BY <1>1, <1>2 DEF PendingInv
  <2>2. Pending = { e \in { w[p][x] : p \in Parities, x \in 0 .. PartLength } : Valid(e) }
                    \cup { store }
    BY <1>2 DEF Pending
  <2>3. Pending' = { e \in { w[p][x] : p \in Parities, x \in 0 .. PartLength } : Valid(e) }
    BY <1>2 DEF Pending, Valid
  <2> QED
    BY <2>1, <2>2, <2>3
<1>4. /\ VisibleSA' = VisibleSA
      /\ \A c \in Positions(s) : Induces(type, SA[c]) => SA'[c] = SA[c]
      /\ \A c \in Positions(s) : SA'[c] \in Positions(s) \cup { None }
      /\ \A f \in Pending' :
           /\ f[1] \in Positions(s) /\ f[2] \in Positions(s)
           /\ \E c \in 0 .. K - 1 : f[1] \in Filled(type, buckets, c)
           /\ ~Induces(type, SA'[f[1]])
  BY <1>1, <1>2, <1>3, WriteReaches
<1>5. PendingInv'
  <2>1. \A p, q \in Parities, x, y \in 0 .. PartLength :
          Valid(w'[p][x]) /\ Valid(w'[q][y]) /\ w'[p][x][1] = w'[q][y][1] => p = q /\ x = y
    BY <1>1, <1>2 DEF PendingInv
  <2> QED
    BY <1>2, <1>4, <2>1, PendingNext
<1>6. RecordsInv'
  BY <1>2, <1>4, RecordsNext
<1>7. ScannedCells' = ScannedCells /\ IndexInv'
  BY <1>2, SteadyScan
<1>8. SameView
  BY <1>2, <1>4, <1>7 DEF SameView
<1> QED
  BY <1>1, <1>5, <1>6, <1>7, <1>8, SameViewKeeps DEF RefinementInv

\* UpdateEntry: an entry of the write buffer reaches SA, or there is none.
LEMMA UpdateEntryRefines ==
  ASSUME RefinementInv, PipelineInv', UpdateEntry
  PROVE  RefinementInv' /\ SameView
<1>1. /\ TypeOK /\ Schedule /\ PendingInv /\ SeqInv(type, VisibleSA, buckets, ScannedCells)
  BY DEF RefinementInv, PipelineInv
<1> DEFINE loc == index["update"]
           p == Parity("update")
           e == w[p][loc]
<1>2. /\ IF Valid(e) THEN /\ SA' = [ SA EXCEPT ![e[1]] = e[2] ]
                          /\ w' = [ w EXCEPT ![p][loc] = NoRecord ]
                     ELSE UNCHANGED << SA, w >>
      /\ index'["induce"] = index["induce"]
      /\ UNCHANGED << s, t, buckets, type, blocknum, pc, r, store >>
      /\ p \in Parities /\ loc \in 0 .. PartLength
  <2>1. pc["update"] = "run" /\ InUpdate(loc)
    BY DEF UpdateEntry
  <2>2. p \in Parities
    BY <1>1, <2>1, TaskFacts, BlockFacts
  <2>3. loc \in 0 .. PartLength
    BY <1>1, <2>1, ConstantFacts DEF InUpdate, Schedule, TypeOK, Tasks
  <2> QED
    BY <1>1, <2>2, <2>3 DEF UpdateEntry, TypeOK, Tasks
<1> HIDE DEF p, loc
<1>3. ScannedCells' = ScannedCells /\ IndexInv'
  BY <1>2, SteadyScan
<1>4. CASE ~Valid(e)
  <2>1. PendingInv' /\ VisibleSA' = VisibleSA
    BY <1>1, <1>2, <1>4, QuietStep
  <2>2. RecordsInv'
    BY <1>2, <1>4, <2>1, RecordsNext
  <2>3. SameView
    BY <1>2, <1>3, <2>1 DEF SameView
  <2> QED
    BY <1>1, <1>3, <2>1, <2>2, <2>3, SameViewKeeps DEF RefinementInv
<1>5. CASE Valid(e)
  <2>1. \A q \in Parities, x \in 0 .. PartLength :
          w'[q][x] = IF q = p /\ x = loc THEN NoRecord ELSE w[q][x]
    <3>1. w \in [ Parities -> [ 0 .. PartLength -> Int \X (0 .. None) ] ]
      BY <1>1 DEF TypeOK
    <3>2. w' = [ w EXCEPT ![p][loc] = NoRecord ]
      BY <1>2, <1>5
    <3> HIDE DEF e
    <3> QED
      BY <1>2, <3>1, <3>2
  <2>2. \A q \in Parities, x \in 0 .. PartLength :
          Valid(w'[q][x]) => w'[q][x] = w[q][x] /\ Valid(w[q][x]) /\ ~(q = p /\ x = loc)
    BY <2>1, EmptyEntries
  <2>3. e \in Pending
    BY <1>2, <1>5, PendingMembers
  <2>4. Pending' = Pending \ { e }
    <3>1. ASSUME NEW f
          PROVE  f \in Pending' <=>
                   \/ \E q \in Parities, x \in 0 .. PartLength : f = w'[q][x] /\ Valid(f)
                   \/ store # NoStore /\ f = store
      BY <1>2 DEF Pending, Valid
    <3>2. ASSUME NEW f \in Pending' PROVE f \in Pending /\ f # e
      <4>1. \/ \E q \in Parities, x \in 0 .. PartLength : f = w'[q][x] /\ Valid(f)
            \/ store # NoStore /\ f = store
        BY <3>1, <3>2
      <4>2. CASE store # NoStore /\ f = store
        BY <1>1, <1>2, <1>5, <4>2, PendingMembers DEF PendingInv
      <4>3. CASE \E q \in Parities, x \in 0 .. PartLength : f = w'[q][x] /\ Valid(f)
        <5>1. PICK q \in Parities, x \in 0 .. PartLength : f = w'[q][x] /\ Valid(f)
          BY <4>3
        <5>2. f = w[q][x] /\ ~(q = p /\ x = loc)
          BY <2>2, <5>1
        <5>3. f # e
          BY <1>1, <1>2, <1>5, <5>1, <5>2 DEF PendingInv
        <5> QED
          BY <5>1, <5>2, <5>3, PendingMembers
      <4> QED
        BY <4>1, <4>2, <4>3
    <3>3. ASSUME NEW f \in Pending, f # e PROVE f \in Pending'
      <4>1. \/ \E q \in Parities, x \in 0 .. PartLength : f = w[q][x] /\ Valid(f)
            \/ store # NoStore /\ f = store
        BY <3>3, PendingMembers
      <4>2. CASE \E q \in Parities, x \in 0 .. PartLength : f = w[q][x] /\ Valid(f)
        <5>1. PICK q \in Parities, x \in 0 .. PartLength : f = w[q][x] /\ Valid(f)
          BY <4>2
        <5>2. f = w'[q][x]
          BY <2>1, <3>3, <5>1
        <5> QED
          BY <3>1, <5>1, <5>2
      <4> QED
        BY <3>1, <4>1, <4>2
    <3> HIDE DEF e
    <3> QED
      BY <3>2, <3>3
  <2>5. /\ VisibleSA' = VisibleSA
        /\ \A c \in Positions(s) : Induces(type, SA[c]) => SA'[c] = SA[c]
        /\ \A c \in Positions(s) : SA'[c] \in Positions(s) \cup { None }
        /\ \A f \in Pending' :
             /\ f[1] \in Positions(s) /\ f[2] \in Positions(s)
             /\ \E c \in 0 .. K - 1 : f[1] \in Filled(type, buckets, c)
             /\ ~Induces(type, SA'[f[1]])
    <3>1. SA' = [ SA EXCEPT ![e[1]] = e[2] ]
      BY <1>2, <1>5
    <3> HIDE DEF e
    <3> QED
      BY <1>1, <1>2, <2>3, <2>4, <3>1, WriteReaches
  <2>6. PendingInv'
    <3>1. \A q1, q2 \in Parities, x, y \in 0 .. PartLength :
            Valid(w'[q1][x]) /\ Valid(w'[q2][y]) /\ w'[q1][x][1] = w'[q2][y][1]
              => q1 = q2 /\ x = y
      BY <1>1, <2>2 DEF PendingInv
    <3>2. store' # NoStore =>
            \A q \in Parities, x \in 0 .. PartLength : Valid(w'[q][x]) => w'[q][x][1] # store'[1]
      BY <1>1, <1>2, <2>2 DEF PendingInv
    <3>3. \A f \in Pending' :
             /\ f[1] \in Positions(s) /\ f[2] \in Positions(s)
             /\ \E c \in 0 .. K - 1 : f[1] \in Filled(type, buckets', c)
             /\ ~Induces(type, SA'[f[1]])
      BY <1>2, <2>5
    <3> QED
      BY <1>2, <2>5, <3>1, <3>2, <3>3, PendingNext
  <2>7. RecordsInv'
    BY <1>2, <2>5, RecordsNext
  <2>8. SameView
    BY <1>2, <1>3, <2>5 DEF SameView
  <2> QED
    BY <1>1, <1>3, <2>6, <2>7, <2>8, SameViewKeeps DEF RefinementInv
<1> QED
  BY <1>4, <1>5

\* PrepareCell: what it records is what the cell shows.
LEMMA PrepareCellRefines ==
  ASSUME RefinementInv, PipelineInv', PrepareCell
  PROVE  RefinementInv' /\ SameView
<1>1. /\ TypeOK /\ Schedule /\ PendingInv /\ RecordsInv
      /\ SeqInv(type, VisibleSA, buckets, ScannedCells)
  BY DEF RefinementInv, PipelineInv
<1> DEFINE loc == index["prepare"]
           p == Flushing % 2
           k == BlockOf(blocknum)
           j == k * PartLength + loc
<1>2. /\ pc["prepare"] = "run"
      /\ index'["induce"] = index["induce"]
      /\ UNCHANGED << s, t, SA, buckets, type, blocknum, pc, w, store >>
  BY <1>1 DEF PrepareCell, TypeOK, Tasks
<1>3. /\ StageOf("prepare", blocknum) >= 0
      /\ StageOf("prepare", blocknum) = blocknum
      /\ Parity("prepare") = p /\ translate("prepare") = k * PartLength
      /\ k % 2 = p /\ p # Filling % 2 /\ p \in Parities /\ Filling % 2 \in Parities
      /\ k \in Nat
  <2>1. StageOf("prepare", blocknum) >= 0
    BY <1>1, <1>2 DEF Schedule, Tasks
  <2>2. blocknum \in Nat /\ block_amount \in Nat
    BY <1>1, TextFacts DEF TypeOK
  <2>3. StageOf("prepare", blocknum) = blocknum /\ blocknum <= block_amount
    BY <2>1, <2>2 DEF StageOf
  <2>4. k \in Nat
    BY <2>2, <2>3 DEF BlockOf
  <2>5. Parity("prepare") = p
    BY <1>1, <1>2, TaskFacts
  <2> QED
    BY <1>1, <2>1, <2>3, <2>4, <2>5, BlockFacts DEF translate, Block
<1>4. PICK v \in (IF j < n THEN ReadCell(j) ELSE { None }) :
        r' = IF Recordable(v) THEN [ r EXCEPT ![p][loc] = << At(s, v - 1), v - 1 >> ] ELSE r
  BY <1>3 DEF PrepareCell
<1>5. /\ ScannedCells' = ScannedCells /\ IndexInv'
      /\ n' = n /\ Filling' = Filling
      /\ \A task \in Tasks : StageOf(task, blocknum)' = StageOf(task, blocknum)
      /\ \A m : BlockOf(m)' = BlockOf(m)
  BY <1>2, SteadyScan
<1>6. PendingInv' /\ VisibleSA' = VisibleSA
  BY <1>1, <1>2, QuietStep
<1>7. /\ r'[Filling % 2] = r[Filling % 2]
      /\ \A x \in 0 .. PartLength - 1 :
           \/ r'[p][x] = r[p][x]
           \/ x = loc /\ Recordable(v) /\ r'[p][x] = << At(s, v - 1), v - 1 >>
  <2>1. r \in [ Parities -> [ 0 .. PartLength -> (0 .. K - 1) \X (0 .. None) ] ]
    BY <1>1 DEF TypeOK
  <2>2. \A x \in 0 .. PartLength - 1 : x \in 0 .. PartLength
    BY ConstantFacts
  <2> HIDE DEF p, loc
  <2>3. CASE Recordable(v)
    BY <1>3, <1>4, <2>1, <2>2, <2>3
  <2>4. CASE ~Recordable(v)
    BY <1>4, <2>4
  <2> QED
    BY <2>3, <2>4
<1>8. ASSUME NEW x \in 0 .. PartLength - 1, r'[p][x][1] # 0
      PROVE  /\ k * PartLength + x \in Positions(s)
             /\ Induces(type, VisibleSA[k * PartLength + x])
             /\ r'[p][x] = RecordOf(VisibleSA[k * PartLength + x])
  <2>1. CASE r'[p][x] = r[p][x]
    <3>1. Matches(k, VisibleSA)
      BY <1>1, <1>2, <1>3 DEF RecordsInv
    <3> QED
      BY <1>3, <1>8, <2>1, <3>1 DEF Matches
  <2>2. CASE x = loc /\ Recordable(v) /\ r'[p][x] = << At(s, v - 1), v - 1 >>
    <3>1. j \in Int /\ j >= 0 /\ PartLength \in Nat /\ n \in Nat
      <4>1. PartLength \in Nat /\ n \in Nat
        BY <1>1, TextFacts, ConstantFacts DEF TypeOK
      <4>2. k * PartLength \in Nat
        BY <1>3, <4>1
      <4> HIDE DEF k, loc
      <4> QED
        BY <2>2, <4>1, <4>2
    <3>2. v \in ReadCell(j) /\ j < n
      BY <1>4, <2>2 DEF Recordable
    <3>3. j \in Positions(s)
      BY <3>1, <3>2 DEF Positions, n
    <3>4. v = VisibleSA[j] /\ Induces(type, v)
      BY <1>1, <2>2, <3>2, <3>3, RacingRead
    <3> QED
      BY <2>2, <3>3, <3>4 DEF RecordOf
  <2> QED
    BY <1>7, <2>1, <2>2
<1>9. RecordsInv'
  <2>1. /\ \A ty, u : Induces(ty, u)' <=> Induces(ty, u)
        /\ \A u : RecordOf(u)' = RecordOf(u)
        /\ Positions(s)' = Positions(s)
    BY <1>2 DEF Induces, RecordOf
  <2>2. Matches(BlockOf(blocknum), VisibleSA)'
    <3>1. BlockOf(blocknum)' = k /\ type' = type
      BY <1>2, <1>5
    <3> HIDE DEF k, p
    <3> QED
      BY <1>3, <1>6, <1>8, <2>1, <3>1 DEF Matches
  <2>3. ASSUME Matches(Filling, SA) PROVE Matches(Filling, SA)'
    BY <1>2, <1>5, <1>7, <2>1, <2>3 DEF Matches
  <2> QED
    BY <1>1, <1>2, <1>5, <2>2, <2>3 DEF RecordsInv, Tasks
<1>10. SameView
  BY <1>2, <1>5, <1>6 DEF SameView
<1> QED
  BY <1>1, <1>5, <1>6, <1>9, <1>10, SameViewKeeps DEF RefinementInv

\* The cell the scan visits: nothing is pending for it, so that the scan reads
\* what it holds, and a record for it holds the right character.
LEMMA ScanReads ==
  ASSUME RefinementInv, pc["induce"] = "run", store = NoStore, InScan(Filling, index["induce"])
  PROVE  /\ index["induce"] \in 0 .. PartLength - 1
         /\ Filling * PartLength + index["induce"] = CellAfter(type, ScannedCells)
         /\ ScannedCells \in 0 .. n - 1
         /\ CellAfter(type, ScannedCells) \in Positions(s)
         /\ ReadCell(CellAfter(type, ScannedCells)) = { VisibleSA[CellAfter(type, ScannedCells)] }
         /\ \A v : v = VisibleSA[CellAfter(type, ScannedCells)] /\ Induces(type, v) =>
              InducedChar(r[Filling % 2][index["induce"]], v - 1) = At(s, v - 1)
<1> DEFINE loc == index["induce"]
           k == Filling
           c == k * PartLength + loc
<1>1. /\ PipelineInv /\ TypeOK /\ Schedule /\ PendingInv /\ RecordsInv /\ IndexInv
  BY DEF RefinementInv, PipelineInv
<1>2. /\ blocknum \in 1 .. block_amount + 1 /\ k \in Nat /\ k * PartLength \in Nat
      /\ Block("induce") = k /\ translate("induce") = k * PartLength
      /\ StageOf("induce", blocknum) >= 0
  <2>1. blocknum \in Nat
    BY <1>1 DEF TypeOK
  <2>2. pc["induce"] # "idle"
    OBVIOUS
  <2> QED
    BY <1>1, <2>1, <2>2, FillingBlock
<1>3. /\ n \in Nat \ {0} /\ Positions(s) = 0 .. n - 1 /\ PartLength \in Nat \ {0}
      /\ type \in { L_Type, S_Type } /\ loc \in Int
  <2>1. s \in Texts /\ type \in { L_Type, S_Type } /\ loc \in Int
    BY <1>1 DEF TypeOK, Tasks
  <2> QED
    BY <2>1, TextFacts, ConstantFacts
<1>4. /\ loc \in 0 .. PartLength - 1 /\ c \in 0 .. n - 1
      /\ ScannedCells = IF type = L_Type THEN c ELSE n - 1 - c
  <2>1. CASE type = L_Type
    <3>1. loc >= 0 /\ loc < PartLength /\ loc + k * PartLength < n
      BY <1>1, <2>1 DEF Schedule, InScan
    <3>2. ScannedCells = AtMost(n, k * PartLength + loc)
      BY <1>1, <1>2, <2>1, ScanProgress DEF Progress
    <3> HIDE DEF loc, k
    <3> QED
      BY <1>2, <1>3, <2>1, <3>1, <3>2 DEF AtMost
  <2>2. CASE type = S_Type
    <3>1. type # L_Type
      BY <2>2 DEF L_Type, S_Type
    <3>2. loc >= 0 /\ loc < PartLength
      BY <1>1, <3>1 DEF Schedule, InScan
    <3>3. FirstIndex(k) = (IF PartLength <= n - k * PartLength
                             THEN PartLength ELSE n - k * PartLength) - 1
      BY <3>1 DEF FirstIndex
    <3>4. loc <= FirstIndex(k)
      BY <1>1, <2>2 DEF IndexInv
    <3>5. ScannedCells = IF loc < -1 THEN CellsUpTo(k) ELSE n - 1 - (k * PartLength + loc)
      BY <1>1, <1>2, <2>2, ScanProgress DEF Progress
    <3> HIDE DEF loc, k
    <3> QED
      BY <1>2, <1>3, <3>1, <3>2, <3>3, <3>4, <3>5
  <2> QED
    BY <1>3, <2>1, <2>2
<1>5. /\ c = CellAfter(type, ScannedCells) /\ ScannedCells \in 0 .. n - 1
      /\ c \in Positions(s)
  <2> HIDE DEF c
  <2> QED
    BY <1>3, <1>4 DEF CellAfter
<1>6. Unvisited(loc)
  <2>1. CASE type = L_Type
    BY <1>2, <1>3, <1>4, <2>1 DEF Unvisited
  <2>2. CASE type # L_Type
    BY <1>2, <1>3, <1>4, <2>2 DEF Unvisited
  <2> QED
    BY <2>1, <2>2
<1>7. \A q \in Parities, x \in 0 .. PartLength : Valid(w[q][x]) => w[q][x][1] # c
  BY <1>1, <1>2, <1>4, <1>6, ScanSeesWrites DEF ScanSeesAllWrites
<1>8. ASSUME NEW e \in Pending PROVE e[1] # c
  BY <1>7, PendingMembers
<1>9. VisibleSA[c] = SA[c]
  BY <1>1, <1>5, <1>8, PendingFacts
<1>10. ReadCell(c) = { SA[c] }
  <2>1. StoresInProgress \subseteq Pending
    BY DEF StoresInProgress, Pending
  <2>2. { x \in StoresInProgress : x[1] = c } = {}
    BY <1>8, <2>1
  <2> QED
    BY <2>2 DEF ReadCell
<1>11. ASSUME NEW v, v = SA[c], Induces(type, v)
       PROVE  InducedChar(r[k % 2][loc], v - 1) = At(s, v - 1)
  <2>1. Matches(k, SA)
    BY <1>1, <1>2 DEF RecordsInv
  <2>2. r[k % 2][loc][1] # 0 => r[k % 2][loc] = RecordOf(SA[c])
    BY <1>4, <2>1 DEF Matches
  <2>3. RecordOf(v)[1] = At(s, v - 1)
    BY DEF RecordOf
  <2> QED
    BY <1>11, <2>2, <2>3 DEF InducedChar
<1> QED
  BY <1>4, <1>5, <1>9, <1>10, <1>11

\* The scan and the pipeline speak of the same texts, types and buckets.
LEMMA SameVocabulary ==
  /\ Sequential!L_Type = L_Type /\ Sequential!S_Type = S_Type
  /\ \A x : Sequential!Positions(x) = Positions(x)
  /\ \A x, c : Sequential!At(x, c) = At(x, c)
  /\ \A x : Sequential!Types(x) = Types(x)
  /\ \A x : Sequential!generate_buckets(x, K, TRUE) = generate_buckets(x, K, TRUE)
  /\ \A x : Sequential!generate_buckets(x, K, FALSE) = generate_buckets(x, K, FALSE)
<1>1. Sequential!L_Type = L_Type /\ Sequential!S_Type = S_Type
  BY DEF Sequential!L_Type, L_Type, Sequential!S_Type, S_Type
<1>2. /\ \A x : Sequential!Positions(x) = Positions(x)
      /\ \A x, c : Sequential!At(x, c) = At(x, c)
  BY DEF Sequential!Positions, Positions, Sequential!At, At
<1>3. \A x, c : Sequential!IsS(x, c) <=> IsS(x, c)
  BY <1>2 DEF Sequential!IsS, IsS
<1>4. \A x : Sequential!Types(x) = Types(x)
  BY <1>1, <1>2, <1>3 DEF Sequential!Types, Types
<1>5. \A x : \A end \in BOOLEAN :
        Sequential!generate_buckets(x, K, end) = generate_buckets(x, K, end)
  <2>1. \A S : Sequential!Cardinality(S) = Cardinality(S)
    BY DEF Sequential!Cardinality, Cardinality
  <2> TAKE x
  <2> TAKE end \in BOOLEAN
  <2>2. \A c : { loc \in Sequential!Positions(x) :
                 IF end THEN Sequential!At(x, loc) <= c ELSE Sequential!At(x, loc) < c }
              = { loc \in Positions(x) : IF end THEN At(x, loc) <= c ELSE At(x, loc) < c }
    BY <1>2
  <2> QED
    BY <2>1, <2>2 DEF Sequential!generate_buckets, generate_buckets
<1> QED
  BY <1>1, <1>2, <1>4, <1>5

\* InduceCell: a visit of the scan.
LEMMA InduceCellRefines ==
  ASSUME RefinementInv, PipelineInv', InduceCell
  PROVE  RefinementInv' /\ Sequential!Visit
<1> DEFINE loc == index["induce"]
           k == Filling
           p == k % 2
           sc == ScannedCells
           cell == CellAfter(type, sc)
           v == VisibleSA[cell]
<1>1. /\ PipelineInv /\ TypeOK /\ Schedule /\ FillingInOrder /\ IndexInv
      /\ PendingInv /\ RecordsInv /\ SeqInv(type, VisibleSA, buckets, sc)
      /\ TypeOK' /\ Schedule' /\ TypesGiven
  BY TypedText DEF RefinementInv, PipelineInv
<1>2. /\ pc["induce"] = "run"
      /\ store = NoStore
      /\ InScan(k, loc)
      /\ index' = [ index EXCEPT !["induce"] = NextCell(loc) ]
      /\ UNCHANGED << s, t, SA, type, blocknum, pc >>
      /\ Block("induce") = k /\ Parity("induce") = p
      /\ translate("induce") = k * PartLength
  BY <1>1, TaskFacts DEF InduceCell, translate
<1>3. /\ loc \in 0 .. PartLength - 1
      /\ k * PartLength + loc = cell
      /\ sc \in 0 .. n - 1
      /\ cell \in Positions(s)
      /\ ReadCell(cell) = { v }
      /\ Induces(type, v) => InducedChar(r[p][loc], v - 1) = At(s, v - 1)
  BY <1>2, ScanReads
<1>4. /\ n' = n /\ block_amount' = block_amount /\ Filling' = k
      /\ \A task \in Tasks : StageOf(task, blocknum)' = StageOf(task, blocknum)
      /\ \A m : BlockOf(m)' = BlockOf(m) /\ FirstIndex(m)' = FirstIndex(m)
      /\ \A m : CellsUpTo(m)' = CellsUpTo(m)
      /\ \A x, y : AtMost(x, y)' = AtMost(x, y)
  BY <1>1, <1>2, FrameFacts DEF BlockOf, FirstIndex, CellsUpTo, AtMost
<1>5. /\ n \in Nat \ {0} /\ type \in { L_Type, S_Type } /\ L_Type # S_Type
      /\ blocknum \in 1 .. block_amount + 1 /\ k * PartLength \in Nat
      /\ index'["induce"] = (IF type = L_Type THEN loc + 1 ELSE loc - 1)
      /\ PartLength \in Nat \ {0}
  <2>1. /\ s \in Texts /\ type \in { L_Type, S_Type } /\ pc["induce"] # "idle"
        /\ index'["induce"] = NextCell(loc)
    BY <1>1, <1>2 DEF TypeOK, Tasks
  <2> QED
    BY <1>1, <2>1, TextFacts, ConstantFacts, FillingBlock DEF L_Type, S_Type, NextCell
<1>6. ScannedCells' = sc + 1
  <2>1. sc = IF type = L_Type THEN k * PartLength + loc ELSE n - 1 - (k * PartLength + loc)
    <3> HIDE DEF k, loc, sc
    <3> QED
      BY <1>3, <1>5 DEF CellAfter, cell
  <2>2. CASE type = L_Type
    <3>1. ScannedCells' = AtMost(n, k * PartLength + (loc + 1))
      BY <1>1, <1>2, <1>4, <1>5, <2>2, ScanProgressNext DEF Progress
    <3> HIDE DEF k, loc, sc
    <3> QED
      BY <1>3, <1>5, <2>1, <2>2, <3>1 DEF AtMost
  <2>3. CASE type = S_Type
    <3>1. ScannedCells' = IF loc - 1 < -1 THEN CellsUpTo(k)
                           ELSE n - 1 - (k * PartLength + (loc - 1))
      BY <1>1, <1>2, <1>4, <1>5, <2>3, ScanProgressNext DEF Progress
    <3> HIDE DEF k, loc, sc
    <3> QED
      BY <1>3, <1>5, <2>1, <2>3, <3>1
  <2> QED
    BY <1>5, <2>2, <2>3
<1>7. IndexInv'
  <2>1. ASSUME type = S_Type PROVE loc - 1 <= FirstIndex(k) /\ loc - 1 >= -1
    <3>1. FirstIndex(k) \in Int
      <4>1. k \in Int
        BY <1>1, BlockFacts
      <4> QED
        BY <1>5, <4>1 DEF FirstIndex
    <3>2. loc <= FirstIndex(k)
      BY <1>1, <1>2, <2>1 DEF IndexInv
    <3> HIDE DEF loc, k
    <3> QED
      BY <1>3, <1>5, <3>1, <3>2
  <2> QED
    BY <1>2, <1>4, <1>5, <2>1 DEF IndexInv
<1>8. PICK u \in ReadCell(cell) :
        LET pos == u - 1
            chr == InducedChar(r[p][loc], pos)
            idx == IF type = L_Type THEN buckets[chr] ELSE buckets[chr] - 1
        IN  IF Inducible(u)
              THEN /\ r' = [ r EXCEPT ![p][loc] = IF @[1] = 0 THEN @ ELSE NoRecord ]
                   /\ buckets' = [ buckets EXCEPT
                         ![chr] = IF type = L_Type THEN @ + 1 ELSE @ - 1 ]
                   /\ IF Near(idx, loc)
                        THEN /\ store' = << idx, pos >>
                             /\ UNCHANGED << w, w_count >>
                        ELSE /\ w' = [ w EXCEPT ![p][w_count[p]] = << idx, pos >> ]
                             /\ w_count' = [ w_count EXCEPT ![p] = @ + 1 ]
                             /\ store' = store
              ELSE UNCHANGED << r, buckets, w, w_count, store >>
  <2> HIDE DEF cell, k, p
  <2>1. translate("induce") + loc = cell
    BY <1>2, <1>3
  <2> QED
    BY <1>2, <2>1 DEF InduceCell
<1>9. u = v
  BY <1>3, <1>8
<1>10. Inducible(v) <=> Induces(type, v)
  <2>1. None - 1 \notin Positions(s)
    <3>1. s \in Texts
      BY <1>1 DEF TypeOK
    <3>2. n + 1 < LowBase /\ LowBase \in Nat
      BY <3>1, TextsAssumption, ConstantsAssumption DEF n
    <3> QED
      BY <1>5, <3>1, <3>2, TextFacts, ConstantFacts
  <2> QED
    BY <2>1 DEF Inducible, Induces
<1>11. CASE ~Induces(type, v)
  <2>1. UNCHANGED << r, buckets, w, w_count, store >>
    BY <1>8, <1>9, <1>10, <1>11
  <2>2. PendingInv' /\ VisibleSA' = VisibleSA
    BY <1>1, <1>2, <2>1, QuietStep
  <2>3. RecordsInv'
    <3>1. /\ \A ty, x : Induces(ty, x)' <=> Induces(ty, x)
          /\ \A x : RecordOf(x)' = RecordOf(x)
      BY <1>2 DEF Induces, RecordOf
    <3> QED
      BY <1>1, <1>2, <1>4, <2>1, <2>2, <3>1 DEF RecordsInv, Matches, Tasks
  <2>4. SeqInv(type, VisibleSA, buckets, sc + 1)
    BY <1>1, <1>3, <1>5, VisitNothing
  <2>5. SeqInv(type, VisibleSA, buckets, ScannedCells)'
    BY <1>2, <1>6, <2>1, <2>2, <2>4, SeqInvNext
  <2>6. Sequential!Visit
    <3>1. Sequential!ScanCell = cell
      BY SameVocabulary DEF Sequential!ScanCell, CellAfter, n
    <3>2. Sequential!Inducible(VisibleSA[cell]) <=> Induces(type, v)
      BY SameVocabulary DEF Sequential!Inducible, Induces
    <3>3. UNCHANGED << VisibleSA, buckets >>
      BY <2>1, <2>2
    <3>4. sc < Len(s)
      BY <1>3, <1>5 DEF n
    <3> HIDE DEF cell, sc
    <3> QED
      BY <1>2, <1>6, <1>11, <3>1, <3>2, <3>3, <3>4
         DEF Sequential!Visit, Sequential!InduceCell, VisibleSA, sc
  <2> QED
    BY <1>1, <1>7, <2>2, <2>3, <2>5, <2>6 DEF RefinementInv
<1>12. CASE Induces(type, v)
  <2> DEFINE q == v - 1
             c == At(s, q)
             idx == NextFree(type, buckets, c)
             e == << idx, q >>
  <2>1. /\ q \in Positions(s) /\ t[q] = type /\ v \in Positions(s)
        /\ c \in 1 .. K - 1
        /\ idx \in Region(type, c)
        /\ idx \in Positions(s)
        /\ idx # 0
        /\ \A d \in 0 .. K - 1 : idx \notin Filled(type, buckets, d)
        /\ ~Induces(type, VisibleSA[idx])
    <3>1. /\ Induces(type, VisibleSA[CellAfter(type, ScannedCells)])
          /\ q = VisibleSA[CellAfter(type, ScannedCells)] - 1
          /\ ScannedCells \in 0 .. n - 1
          /\ SeqInv(type, VisibleSA, buckets, ScannedCells)
      BY <1>1, <1>3, <1>12
    <3>2. v = VisibleSA[CellAfter(type, ScannedCells)]
      OBVIOUS
    <3>3. TypesGiven /\ type \in { L_Type, S_Type }
      BY <1>1, <1>5
    <3> HIDE DEF q, k, loc, p, v, cell, sc
    <3>4. /\ VisibleSA[CellAfter(type, ScannedCells)] \in Positions(s)
          /\ q \in Positions(s) /\ t[q] = type
          /\ At(s, q) \in 1 .. K - 1
          /\ NextFree(type, buckets, At(s, q)) \in Region(type, At(s, q))
          /\ NextFree(type, buckets, At(s, q)) \in Positions(s)
          /\ NextFree(type, buckets, At(s, q)) # 0
          /\ \A d \in 0 .. K - 1 : NextFree(type, buckets, At(s, q)) \notin Filled(type, buckets, d)
          /\ ~Induces(type, VisibleSA[NextFree(type, buckets, At(s, q))])
      BY <3>1, <3>3, InducedFacts
    <3> QED
      BY <3>2, <3>4
  <2>2. c \in 0 .. K - 1
    BY <2>1, ConstantFacts
  <2>3. /\ r' = [ r EXCEPT ![p][loc] = IF @[1] = 0 THEN @ ELSE NoRecord ]
        /\ buckets' = Advanced(type, buckets, c)
        /\ \/ store' = e /\ w' = w
           \/ w' = [ w EXCEPT ![p][w_count[p]] = e ] /\ store' = store
    BY <1>3, <1>8, <1>9, <1>10, <1>12 DEF Advanced, NextFree
  <2>4. Valid(e) /\ e # NoStore /\ e[1] = idx /\ e[2] = q
    <3>1. q # None
      <4>1. s \in Texts
        BY <1>1 DEF TypeOK
      <4> QED
        BY <2>1, <4>1, TextFacts, ConstantFacts
    <3> HIDE DEF idx, q
    <3> QED
      BY <2>1, <3>1 DEF Valid, NoStore
  <2>5. ASSUME NEW f \in Pending PROVE f[1] # idx
    BY <1>1, <2>1, <2>5 DEF PendingInv
  <2>6. VisibleSA[idx] = SA[idx]
    BY <1>1, <2>1, <2>5, PendingFacts
  <2>7. /\ p \in Parities /\ w_count[p] \in 0 .. PartLength
        /\ w \in [ Parities -> [ 0 .. PartLength -> Int \X (0 .. None) ] ]
        /\ ~Valid(w[p][w_count[p]])
    <3>1. p \in Parities
      BY <1>1, BlockFacts
    <3>2. w_count[p] \in 0 .. PartLength
          /\ w \in [ Parities -> [ 0 .. PartLength -> Int \X (0 .. None) ] ]
      BY <1>1, <3>1 DEF TypeOK
    <3>3. Valid(w[p][w_count[p]]) => w_count[p] < w_count[p]
      BY <1>1, <3>2 DEF FillingInOrder
    <3> HIDE DEF p
    <3> QED
      BY <3>1, <3>2, <3>3
  <2> HIDE DEF e, idx, q, c, p, k, loc, v, cell, sc
  <2>8. \A x \in Parities, y \in 0 .. PartLength :
          /\ Valid(w[x][y]) => w'[x][y] = w[x][y]
          /\ Valid(w'[x][y]) => \/ w'[x][y] = w[x][y]
                                \/ w'[x][y] = e /\ x = p /\ y = w_count[p] /\ store' = NoStore
    <3>1. CASE w' = w
      BY <3>1
    <3>2. CASE w' = [ w EXCEPT ![p][w_count[p]] = e ] /\ store' = store
      <4>1. \A x \in Parities, y \in 0 .. PartLength :
              w'[x][y] = IF x = p /\ y = w_count[p] THEN e ELSE w[x][y]
        BY <2>7, <3>2
      <4> QED
        BY <1>2, <2>7, <3>2, <4>1
    <3> QED
      BY <2>3, <3>1, <3>2
  <2>9. Pending' = Pending \cup { e }
    <3>1. ASSUME NEW f
          PROVE  f \in Pending' <=>
                   \/ \E x \in Parities, y \in 0 .. PartLength : f = w'[x][y] /\ Valid(f)
                   \/ store' # NoStore /\ f = store'
      BY DEF Pending, Valid, NoStore
    <3>2. ASSUME NEW f \in Pending' PROVE f \in Pending \/ f = e
      <4>1. CASE store' # NoStore /\ f = store'
        BY <1>2, <2>3, <4>1
      <4>2. CASE \E x \in Parities, y \in 0 .. PartLength : f = w'[x][y] /\ Valid(f)
        <5>1. PICK x \in Parities, y \in 0 .. PartLength : f = w'[x][y] /\ Valid(f)
          BY <4>2
        <5>2. f = w[x][y] \/ f = e
          BY <2>8, <5>1
        <5> QED
          BY <5>1, <5>2, PendingMembers
      <4> QED
        BY <3>1, <3>2, <4>1, <4>2
    <3>3. ASSUME NEW f \in Pending PROVE f \in Pending'
      <4>1. PICK x \in Parities, y \in 0 .. PartLength : f = w[x][y] /\ Valid(f)
        BY <1>2, <3>3, PendingMembers
      <4>2. f = w'[x][y]
        BY <2>8, <4>1
      <4> QED
        BY <3>1, <4>1, <4>2
    <3>4. e \in Pending'
      <4>1. CASE store' = e
        BY <2>4, <3>1, <4>1
      <4>2. CASE w' = [ w EXCEPT ![p][w_count[p]] = e ]
        <5>1. w'[p][w_count[p]] = e
          BY <2>7, <4>2
        <5> QED
          BY <2>4, <2>7, <3>1, <5>1
      <4> QED
        BY <2>3, <4>1, <4>2
    <3> QED
      BY <3>2, <3>3, <3>4
  <2>10. VisibleSA' = Written(VisibleSA, idx, q)
    <3>1. OneEach(Pending)
      BY <1>1, PendingFacts
    <3>2. Applied(Pending \cup { << idx, q >> }, SA) = Written(Applied(Pending, SA), idx, q)
      <4>1. \A f \in Pending : f[1] # idx
        BY <2>5
      <4> QED
        BY <2>1, <3>1, <4>1, WritePending
    <3>3. Applied(Pending, SA)' = Applied(Pending \cup { << idx, q >> }, SA)
      BY <1>2, <2>9 DEF Applied, e
    <3> QED
      BY <3>2, <3>3, VisibleIsApplied
  <2>11. SeqInv(type, VisibleSA', buckets', ScannedCells')
    <3>1. SeqInv(type, [ VisibleSA EXCEPT ![NextFree(type, buckets, At(s, q))] = q ],
                 Advanced(type, buckets, At(s, q)), sc + 1)
      BY <1>1, <1>3, <1>5, <1>12, VisitInduces DEF q, v, cell
    <3> QED
      BY <1>6, <2>3, <2>10, <3>1 DEF idx, c, Written
  <2>12. SeqInv(type, VisibleSA, buckets, ScannedCells)'
    BY <1>2, <2>11, SeqInvNext
  <2>13. ASSUME NEW d \in 0 .. K - 1
         PROVE  Filled(type, buckets', d) =
                  (IF d = c THEN Filled(type, buckets, c) \cup { idx }
                   ELSE Filled(type, buckets, d))
    BY <1>1, <1>5, <2>1, <2>2, <2>3, AdvancedFilled DEF idx
  <2>14. PendingInv'
    <3>1. \A x \in Positions(s) : SA'[x] \in Positions(s) \cup { None }
      BY <1>1, <1>2 DEF PendingInv
    <3>2. ASSUME NEW f \in Pending'
          PROVE  /\ f[1] \in Positions(s) /\ f[2] \in Positions(s)
                 /\ \E d \in 0 .. K - 1 : f[1] \in Filled(type, buckets', d)
                 /\ ~Induces(type, SA'[f[1]])
      <4>1. CASE f = e
        BY <1>2, <2>1, <2>2, <2>4, <2>6, <2>13, <4>1
      <4>2. CASE f \in Pending
        <5>1. PICK d \in 0 .. K - 1 : f[1] \in Filled(type, buckets, d)
          BY <1>1, <4>2 DEF PendingInv
        <5>2. f[1] \in Filled(type, buckets', d)
          BY <2>13, <5>1
        <5> QED
          BY <1>1, <1>2, <4>2, <5>2 DEF PendingInv
      <4> QED
        BY <2>9, <3>2, <4>1, <4>2
    <3>3. \A x, y \in Parities, a, b \in 0 .. PartLength :
            Valid(w'[x][a]) /\ Valid(w'[y][b]) /\ w'[x][a][1] = w'[y][b][1]
              => x = y /\ a = b
      <4>1. \A x \in Parities, a \in 0 .. PartLength : Valid(w[x][a]) => w[x][a][1] # idx
        BY <2>5, PendingMembers
      <4> QED
        BY <1>1, <2>4, <2>8, <4>1 DEF PendingInv
    <3>4. store' # NoStore =>
            \A x \in Parities, y \in 0 .. PartLength : Valid(w'[x][y]) => w'[x][y][1] # store'[1]
      <4>1. \A x \in Parities, y \in 0 .. PartLength : Valid(w[x][y]) => w[x][y][1] # idx
        BY <2>5, PendingMembers
      <4> QED
        BY <1>2, <2>3, <2>4, <2>8, <4>1
    <3> QED
      BY <1>2, <3>1, <3>2, <3>3, <3>4, PendingNext
  <2>15. RecordsInv'
    <3>1. /\ \A ty, x : Induces(ty, x)' <=> Induces(ty, x)
          /\ \A x : RecordOf(x)' = RecordOf(x)
          /\ Positions(s)' = Positions(s)
      BY <1>2 DEF Induces, RecordOf
    <3>2. \A x \in Positions(s) : Induces(type, VisibleSA[x]) => VisibleSA'[x] = VisibleSA[x]
      <4>1. \A x \in Positions(s) : x # idx => VisibleSA'[x] = VisibleSA[x]
        BY <2>10 DEF VisibleSA, Written
      <4> QED
        BY <2>1, <4>1
    <3>3. \A x \in Parities, y \in 0 .. PartLength - 1 :
            r'[x][y] = r[x][y] \/ r'[x][y][1] = 0
      <4>1. r \in [ Parities -> [ 0 .. PartLength -> (0 .. K - 1) \X (0 .. None) ] ]
        BY <1>1 DEF TypeOK
      <4>2. NoRecord[1] = 0
        BY DEF NoRecord
      <4>3. loc \in 0 .. PartLength /\ \A y \in 0 .. PartLength - 1 : y \in 0 .. PartLength
        BY <1>3, ConstantFacts
      <4> QED
        BY <2>3, <2>7, <4>1, <4>2, <4>3
    <3>4. BlockOf(blocknum) % 2 \in Parities /\ Filling % 2 \in Parities
      BY <1>1, BlockFacts
    <3>5. ASSUME Matches(BlockOf(blocknum), VisibleSA)
          PROVE  Matches(BlockOf(blocknum), VisibleSA)'
      <4>1. BlockOf(blocknum)' = BlockOf(blocknum) /\ type' = type
        BY <1>2, <1>4
      <4> QED
        BY <3>1, <3>2, <3>3, <3>4, <3>5, <4>1 DEF Matches
    <3>6. ASSUME Matches(Filling, SA) PROVE Matches(Filling, SA)'
      <4>1. Filling' = Filling /\ type' = type /\ SA' = SA
        BY <1>2, <1>4 DEF k
      <4> QED
        BY <3>1, <3>3, <3>4, <3>6, <4>1 DEF Matches
    <3> QED
      BY <1>1, <1>2, <1>4, <3>5, <3>6 DEF RecordsInv, Tasks
  <2>16. Sequential!Visit
    <3>1. Sequential!ScanCell = cell
      BY SameVocabulary DEF Sequential!ScanCell, CellAfter, n, cell, sc
    <3>2. Sequential!Inducible(VisibleSA[cell])
      BY <1>12, SameVocabulary DEF Sequential!Inducible, Induces, v
    <3>3. VisibleSA' = [ VisibleSA EXCEPT ![IF type = L_Type THEN buckets[c] ELSE buckets[c] - 1] = q ]
      BY <2>10 DEF idx, NextFree, Written
    <3>4. buckets' = [ buckets EXCEPT ![c] = IF type = L_Type THEN @ + 1 ELSE @ - 1 ]
      BY <2>3 DEF Advanced
    <3>5. sc < Len(s)
      BY <1>3, <1>5 DEF n
    <3>6. /\ [ x \in Positions(s) |-> Visible(x) ] = VisibleSA
          /\ [ x \in Positions(s) |-> Visible(x) ]' = VisibleSA'
          /\ v = VisibleSA[cell] /\ q = v - 1 /\ c = At(s, q)
      BY DEF VisibleSA, v, q, c
    <3>7. Sequential!InduceCell
      <4>1. Sequential!At(s, q) = c /\ Sequential!L_Type = L_Type
        BY <3>6, SameVocabulary
      <4> HIDE DEF L_Type
      <4> QED
        BY <3>1, <3>2, <3>3, <3>4, <3>6, <4>1 DEF Sequential!InduceCell, VisibleSA
    <3> QED
      BY <1>2, <1>6, <3>5, <3>7 DEF Sequential!Visit, sc
  <2> QED
    BY <1>1, <1>7, <2>12, <2>14, <2>15, <2>16 DEF RefinementInv
<1> QED
  BY <1>11, <1>12

\* NextIteration: the next block's scan starts where the last one's ended, and
\* the records prepared for it hold for SA itself, as what is still pending is at
\* least two blocks ahead.
LEMMA NextIterationRefines ==
  ASSUME RefinementInv, PipelineInv', NextIteration
  PROVE  RefinementInv' /\ SameView
<1> DEFINE b == blocknum
           k == BlockOf(b)
<1>1. /\ PipelineInv /\ TypeOK /\ Schedule /\ FillingInOrder /\ TypeOK' /\ Schedule' /\ AllIdle
      /\ IndexInv /\ PendingInv /\ RecordsInv
      /\ SeqInv(type, VisibleSA, buckets, ScannedCells)
      /\ s \in Texts /\ type \in { L_Type, S_Type } /\ L_Type # S_Type
  BY DEF RefinementInv, PipelineInv, NextIteration, TypeOK, L_Type, S_Type
<1>2. /\ b <= block_amount + 2 /\ blocknum' = b + 1
      /\ UNCHANGED << s, t, SA, buckets, type, r, w, store >>
      /\ pc' = IF b < block_amount + 2 THEN Spawned(b + 1) ELSE pc
      /\ pc["induce"] = "idle" /\ pc["prepare"] = "idle"
  BY DEF NextIteration, AllIdle, Tasks
<1>3. /\ n' = n /\ block_amount' = block_amount
      /\ b \in Nat /\ block_amount \in Nat \ {0} /\ n \in Nat \ {0}
      /\ PartLength \in Nat \ {0}
      /\ n <= (block_amount + 1) * PartLength
  BY <1>1, <1>2, TextFacts, ConstantFacts, BlocksCover DEF TypeOK, n, block_amount
<1>4. /\ Filling' = k
      /\ \A j : CellsUpTo(j)' = CellsUpTo(j)
      /\ \A task \in Tasks : StageOf(task, blocknum)' = StageOf(task, b + 1)
      /\ \A ty, x : Induces(ty, x)' <=> Induces(ty, x)
      /\ \A x : RecordOf(x)' = RecordOf(x)
      /\ Positions(s)' = Positions(s)
  BY <1>1, <1>2, <1>3 DEF Filling, BlockOf, CellsUpTo, AtMost, StageOf, Induces, RecordOf
<1>5. PendingInv' /\ VisibleSA' = VisibleSA
  BY <1>1, <1>2, QuietStep
<1>6. /\ pc'["induce"] # "run"
      /\ b <= block_amount => pc'["induce"] = "start"
      /\ b + 1 <= block_amount => pc'["prepare"] = "start"
  <2>1. CASE b < block_amount + 2
    <3>1. /\ pc' = Spawned(b + 1)
          /\ b <= block_amount => StageOf("induce", b + 1) >= 0
          /\ b + 1 <= block_amount => StageOf("prepare", b + 1) >= 0
      BY <1>2, <1>3, <2>1 DEF StageOf
    <3> QED
      BY <3>1 DEF Spawned, Tasks
  <2>2. CASE b = block_amount + 2
    BY <1>2, <1>3, <2>2
  <2> QED
    BY <1>2, <1>3, <2>1, <2>2
<1>7. ScannedCells' = ScannedCells
  <2>1. Progress /\ Progress'
    BY <1>1, ScanProgress, ScanProgressNext
  <2>2. CASE b = 0
    <3>1. ScannedCells = 0
      BY <2>1, <2>2 DEF Progress
    <3>2. ScannedCells' = CellsUpTo(k)
      BY <1>2, <1>3, <1>4, <1>6, <2>1, <2>2 DEF Progress
    <3>3. CellsUpTo(k) = 0
      <4>1. CASE type = L_Type
        <5>1. k = 0 /\ 0 * PartLength = 0
          BY <1>3, <2>2, <4>1 DEF BlockOf
        <5> QED
          BY <1>3, <4>1, <5>1 DEF CellsUpTo, AtMost
      <4>2. CASE type = S_Type
        <5>1. k = block_amount
          BY <1>1, <1>3, <2>2, <4>2 DEF BlockOf
        <5>2. CellsUpTo(k) = n - AtMost(n, (block_amount + 1) * PartLength)
          BY <1>1, <4>2, <5>1 DEF CellsUpTo
        <5> QED
          BY <1>3, <5>2 DEF AtMost
      <4> QED
        BY <1>1, <4>1, <4>2
    <3> QED
      BY <3>1, <3>2, <3>3
  <2>3. CASE b \in 1 .. block_amount
    <3>1. ScannedCells = CellsThrough(Filling)
      BY <1>2, <1>3, <2>1, <2>3 DEF Progress
    <3>2. ScannedCells' = CellsUpTo(k)
      BY <1>2, <1>3, <1>4, <1>6, <2>1, <2>3 DEF Progress
    <3>3. CellsThrough(Filling) = CellsUpTo(k)
      <4>1. CASE type = L_Type
        <5>1. Filling + 1 = k
          BY <1>3, <4>1 DEF Filling, BlockOf
        <5> QED
          BY <4>1, <5>1 DEF CellsUpTo, CellsThrough
      <4>2. CASE type = S_Type
        <5>1. Filling = k + 1
          BY <1>1, <1>3, <4>2 DEF Filling, BlockOf
        <5> QED
          BY <1>1, <4>2, <5>1 DEF CellsUpTo, CellsThrough
      <4> QED
        BY <1>1, <4>1, <4>2
    <3> QED
      BY <3>1, <3>2, <3>3
  <2>4. CASE b = block_amount + 1
    <3>1. ScannedCells = CellsThrough(Filling)
      BY <1>2, <1>3, <2>1, <2>4 DEF Progress
    <3>2. ScannedCells' = n
      BY <1>2, <1>3, <2>1, <2>4 DEF Progress
    <3>3. CellsThrough(Filling) = n
      <4>1. CASE type = L_Type
        <5>1. Filling = block_amount
          BY <1>3, <2>4, <4>1 DEF Filling, BlockOf
        <5> QED
          BY <1>3, <4>1, <5>1 DEF CellsThrough, AtMost
      <4>2. CASE type = S_Type
        <5>1. Filling = 0 /\ 0 * PartLength = 0
          BY <1>1, <1>3, <2>4, <4>2 DEF Filling, BlockOf
        <5> QED
          BY <1>1, <1>3, <4>2, <5>1 DEF CellsThrough, AtMost
      <4> QED
        BY <1>1, <4>1, <4>2
    <3> QED
      BY <3>1, <3>2, <3>3
  <2>5. CASE b = block_amount + 2
    BY <1>2, <1>3, <2>1, <2>5 DEF Progress
  <2> QED
    BY <1>2, <1>3, <2>2, <2>3, <2>4, <2>5
<1>8. RecordsInv'
  <2>1. ASSUME StageOf("prepare", blocknum)' >= 0, pc'["prepare"] # "start" PROVE FALSE
    <3>1. StageOf("prepare", b + 1) >= 0
      BY <1>4, <2>1 DEF Tasks
    <3>2. b + 1 <= block_amount
      BY <1>3, <3>1 DEF StageOf
    <3> QED
      BY <1>6, <2>1, <3>2
  <2>2. ASSUME StageOf("induce", blocknum)' >= 0 PROVE Matches(Filling, SA)'
    <3>1. b <= block_amount
      <4>1. StageOf("induce", b + 1) >= 0
        BY <1>4, <2>2 DEF Tasks
      <4> QED
        BY <1>3, <4>1 DEF StageOf
    <3>2. Matches(k, VisibleSA)
      BY <1>1, <1>2, <1>3, <3>1 DEF RecordsInv, StageOf
    <3>3. ASSUME NEW x \in 0 .. PartLength - 1, k * PartLength + x \in Positions(s)
          PROVE  VisibleSA[k * PartLength + x] = SA[k * PartLength + x]
      <4>1. ASSUME NEW e \in Pending PROVE e[1] # k * PartLength + x
        <5>1. PICK p \in Parities, y \in 0 .. PartLength : e = w[p][y] /\ Valid(e)
          BY <1>1, FlushedAtBarrier, PendingMembers
        <5>2. p = Filling % 2
          BY <1>1, <5>1, FlushedAtBarrier, BlockFacts
        <5>3. Far(Filling, e[1])
          BY <1>1, <5>1, <5>2 DEF FillingInOrder
        <5>4. e[1] \in Int
          <6>1. e[1] \in Positions(s) /\ Positions(s) = 0 .. n - 1
            BY <1>1, TextFacts DEF PendingInv
          <6> QED
            BY <6>1
        <5>5. Filling \in Int /\ k \in Int
              /\ (type = L_Type => k = Filling + 1) /\ (type = S_Type => k = Filling - 1)
          BY <1>1, <1>3 DEF Filling, BlockOf
        <5>6. (Filling + 1) * PartLength = Filling * PartLength + PartLength
              /\ (Filling - 1) * PartLength = Filling * PartLength - PartLength
              /\ Filling * PartLength \in Int
          BY <1>3, <5>5
        <5> HIDE DEF k
        <5> QED
          BY <1>1, <1>3, <5>3, <5>4, <5>5, <5>6 DEF Far
      <4> QED
        BY <1>1, <3>3, <4>1, PendingFacts
    <3>4. Matches(k, SA)
      BY <3>2, <3>3 DEF Matches
    <3> HIDE DEF k
    <3> QED
      BY <1>2, <1>4, <3>4 DEF Matches
  <2> QED
    BY <2>1, <2>2 DEF RecordsInv
<1>9. SameView
  BY <1>2, <1>5, <1>7 DEF SameView
<1>10. IndexInv'
  BY <1>6 DEF IndexInv
<1> QED
  BY <1>1, <1>5, <1>8, <1>9, <1>10, SameViewKeeps DEF RefinementInv

\* SecondPass: nothing is pending at the end of the L pass, and the scan has
\* visited all the cells.
LEMMA SecondPassRefines ==
  ASSUME RefinementInv, PipelineInv', SecondPass
  PROVE  RefinementInv' /\ Sequential!NextPass
<1>1. /\ PipelineInv /\ TypeOK /\ Schedule /\ TypeOK' /\ Schedule' /\ PendingInv /\ TypesGiven
      /\ SeqInv(type, VisibleSA, buckets, ScannedCells)
      /\ s \in Texts
  BY TypedText DEF RefinementInv, PipelineInv, TypeOK
<1>2. /\ PassDone /\ type = L_Type /\ type' = S_Type
      /\ blocknum = block_amount + 3 /\ blocknum' = 0 /\ pc' = Spawned(0)
      /\ buckets' = generate_buckets(s, K, TRUE)
      /\ UNCHANGED << s, t, SA, w, store >>
  BY DEF SecondPass, EnterPass, PassDone
<1>3. n' = n /\ block_amount' = block_amount /\ block_amount \in Nat \ {0} /\ n \in Nat \ {0}
  BY <1>1, <1>2, TextFacts DEF n, block_amount
<1>4. Pending = {} /\ Pending' = {}
  <2>1. store = NoStore /\ \A p \in Parities, x \in 0 .. PartLength : ~Valid(w[p][x])
    BY <1>1, <1>2, EmptyAtPassEnd
  <2> QED
    BY <1>2, <2>1 DEF Pending, Valid, NoStore
<1>5. VisibleSA' = VisibleSA
  BY <1>2, <1>4 DEF VisibleSA, Visible
<1>6. ScannedCells = n /\ ScannedCells' = 0
  <2>1. Progress /\ Progress'
    BY <1>1, ScanProgress, ScanProgressNext
  <2> QED
    BY <1>2, <1>3, <2>1 DEF Progress
<1>7. PendingInv'
  <2>1. store' = NoStore /\ \A p \in Parities, x \in 0 .. PartLength : ~Valid(w'[p][x])
    BY <1>1, <1>2, EmptyAtPassEnd
  <2>2. \A c \in Positions(s)' : SA'[c] \in Positions(s)' \cup { None }
    BY <1>1, <1>2 DEF PendingInv
  <2> QED
    BY <1>4, <2>1, <2>2 DEF PendingInv, Valid
<1>8. IndexInv' /\ RecordsInv'
  <2>1. pc'["induce"] # "run" /\ pc'["prepare"] = "start"
    BY <1>2, <1>3 DEF Spawned, Tasks, StageOf
  <2>2. ~(StageOf("induce", blocknum)' >= 0)
    BY <1>2, <1>3 DEF StageOf
  <2> QED
    BY <2>1, <2>2 DEF IndexInv, RecordsInv
<1>9. SeqInv(type, VisibleSA, buckets, ScannedCells)'
  <2>1. SeqInv(S_Type, VisibleSA, generate_buckets(s, K, TRUE), 0)
    BY <1>1, <1>2, <1>6, SwitchPass
  <2>2. SeqInv(type', VisibleSA', buckets', ScannedCells')
    BY <1>2, <1>5, <1>6, <2>1
  <2> QED
    BY <1>2, <2>2, SeqInvNext
<1>10. Sequential!NextPass
  <2>1. /\ Sequential!L_Type = L_Type /\ Sequential!S_Type = S_Type
        /\ Sequential!generate_buckets(s, K, TRUE) = generate_buckets(s, K, TRUE)
    BY SameVocabulary
  <2>2. [ c \in Positions(s) |-> Visible(c) ]' = [ c \in Positions(s) |-> Visible(c) ]
    BY <1>5 DEF VisibleSA
  <2>3. ScannedCells = Len(s)
    BY <1>6 DEF n
  <2> QED
    BY <1>2, <1>6, <2>1, <2>2, <2>3 DEF Sequential!NextPass
<1> QED
  BY <1>7, <1>8, <1>9, <1>10 DEF RefinementInv

\* The initial states: nothing is pending, and the scan is before the first cell.
LEMMA InitRefines ==
  ASSUME Init
  PROVE  RefinementInv /\ Sequential!Init
<1>1. PipelineInv
  BY InitEstablishes
<1>2. TypeOK /\ Schedule /\ TypesGiven /\ s \in Texts
  BY <1>1, TypedText DEF PipelineInv, TypeOK
<1>3. /\ t = Types(s) /\ type = L_Type /\ blocknum = 0 /\ pc = Spawned(0)
      /\ buckets = generate_buckets(s, K, FALSE)
      /\ w = [ p \in Parities |-> [ x \in 0 .. PartLength |-> << 0, 0 >> ] ]
      /\ store = NoStore
  BY DEF Init, BuffersInit
<1>4. block_amount \in Nat \ {0} /\ n \in Nat \ {0} /\ Positions(s) = 0 .. n - 1
  BY <1>2, TextFacts
<1>5. \A p \in Parities, x \in 0 .. PartLength : ~Valid(w[p][x])
  BY <1>3 DEF Valid
<1>6. Pending = {}
  BY <1>3, <1>5 DEF Pending
<1>7. PICK turn \in [ Positions(s) -> Int ] : SA = InsertLMS(s, t, turn)
  <2>1. TextOrder(s) \in [ Positions(s) -> Int ]
    BY <1>4 DEF TextOrder
  <2>2. DescendingOrder(s) \in [ Positions(s) -> Int ]
    <3>1. ASSUME NEW p \in Positions(s) PROVE Rank(s, p) \in Int
      <4>1. IsFiniteSet(Positions(s))
        BY <1>4, FS_Interval
      <4>2. { q \in Positions(s) : SuffixLess(s, q, p) } \subseteq Positions(s)
        OBVIOUS
      <4> QED
        BY <4>1, <4>2, FS_Subset, FS_CardinalityType DEF Rank
    <3>2. Len(s) \in Int
      BY <1>4 DEF n
    <3> QED
      BY <3>1, <3>2 DEF DescendingOrder
  <2>3. SA = InsertLMS(s, t, TextOrder(s)) \/ SA = InsertLMS(s, t, DescendingOrder(s))
    BY DEF Init
  <2> QED
    BY <2>1, <2>2, <2>3
<1>8. SeqInv(L_Type, SA, buckets, 0)
  BY <1>2, <1>3, <1>7, FirstPassInv
<1>9. SA \in [ Positions(s) -> Positions(s) \cup { None } ]
  BY <1>8 DEF SeqInv
<1>10. VisibleSA = SA
  BY <1>6, <1>9 DEF VisibleSA, Visible
<1>11. ScannedCells = 0
  BY <1>2, <1>3, ScanProgress DEF Progress
<1>12. PendingInv
  BY <1>3, <1>5, <1>6, <1>9 DEF PendingInv
<1>13. IndexInv /\ RecordsInv
  <2>1. pc["induce"] # "run" /\ pc["prepare"] = "start"
    BY <1>3, <1>4 DEF Spawned, Tasks, StageOf
  <2>2. ~(StageOf("induce", blocknum) >= 0)
    BY <1>3, <1>4 DEF StageOf
  <2> QED
    BY <2>1, <2>2 DEF IndexInv, RecordsInv
<1>14. Sequential!Init
  BY <1>3, <1>11, SameVocabulary DEF Sequential!Init
<1> QED
  BY <1>1, <1>3, <1>8, <1>10, <1>11, <1>12, <1>13, <1>14 DEF RefinementInv

\* Every step of the pipeline keeps the invariant and is a step of the scan, or
\* none.
LEMMA NextRefines ==
  ASSUME RefinementInv, [Next]_vars
  PROVE  RefinementInv' /\ Refines
<1>1. PipelineInv'
  BY NextPreserves DEF RefinementInv
<1>2. CASE PrepareReset \/ PrepareEnd \/ UpdateStart \/ UpdateEnd
  BY <1>1, <1>2, OtherTasksRefine, SameViewRefines
<1>3. CASE PrepareCell
  BY <1>1, <1>3, PrepareCellRefines, SameViewRefines
<1>4. CASE InduceStart
  BY <1>1, <1>4, InduceStartRefines, SameViewRefines
<1>5. CASE InduceCell
  BY <1>1, <1>5, InduceCellRefines DEF Refines
<1>6. CASE InduceStore
  BY <1>1, <1>6, InduceStoreRefines, SameViewRefines
<1>7. CASE InduceEnd
  BY <1>1, <1>7, InduceEndRefines, SameViewRefines
<1>8. CASE UpdateEntry
  BY <1>1, <1>8, UpdateEntryRefines, SameViewRefines
<1>9. CASE NextIteration
  BY <1>1, <1>9, NextIterationRefines, SameViewRefines
<1>10. CASE SecondPass
  BY <1>1, <1>10, SecondPassRefines DEF Refines
<1>11. CASE UNCHANGED vars
  <2>1. RefinementInv /\ UNCHANGED << s, type, blocknum >> /\ UNCHANGED << t, SA, buckets, w, store, r >>
        /\ pc' = pc /\ index' = index /\ PendingInv
    BY <1>11 DEF vars, RefinementInv
  <2>2. /\ ScannedCells' = ScannedCells /\ IndexInv'
        /\ n' = n /\ Filling' = Filling
        /\ \A task \in Tasks : StageOf(task, blocknum)' = StageOf(task, blocknum)
        /\ \A k : BlockOf(k)' = BlockOf(k)
    BY <2>1, SteadyScan
  <2>3. PendingInv' /\ VisibleSA' = VisibleSA
    BY <2>1, QuietStep
  <2>4. RecordsInv'
    BY <2>1, <2>2, <2>3 DEF RefinementInv, RecordsInv, Matches, RecordOf, Induces, Tasks
  <2>5. SameView
    BY <2>1, <2>2, <2>3 DEF SameView
  <2> QED
    BY <1>1, <2>1, <2>2, <2>3, <2>4, <2>5, SameViewKeeps, SameViewRefines DEF RefinementInv
<1> QED
  BY <1>2, <1>3, <1>4, <1>5, <1>6, <1>7, <1>8, <1>9, <1>10, <1>11
     DEF Next, PipelineStep, TaskStep, Terminating

\* The invariant of the refinement.
THEOREM RefinementInvariance == Spec => []RefinementInv
<1>1. Init => RefinementInv
  BY InitRefines
<1>2. RefinementInv /\ [Next]_vars => RefinementInv'
  BY NextRefines
<1> QED
  BY <1>1, <1>2, PTL DEF Spec

\* A record that the scan of a block consumes is the character and the suffix that
\* the cell of SA holds at that time, whatever prepare and update raced for.
THEOREM RecordsCurrent == Spec => []PreparedIsCurrent
<1>1. RefinementInv => PreparedIsCurrent
  <2> SUFFICES ASSUME RefinementInv, pc["induce"] = "run",
                      NEW loc \in 0 .. PartLength - 1, Unvisited(loc),
                      r[Parity("induce")][loc][1] # 0
               PROVE  LET pos == SA[translate("induce") + loc] - 1
                      IN  pos \in Positions(s) /\ r[Parity("induce")][loc] = << At(s, pos), pos >>
    BY DEF PreparedIsCurrent
  <2>1. TypeOK /\ Schedule /\ RecordsInv
    BY DEF RefinementInv, PipelineInv
  <2>2. Parity("induce") = Filling % 2 /\ translate("induce") = Filling * PartLength
    BY <2>1, TaskFacts DEF translate
  <2>3. Matches(Filling, SA)
    BY <2>1 DEF Schedule, RecordsInv, Tasks
  <2>4. Induces(type, SA[Filling * PartLength + loc])
        /\ r[Filling % 2][loc] = RecordOf(SA[Filling * PartLength + loc])
    BY <2>2, <2>3 DEF Matches
  <2> QED
    BY <2>2, <2>4 DEF Induces, RecordOf
<1> QED
  BY <1>1, RefinementInvariance, PTL

\* pipelined_Inducing implements the sequential induction: what SA shows once
\* the pending writes are applied is the sequential pass's SA, step by step.
THEOREM PipelineImplementsScan == Spec => ImplementsSequential
<1>1. Init => Sequential!Init
  BY InitRefines
<1>2. RefinementInv /\ [Next]_vars => [Sequential!Next]_(Sequential!vars)
  BY NextRefines DEF Refines, Sequential!Next
<1> QED
  BY <1>1, <1>2, RefinementInvariance, PTL DEF Spec, Sequential!Spec, ImplementsSequential

-----------------------------------------------------------------------------
(* compute_types in the constructor *)

typing == INSTANCE ParallelTypes_proofs WITH
  thread_count <- block_amount, phase <- types_phase, i <- types_i,
  ThreadCounts <- Nat \ {0}

\* Bytes have bits, and there is a block.
LEMMA SizesFact == typing!SizesAssumption
BY MinSizeAssumption, TextsAssumption DEF typing!SizesAssumption

\* Texts are not empty and end in the sentinel, which occurs nowhere else.
LEMMA SentinelFact == typing!SentinelAssumption
<1> SUFFICES ASSUME NEW x \in Texts
             PROVE  /\ Len(x) > 0
                    /\ \A p \in 0 .. Len(x) - 1 :
                         x[p + 1] \in Int /\ (p # Len(x) - 1 => x[p + 1] # x[(Len(x) - 1) + 1])
  BY DEF typing!SentinelAssumption, typing!Positions, typing!At
<1>1. /\ x \in Seq(0 .. K - 1) /\ Len(x) \in Nat /\ Len(x) > 0 /\ K \in Nat
      /\ \A p \in 0 .. Len(x) - 1 : x[p + 1] = 0 <=> p = Len(x) - 1
  BY TextsAssumption, ConstantsAssumption DEF Positions, At
<1>2. \A p \in 0 .. Len(x) - 1 : x[p + 1] \in Int
  BY <1>1
<1> QED
  BY <1>1, <1>2

\* The constructor starts as compute_types does.
LEMMA InitFact == SaisInit => typing!BytesInv /\ typing!TypesInv
<1>1. compute_types!Init => typing!Init
  BY DEF compute_types!Init, typing!Init, compute_types!Threads, typing!Threads,
     compute_types!Length, typing!Length, compute_types!part_length, typing!part_length,
     compute_types!rest_length, typing!rest_length, compute_types!Last, typing!Last,
     compute_types!n, typing!n, compute_types!NotLoaded, typing!NotLoaded,
     compute_types!Positions, typing!Positions, compute_types!S_Type, typing!S_Type
<1> QED
  BY <1>1, SizesFact, SentinelFact, typing!InitBytes, typing!InitTypes DEF SaisInit

\* A step of the constructor's tasks is one of compute_types.
LEMMA TypesFact == ComputeTypes => typing!Next
<1> USE DEF compute_types!Threads, typing!Threads,
     compute_types!Length, typing!Length, compute_types!part_length, typing!part_length,
     compute_types!rest_length, typing!rest_length, compute_types!Last, typing!Last,
     compute_types!n, typing!n, compute_types!NotLoaded, typing!NotLoaded,
     compute_types!Positions, typing!Positions, compute_types!Offset, typing!Offset,
     compute_types!S_Type, typing!S_Type, compute_types!L_Type, typing!L_Type,
     compute_types!At, typing!At, compute_types!SameByte, typing!SameByte,
     compute_types!LoadByte, typing!LoadByte, compute_types!InFirstPass, typing!InFirstPass
<1>1. ASSUME NEW id, compute_types!TaskStep(id) PROVE typing!TaskStep(id)
  <2>1. compute_types!StoreByte(id) => typing!StoreByte(id)
    BY DEF compute_types!StoreByte, typing!StoreByte
  <2>2. compute_types!SkipLast(id) => typing!SkipLast(id)
    BY DEF compute_types!SkipLast, typing!SkipLast
  <2>3. compute_types!ClassifyByCharacter(id) => typing!ClassifyByCharacter(id)
    BY DEF compute_types!ClassifyByCharacter, typing!ClassifyByCharacter
  <2>4. compute_types!ClassifyByNeighbour(id) => typing!ClassifyByNeighbour(id)
    BY DEF compute_types!ClassifyByNeighbour, typing!ClassifyByNeighbour, compute_types!MayCopy, typing!MayCopy
  <2>5. compute_types!MoveBorder(id) => typing!MoveBorder(id)
    BY DEF compute_types!MoveBorder, typing!MoveBorder, compute_types!MayCopy, typing!MayCopy
  <2>6. compute_types!EndFirstPass(id) => typing!EndFirstPass(id)
    BY DEF compute_types!EndFirstPass, typing!EndFirstPass
  <2>7. compute_types!SetRest(id) => typing!SetRest(id)
    BY DEF compute_types!SetRest, typing!SetRest
  <2> QED
    BY <1>1, <2>1, <2>2, <2>3, <2>4, <2>5, <2>6, <2>7 DEF compute_types!TaskStep, typing!TaskStep
<1>2. compute_types!TakeOver => typing!TakeOver
  BY DEF compute_types!TakeOver, typing!TakeOver, compute_types!Informed, typing!Informed
<1>3. compute_types!Finish => typing!Finish
  BY DEF compute_types!Finish, typing!Finish
<1>4. compute_types!Threads = typing!Threads
  OBVIOUS
<1> QED
  BY <1>1, <1>2, <1>3, <1>4 DEF ComputeTypes, typing!Next

\* The pipeline and the sequential phases leave the text and the tasks alone.
LEMMA OtherSteps ==
  ASSUME [SaisNext]_saisVars, ~ComputeTypes
  PROVE  UNCHANGED << s, typesVars >> /\ UNCHANGED t
<1>1. CASE CallSais
  BY <1>1 DEF CallSais, tasksIdle
<1>2. CASE InsertUnsortedLMS
  BY <1>2 DEF InsertUnsortedLMS
<1>3. CASE Induce
  <2>1. UNCHANGED << s, t >>
    BY <1>3 DEF Induce, SecondPass, PipelineStep, NextIteration, TaskStep,
                PrepareReset, PrepareCell, PrepareEnd, InduceStart, InduceCell,
                InduceStore, InduceEnd, UpdateStart, UpdateEntry, UpdateEnd
  <2> QED
    BY <1>3, <2>1 DEF Induce
<1>4. CASE CollectLMS \/ NameNext \/ ShiftNames \/ Recurse \/ NamesAreRanks \/ RestoreLMS \/ PlaceLMS
  BY <1>4 DEF CollectLMS, NameNext, ShiftNames, Recurse, NamesAreRanks, RestoreLMS, PlaceLMS, tasksIdle
<1>5. CASE FinalInducing \/ Return
  BY <1>5 DEF FinalInducing, Return, vars
<1>6. CASE UNCHANGED saisVars
  BY <1>6 DEF saisVars, vars
<1> QED
  BY <1>1, <1>2, <1>3, <1>4, <1>5, <1>6 DEF SaisNext, SaisTerminating

\* So the tasks keep their invariants while the constructor runs.
LEMMA StepFact ==
  typing!BytesInv /\ typing!TypesInv /\ [SaisNext]_saisVars => typing!BytesInv' /\ typing!TypesInv'
<1>1. ASSUME ~ComputeTypes, [SaisNext]_saisVars PROVE UNCHANGED typing!vars
  BY <1>1, OtherSteps DEF typing!vars, block_amount, n, typesVars
<1> QED
  BY <1>1, SizesFact, SentinelFact, TypesFact, typing!StepBytes, typing!StepTypes

\* The bytes of the type bits stay apart while run_saca lets as many tasks as the
\* text has blocks compute the types (compute_types, setBit).
THEOREM SaisBytes == SaisSpec => []BytesNotShared
<1>1. typing!BytesInv => BytesNotShared
  <2>1. typing!BytesInv => typing!BytesNotShared
    BY SizesFact, typing!InvApart
  <2> QED
    BY <2>1 DEF BytesNotShared, compute_types!BytesNotShared, typing!BytesNotShared,
                compute_types!Threads, typing!Threads
<1> QED
  BY <1>1, InitFact, StepFact, PTL DEF SaisSpec

\* The types that run_saca goes on with are the suffix types of its text, whatever
\* the order of the tasks' loads and stores (compute_types).
THEOREM SaisTypes == SaisSpec => []TypesAreCorrect
<1>1. typing!TypesInv => TypesAreCorrect
  BY DEF TypesAreCorrect, compute_types!TypesAreCorrect, typing!TypesAreCorrect, typing!TypesInv,
         compute_types!Types, typing!Types, compute_types!Positions, typing!Positions,
         compute_types!IsS, typing!IsS, compute_types!At, typing!At,
         compute_types!S_Type, typing!S_Type, compute_types!L_Type, typing!L_Type
<1> QED
  BY <1>1, InitFact, StepFact, PTL DEF SaisSpec

-----------------------------------------------------------------------------
(* Finite sets and orders *)

\* A set of naturals that is not empty has a smallest element.
LEMMA Smallest ==
  ASSUME NEW T, T \subseteq Nat, T # {}
  PROVE  \E x \in T : \A y \in T : x <= y
<1>1. PICK x \in T : \A y \in T : ~ << y, x >> \in OpToRel(<, Nat)
  BY NatLessThanWellFounded, WFMin, Zenon
<1>2. ASSUME NEW y \in T PROVE ~(y < x)
  <2>1. x \in Nat /\ y \in Nat
    OBVIOUS
  <2> QED
    BY <1>1, <2>1, Zenon DEF OpToRel
<1> QED
  BY <1>2

\* n elements with n different numbers take all of them.
LEMMA FillsRange ==
  ASSUME NEW T, IsFiniteSet(T), NEW a \in Nat, NEW f,
         f \in [T -> a .. a + Cardinality(T) - 1],
         \A p, q \in T : f[p] = f[q] => p = q
  PROVE  \A k \in a .. a + Cardinality(T) - 1 : \E p \in T : f[p] = k
<1> DEFINE m == Cardinality(T)
           all == a .. a + m - 1
<1>1. m \in Nat
  BY FS_CardinalityType
<1>2. SUFFICES ASSUME NEW k \in all, \A p \in T : f[p] # k PROVE FALSE
  OBVIOUS
<1>3. IsFiniteSet(all) /\ Cardinality(all) = m /\ m > 0
  <2>1. a \in Int /\ a + m - 1 \in Int
    BY <1>1
  <2>2. IsFiniteSet(all) /\ Cardinality(all) = IF a > a + m - 1 THEN 0 ELSE (a + m - 1) - a + 1
    BY <2>1, FS_Interval
  <2>3. m > 0
    BY <1>1, <1>2
  <2> QED
    BY <1>1, <2>2, <2>3
<1> DEFINE some == all \ { k }
<1>4. IsFiniteSet(some) /\ Cardinality(some) = m - 1
  BY <1>3, FS_RemoveElement
<1>5. f \in [T -> some]
  BY <1>2
<1> HIDE DEF some, all
<1>6. Cardinality(some) < Cardinality(T)
  BY <1>1, <1>3, <1>4
<1>7. \E p, q \in T : p # q /\ f[p] = f[q]
  BY <1>4, <1>5, <1>6, FS_PigeonHole
<1> QED
  BY <1>7

\* A relation that is a strict order of a set.
Orders(R, T) ==
  /\ \A p \in T : << p, p >> \notin R
  /\ \A p, q, v \in T : << p, q >> \in R /\ << q, v >> \in R => << p, v >> \in R
  /\ \A p, q \in T : p # q => << p, q >> \in R \/ << q, p >> \in R

\* The place of p in that order.
Place(R, T, p) == Cardinality({ q \in T : << q, p >> \in R })

\* The places count the elements from 0, in their order.
LEMMA OrderPlaces ==
  ASSUME NEW T, IsFiniteSet(T), NEW R, Orders(R, T)
  PROVE  /\ Cardinality(T) \in Nat
         /\ \A p \in T : Place(R, T, p) \in 0 .. Cardinality(T) - 1
         /\ \A p, q \in T : << p, q >> \in R <=> Place(R, T, p) < Place(R, T, q)
         /\ \A p, q \in T : Place(R, T, p) = Place(R, T, q) => p = q
         /\ \A k \in 0 .. Cardinality(T) - 1 : \E p \in T : Place(R, T, p) = k
<1> DEFINE m == Cardinality(T)
           before(p) == { q \in T : << q, p >> \in R }
<1>1. m \in Nat
  BY FS_CardinalityType
<1>2. /\ \A p \in T : << p, p >> \notin R
      /\ \A p, q, v \in T : << p, q >> \in R /\ << q, v >> \in R => << p, v >> \in R
      /\ \A p, q \in T : p # q => << p, q >> \in R \/ << q, p >> \in R
  BY DEF Orders
<1>3. \A p \in T : Place(R, T, p) = Cardinality(before(p))
  BY DEF Place
<1>4. ASSUME NEW p \in T
      PROVE  IsFiniteSet(before(p)) /\ Place(R, T, p) \in 0 .. m - 1 /\ Place(R, T, p) \in Nat
  <2>1. before(p) \subseteq T /\ before(p) # T
    BY <1>2
  <2> HIDE DEF before
  <2>2. IsFiniteSet(before(p)) /\ Cardinality(before(p)) <= m /\ Cardinality(before(p)) # m
    BY <2>1, FS_Subset
  <2>3. Cardinality(before(p)) \in Nat
    BY <2>2, FS_CardinalityType
  <2> QED
    BY <1>1, <1>3, <2>2, <2>3
<1>5. ASSUME NEW p \in T, NEW q \in T, << p, q >> \in R PROVE Place(R, T, p) < Place(R, T, q)
  <2>1. before(p) \subseteq before(q) /\ before(p) # before(q)
    <3>1. p \in before(q) /\ p \notin before(p)
      BY <1>2, <1>5
    <3>2. before(p) \subseteq before(q)
      BY <1>2, <1>5
    <3> QED
      BY <3>1, <3>2
  <2>2. Place(R, T, p) \in Nat /\ Place(R, T, q) \in Nat /\ IsFiniteSet(before(q))
    BY <1>4
  <2> HIDE DEF before
  <2>3. Cardinality(before(p)) <= Cardinality(before(q)) /\ Cardinality(before(p)) # Cardinality(before(q))
    BY <2>1, <2>2, FS_Subset
  <2> QED
    BY <1>3, <2>2, <2>3
<1>6. \A p \in T : Place(R, T, p) \in Nat
  BY <1>4
<1>7. ASSUME NEW p \in T, NEW q \in T, Place(R, T, p) = Place(R, T, q) PROVE p = q
  <2>1. << p, q >> \notin R /\ << q, p >> \notin R
    BY <1>5, <1>6, <1>7
  <2> QED
    BY <1>2, <2>1
<1>8. ASSUME NEW p \in T, NEW q \in T, Place(R, T, p) < Place(R, T, q) PROVE << p, q >> \in R
  <2>1. p # q /\ << q, p >> \notin R
    BY <1>5, <1>6, <1>8
  <2> QED
    BY <1>2, <2>1
<1>9. \A k \in 0 .. m - 1 : \E p \in T : Place(R, T, p) = k
  <2> DEFINE f == [ p \in T |-> Place(R, T, p) ]
  <2>1. f \in [T -> 0 .. 0 + m - 1]
    <3>1. 0 .. 0 + m - 1 = 0 .. m - 1
      BY <1>1
    <3>2. f \in [T -> 0 .. m - 1]
      BY <1>4
    <3> QED
      BY <3>1, <3>2
  <2>2. \A p, q \in T : f[p] = f[q] => p = q
    BY <1>7
  <2> HIDE DEF f
  <2>3. \A k \in 0 .. 0 + m - 1 : \E p \in T : f[p] = k
    BY <2>1, <2>2, FillsRange
  <2> QED
    BY <1>1, <2>3 DEF f
<1> QED
  BY <1>1, <1>4, <1>5, <1>7, <1>8, <1>9

\* n different numbers below n, in order, are 0, 1, ..., n - 1.
LEMMA Identity ==
  ASSUME NEW m \in Nat, NEW f \in [0 .. m - 1 -> 0 .. m - 1],
         \A j, k \in 0 .. m - 1 : j < k => f[j] < f[k]
  PROVE  \A k \in 0 .. m - 1 : f[k] = k
<1>1. \A k \in 0 .. m - 1 : f[k] \in 0 .. m - 1
  OBVIOUS
<1> DEFINE Low == { k \in 0 .. m - 1 : f[k] < k }
           High == { k \in 0 .. m - 1 : f[m - 1 - k] > m - 1 - k }
<1>3. ASSUME Low # {} PROVE FALSE
  <2>1. PICK k \in Low : \A l \in Low : k <= l
    <3>1. Low \subseteq Nat
      OBVIOUS
    <3> HIDE DEF Low
    <3> QED
      BY <1>3, <3>1, Smallest
  <2>2. k \in 0 .. m - 1 /\ f[k] < k
    OBVIOUS
  <2>3. k - 1 \in 0 .. m - 1 /\ k - 1 < k
    BY <1>1, <2>2
  <2>4. ~(f[k - 1] < k - 1)
    BY <2>1, <2>3
  <2>5. f[k - 1] < f[k] /\ f[k - 1] \in Nat /\ f[k] \in Nat
    BY <1>1, <2>2, <2>3
  <2> QED
    BY <2>2, <2>3, <2>4, <2>5
<1>4. ASSUME High # {} PROVE FALSE
  <2>1. PICK k \in High : \A l \in High : k <= l
    <3>1. High \subseteq Nat
      OBVIOUS
    <3> HIDE DEF High
    <3> QED
      BY <1>4, <3>1, Smallest
  <2> DEFINE h == m - 1 - k
  <2>2. k \in 0 .. m - 1 /\ h \in 0 .. m - 1 /\ f[h] > h
    OBVIOUS
  <2>3. h + 1 \in 0 .. m - 1 /\ k - 1 \in 0 .. m - 1 /\ m - 1 - (k - 1) = h + 1 /\ h < h + 1
    BY <1>1, <2>2
  <2>4. ~(f[h + 1] > h + 1)
    <3>1. k - 1 \notin High
      <4> HIDE DEF High, h
      <4>1. k - 1 < k /\ k - 1 \in Nat /\ k \in Nat
        BY <2>2, <2>3
      <4> QED
        BY <2>1, <4>1
    <3>2. ~(f[m - 1 - (k - 1)] > m - 1 - (k - 1))
      BY <2>3, <3>1
    <3> QED
      BY <2>3, <3>2
  <2>5. f[h] < f[h + 1] /\ f[h] \in Nat /\ f[h + 1] \in Nat
    BY <1>1, <2>2, <2>3
  <2> QED
    BY <2>2, <2>3, <2>4, <2>5
<1> SUFFICES ASSUME NEW k \in 0 .. m - 1 PROVE f[k] = k
  OBVIOUS
<1>5. ~(f[k] < k)
  BY <1>3
<1>6. ~(f[k] > k)
  <2> DEFINE q == m - 1 - k
  <2>1. q \in 0 .. m - 1 /\ m - 1 - q = k
    OBVIOUS
  <2> HIDE DEF q
  <2>2. q \notin High
    BY <1>4
  <2>3. ~(f[m - 1 - q] > m - 1 - q)
    BY <2>1, <2>2
  <2> QED
    BY <2>1, <2>3
<1> QED
  BY <1>1, <1>5, <1>6


\* A text that ends in its only 0.
Terminated(x) ==
  /\ Len(x) \in Nat \ {0}
  /\ Positions(x) = 0 .. Len(x) - 1
  /\ \A p \in Positions(x) : At(x, p) \in Nat /\ (At(x, p) = 0 <=> p = Len(x) - 1)

\* Two suffixes differ at some character first, which decides their order.
DiffersAt(x, p, q, k) ==
  /\ k \in Nat
  /\ p + k < Len(x) /\ q + k < Len(x)
  /\ At(x, p + k) # At(x, q + k)
  /\ \A j \in 0 .. k - 1 : At(x, p + j) = At(x, q + j)

\* Two suffixes differ before the end of the text, as the sentinel is unique.
LEMMA FirstDifference ==
  ASSUME NEW x, Terminated(x), NEW p \in Positions(x), NEW q \in Positions(x), p # q
  PROVE  \E k \in Nat : DiffersAt(x, p, q, k)
<1>1. /\ Len(x) \in Nat \ {0} /\ Positions(x) = 0 .. Len(x) - 1
      /\ \A v \in 0 .. Len(x) - 1 : At(x, v) = 0 <=> v = Len(x) - 1
  BY DEF Terminated
<1> DEFINE Unlike == { k \in Nat : p + k < Len(x) /\ q + k < Len(x) /\ At(x, p + k) # At(x, q + k) }
<1>2. Unlike # {}
  <2>1. CASE p < q
    <3> DEFINE k == Len(x) - 1 - q
    <3>1. k \in Nat /\ p + k \in 0 .. Len(x) - 1 /\ q + k = Len(x) - 1 /\ p + k # Len(x) - 1
      BY <1>1, <2>1
    <3> HIDE DEF k
    <3>2. At(x, q + k) = 0 /\ At(x, p + k) # 0
      BY <1>1, <3>1
    <3>3. p + k < Len(x) /\ q + k < Len(x)
      BY <1>1, <3>1
    <3> QED
      BY <3>1, <3>2, <3>3
  <2>2. CASE q < p
    <3> DEFINE k == Len(x) - 1 - p
    <3>1. k \in Nat /\ q + k \in 0 .. Len(x) - 1 /\ p + k = Len(x) - 1 /\ q + k # Len(x) - 1
      BY <1>1, <2>2
    <3> HIDE DEF k
    <3>2. At(x, p + k) = 0 /\ At(x, q + k) # 0
      BY <1>1, <3>1
    <3>3. p + k < Len(x) /\ q + k < Len(x)
      BY <1>1, <3>1
    <3> QED
      BY <3>1, <3>2, <3>3
  <2>3. p < q \/ q < p
    BY <1>1
  <2> QED
    BY <2>1, <2>2, <2>3
<1>3. PICK k \in Unlike : \A j \in Unlike : k <= j
  <2>1. Unlike \subseteq Nat
    OBVIOUS
  <2> HIDE DEF Unlike
  <2> QED
    BY <1>2, <2>1, Smallest
<1>4. k \in Nat /\ p + k < Len(x) /\ q + k < Len(x) /\ At(x, p + k) # At(x, q + k)
  OBVIOUS
<1>5. ASSUME NEW j \in 0 .. k - 1 PROVE At(x, p + j) = At(x, q + j)
  <2>1. j \in Nat /\ p + j < Len(x) /\ q + j < Len(x) /\ ~(k <= j)
    BY <1>1, <1>4
  <2>2. j \notin Unlike
    <3> HIDE DEF Unlike
    <3> QED
      BY <1>3, <2>1
  <2> QED
    BY <2>1, <2>2
<1> QED
  BY <1>4, <1>5 DEF DiffersAt

\* The suffix order is decided where they differ first.
LEMMA LessAtDifference ==
  ASSUME NEW x, Terminated(x), NEW p \in Positions(x), NEW q \in Positions(x),
         NEW k \in Nat, DiffersAt(x, p, q, k)
  PROVE  SuffixLess(x, p, q) <=> At(x, p + k) < At(x, q + k)
<1>1. /\ Len(x) \in Nat \ {0} /\ Positions(x) = 0 .. Len(x) - 1 
      /\ \A v \in 0 .. Len(x) - 1 : At(x, v) \in Nat
  BY DEF Terminated
<1>2. /\ p + k < Len(x) /\ q + k < Len(x) /\ At(x, p + k) # At(x, q + k)
      /\ \A j \in 0 .. k - 1 : At(x, p + j) = At(x, q + j)
  BY DEF DiffersAt
<1>3. ASSUME SuffixLess(x, p, q) PROVE At(x, p + k) < At(x, q + k)
  <2>1. PICK h \in 0 .. Len(x) - 1 :
           /\ p + h < Len(x) /\ q + h < Len(x) /\ At(x, p + h) < At(x, q + h)
           /\ \A j \in 0 .. h - 1 : At(x, p + j) = At(x, q + j)
    BY <1>3 DEF SuffixLess
  <2>2. p + h \in 0 .. Len(x) - 1 /\ q + h \in 0 .. Len(x) - 1 /\ h \in Nat
    BY <1>1, <2>1
  <2>3. At(x, p + h) # At(x, q + h)
    <3>1. At(x, p + h) \in Nat
      BY <1>1, <2>2
    <3> QED
      BY <2>1, <3>1
  <2>4. ~(h < k) /\ ~(k < h)
    <3>1. h < k => h \in 0 .. k - 1
      BY <2>2
    <3>2. k < h => k \in 0 .. h - 1
      BY <2>2
    <3> QED
      BY <1>2, <2>1, <2>3, <3>1, <3>2
  <2>5. h = k
    BY <2>2, <2>4
  <2> QED
    BY <2>1, <2>5
<1>4. ASSUME At(x, p + k) < At(x, q + k) PROVE SuffixLess(x, p, q)
  <2>1. k \in 0 .. Len(x) - 1
    BY <1>1, <1>2
  <2> QED
    BY <1>2, <1>4, <2>1 DEF SuffixLess
<1> QED
  BY <1>3, <1>4

\* It is a strict total order.
LEMMA LessOrder ==
  ASSUME NEW x, Terminated(x)
  PROVE  /\ \A p \in Positions(x) : ~SuffixLess(x, p, p)
         /\ \A p, q, v \in Positions(x) :
              SuffixLess(x, p, q) /\ SuffixLess(x, q, v) => SuffixLess(x, p, v)
         /\ \A p, q \in Positions(x) : p # q => SuffixLess(x, p, q) \/ SuffixLess(x, q, p)
<1>1. /\ Len(x) \in Nat \ {0} /\ Positions(x) = 0 .. Len(x) - 1 
      /\ \A v \in 0 .. Len(x) - 1 : At(x, v) \in Nat
  BY DEF Terminated
<1>2. ASSUME NEW p \in Positions(x) PROVE ~SuffixLess(x, p, p)
  <2>1. \A k \in 0 .. Len(x) - 1 : p + k < Len(x) => At(x, p + k) \in Nat
    BY <1>1
  <2>2. \A k \in 0 .. Len(x) - 1 : p + k < Len(x) => ~(At(x, p + k) < At(x, p + k))
    BY <2>1
  <2> QED
    BY <2>2 DEF SuffixLess
<1>3. ASSUME NEW p \in Positions(x), NEW q \in Positions(x), NEW v \in Positions(x),
             SuffixLess(x, p, q), SuffixLess(x, q, v)
      PROVE  SuffixLess(x, p, v)
  <2>1. PICK h \in 0 .. Len(x) - 1 :
           /\ p + h < Len(x) /\ q + h < Len(x) /\ At(x, p + h) < At(x, q + h)
           /\ \A j \in 0 .. h - 1 : At(x, p + j) = At(x, q + j)
    BY <1>3 DEF SuffixLess
  <2>2. PICK k \in 0 .. Len(x) - 1 :
           /\ q + k < Len(x) /\ v + k < Len(x) /\ At(x, q + k) < At(x, v + k)
           /\ \A j \in 0 .. k - 1 : At(x, q + j) = At(x, v + j)
    BY <1>3 DEF SuffixLess
  <2>3. CASE h < k
    <3>1. h \in 0 .. k - 1 /\ v + h < Len(x)
      BY <1>1, <2>2, <2>3
    <3>2. At(x, p + h) < At(x, v + h)
      BY <2>1, <2>2, <3>1
    <3>3. \A j \in 0 .. h - 1 : At(x, p + j) = At(x, v + j)
      <4>1. \A j \in 0 .. h - 1 : j \in 0 .. k - 1
        BY <1>1, <2>3
      <4> QED
        BY <2>1, <2>2, <4>1
    <3> QED
      BY <2>1, <3>1, <3>2, <3>3 DEF SuffixLess
  <2>4. CASE k < h
    <3>1. k \in 0 .. h - 1 /\ p + k < Len(x)
      BY <1>1, <2>1, <2>4
    <3>2. At(x, p + k) < At(x, v + k)
      BY <2>1, <2>2, <3>1
    <3>3. \A j \in 0 .. k - 1 : At(x, p + j) = At(x, v + j)
      <4>1. \A j \in 0 .. k - 1 : j \in 0 .. h - 1
        BY <1>1, <2>4
      <4> QED
        BY <2>1, <2>2, <4>1
    <3> QED
      BY <2>2, <3>1, <3>2, <3>3 DEF SuffixLess
  <2>5. CASE h = k
    <3>1. At(x, p + h) \in Nat /\ At(x, q + h) \in Nat /\ At(x, v + h) \in Nat
      <4>1. p + h \in 0 .. Len(x) - 1 /\ q + h \in 0 .. Len(x) - 1 /\ v + h \in 0 .. Len(x) - 1
        BY <1>1, <2>1, <2>2, <2>5
      <4> QED
        BY <1>1, <4>1
    <3>2. At(x, p + h) < At(x, v + h)
      BY <2>1, <2>2, <2>5, <3>1
    <3>3. \A j \in 0 .. h - 1 : At(x, p + j) = At(x, v + j)
      BY <2>1, <2>2, <2>5
    <3> QED
      BY <2>1, <2>2, <2>5, <3>2, <3>3 DEF SuffixLess
  <2> QED
    BY <1>1, <2>3, <2>4, <2>5
<1>4. ASSUME NEW p \in Positions(x), NEW q \in Positions(x), p # q
      PROVE  SuffixLess(x, p, q) \/ SuffixLess(x, q, p)
  <2>1. PICK k \in Nat : DiffersAt(x, p, q, k)
    BY <1>4, FirstDifference
  <2>2. DiffersAt(x, q, p, k)
    BY <2>1 DEF DiffersAt
  <2>3. At(x, p + k) < At(x, q + k) \/ At(x, q + k) < At(x, p + k)
    <3>1. p + k \in 0 .. Len(x) - 1 /\ q + k \in 0 .. Len(x) - 1
      BY <1>1, <2>1 DEF DiffersAt
    <3>2. At(x, p + k) \in Nat /\ At(x, q + k) \in Nat /\ At(x, p + k) # At(x, q + k)
      BY <1>1, <2>1, <3>1 DEF DiffersAt
    <3> QED
      BY <3>2
  <2> QED
    BY <2>1, <2>2, <2>3, LessAtDifference
<1> QED
  BY <1>2, <1>3, <1>4

\* A text has as many suffixes as characters.
LEMMA PositionsFinite ==
  ASSUME NEW x, Terminated(x)
  PROVE  IsFiniteSet(Positions(x)) /\ Cardinality(Positions(x)) = Len(x)
<1>1. Len(x) \in Nat \ {0} /\ Positions(x) = 0 .. Len(x) - 1
  BY DEF Terminated
<1>2. 0 \in Int /\ Len(x) - 1 \in Int
  BY <1>1
<1>3. /\ IsFiniteSet(0 .. Len(x) - 1)
      /\ Cardinality(0 .. Len(x) - 1) = IF 0 > Len(x) - 1 THEN 0 ELSE (Len(x) - 1) - 0 + 1
  BY <1>2, FS_Interval
<1> QED
  BY <1>1, <1>3

\* The order as a relation, and the ranks as the places in it.
LessPairs(x) == { pq \in Positions(x) \X Positions(x) : SuffixLess(x, pq[1], pq[2]) }

\* Ranks number the suffixes in their order.
LEMMA RankFacts ==
  ASSUME NEW x, Terminated(x)
  PROVE  /\ \A p \in Positions(x) : Rank(x, p) \in Positions(x)
         /\ \A p, q \in Positions(x) : SuffixLess(x, p, q) <=> Rank(x, p) < Rank(x, q)
         /\ \A p, q \in Positions(x) : Rank(x, p) = Rank(x, q) => p = q
         /\ \A c \in Positions(x) : \E p \in Positions(x) : Rank(x, p) = c
<1> DEFINE R == LessPairs(x)
           T == Positions(x)
<1>1. Len(x) \in Nat \ {0} /\ T = 0 .. Len(x) - 1
  BY DEF Terminated
<1>2. IsFiniteSet(T) /\ Cardinality(T) = Len(x)
  BY PositionsFinite
<1>3. \A p, q \in T : << p, q >> \in R <=> SuffixLess(x, p, q)
  BY DEF LessPairs
<1>4. Orders(R, T)
  BY <1>3, LessOrder DEF Orders
<1>5. \A p \in T : Place(R, T, p) = Rank(x, p)
  <2> TAKE p \in T
  <2>1. { q \in T : << q, p >> \in R } = { q \in T : SuffixLess(x, q, p) }
    BY <1>3
  <2> QED
    BY <2>1 DEF Place, Rank
<1> HIDE DEF R, T
<1>6. /\ \A p \in T : Place(R, T, p) \in 0 .. Cardinality(T) - 1
      /\ \A p, q \in T : << p, q >> \in R <=> Place(R, T, p) < Place(R, T, q)
      /\ \A p, q \in T : Place(R, T, p) = Place(R, T, q) => p = q
      /\ \A k \in 0 .. Cardinality(T) - 1 : \E p \in T : Place(R, T, p) = k
  BY <1>2, <1>4, OrderPlaces
<1>7. \A p, q \in T : SuffixLess(x, p, q) <=> Rank(x, p) < Rank(x, q)
  BY <1>3, <1>5, <1>6
<1>8. \A p, q \in T : Rank(x, p) = Rank(x, q) => p = q
  BY <1>5, <1>6
<1>9. \A p \in T : Rank(x, p) \in T
  BY <1>1, <1>2, <1>5, <1>6
<1>10. ASSUME NEW c \in T PROVE \E p \in T : Rank(x, p) = c
  <2>1. c \in 0 .. Cardinality(T) - 1
    BY <1>1, <1>2
  <2>2. PICK p \in T : Place(R, T, p) = c
    BY <1>6, <2>1
  <2> QED
    BY <1>5, <2>2
<1> QED
  BY <1>7, <1>8, <1>9, <1>10 DEF T


\* An array in which every suffix is in the cell of its rank.
LEMMA IsSuffixArray ==
  ASSUME NEW x, Terminated(x), NEW a, a \in [Positions(x) -> Positions(x)],
         \A c \in Positions(x) : Rank(x, a[c]) = c
  PROVE  a = SuffixArray(x)
<1>1. \A p, q \in Positions(x) : Rank(x, p) = Rank(x, q) => p = q
  BY RankFacts
<1>2. ASSUME NEW c \in Positions(x) PROVE a[c] = CHOOSE p \in Positions(x) : Rank(x, p) = c
  <2>1. a[c] \in Positions(x) /\ Rank(x, a[c]) = c
    OBVIOUS
  <2>2. \A p \in Positions(x) : Rank(x, p) = c => p = a[c]
    BY <1>1, <2>1
  <2> QED
    BY <2>1, <2>2
<1> QED
  BY <1>2 DEF SuffixArray


\* Suffixes that begin alike for d characters are in the order of what follows.
LEMMA LessBehind ==
  ASSUME NEW x, Terminated(x), NEW p \in Positions(x), NEW q \in Positions(x), NEW d \in Nat,
         p + d \in Positions(x), q + d \in Positions(x),
         \A j \in 0 .. d - 1 : At(x, p + j) = At(x, q + j),
         SuffixLess(x, p + d, q + d)
  PROVE  SuffixLess(x, p, q)
<1>1. Len(x) \in Nat \ {0} /\ Positions(x) = 0 .. Len(x) - 1
  BY DEF Terminated
<1>2. PICK k \in 0 .. Len(x) - 1 :
         /\ p + d + k < Len(x) /\ q + d + k < Len(x)
         /\ At(x, p + d + k) < At(x, q + d + k)
         /\ \A j \in 0 .. k - 1 : At(x, p + d + j) = At(x, q + d + j)
  BY DEF SuffixLess
<1> DEFINE m == d + k
<1>3. m \in 0 .. Len(x) - 1 /\ p + m = p + d + k /\ q + m = q + d + k
  BY <1>1, <1>2
<1>4. ASSUME NEW j \in 0 .. m - 1 PROVE At(x, p + j) = At(x, q + j)
  <2>1. CASE j < d
    BY <2>1
  <2>2. CASE j >= d
    <3>1. /\ j - d \in 0 .. k - 1
          /\ p + d + (j - d) = p + j /\ q + d + (j - d) = q + j
      BY <1>1, <2>2
    <3>2. At(x, p + d + (j - d)) = At(x, q + d + (j - d))
      BY <1>2, <3>1
    <3> QED
      BY <3>1, <3>2
  <2> QED
    BY <2>1, <2>2
<1> HIDE DEF m
<1>5. p + m < Len(x) /\ q + m < Len(x) /\ At(x, p + m) < At(x, q + m)
  BY <1>2, <1>3
<1> QED
  BY <1>3, <1>4, <1>5 DEF SuffixLess

\* The first characters decide, if they differ; otherwise the next suffixes do.
LEMMA LessStep ==
  ASSUME NEW x, Terminated(x), NEW p \in Positions(x), NEW q \in Positions(x)
  PROVE  /\ At(x, p) < At(x, q) => SuffixLess(x, p, q)
         /\ At(x, p) = At(x, q) /\ p + 1 \in Positions(x) /\ q + 1 \in Positions(x) =>
              (SuffixLess(x, p, q) <=> SuffixLess(x, p + 1, q + 1))
<1>1. Len(x) \in Nat \ {0} /\ Positions(x) = 0 .. Len(x) - 1
  BY DEF Terminated
<1>2. ASSUME At(x, p) < At(x, q) PROVE SuffixLess(x, p, q)
  <2>1. 0 \in 0 .. Len(x) - 1 /\ p + 0 = p /\ q + 0 = q /\ p < Len(x) /\ q < Len(x)
    BY <1>1
  <2>2. \A j \in 0 .. 0 - 1 : At(x, p + j) = At(x, q + j)
    OBVIOUS
  <2> QED
    BY <1>2, <2>1, <2>2 DEF SuffixLess
<1>3. ASSUME NEW u \in Positions(x), NEW v \in Positions(x), At(x, u) = At(x, v),
             u + 1 \in Positions(x), v + 1 \in Positions(x), SuffixLess(x, u + 1, v + 1)
      PROVE  SuffixLess(x, u, v)
  <2>1. \A j \in 0 .. 1 - 1 : At(x, u + j) = At(x, v + j)
    <3>1. u + 0 = u /\ v + 0 = v
      BY <1>1
    <3>2. \A j \in 0 .. 1 - 1 : j = 0
      OBVIOUS
    <3> QED
      BY <1>3, <3>1, <3>2
  <2>2. 1 \in Nat
    OBVIOUS
  <2> QED
    BY <1>3, <2>1, <2>2, LessBehind
<1>4. ASSUME At(x, p) = At(x, q), p + 1 \in Positions(x), q + 1 \in Positions(x), SuffixLess(x, p, q)
      PROVE  SuffixLess(x, p + 1, q + 1)
  <2>1. p # q /\ ~SuffixLess(x, q, p)
    BY <1>4, LessOrder
  <2>2. p + 1 # q + 1
    BY <1>1, <2>1
  <2> QED
    BY <1>3, <1>4, <2>1, <2>2, LessOrder
<1> QED
  BY <1>2, <1>3, <1>4

\* A set of numbers below a bound that is not empty has a largest element.
LEMMA Largest ==
  ASSUME NEW m \in Nat, NEW T, T \subseteq 0 .. m, T # {}
  PROVE  \E x \in T : \A y \in T : y <= x
<1> DEFINE U == { y \in 0 .. m : m - y \in T }
<1>1. U \subseteq Nat /\ U # {}
  <2>1. PICK x \in T : TRUE
    OBVIOUS
  <2>2. m - x \in 0 .. m /\ m - (m - x) = x
    BY <2>1
  <2> QED
    BY <2>1, <2>2
<1>2. PICK u \in U : \A y \in U : u <= y
  <2> HIDE DEF U
  <2> QED
    BY <1>1, Smallest
<1>3. ASSUME NEW y \in T PROVE y <= m - u
  <2>1. m - y \in 0 .. m /\ m - (m - y) = y
    OBVIOUS
  <2>2. m - y \in U
    BY <2>1
  <2>3. u <= m - y /\ u \in 0 .. m /\ y \in 0 .. m
    BY <1>2, <2>2
  <2> QED
    BY <2>3
<1> QED
  BY <1>2, <1>3

-----------------------------------------------------------------------------
(* The types of the suffixes *)

\* The text and its types, once compute_types has ended.
Typed == s \in Texts /\ t = Types(s)

\* What the code relies on: characters, sentinel and types.
LEMMA TypedFacts ==
  ASSUME Typed
  PROVE  /\ TypesGiven /\ Terminated(s) /\ n \in Nat \ {0} /\ Positions(s) = 0 .. n - 1
         /\ \A p \in Positions(s) : /\ t[p] \in { L_Type, S_Type }
                                    /\ At(s, p) \in 0 .. K - 1
                                    /\ At(s, p) = 0 <=> p = n - 1
                                    /\ t[p] = S_Type <=> IsS(s, p)
<1>1. /\ s \in Texts /\ n \in Nat \ {0} /\ Positions(s) = 0 .. n - 1 /\ K \in Nat
      /\ \A j \in Positions(s) : At(s, j) \in 0 .. K - 1
      /\ L_Type # S_Type
  BY TextFacts, ConstantFacts DEF Typed, L_Type, S_Type
<1>2. \A j \in Positions(s) : At(s, j) = 0 <=> j = n - 1
  BY <1>1, TextsAssumption DEF n
<1>3. t = [ j \in Positions(s) |-> IF IsS(s, j) THEN S_Type ELSE L_Type ]
  BY DEF Typed, Types
<1>4. Terminated(s)
  BY <1>1, <1>2 DEF Terminated, n
<1>5. TypesGiven
  BY <1>1, <1>3 DEF TypesGiven
<1> QED
  BY <1>1, <1>2, <1>3, <1>4, <1>5

\* A suffix is of type S, L or its successor's type as its first character is
\* smaller than, larger than or the same as the next.
LEMMA TypeStep ==
  ASSUME Typed, NEW p \in 0 .. n - 2
  PROVE  /\ p \in Positions(s) /\ p + 1 \in Positions(s)
         /\ t[p] = L_Type => At(s, p) >= At(s, p + 1)
         /\ t[p] = S_Type => At(s, p) <= At(s, p + 1)
         /\ At(s, p) = At(s, p + 1) => t[p] = t[p + 1]
<1>1. /\ n \in Nat \ {0} /\ Positions(s) = 0 .. n - 1 /\ n = Len(s)
      /\ \A j \in Positions(s) : /\ t[j] \in { L_Type, S_Type }
                                 /\ At(s, j) \in Nat
                                 /\ At(s, j) = 0 <=> j = n - 1
                                 /\ t[j] = S_Type <=> IsS(s, j)
      /\ L_Type # S_Type
  BY TypedFacts DEF n, L_Type, S_Type
<1>2. p \in Positions(s) /\ p + 1 \in Positions(s) /\ p # n - 1
  BY <1>1
<1>3. ASSUME At(s, p) < At(s, p + 1) PROVE t[p] = S_Type
  <2>1. p \in p .. Len(s) - 2 /\ \A j \in p .. p : At(s, j) = At(s, p)
    <3>1. \A j \in p .. p : j = p
      BY <1>1
    <3> QED
      BY <1>1, <3>1
  <2>2. IsS(s, p)
    BY <1>3, <2>1 DEF IsS
  <2> QED
    BY <1>1, <1>2, <2>2
<1>4. ASSUME t[p] = S_Type, ~(At(s, p) < At(s, p + 1))
      PROVE  At(s, p) = At(s, p + 1) /\ t[p + 1] = S_Type
  <2>1. PICK e \in p .. Len(s) - 2 : At(s, e) < At(s, e + 1) /\ \A j \in p .. e : At(s, j) = At(s, p)
    BY <1>1, <1>2, <1>4 DEF IsS
  <2>2. e # p /\ e \in p + 1 .. Len(s) - 2 /\ p + 1 \in p .. e /\ \A j \in p + 1 .. e : j \in p .. e
    <3>1. e # p
      BY <1>4, <2>1
    <3> QED
      BY <1>1, <3>1
  <2>3. At(s, p + 1) = At(s, p) /\ \A j \in p + 1 .. e : At(s, j) = At(s, p + 1)
    BY <2>1, <2>2
  <2>4. IsS(s, p + 1)
    BY <2>1, <2>2, <2>3 DEF IsS
  <2> QED
    BY <1>1, <1>2, <2>3, <2>4
<1>5. ASSUME At(s, p) = At(s, p + 1), t[p + 1] = S_Type PROVE t[p] = S_Type
  <2>1. p + 1 # n - 1
    BY <1>1, <1>2, <1>5
  <2>2. PICK e \in p + 1 .. Len(s) - 2 :
           At(s, e) < At(s, e + 1) /\ \A j \in p + 1 .. e : At(s, j) = At(s, p + 1)
    BY <1>1, <1>2, <1>5, <2>1 DEF IsS
  <2>3. e \in p .. Len(s) - 2 /\ \A j \in p .. e : j = p \/ j \in p + 1 .. e
    BY <1>1
  <2>4. \A j \in p .. e : At(s, j) = At(s, p)
    BY <1>5, <2>2, <2>3
  <2>5. IsS(s, p)
    BY <2>2, <2>3, <2>4 DEF IsS
  <2> QED
    BY <1>1, <1>2, <2>5
<1>6. At(s, p) \in Nat /\ At(s, p + 1) \in Nat
  BY <1>1, <1>2
<1>7. t[p] \in { L_Type, S_Type } /\ t[p + 1] \in { L_Type, S_Type }
  BY <1>1, <1>2
<1>8. t[p] = L_Type => At(s, p) >= At(s, p + 1)
  BY <1>1, <1>3, <1>6
<1>9. t[p] = S_Type => At(s, p) <= At(s, p + 1)
  BY <1>4, <1>6
<1>10. ASSUME At(s, p) = At(s, p + 1) PROVE t[p] = t[p + 1]
  <2>1. ~(At(s, p) < At(s, p + 1))
    BY <1>6, <1>10
  <2>2. t[p] = S_Type <=> t[p + 1] = S_Type
    BY <1>4, <1>5, <1>10, <2>1
  <2> QED
    BY <1>7, <2>2
<1> QED
  BY <1>2, <1>8, <1>9, <1>10

\* The L-type suffixes of a character are smaller than its S-type suffixes.
LEMMA TypesLess ==
  ASSUME Typed, NEW p \in Positions(s), NEW q \in Positions(s), At(s, p) = At(s, q),
         t[p] = L_Type, t[q] = S_Type
  PROVE  SuffixLess(s, p, q)
<1> DEFINE c == At(s, p)
           Bad == { j \in Nat : /\ p + j < n /\ q + j < n
                                /\ \/ At(s, p + j) # c \/ t[p + j] # L_Type
                                   \/ At(s, q + j) # c \/ t[q + j] # S_Type }
<1>1. /\ n \in Nat \ {0} /\ Positions(s) = 0 .. n - 1 /\ n = Len(s) /\ Terminated(s)
      /\ \A j \in Positions(s) : /\ t[j] \in { L_Type, S_Type }
                                 /\ At(s, j) \in Nat
                                 /\ At(s, j) = 0 <=> j = n - 1
      /\ L_Type # S_Type
  BY TypedFacts DEF n, L_Type, S_Type
<1>2. p # q
  BY <1>1
<1>3. c # 0
  BY <1>1, <1>2
<1>4. Bad # {}
  <2>1. CASE p < q
    <3> DEFINE j == n - 1 - q
    <3>1. j \in Nat /\ p + j < n /\ q + j < n /\ q + j = n - 1 /\ n - 1 \in Positions(s)
      BY <1>1, <2>1
    <3>2. At(s, q + j) # c
      BY <1>1, <1>3, <3>1
    <3> QED
      BY <3>1, <3>2
  <2>2. CASE q < p
    <3> DEFINE j == n - 1 - p
    <3>1. j \in Nat /\ p + j < n /\ q + j < n /\ p + j = n - 1 /\ n - 1 \in Positions(s)
      BY <1>1, <2>2
    <3>2. At(s, p + j) # c
      BY <1>1, <1>3, <3>1
    <3> QED
      BY <3>1, <3>2
  <2> QED
    BY <1>1, <1>2, <2>1, <2>2
<1>5. PICK k \in Bad : \A j \in Bad : k <= j
  <2>1. Bad \subseteq Nat
    OBVIOUS
  <2> HIDE DEF Bad
  <2> QED
    BY <1>4, <2>1, Smallest
<1>6. /\ k \in Nat /\ p + k < n /\ q + k < n
      /\ \/ At(s, p + k) # c \/ t[p + k] # L_Type
         \/ At(s, q + k) # c \/ t[q + k] # S_Type
  OBVIOUS
<1>7. ASSUME NEW j \in 0 .. k - 1
      PROVE  At(s, p + j) = c /\ t[p + j] = L_Type /\ At(s, q + j) = c /\ t[q + j] = S_Type
  <2>1. j \in Nat /\ p + j < n /\ q + j < n /\ ~(k <= j)
    BY <1>1, <1>6
  <2>2. j \notin Bad
    <3> HIDE DEF Bad
    <3> QED
      BY <1>5, <2>1
  <2> QED
    BY <2>1, <2>2
<1> HIDE DEF Bad
<1>8. k # 0
  <2>1. p + 0 = p /\ q + 0 = q
    BY <1>1
  <2> QED
    BY <1>6, <2>1
<1>9. /\ k - 1 \in 0 .. k - 1
      /\ p + (k - 1) \in 0 .. n - 2 /\ q + (k - 1) \in 0 .. n - 2
      /\ p + (k - 1) + 1 = p + k /\ q + (k - 1) + 1 = q + k
      /\ p + k \in Positions(s) /\ q + k \in Positions(s)
  BY <1>1, <1>6, <1>8
<1>10. /\ At(s, p + (k - 1)) = c /\ t[p + (k - 1)] = L_Type
       /\ At(s, q + (k - 1)) = c /\ t[q + (k - 1)] = S_Type
  BY <1>7, <1>9
<1>11. /\ c >= At(s, p + k)
       /\ c = At(s, p + k) => t[p + k] = L_Type
  <2>1. /\ t[p + (k - 1)] = L_Type => At(s, p + (k - 1)) >= At(s, p + (k - 1) + 1)
        /\ At(s, p + (k - 1)) = At(s, p + (k - 1) + 1) => t[p + (k - 1)] = t[p + (k - 1) + 1]
    BY <1>9, TypeStep
  <2> QED
    BY <1>9, <1>10, <2>1
<1>12. /\ c <= At(s, q + k)
       /\ c = At(s, q + k) => t[q + k] = S_Type
  <2>1. /\ t[q + (k - 1)] = S_Type => At(s, q + (k - 1)) <= At(s, q + (k - 1) + 1)
        /\ At(s, q + (k - 1)) = At(s, q + (k - 1) + 1) => t[q + (k - 1)] = t[q + (k - 1) + 1]
    BY <1>9, TypeStep
  <2> QED
    BY <1>9, <1>10, <2>1
<1>13. At(s, p + k) < At(s, q + k)
  <2>1. At(s, p + k) \in Nat /\ At(s, q + k) \in Nat /\ c \in Nat
    BY <1>1, <1>9
  <2>2. At(s, p + k) # c \/ At(s, q + k) # c
    BY <1>6, <1>11, <1>12
  <2> HIDE DEF c
  <2> QED
    BY <1>11, <1>12, <2>1, <2>2
<1>14. \A j \in 0 .. k - 1 : At(s, p + j) = At(s, q + j)
  BY <1>7
<1>15. k \in 0 .. Len(s) - 1 /\ p + k < Len(s) /\ q + k < Len(s)
  BY <1>1, <1>6
<1> QED
  BY <1>13, <1>14, <1>15 DEF SuffixLess

\* Behind an L-type suffix comes one of type L or an LMS suffix; the sentinel is
\* an LMS suffix, with an L-type suffix before it.
LEMMA Neighbours ==
  ASSUME Typed
  PROVE  /\ t[n - 1] = S_Type
         /\ n >= 2 => is_LMS(t, n - 1)
         /\ \A q \in Positions(s) : t[q] = L_Type =>
              /\ q + 1 \in Positions(s)
              /\ t[q + 1] # L_Type => is_LMS(t, q + 1)
         /\ \A q \in Positions(s) : t[q] = S_Type /\ q # n - 1 =>
              q + 1 \in Positions(s) /\ q + 1 # n - 1
<1>1. /\ n \in Nat \ {0} /\ Positions(s) = 0 .. n - 1 /\ n = Len(s)
      /\ \A j \in Positions(s) : /\ t[j] \in { L_Type, S_Type }
                                 /\ At(s, j) \in Nat
                                 /\ At(s, j) = 0 <=> j = n - 1
                                 /\ t[j] = S_Type <=> IsS(s, j)
      /\ L_Type # S_Type
  BY TypedFacts DEF n, L_Type, S_Type
<1>2. t[n - 1] = S_Type /\ n - 1 \in Positions(s)
  BY <1>1 DEF IsS
<1>3. ASSUME NEW q \in Positions(s), q + 1 = n - 1 PROVE t[q] = L_Type
  <2>1. q \in 0 .. n - 2
    BY <1>1, <1>3
  <2>2. t[q] = S_Type => At(s, q) <= At(s, q + 1)
    BY <2>1, TypeStep
  <2>3. At(s, q) \in Nat /\ At(s, q) # 0 /\ At(s, q + 1) = 0
    BY <1>1, <1>2, <1>3
  <2> QED
    BY <1>1, <2>2, <2>3
<1>4. ASSUME n >= 2 PROVE is_LMS(t, n - 1)
  <2>1. n - 2 \in Positions(s) /\ n - 2 + 1 = n - 1 /\ n - 1 > 0 /\ n - 1 - 1 = n - 2
    BY <1>1, <1>4
  <2>2. t[n - 2] = L_Type
    BY <1>3, <2>1
  <2> QED
    BY <1>2, <2>1, <2>2 DEF is_LMS
<1>5. ASSUME NEW q \in Positions(s), t[q] = L_Type
      PROVE  q + 1 \in Positions(s) /\ (t[q + 1] # L_Type => is_LMS(t, q + 1))
  <2>1. q # n - 1
    BY <1>1, <1>2, <1>5
  <2>2. q + 1 \in Positions(s) /\ q + 1 > 0 /\ q + 1 - 1 = q
    BY <1>1, <2>1
  <2> QED
    BY <1>1, <1>5, <2>2 DEF is_LMS
<1>6. ASSUME NEW q \in Positions(s), t[q] = S_Type, q # n - 1
      PROVE  q + 1 \in Positions(s) /\ q + 1 # n - 1
  BY <1>1, <1>3, <1>6
<1> QED
  BY <1>2, <1>4, <1>5, <1>6

-----------------------------------------------------------------------------
(* What the passes put in order                                            *)
(*                                                                         *)
(* A pass sorts by any relation R that decides by the first characters,    *)
(* puts L-type before S-type, and of two suffixes of the pass's type with  *)
(* the same first character decides as of the suffixes behind them.  The   *)
(* relation is the suffix order in the final inducing, and an order of LMS *)
(* substrings in the first induction.                                      *)

PassOrder(ty, R) ==
  \A p, q \in Positions(s) :
    /\ At(s, p) < At(s, q) => << p, q >> \in R
    /\ At(s, p) = At(s, q) /\ t[p] = L_Type /\ t[q] = S_Type => << p, q >> \in R
    /\ At(s, p) = At(s, q) /\ t[p] = ty /\ t[q] = ty
         /\ p + 1 \in Positions(s) /\ q + 1 \in Positions(s) /\ << p + 1, q + 1 >> \in R
         => << p, q >> \in R

\* A cell whose suffix is there to stay: of the other type, or already put there
\* by the pass.
Settled(ty, A, b, x) ==
  A[x] # None /\ (t[A[x]] = ty => x \in Filled(ty, b, At(s, A[x])))

\* The suffixes a pass starts from.
IsSeed(ty, q) ==
  q \in Positions(s) /\ IF ty = L_Type THEN is_LMS(t, q) ELSE t[q] = L_Type

\* A suffix is in the part of its bucket that is for its type; settled cells are
\* in order; what a visited cell induces has been put into its bucket; the seeds
\* and the sentinel stay where they are.
OrderInv(ty, R, A, b, sc) ==
  /\ \A x \in Positions(s) : A[x] # None => x \in Region(t[A[x]], At(s, A[x]))
  /\ \A x, y \in Positions(s) :
       x < y /\ Settled(ty, A, b, x) /\ Settled(ty, A, b, y) => << A[x], A[y] >> \in R
  /\ \A y \in Visited(ty, sc) : Induces(ty, A[y]) =>
       \E x \in Filled(ty, b, At(s, A[y] - 1)) : A[x] = A[y] - 1
  /\ \A q : IsSeed(ty, q) => \E x \in Positions(s) : A[x] = q
  /\ A[0] = n - 1

\* The buckets' cells, and their order.
LEMMA RegionBounds ==
  ASSUME TypesGiven, NEW c \in 0 .. K - 1, NEW d \in 0 .. K - 1,
         NEW ty \in { L_Type, S_Type }, NEW tz \in { L_Type, S_Type },
         NEW x \in Region(ty, c), NEW y \in Region(tz, d), x < y
  PROVE  /\ c < d \/ c = d
         /\ c = d /\ tz = L_Type => ty = L_Type
<1>1. /\ Start(c) \in Nat /\ End(c) \in Nat /\ Count(c, L_Type) \in Nat /\ Count(c, S_Type) \in Nat
      /\ End(c) = Start(c) + Count(c, L_Type) + Count(c, S_Type)
      /\ Start(d) \in Nat /\ End(d) \in Nat /\ Count(d, L_Type) \in Nat /\ Count(d, S_Type) \in Nat
      /\ End(d) = Start(d) + Count(d, L_Type) + Count(d, S_Type)
      /\ d < c => End(d) <= Start(c)
      /\ L_Type # S_Type
  BY BucketBounds DEF L_Type, S_Type
<1>2. /\ x \in Int /\ x >= Start(c) /\ x < End(c)
      /\ ty = L_Type => x < Start(c) + Count(c, L_Type)
      /\ ty = S_Type => x >= End(c) - Count(c, S_Type)
  <2>1. CASE ty = L_Type
    BY <1>1, <2>1 DEF Region
  <2>2. CASE ty = S_Type
    BY <1>1, <2>2 DEF Region
  <2> QED
    BY <2>1, <2>2
<1>3. /\ y \in Int /\ y >= Start(d) /\ y < End(d)
      /\ tz = L_Type => y < Start(d) + Count(d, L_Type)
      /\ tz = S_Type => y >= End(d) - Count(d, S_Type)
  <2>1. CASE tz = L_Type
    BY <1>1, <2>1 DEF Region
  <2>2. CASE tz = S_Type
    BY <1>1, <2>2 DEF Region
  <2> QED
    BY <2>1, <2>2
<1>4. ~(d < c)
  BY <1>1, <1>2, <1>3
<1>5. c \in Int /\ d \in Int
  BY ConstantFacts
<1>6. c = d /\ tz = L_Type => ty = L_Type
  BY <1>1, <1>2, <1>3
<1> QED
  BY <1>4, <1>5, <1>6

\* A cell that induces is settled.
LEMMA InducingSettled ==
  ASSUME Typed, NEW ty \in { L_Type, S_Type }, NEW R, NEW A, NEW b, NEW sc,
         SeqInv(ty, A, b, sc), OrderInv(ty, R, A, b, sc),
         NEW y \in Positions(s), Induces(ty, A[y])
  PROVE  /\ Settled(ty, A, b, y)
         /\ A[y] \in Positions(s)
         /\ y \in Region(t[A[y]], At(s, A[y]))
         /\ At(s, A[y]) \in 0 .. K - 1 /\ t[A[y]] \in { L_Type, S_Type }
<1>1. /\ n \in Nat \ {0} /\ Positions(s) = 0 .. n - 1 /\ TypesGiven /\ None \in Nat /\ n < None
      /\ \A p \in Positions(s) : t[p] \in { L_Type, S_Type } /\ At(s, p) \in 0 .. K - 1
      /\ A \in [ Positions(s) -> Positions(s) \cup { None } ]
  BY TypedFacts, TextFacts, ConstantFacts DEF SeqInv, TypesGiven
<1>2. A[y] # None
  <2>1. None - 1 \notin Positions(s)
    BY <1>1, TextsAssumption, ConstantsAssumption, ConstantFacts DEF TypesGiven, n
  <2> QED
    BY <2>1 DEF Induces
<1>3. A[y] \in Positions(s)
  BY <1>1, <1>2
<1>4. y \in Region(t[A[y]], At(s, A[y]))
  BY <1>2 DEF OrderInv
<1>5. At(s, A[y]) \in 0 .. K - 1 /\ t[A[y]] \in { L_Type, S_Type }
  BY <1>1, <1>3
<1>6. ASSUME t[A[y]] = ty PROVE y \in Filled(ty, b, At(s, A[y]))
  <2> DEFINE c == At(s, A[y])
  <2>1. \A z \in Region(ty, c) \ Filled(ty, b, c) : ~Induces(ty, A[z])
    BY <1>5 DEF SeqInv
  <2>2. y \in Region(ty, c)
    BY <1>4, <1>6
  <2> QED
    BY <2>1, <2>2
<1> QED
  BY <1>2, <1>3, <1>4, <1>5, <1>6 DEF Settled

\* The cell an induced suffix goes to has not been visited yet.
LEMMA InducesAhead ==
  ASSUME Typed, NEW ty \in { L_Type, S_Type }, NEW R, NEW A, NEW b, NEW sc \in 0 .. n - 1,
         SeqInv(ty, A, b, sc), OrderInv(ty, R, A, b, sc), Induces(ty, A[CellAfter(ty, sc)]),
         NEW q, q = A[CellAfter(ty, sc)] - 1
  PROVE  NextFree(ty, b, At(s, q)) \notin Visited(ty, sc + 1)
<1> DEFINE v == CellAfter(ty, sc)
           c == At(s, q)
           f == NextFree(ty, b, c)
           d == At(s, q + 1)
<1>1. /\ n \in Nat \ {0} /\ Positions(s) = 0 .. n - 1 /\ TypesGiven
      /\ L_Type # S_Type
  BY TypedFacts DEF L_Type, S_Type
<1>2. /\ v \in Positions(s) /\ A[v] \in Positions(s) /\ q \in Positions(s) /\ t[q] = ty
      /\ c \in 1 .. K - 1 /\ f \in Region(ty, c) /\ f \in Positions(s)
  BY <1>1, InducedFacts
<1>3. A[v] = q + 1 /\ q \in 0 .. n - 2
  BY <1>1, <1>2
<1>4. /\ Settled(ty, A, b, v) /\ v \in Region(t[q + 1], d) /\ d \in 0 .. K - 1
      /\ t[q + 1] \in { L_Type, S_Type }
  <2>1. /\ Settled(ty, A, b, v) /\ v \in Region(t[A[v]], At(s, A[v]))
        /\ At(s, A[v]) \in 0 .. K - 1 /\ t[A[v]] \in { L_Type, S_Type }
    BY <1>2, InducingSettled
  <2> QED
    BY <1>3, <2>1
<1>5. /\ t[q] = L_Type => c >= d
      /\ t[q] = S_Type => c <= d
      /\ c = d => t[q + 1] = ty
  BY <1>2, <1>3, TypeStep
<1>6. c = d => v \in Filled(ty, b, c)
  BY <1>3, <1>4, <1>5 DEF Settled
<1>7. b[c] \in Int /\ v \in Int /\ f \in Int /\ c \in 0 .. K - 1 /\ c \in Int /\ d \in Int /\ K \in Nat
  <2>1. c \in 0 .. K - 1 /\ K \in Nat
    BY <1>2, ConstantFacts
  <2>2. b \in [ 0 .. K - 1 -> Int ]
    BY DEF SeqInv
  <2> QED
    BY <1>1, <1>2, <1>4, <2>1, <2>2
<1> HIDE DEF v, c, d, f
<1>8. CASE ty = L_Type
  <2>1. f > v
    <3>1. CASE c = d
      <4>1. v <= b[c] - 1 /\ f = b[c]
        BY <1>6, <1>7, <1>8, <3>1 DEF Filled, f, NextFree
      <4> QED
        BY <1>7, <4>1
    <3>2. CASE d < c
      <4>1. v # f
        BY <1>1, <1>2, <1>4, <1>7, <3>2, RegionsApart
      <4>2. ~(f < v)
        BY <1>1, <1>2, <1>4, <1>7, <3>2, RegionBounds
      <4> QED
        BY <1>7, <4>1, <4>2
    <3> QED
      BY <1>2, <1>5, <1>7, <1>8, <3>1, <3>2
  <2> QED
    BY <1>7, <1>8, <2>1 DEF Visited, CellAfter, v, f, c
<1>9. CASE ty = S_Type
  <2>1. f < v
    <3>1. CASE c = d
      <4>1. v >= b[c] /\ f = b[c] - 1
        BY <1>1, <1>6, <1>7, <1>9, <3>1 DEF Filled, f, NextFree
      <4> QED
        BY <1>7, <4>1
    <3>2. CASE c < d
      <4>1. v # f
        BY <1>1, <1>2, <1>4, <1>7, <3>2, RegionsApart
      <4>2. ~(v < f)
        BY <1>1, <1>2, <1>4, <1>7, <3>2, RegionBounds
      <4> QED
        BY <1>7, <4>1, <4>2
    <3> QED
      BY <1>2, <1>5, <1>7, <1>9, <3>1, <3>2
  <2>2. v = n - 1 - sc
    BY <1>1, <1>9 DEF CellAfter, v
  <2>3. f \notin n - (sc + 1) .. n - 1
    BY <1>1, <1>7, <2>1, <2>2
  <2> QED
    BY <1>1, <1>9, <2>3 DEF Visited, f, c
<1> QED
  BY <1>8, <1>9

\* The induced suffix belongs where it is put: behind the settled suffixes in
\* the cells below, before those in the cells above.
LEMMA InducedInOrder ==
  ASSUME Typed, NEW ty \in { L_Type, S_Type }, NEW R, NEW A, NEW b, NEW sc \in 0 .. n - 1,
         PassOrder(ty, R), SeqInv(ty, A, b, sc), OrderInv(ty, R, A, b, sc),
         Induces(ty, A[CellAfter(ty, sc)]),
         NEW q, q = A[CellAfter(ty, sc)] - 1,
         NEW x \in Positions(s), Settled(ty, A, b, x)
  PROVE  /\ x < NextFree(ty, b, At(s, q)) => << A[x], q >> \in R
         /\ NextFree(ty, b, At(s, q)) < x => << q, A[x] >> \in R
<1> DEFINE v == CellAfter(ty, sc)
           c == At(s, q)
           f == NextFree(ty, b, c)
           a == A[x]
           d == At(s, a)
<1>1. /\ n \in Nat \ {0} /\ Positions(s) = 0 .. n - 1 /\ TypesGiven
      /\ L_Type # S_Type
      /\ A \in [ Positions(s) -> Positions(s) \cup { None } ]
      /\ \A p \in Positions(s) : t[p] \in { L_Type, S_Type } /\ At(s, p) \in 0 .. K - 1
  BY TypedFacts DEF L_Type, S_Type, SeqInv
<1>2. /\ v \in Positions(s) /\ A[v] \in Positions(s) /\ q \in Positions(s) /\ t[q] = ty
      /\ c \in 1 .. K - 1 /\ f \in Region(ty, c) /\ f \in Positions(s)
  BY <1>1, InducedFacts
<1>3. A[v] = q + 1 /\ q + 1 \in Positions(s) /\ Settled(ty, A, b, v)
  <2>1. Settled(ty, A, b, v)
    BY <1>2, InducingSettled
  <2>2. A[v] = q + 1
    BY <1>1, <1>2
  <2> QED
    BY <1>2, <2>1, <2>2
<1>4. /\ a \in Positions(s) /\ x \in Region(t[a], d) /\ d \in 0 .. K - 1 /\ t[a] \in { L_Type, S_Type }
      /\ t[a] = ty => x \in Filled(ty, b, d)
  <2>1. A[x] # None /\ (t[A[x]] = ty => x \in Filled(ty, b, At(s, A[x])))
    BY DEF Settled
  <2> QED
    BY <1>1, <2>1 DEF OrderInv
<1>5. b[c] \in Int /\ x \in Int /\ f \in Int /\ c \in 0 .. K - 1 /\ c \in Int /\ d \in Int /\ K \in Nat /\ v \in Int
  <2>1. c \in 0 .. K - 1 /\ K \in Nat
    BY <1>2, ConstantFacts
  <2>2. b \in [ 0 .. K - 1 -> Int ]
    BY DEF SeqInv
  <2> QED
    BY <1>1, <1>2, <1>4, <2>1, <2>2
<1>6. /\ c < d => << q, a >> \in R
      /\ d < c => << a, q >> \in R
      /\ c = d /\ t[q] = L_Type /\ t[a] = S_Type => << q, a >> \in R
      /\ c = d /\ t[a] = L_Type /\ t[q] = S_Type => << a, q >> \in R
  BY <1>2, <1>4 DEF PassOrder
<1>7. ASSUME c = d, t[a] = ty
      PROVE  \E z \in Visited(ty, sc) :
               z \in Positions(s) /\ A[z] = a + 1 /\ a + 1 \in Positions(s) /\ Settled(ty, A, b, z)
  <2>1. PICK z \in Visited(ty, sc) : A[z] = a + 1
    BY <1>4, <1>7 DEF SeqInv
  <2>2. z \in Positions(s)
    BY <1>1, <2>1 DEF Visited
  <2>3. A[z] - 1 = a
    <3> HIDE DEF a
    <3> QED
      BY <1>1, <1>4, <2>1
  <2>4. Induces(ty, A[z])
    <3> HIDE DEF a
    <3> QED
      BY <1>4, <1>7, <2>3 DEF Induces
  <2> QED
    BY <2>1, <2>2, <2>4, InducingSettled
<1>8. /\ c = d /\ t[a] = ty /\ << q + 1, a + 1 >> \in R /\ a + 1 \in Positions(s) => << q, a >> \in R
      /\ c = d /\ t[a] = ty /\ << a + 1, q + 1 >> \in R /\ a + 1 \in Positions(s) => << a, q >> \in R
  BY <1>2, <1>3, <1>4 DEF PassOrder
<1> HIDE DEF v, c, d, f, a
<1>9. CASE c = d /\ t[a] = ty
  <2>1. PICK z \in Visited(ty, sc) :
          z \in Positions(s) /\ A[z] = a + 1 /\ a + 1 \in Positions(s) /\ Settled(ty, A, b, z)
    BY <1>7, <1>9
  <2>2. z \in Int
    BY <1>1, <2>1
  <2>3. CASE ty = L_Type
    <3>1. x < f
      BY <1>4, <1>5, <1>9, <2>3 DEF Filled, f, NextFree
    <3>2. z < v
      BY <2>1, <2>2, <2>3 DEF Visited, v, CellAfter
    <3>3. << a + 1, q + 1 >> \in R
      BY <1>2, <1>3, <2>1, <3>2 DEF OrderInv
    <3> QED
      BY <1>5, <1>8, <1>9, <2>1, <3>1, <3>3 DEF a, f, c
  <2>4. CASE ty = S_Type
    <3>1. f < x
      <4>1. x >= b[c] /\ f = b[c] - 1
        BY <1>1, <1>4, <1>5, <1>9, <2>4 DEF Filled, f, NextFree
      <4> QED
        BY <1>5, <4>1
    <3>2. v < z
      <4>1. v = n - 1 - sc /\ z \in n - sc .. n - 1
        BY <1>1, <2>1, <2>4 DEF Visited, v, CellAfter
      <4> QED
        BY <1>1, <2>2, <4>1
    <3>3. << q + 1, a + 1 >> \in R
      BY <1>2, <1>3, <2>1, <3>2 DEF OrderInv
    <3> QED
      BY <1>5, <1>8, <1>9, <2>1, <3>1, <3>3 DEF a, f, c
  <2> QED
    BY <2>3, <2>4
<1>10. CASE ~(c = d /\ t[a] = ty)
  <2>1. ASSUME x < f PROVE << a, q >> \in R
    <3>1. d < c \/ d = c
      BY <1>1, <1>2, <1>4, <1>5, <2>1, RegionBounds
    <3>2. d = c => (ty = L_Type => t[a] = L_Type)
      BY <1>1, <1>2, <1>4, <1>5, <2>1, RegionBounds
    <3>3. d = c => t[a] = L_Type /\ t[q] = S_Type
      BY <1>1, <1>2, <1>4, <1>10, <3>2
    <3> QED
      BY <1>6, <3>1, <3>3
  <2>2. ASSUME f < x PROVE << q, a >> \in R
    <3>1. c < d \/ c = d
      BY <1>1, <1>2, <1>4, <1>5, <2>2, RegionBounds
    <3>2. c = d => (t[a] = L_Type => ty = L_Type)
      BY <1>1, <1>2, <1>4, <1>5, <2>2, RegionBounds
    <3>3. c = d => t[q] = L_Type /\ t[a] = S_Type
      BY <1>1, <1>2, <1>4, <1>10, <3>2
    <3> QED
      BY <1>6, <3>1, <3>3
  <2> QED
    BY <2>1, <2>2 DEF a, f, c
<1> QED
  BY <1>9, <1>10

\* A visited cell that induces nothing leaves the order as it is.
LEMMA OrderAfterNothing ==
  ASSUME Typed, NEW ty \in { L_Type, S_Type }, NEW R, NEW A, NEW b, NEW sc \in 0 .. n - 1,
         OrderInv(ty, R, A, b, sc), ~Induces(ty, A[CellAfter(ty, sc)])
  PROVE  OrderInv(ty, R, A, b, sc + 1)
<1>1. n \in Nat \ {0} /\ L_Type # S_Type
  BY TypedFacts DEF L_Type, S_Type
<1>2. ASSUME NEW y \in Visited(ty, sc + 1), y \notin Visited(ty, sc) PROVE y = CellAfter(ty, sc)
  <2>1. CASE ty = L_Type
    BY <1>1, <1>2, <2>1 DEF Visited, CellAfter
  <2>2. CASE ty = S_Type
    <3>1. y \in n - (sc + 1) .. n - 1 /\ y \notin n - sc .. n - 1
      BY <1>1, <1>2, <2>2 DEF Visited
    <3>2. y = n - 1 - sc
      BY <1>1, <3>1
    <3> QED
      BY <1>1, <2>2, <3>2 DEF CellAfter
  <2> QED
    BY <2>1, <2>2
<1>3. ASSUME NEW y \in Visited(ty, sc + 1), Induces(ty, A[y])
      PROVE  \E x \in Filled(ty, b, At(s, A[y] - 1)) : A[x] = A[y] - 1
  <2>1. y \in Visited(ty, sc)
    BY <1>2, <1>3
  <2> QED
    BY <1>3, <2>1 DEF OrderInv
<1> QED
  BY <1>3 DEF OrderInv

\* The suffix that a visited cell induces joins the order.
LEMMA OrderAfterInduced ==
  ASSUME Typed, NEW ty \in { L_Type, S_Type }, NEW R, NEW A, NEW b, NEW sc \in 0 .. n - 1,
         PassOrder(ty, R), SeqInv(ty, A, b, sc), OrderInv(ty, R, A, b, sc),
         Induces(ty, A[CellAfter(ty, sc)]),
         NEW q, q = A[CellAfter(ty, sc)] - 1
  PROVE  OrderInv(ty, R, [ A EXCEPT ![NextFree(ty, b, At(s, q))] = q ],
                  Advanced(ty, b, At(s, q)), sc + 1)
<1> DEFINE v == CellAfter(ty, sc)
           c == At(s, q)
           f == NextFree(ty, b, c)
           A2 == [ A EXCEPT ![f] = q ]
           b2 == Advanced(ty, b, c)
<1>1. /\ n \in Nat \ {0} /\ Positions(s) = 0 .. n - 1 /\ TypesGiven
      /\ L_Type # S_Type /\ None \in Nat /\ n < None
      /\ A \in [ Positions(s) -> Positions(s) \cup { None } ]
      /\ \A p \in Positions(s) : t[p] \in { L_Type, S_Type } /\ At(s, p) \in 0 .. K - 1
  BY TypedFacts, TextFacts, ConstantFacts DEF L_Type, S_Type, SeqInv, TypesGiven
<1>2. /\ v \in Positions(s) /\ A[v] \in Positions(s) /\ q \in Positions(s) /\ t[q] = ty
      /\ c \in 0 .. K - 1 /\ f \in Region(ty, c) /\ f \in Positions(s) /\ f # 0
      /\ \A d \in 0 .. K - 1 : f \notin Filled(ty, b, d)
      /\ q # None
  <2>1. /\ v \in Positions(s) /\ A[v] \in Positions(s) /\ q \in Positions(s) /\ t[q] = ty
        /\ f \in Region(ty, c) /\ f \in Positions(s) /\ f # 0
        /\ \A d \in 0 .. K - 1 : f \notin Filled(ty, b, d)
    BY <1>1, InducedFacts
  <2> QED
    BY <1>1, <2>1
<1>3. f \notin Visited(ty, sc + 1)
  BY InducesAhead
<1>4. \A d \in 0 .. K - 1 :
        Filled(ty, b2, d) = (IF d = c THEN Filled(ty, b, c) \cup { f } ELSE Filled(ty, b, d))
  <2> TAKE d \in 0 .. K - 1
  <2>1. TypesGiven /\ c \in 0 .. K - 1 /\ NextFree(ty, b, c) \in Region(ty, c)
    BY <1>1, <1>2
  <2> HIDE DEF c
  <2> QED
    BY <2>1, AdvancedFilled
<1>5. /\ A2[f] = q
      /\ \A x \in Positions(s) : x # f => A2[x] = A[x]
  BY <1>1, <1>2
<1>6. ASSUME NEW x \in Positions(s), Settled(ty, A, b, x)
      PROVE  (x < f => << A[x], q >> \in R) /\ (f < x => << q, A[x] >> \in R)
  BY <1>6, InducedInOrder
<1>7. \A y \in Visited(ty, sc + 1) : y \in Visited(ty, sc) \/ y = v
  <2>1. CASE ty = L_Type
    BY <1>1, <2>1 DEF Visited, CellAfter
  <2>2. CASE ty = S_Type
    <3>1. Visited(ty, sc + 1) = n - (sc + 1) .. n - 1 /\ Visited(ty, sc) = n - sc .. n - 1
          /\ v = n - 1 - sc
      BY <1>1, <2>2 DEF Visited, CellAfter
    <3> QED
      BY <1>1, <3>1
  <2> QED
    BY <2>1, <2>2
<1>8. Visited(ty, sc + 1) \subseteq Positions(s)
  BY <1>1 DEF Visited
<1> HIDE DEF v, c, f, A2, b2
<1>9. ASSUME NEW x \in Positions(s), x # f, Settled(ty, A2, b2, x) PROVE Settled(ty, A, b, x)
  <2>1. A2[x] = A[x] /\ A[x] # None
    BY <1>5, <1>9 DEF Settled
  <2>2. ASSUME t[A[x]] = ty PROVE x \in Filled(ty, b, At(s, A[x]))
    <3>1. At(s, A[x]) \in 0 .. K - 1
      BY <1>1, <2>1
    <3>2. x \in Filled(ty, b2, At(s, A[x]))
      BY <1>9, <2>1, <2>2 DEF Settled
    <3> QED
      BY <1>4, <1>9, <3>1, <3>2
  <2> QED
    BY <2>1, <2>2 DEF Settled
<1>10. ASSUME NEW x \in Positions(s), A2[x] # None PROVE x \in Region(t[A2[x]], At(s, A2[x]))
  <2>1. CASE x = f
    BY <1>2, <1>5, <2>1 DEF c
  <2>2. CASE x # f
    <3>1. A2[x] = A[x] /\ A[x] # None
      BY <1>5, <1>10, <2>2
    <3> QED
      BY <3>1 DEF OrderInv
  <2> QED
    BY <2>1, <2>2
<1>11. ASSUME NEW x \in Positions(s), NEW y \in Positions(s), x < y,
              Settled(ty, A2, b2, x), Settled(ty, A2, b2, y)
       PROVE  << A2[x], A2[y] >> \in R
  <2>1. CASE x = f
    <3>1. y # f
      BY <1>1, <1>11, <2>1
    <3>2. A2[y] = A[y] /\ Settled(ty, A, b, y)
      BY <1>5, <1>9, <1>11, <3>1
    <3> QED
      BY <1>5, <1>6, <1>11, <2>1, <3>2
  <2>2. CASE y = f
    <3>1. x # f
      BY <1>1, <1>11, <2>2
    <3>2. A2[x] = A[x] /\ Settled(ty, A, b, x)
      BY <1>5, <1>9, <1>11, <3>1
    <3> QED
      BY <1>5, <1>6, <1>11, <2>2, <3>2
  <2>3. CASE x # f /\ y # f
    <3>1. A2[x] = A[x] /\ Settled(ty, A, b, x) /\ A2[y] = A[y] /\ Settled(ty, A, b, y)
      BY <1>5, <1>9, <1>11, <2>3
    <3> QED
      BY <1>11, <3>1 DEF OrderInv
  <2> QED
    BY <2>1, <2>2, <2>3
<1>12. ASSUME NEW y \in Visited(ty, sc + 1), Induces(ty, A2[y])
       PROVE  \E x \in Filled(ty, b2, At(s, A2[y] - 1)) : A2[x] = A2[y] - 1
  <2>1. y \in Positions(s) /\ y # f /\ A2[y] = A[y]
    BY <1>3, <1>5, <1>8
  <2>2. CASE y = v
    <3>1. A2[y] - 1 = q
      BY <2>1, <2>2 DEF v
    <3>2. f \in Filled(ty, b2, c)
      BY <1>2, <1>4
    <3> QED
      BY <1>5, <3>1, <3>2 DEF c
  <2>3. CASE y \in Visited(ty, sc)
    <3>1. PICK x \in Filled(ty, b, At(s, A[y] - 1)) : A[x] = A[y] - 1
      BY <1>12, <2>1, <2>3 DEF OrderInv
    <3>2. At(s, A[y] - 1) \in 0 .. K - 1
      BY <1>1, <1>12, <2>1 DEF Induces
    <3>3. x # f /\ x \in Positions(s)
      <4>1. x \in Region(ty, At(s, A[y] - 1))
        BY <1>1, <3>1, <3>2, FilledInRegion
      <4> QED
        BY <1>1, <1>2, <3>1, <3>2, <4>1, RegionsApart
    <3>4. x \in Filled(ty, b2, At(s, A[y] - 1))
      BY <1>4, <3>1, <3>2
    <3> QED
      BY <1>5, <2>1, <3>1, <3>3, <3>4
  <2> QED
    BY <1>7, <2>2, <2>3
<1>13. ASSUME NEW p, IsSeed(ty, p) PROVE \E x \in Positions(s) : A2[x] = p
  <2>1. PICK x \in Positions(s) : A[x] = p
    BY <1>13 DEF OrderInv
  <2>2. p \in Positions(s) /\ t[p] # ty /\ t[p] \in { L_Type, S_Type } /\ At(s, p) \in 0 .. K - 1
    BY <1>1, <1>13 DEF IsSeed, is_LMS
  <2>3. p # None
    BY <1>1, <2>2
  <2>4. x \in Region(t[p], At(s, p))
    BY <2>1, <2>3 DEF OrderInv
  <2>5. x # f
    BY <1>1, <1>2, <2>2, <2>4, RegionsApart
  <2> QED
    BY <1>5, <2>1, <2>5
<1>14. A2[0] = n - 1
  <2>1. 0 \in Positions(s) /\ A[0] = n - 1
    BY <1>1 DEF OrderInv
  <2> QED
    BY <1>2, <1>5, <2>1
<1>15. OrderInv(ty, R, A2, b2, sc + 1)
  BY <1>10, <1>11, <1>12, <1>13, <1>14 DEF OrderInv
<1> QED
  BY <1>15 DEF A2, b2, f, c

\* At the end of the L pass every L-type suffix is in its bucket, and the S pass
\* starts from them.
LEMMA OrderSwitches ==
  ASSUME Typed, n >= 2, NEW R, NEW Q, NEW A, NEW b,
         SeqInv(L_Type, A, b, n), OrderInv(L_Type, R, A, b, n),
         \A p, q \in Positions(s) :
           t[p] = L_Type /\ t[q] = L_Type /\ << p, q >> \in R => << p, q >> \in Q
  PROVE  OrderInv(S_Type, Q, A, generate_buckets(s, K, TRUE), 0)
<1> DEFINE b2 == generate_buckets(s, K, TRUE)
<1>1. /\ n \in Nat \ {0} /\ Positions(s) = 0 .. n - 1 /\ TypesGiven
      /\ L_Type # S_Type /\ None \in Nat /\ n < None
      /\ A \in [ Positions(s) -> Positions(s) \cup { None } ]
      /\ \A p \in Positions(s) : t[p] \in { L_Type, S_Type } /\ At(s, p) \in 0 .. K - 1
  BY TypedFacts, TextFacts, ConstantFacts DEF L_Type, S_Type, SeqInv, TypesGiven
<1>2. \A c \in 0 .. K - 1 : Filled(S_Type, b2, c) = {}
  <2> TAKE c \in 0 .. K - 1
  <2>1. b2[c] = End(c) /\ End(c) \in Nat
    BY <1>1, BucketBounds DEF End
  <2> HIDE DEF b2
  <2> QED
    BY <1>1, <2>1 DEF Filled
<1> HIDE DEF b2
<1>3. ASSUME NEW x \in Positions(s), Settled(S_Type, A, b2, x)
      PROVE  A[x] \in Positions(s) /\ t[A[x]] = L_Type /\ Settled(L_Type, A, b, x)
  <2>1. A[x] # None /\ A[x] \in Positions(s) /\ At(s, A[x]) \in 0 .. K - 1
        /\ t[A[x]] \in { L_Type, S_Type }
    BY <1>1, <1>3 DEF Settled
  <2>2. t[A[x]] # S_Type
    BY <1>2, <1>3, <2>1 DEF Settled
  <2>3. t[A[x]] = L_Type /\ ~is_LMS(t, A[x])
    BY <1>1, <2>1, <2>2 DEF is_LMS
  <2>4. x \in Filled(L_Type, b, At(s, A[x]))
    BY <2>1, <2>3 DEF SeqInv
  <2> QED
    BY <2>1, <2>3, <2>4 DEF Settled
<1>4. ASSUME NEW x \in Positions(s), NEW y \in Positions(s), x < y,
             Settled(S_Type, A, b2, x), Settled(S_Type, A, b2, y)
      PROVE  << A[x], A[y] >> \in Q
  <2>1. /\ A[x] \in Positions(s) /\ t[A[x]] = L_Type /\ Settled(L_Type, A, b, x)
        /\ A[y] \in Positions(s) /\ t[A[y]] = L_Type /\ Settled(L_Type, A, b, y)
    BY <1>3, <1>4
  <2>2. << A[x], A[y] >> \in R
    BY <1>4, <2>1 DEF OrderInv
  <2> QED
    BY <2>1, <2>2
<1>5. Visited(S_Type, 0) = {}
  BY <1>1 DEF Visited
<1>6. ASSUME NEW q, IsSeed(S_Type, q) PROVE \E x \in Positions(s) : A[x] = q
  <2> DEFINE Missing == { p \in Positions(s) : t[p] = L_Type /\ \A x \in Positions(s) : A[x] # p }
  <2>1. ASSUME Missing # {} PROVE FALSE
    <3>1. PICK p \in Missing : \A u \in Missing : u <= p
      <4>1. Missing \subseteq 0 .. n - 1 /\ n - 1 \in Nat
        BY <1>1
      <4> HIDE DEF Missing
      <4> QED
        BY <2>1, <4>1, Largest
    <3>2. p \in Positions(s) /\ t[p] = L_Type /\ \A x \in Positions(s) : A[x] # p
      OBVIOUS
    <3>3. p + 1 \in Positions(s) /\ (t[p + 1] # L_Type => is_LMS(t, p + 1))
      BY <3>2, Neighbours
    <3>4. \E y \in Positions(s) : A[y] = p + 1
      <4>1. CASE t[p + 1] # L_Type
        <5>1. IsSeed(L_Type, p + 1)
          BY <3>3, <4>1 DEF IsSeed
        <5> QED
          BY <5>1 DEF OrderInv
      <4>2. CASE t[p + 1] = L_Type
        <5>1. p + 1 \notin Missing
          <6> HIDE DEF Missing
          <6> QED
            BY <1>1, <3>1, <3>2
        <5> QED
          BY <3>3, <4>2, <5>1
      <4> QED
        BY <4>1, <4>2
    <3>5. PICK y \in Positions(s) : A[y] = p + 1
      BY <3>4
    <3>6. y \in Visited(L_Type, n) /\ A[y] - 1 = p
      BY <1>1, <3>2, <3>5 DEF Visited
    <3>7. Induces(L_Type, A[y])
      BY <3>2, <3>6 DEF Induces
    <3>8. PICK x \in Filled(L_Type, b, At(s, A[y] - 1)) : A[x] = A[y] - 1
      BY <3>6, <3>7 DEF OrderInv
    <3>9. x \in Positions(s) /\ A[x] = p
      <4>1. x \in Filled(L_Type, b, At(s, p)) /\ At(s, p) \in 0 .. K - 1 /\ A[x] = p
        BY <1>1, <3>2, <3>6, <3>8
      <4>2. x \in Region(L_Type, At(s, p))
        BY <1>1, <4>1, FilledInRegion
      <4> QED
        BY <1>1, <4>1, <4>2, RegionsApart
    <3> QED
      BY <3>2, <3>9
  <2>2. q \in Positions(s) /\ t[q] = L_Type
    BY <1>1, <1>6 DEF IsSeed
  <2> QED
    BY <2>1, <2>2
<1> QED
  BY <1>4, <1>5, <1>6 DEF OrderInv, b2

\* What the two passes deliver: the suffixes in the order, each once.
LEMMA PassesSort ==
  ASSUME Typed, n >= 2, NEW R, NEW A, NEW b, PassOrder(S_Type, R),
         SeqInv(S_Type, A, b, n), OrderInv(S_Type, R, A, b, n)
  PROVE  /\ A \in [ Positions(s) -> Positions(s) ]
         /\ \A q \in Positions(s) : \E x \in Positions(s) : A[x] = q
         /\ \A x, y \in Positions(s) : A[x] = A[y] => x = y
         /\ \A x, y \in Positions(s) : x < y => << A[x], A[y] >> \in R
<1>1. /\ n \in Nat \ {0} /\ Positions(s) = 0 .. n - 1 /\ TypesGiven /\ Terminated(s)
      /\ L_Type # S_Type /\ None \in Nat /\ n < None /\ n = Len(s)
      /\ A \in [ Positions(s) -> Positions(s) \cup { None } ]
      /\ \A p \in Positions(s) : t[p] \in { L_Type, S_Type } /\ At(s, p) \in 0 .. K - 1
                                 /\ (At(s, p) = 0 <=> p = n - 1)
      /\ A[0] = n - 1
  BY TypedFacts, TextFacts, ConstantFacts DEF L_Type, S_Type, SeqInv, TypesGiven, OrderInv, n
<1> DEFINE There(q) == \E x \in Positions(s) : A[x] = q /\ (Settled(S_Type, A, b, x) \/ x = 0)
           Missing == { p \in Positions(s) : ~There(p) }
<1>2. ASSUME NEW q \in Positions(s), t[q] = L_Type PROVE There(q)
  <2>1. PICK x \in Positions(s) : A[x] = q
    BY <1>2 DEF OrderInv, IsSeed, L_Type, S_Type
  <2>2. q # None /\ t[q] # S_Type
    BY <1>1, <1>2
  <2>3. Settled(S_Type, A, b, x)
    BY <2>1, <2>2 DEF Settled
  <2> QED
    BY <2>1, <2>3
<1>3. There(n - 1)
  BY <1>1
<1>4. ASSUME NEW q \in Positions(s), t[q] = S_Type, q + 1 \in Positions(s), There(q + 1)
      PROVE  There(q)
  <2>1. PICK y \in Positions(s) : A[y] = q + 1
    BY <1>4
  <2>2. y \in Visited(S_Type, n) /\ A[y] - 1 = q
    BY <1>1, <1>4, <2>1 DEF Visited
  <2>3. Induces(S_Type, A[y])
    BY <1>4, <2>2 DEF Induces
  <2>4. PICK x \in Filled(S_Type, b, At(s, A[y] - 1)) : A[x] = A[y] - 1
    BY <2>2, <2>3 DEF OrderInv
  <2>5. x \in Filled(S_Type, b, At(s, q)) /\ At(s, q) \in 0 .. K - 1 /\ A[x] = q /\ q # None
    BY <1>1, <2>2, <2>4
  <2>6. x \in Positions(s)
    <3>1. x \in Region(S_Type, At(s, q))
      BY <1>1, <2>5, FilledInRegion
    <3> QED
      BY <1>1, <2>5, <3>1, RegionsApart
  <2>7. Settled(S_Type, A, b, x)
    BY <2>5 DEF Settled
  <2> QED
    BY <2>5, <2>6, <2>7
<1>5. Missing = {}
  <2> SUFFICES ASSUME Missing # {} PROVE FALSE
    OBVIOUS
  <2>1. PICK p \in Missing : \A u \in Missing : u <= p
    <3>1. Missing \subseteq 0 .. n - 1 /\ n - 1 \in Nat
      BY <1>1
    <3> HIDE DEF Missing
    <3> QED
      BY <3>1, Largest
  <2>2. p \in Positions(s) /\ ~There(p)
    OBVIOUS
  <2>3. \A u \in Positions(s) : u > p => There(u)
    <3> SUFFICES ASSUME NEW u \in Positions(s), u > p, ~There(u) PROVE FALSE
      OBVIOUS
    <3>1. u \in Missing
      OBVIOUS
    <3>2. u <= p
      <4> HIDE DEF Missing, There
      <4> QED
        BY <2>1, <3>1
    <3> QED
      BY <1>1, <2>2, <3>2
  <2> HIDE DEF Missing, There
  <2>4. t[p] = S_Type /\ p # n - 1
    BY <1>1, <1>2, <1>3, <2>2
  <2>5. p + 1 \in Positions(s) /\ p + 1 > p
    BY <1>1, <2>2, <2>4
  <2> QED
    BY <1>4, <2>2, <2>3, <2>4, <2>5
<1>6. \A q \in Positions(s) : There(q)
  BY <1>5
<1>7. /\ IsFiniteSet(Positions(s)) /\ Cardinality(Positions(s)) = n /\ n \in Nat
  BY <1>1, PositionsFinite
\* A cell for every suffix: as many cells as suffixes, so all the cells.
<1> DEFINE g == [ q \in Positions(s) |->
                    CHOOSE x \in Positions(s) : A[x] = q /\ (Settled(S_Type, A, b, x) \/ x = 0) ]
<1>8. \A q \in Positions(s) :
        g[q] \in Positions(s) /\ A[g[q]] = q /\ (Settled(S_Type, A, b, g[q]) \/ g[q] = 0)
  BY <1>6
<1>9. \A x \in Positions(s) : \E q \in Positions(s) : g[q] = x
  <2>1. g \in [ Positions(s) -> 0 .. 0 + Cardinality(Positions(s)) - 1 ]
    <3>1. 0 .. 0 + Cardinality(Positions(s)) - 1 = Positions(s)
      BY <1>1, <1>7
    <3> QED
      BY <1>8, <3>1
  <2>2. \A p, q \in Positions(s) : g[p] = g[q] => p = q
    BY <1>8
  <2> HIDE DEF g
  <2>3. \A k \in 0 .. 0 + Cardinality(Positions(s)) - 1 : \E p \in Positions(s) : g[p] = k
    BY <1>7, <2>1, <2>2, FillsRange
  <2>4. 0 .. 0 + Cardinality(Positions(s)) - 1 = Positions(s)
    BY <1>1, <1>7
  <2> QED
    BY <2>3, <2>4
<1> HIDE DEF g, There, Missing
<1>10. \A x \in Positions(s) :
         A[x] \in Positions(s) /\ g[A[x]] = x /\ (Settled(S_Type, A, b, x) \/ x = 0)
  BY <1>8, <1>9
<1>11. \A x, y \in Positions(s) : A[x] = A[y] => x = y
  BY <1>10
<1>12. ASSUME NEW x \in Positions(s), NEW y \in Positions(s), x < y PROVE << A[x], A[y] >> \in R
  <2>1. CASE x = 0
    <3>1. A[y] \in Positions(s) /\ A[y] # n - 1 /\ A[x] = n - 1 /\ n - 1 \in Positions(s)
      BY <1>1, <1>10, <1>11, <1>12, <2>1
    <3>2. At(s, n - 1) = 0 /\ At(s, A[y]) # 0 /\ At(s, A[y]) \in 0 .. K - 1
      BY <1>1, <3>1
    <3>3. At(s, A[x]) < At(s, A[y])
      BY <3>1, <3>2
    <3> QED
      BY <3>1, <3>3 DEF PassOrder
  <2>2. CASE x # 0
    <3>1. y # 0
      BY <1>1, <1>12
    <3>2. Settled(S_Type, A, b, x) /\ Settled(S_Type, A, b, y)
      BY <1>10, <2>2, <3>1
    <3> QED
      BY <1>12, <3>2 DEF OrderInv
  <2> QED
    BY <2>1, <2>2
<1>13. \A q \in Positions(s) : \E x \in Positions(s) : A[x] = q
  BY <1>8
<1>14. A \in [ Positions(s) -> Positions(s) ]
  BY <1>1, <1>10
<1> QED
  BY <1>11, <1>12, <1>13, <1>14

-----------------------------------------------------------------------------
(* The orders of the passes *)

\* Two suffixes have the same characters and types up to the k-th, which decides:
\* by the smaller character or, of the same characters, by type L.
Smaller(p, q) ==
  At(s, p) < At(s, q) \/ (At(s, p) = At(s, q) /\ t[p] = L_Type /\ t[q] = S_Type)

Alike(p, q) == At(s, p) = At(s, q) /\ t[p] = t[q]

Decides(p, q, k) ==
  /\ k \in Nat /\ p + k < n /\ q + k < n
  /\ \A j \in 0 .. k - 1 : Alike(p + j, q + j)
  /\ Smaller(p + k, q + k)

\* The LMS substring at p is smaller than the one at q; what the L pass of the
\* first induction sees of it, which ends with the first S-type suffix.
LMSBefore(p, q) ==
  \E k \in Nat : Decides(p, q, k) /\ \A j \in 1 .. k - 1 : ~is_LMS(t, p + j)

LBefore(p, q) ==
  \E k \in Nat : Decides(p, q, k) /\ \A j \in 0 .. k - 1 : t[p + j] = L_Type

NotAfter(pairs) == { pq \in Positions(s) \X Positions(s) : << pq[2], pq[1] >> \notin pairs }
LMSPairs == { pq \in Positions(s) \X Positions(s) : LMSBefore(pq[1], pq[2]) }
LPairs == { pq \in Positions(s) \X Positions(s) : LBefore(pq[1], pq[2]) }

\* The order that a pass of an induction sorts by.
OrderOf(rd, ty) ==
  NotAfter(IF rd = 2 THEN LessPairs(s) ELSE IF ty = L_Type THEN LPairs ELSE LMSPairs)

\* Such a decision is one of the suffix order, and it passes on to the suffixes
\* behind.
LEMMA DecidesLess ==
  ASSUME Typed, NEW p \in Positions(s), NEW q \in Positions(s), NEW k, Decides(p, q, k)
  PROVE  SuffixLess(s, p, q)
<1>1. /\ n \in Nat \ {0} /\ Positions(s) = 0 .. n - 1 /\ Terminated(s)
  BY TypedFacts
<1>2. /\ k \in Nat /\ p + k \in Positions(s) /\ q + k \in Positions(s)
      /\ \A j \in 0 .. k - 1 : At(s, p + j) = At(s, q + j)
      /\ Smaller(p + k, q + k)
  BY <1>1 DEF Decides, Alike
<1>3. SuffixLess(s, p + k, q + k)
  BY <1>1, <1>2, LessStep, TypesLess DEF Smaller
<1> QED
  BY <1>1, <1>2, <1>3, LessBehind

\* A decision not taken at once is the one of the suffixes behind.
LEMMA DecidesBehind ==
  ASSUME Typed, NEW p \in Positions(s), NEW q \in Positions(s), NEW k \in Nat, Decides(p, q, k),
         ~Smaller(p, q)
  PROVE  /\ k - 1 \in Nat
         /\ Decides(p + 1, q + 1, k - 1)
         /\ Alike(p, q)
<1>1. /\ n \in Nat \ {0} /\ Positions(s) = 0 .. n - 1
  BY TypedFacts
<1>2. /\ p + k < n /\ q + k < n
      /\ \A j \in 0 .. k - 1 : Alike(p + j, q + j)
      /\ Smaller(p + k, q + k)
  BY DEF Decides
<1>3. k # 0
  <2>1. p + 0 = p /\ q + 0 = q
    BY <1>1
  <2> QED
    BY <1>2, <2>1
<1>4. /\ k - 1 \in Nat /\ p + 1 + (k - 1) = p + k /\ q + 1 + (k - 1) = q + k
  BY <1>1, <1>3
<1>5. ASSUME NEW j \in 0 .. k - 1 - 1 PROVE Alike(p + 1 + j, q + 1 + j)
  <2>1. j + 1 \in 0 .. k - 1 /\ p + 1 + j = p + (j + 1) /\ q + 1 + j = q + (j + 1)
    BY <1>1, <1>4
  <2> QED
    BY <1>2, <2>1
<1>6. Alike(p, q)
  <2>1. 0 \in 0 .. k - 1 /\ p + 0 = p /\ q + 0 = q
    BY <1>1, <1>4
  <2>2. Alike(p + 0, q + 0)
    BY <1>2, <2>1
  <2> QED
    BY <2>1, <2>2
<1> QED
  BY <1>2, <1>4, <1>5, <1>6 DEF Decides

\* Of two suffixes one is smaller at the first place where they are not alike.
LEMMA FirstUnlike ==
  ASSUME Typed, NEW p \in Positions(s), NEW q \in Positions(s), NEW m \in Nat,
         p + m < n, q + m < n, ~Alike(p + m, q + m)
  PROVE  \E k \in 0 .. m : Decides(p, q, k) \/ Decides(q, p, k)
<1> DEFINE Places == { j \in Nat : j <= m /\ ~Alike(p + j, q + j) }
<1>1. /\ n \in Nat \ {0} /\ Positions(s) = 0 .. n - 1
      /\ \A j \in Positions(s) : At(s, j) \in Nat /\ t[j] \in { L_Type, S_Type }
      /\ L_Type # S_Type
  BY TypedFacts DEF L_Type, S_Type
<1>2. PICK k \in Places : \A j \in Places : k <= j
  <2>1. Places \subseteq Nat /\ m \in Places
    OBVIOUS
  <2> HIDE DEF Places
  <2> QED
    BY <2>1, Smallest
<1>3. k \in Nat /\ k <= m /\ ~Alike(p + k, q + k)
  OBVIOUS
<1>4. ASSUME NEW j \in 0 .. k - 1 PROVE Alike(p + j, q + j)
  <2>1. j \in Nat /\ j <= m /\ ~(k <= j)
    BY <1>3
  <2>2. j \notin Places
    <3> HIDE DEF Places
    <3> QED
      BY <1>2, <2>1
  <2> QED
    BY <2>1, <2>2
<1> HIDE DEF Places
<1>5. p + k \in Positions(s) /\ q + k \in Positions(s) /\ p + k < n /\ q + k < n
  BY <1>1, <1>3
<1>6. Smaller(p + k, q + k) \/ Smaller(q + k, p + k)
  <2>1. /\ At(s, p + k) \in Nat /\ At(s, q + k) \in Nat
        /\ t[p + k] \in { L_Type, S_Type } /\ t[q + k] \in { L_Type, S_Type }
    BY <1>1, <1>5
  <2>2. At(s, p + k) # At(s, q + k) \/ t[p + k] # t[q + k]
    BY <1>3 DEF Alike
  <2> QED
    BY <2>1, <2>2 DEF Smaller
<1>7. \A j \in 0 .. k - 1 : Alike(q + j, p + j)
  BY <1>4 DEF Alike
<1>8. Decides(p, q, k) \/ Decides(q, p, k)
  BY <1>3, <1>4, <1>5, <1>6, <1>7 DEF Decides
<1>9. k \in 0 .. m
  BY <1>3
<1> QED
  BY <1>8, <1>9

\* Suffixes that are alike for a while have their LMS positions in the same
\* places.
LEMMA AlikeLMS ==
  ASSUME Typed, NEW p \in Positions(s), NEW q \in Positions(s), NEW m \in Nat,
         \A j \in 0 .. m : Alike(p + j, q + j)
  PROVE  \A j \in 1 .. m : is_LMS(t, p + j) <=> is_LMS(t, q + j)
<1>1. p \in Nat /\ q \in Nat
  BY TypedFacts
<1>2. ASSUME NEW j \in 1 .. m PROVE is_LMS(t, p + j) <=> is_LMS(t, q + j)
  <2>1. /\ j - 1 \in 0 .. m /\ j \in 0 .. m /\ p + j - 1 = p + (j - 1) /\ q + j - 1 = q + (j - 1)
        /\ p + j > 0 /\ q + j > 0
    BY <1>1
  <2>2. t[p + j] = t[q + j] /\ t[p + (j - 1)] = t[q + (j - 1)]
    BY <2>1 DEF Alike
  <2>3. t[p + j - 1] = t[q + j - 1]
    BY <2>1, <2>2
  <2> QED
    <3>1. is_LMS(t, p + j) <=> t[p + j] = S_Type /\ t[p + j - 1] = L_Type
      BY <1>1, <2>1 DEF is_LMS
    <3>2. is_LMS(t, q + j) <=> t[q + j] = S_Type /\ t[q + j - 1] = L_Type
      BY <1>1, <2>1 DEF is_LMS
    <3> QED
      BY <2>2, <2>3, <3>1, <3>2
<1> QED
  BY <1>2

\* The orders of the first induction decide by the first characters and types.
LEMMA FirstDecides ==
  ASSUME Typed, NEW p \in Positions(s), NEW q \in Positions(s), NEW k \in Nat,
         Decides(p, q, k)
  PROVE  ~Smaller(q, p)
<1>1. /\ n \in Nat \ {0} /\ Positions(s) = 0 .. n - 1
      /\ At(s, p) \in Nat /\ At(s, q) \in Nat /\ L_Type # S_Type
  BY TypedFacts DEF L_Type, S_Type
<1>2. CASE Smaller(p, q)
  BY <1>1, <1>2 DEF Smaller
<1>3. CASE ~Smaller(p, q)
  <2>1. Alike(p, q)
    BY <1>3, DecidesBehind
  <2> QED
    BY <1>1, <2>1 DEF Smaller, Alike
<1> QED
  BY <1>2, <1>3

\* In the L pass of the first induction ...
LEMMA LPairsOrder ==
  ASSUME Typed
  PROVE  PassOrder(L_Type, NotAfter(LPairs))
<1>1. /\ n \in Nat \ {0} /\ Positions(s) = 0 .. n - 1 /\ L_Type # S_Type
  BY TypedFacts DEF L_Type, S_Type
<1>2. ASSUME NEW p \in Positions(s), NEW q \in Positions(s), Smaller(p, q)
      PROVE  << p, q >> \in NotAfter(LPairs)
  <2>1. ~LBefore(q, p)
    BY <1>2, FirstDecides DEF LBefore
  <2> QED
    BY <2>1 DEF NotAfter, LPairs
<1>3. ASSUME NEW p \in Positions(s), NEW q \in Positions(s),
             At(s, p) = At(s, q), t[p] = L_Type, t[q] = L_Type,
             p + 1 \in Positions(s), q + 1 \in Positions(s), LBefore(q, p)
      PROVE  LBefore(q + 1, p + 1)
  <2>1. PICK k \in Nat : Decides(q, p, k) /\ \A j \in 0 .. k - 1 : t[q + j] = L_Type
    BY <1>3 DEF LBefore
  <2>2. ~Smaller(q, p)
    <3>1. At(s, p) \in Nat /\ At(s, q) \in Nat
      BY TypedFacts
    <3> QED
      BY <1>1, <1>3, <3>1 DEF Smaller
  <2>3. k - 1 \in Nat /\ Decides(q + 1, p + 1, k - 1)
    BY <2>1, <2>2, DecidesBehind
  <2>4. ASSUME NEW j \in 0 .. k - 1 - 1 PROVE t[q + 1 + j] = L_Type
    <3>1. j + 1 \in 0 .. k - 1 /\ q + 1 + j = q + (j + 1)
      BY <1>1, <2>3
    <3> QED
      BY <2>1, <3>1
  <2> QED
    BY <2>3, <2>4 DEF LBefore
<1>4. \A p, q \in Positions(s) : << p, q >> \in NotAfter(LPairs) <=> ~LBefore(q, p)
  BY DEF NotAfter, LPairs
<1>5. SUFFICES ASSUME NEW p \in Positions(s), NEW q \in Positions(s)
      PROVE  /\ Smaller(p, q) => << p, q >> \in NotAfter(LPairs)
             /\ At(s, p) = At(s, q) /\ t[p] = L_Type /\ t[q] = L_Type
                  /\ p + 1 \in Positions(s) /\ q + 1 \in Positions(s)
                  /\ << p + 1, q + 1 >> \in NotAfter(LPairs)
                  => << p, q >> \in NotAfter(LPairs)
  BY Zenon DEF PassOrder, Smaller
<1>6. /\ << p, q >> \in NotAfter(LPairs) <=> ~LBefore(q, p)
      /\ p + 1 \in Positions(s) /\ q + 1 \in Positions(s) =>
           (<< p + 1, q + 1 >> \in NotAfter(LPairs) <=> ~LBefore(q + 1, p + 1))
  BY <1>4
<1>7. ASSUME At(s, p) = At(s, q), t[p] = L_Type, t[q] = L_Type,
             p + 1 \in Positions(s), q + 1 \in Positions(s),
             << p + 1, q + 1 >> \in NotAfter(LPairs)
      PROVE  << p, q >> \in NotAfter(LPairs)
  <2>1. ~LBefore(q + 1, p + 1)
    BY <1>6, <1>7
  <2>2. ~LBefore(q, p)
    BY <1>3, <1>7, <2>1
  <2> QED
    BY <1>6, <2>2
<1> QED
  BY <1>2, <1>7

\* ... in its S pass ...
LEMMA LMSPairsOrder ==
  ASSUME Typed
  PROVE  PassOrder(S_Type, NotAfter(LMSPairs))
<1>1. /\ n \in Nat \ {0} /\ Positions(s) = 0 .. n - 1 /\ L_Type # S_Type
  BY TypedFacts DEF L_Type, S_Type
<1>2. ASSUME NEW p \in Positions(s), NEW q \in Positions(s), Smaller(p, q)
      PROVE  << p, q >> \in NotAfter(LMSPairs)
  <2>1. ~LMSBefore(q, p)
    BY <1>2, FirstDecides DEF LMSBefore
  <2> QED
    BY <2>1 DEF NotAfter, LMSPairs
<1>3. ASSUME NEW p \in Positions(s), NEW q \in Positions(s),
             At(s, p) = At(s, q), t[p] = S_Type, t[q] = S_Type,
             p + 1 \in Positions(s), q + 1 \in Positions(s), LMSBefore(q, p)
      PROVE  LMSBefore(q + 1, p + 1)
  <2>1. PICK k \in Nat : Decides(q, p, k) /\ \A j \in 1 .. k - 1 : ~is_LMS(t, q + j)
    BY <1>3 DEF LMSBefore
  <2>2. ~Smaller(q, p)
    <3>1. At(s, p) \in Nat /\ At(s, q) \in Nat
      BY TypedFacts
    <3> QED
      BY <1>1, <1>3, <3>1 DEF Smaller
  <2>3. k - 1 \in Nat /\ Decides(q + 1, p + 1, k - 1)
    BY <2>1, <2>2, DecidesBehind
  <2>4. ASSUME NEW j \in 1 .. k - 1 - 1 PROVE ~is_LMS(t, q + 1 + j)
    <3>1. j + 1 \in 1 .. k - 1 /\ q + 1 + j = q + (j + 1)
      BY <1>1, <2>3
    <3> QED
      BY <2>1, <3>1
  <2> QED
    BY <2>3, <2>4 DEF LMSBefore
<1>4. \A p, q \in Positions(s) : << p, q >> \in NotAfter(LMSPairs) <=> ~LMSBefore(q, p)
  BY DEF NotAfter, LMSPairs
<1>5. SUFFICES ASSUME NEW p \in Positions(s), NEW q \in Positions(s)
      PROVE  /\ Smaller(p, q) => << p, q >> \in NotAfter(LMSPairs)
             /\ At(s, p) = At(s, q) /\ t[p] = S_Type /\ t[q] = S_Type
                  /\ p + 1 \in Positions(s) /\ q + 1 \in Positions(s)
                  /\ << p + 1, q + 1 >> \in NotAfter(LMSPairs)
                  => << p, q >> \in NotAfter(LMSPairs)
  BY Zenon DEF PassOrder, Smaller
<1>6. /\ << p, q >> \in NotAfter(LMSPairs) <=> ~LMSBefore(q, p)
      /\ p + 1 \in Positions(s) /\ q + 1 \in Positions(s) =>
           (<< p + 1, q + 1 >> \in NotAfter(LMSPairs) <=> ~LMSBefore(q + 1, p + 1))
  BY <1>4
<1>7. ASSUME At(s, p) = At(s, q), t[p] = S_Type, t[q] = S_Type,
             p + 1 \in Positions(s), q + 1 \in Positions(s),
             << p + 1, q + 1 >> \in NotAfter(LMSPairs)
      PROVE  << p, q >> \in NotAfter(LMSPairs)
  <2>1. ~LMSBefore(q + 1, p + 1)
    BY <1>6, <1>7
  <2>2. ~LMSBefore(q, p)
    BY <1>3, <1>7, <2>1
  <2> QED
    BY <1>6, <2>2
<1> QED
  BY <1>2, <1>7

\* ... and in the final inducing.
LEMMA LessPairsOrder ==
  ASSUME Typed, NEW ty
  PROVE  PassOrder(ty, NotAfter(LessPairs(s)))
<1>1. /\ n \in Nat \ {0} /\ Positions(s) = 0 .. n - 1 /\ L_Type # S_Type /\ Terminated(s)
  BY TypedFacts DEF L_Type, S_Type
<1>2. /\ \A p \in Positions(s) : ~SuffixLess(s, p, p)
      /\ \A p, q, v \in Positions(s) : SuffixLess(s, p, q) /\ SuffixLess(s, q, v) => SuffixLess(s, p, v)
  BY <1>1, LessOrder
<1>3. \A p, q \in Positions(s) : << p, q >> \in NotAfter(LessPairs(s)) <=> ~SuffixLess(s, q, p)
  BY DEF NotAfter, LessPairs
<1>4. ASSUME NEW p \in Positions(s), NEW q \in Positions(s)
      PROVE  /\ At(s, p) < At(s, q) => ~SuffixLess(s, q, p)
             /\ At(s, p) = At(s, q) /\ t[p] = L_Type /\ t[q] = S_Type => ~SuffixLess(s, q, p)
             /\ At(s, p) = At(s, q) /\ p + 1 \in Positions(s) /\ q + 1 \in Positions(s)
                  /\ ~SuffixLess(s, q + 1, p + 1) => ~SuffixLess(s, q, p)
  BY <1>1, <1>2, LessStep, TypesLess
<1>5. SUFFICES ASSUME NEW p \in Positions(s), NEW q \in Positions(s)
      PROVE  /\ At(s, p) < At(s, q) => << p, q >> \in NotAfter(LessPairs(s))
             /\ At(s, p) = At(s, q) /\ t[p] = L_Type /\ t[q] = S_Type
                  => << p, q >> \in NotAfter(LessPairs(s))
             /\ At(s, p) = At(s, q) /\ t[p] = ty /\ t[q] = ty
                  /\ p + 1 \in Positions(s) /\ q + 1 \in Positions(s)
                  /\ << p + 1, q + 1 >> \in NotAfter(LessPairs(s))
                  => << p, q >> \in NotAfter(LessPairs(s))
  BY Zenon DEF PassOrder
<1>6. /\ << p, q >> \in NotAfter(LessPairs(s)) <=> ~SuffixLess(s, q, p)
      /\ p + 1 \in Positions(s) /\ q + 1 \in Positions(s) =>
           (<< p + 1, q + 1 >> \in NotAfter(LessPairs(s)) <=> ~SuffixLess(s, q + 1, p + 1))
  BY <1>3
<1>7. ASSUME At(s, p) = At(s, q), p + 1 \in Positions(s), q + 1 \in Positions(s),
             << p + 1, q + 1 >> \in NotAfter(LessPairs(s))
      PROVE  << p, q >> \in NotAfter(LessPairs(s))
  <2>1. ~SuffixLess(s, q + 1, p + 1)
    BY <1>6, <1>7
  <2>2. ~SuffixLess(s, q, p)
    BY <1>4, <1>7, <2>1
  <2> QED
    BY <1>6, <2>2
<1>8. /\ At(s, p) < At(s, q) => << p, q >> \in NotAfter(LessPairs(s))
      /\ At(s, p) = At(s, q) /\ t[p] = L_Type /\ t[q] = S_Type
           => << p, q >> \in NotAfter(LessPairs(s))
  BY <1>4, <1>6
<1> QED
  BY <1>7, <1>8

\* L-type suffixes in the order of the L pass are in the order of the LMS
\* substrings.
LEMMA LPairsSwitch ==
  ASSUME Typed, NEW p \in Positions(s), NEW q \in Positions(s), t[p] = L_Type, t[q] = L_Type,
         << p, q >> \in NotAfter(LPairs)
  PROVE  << p, q >> \in NotAfter(LMSPairs)
<1>1. /\ n \in Nat \ {0} /\ Positions(s) = 0 .. n - 1 /\ L_Type # S_Type
      /\ \A j \in Positions(s) : t[j] \in { L_Type, S_Type }
  BY TypedFacts DEF L_Type, S_Type
<1>2. ASSUME LMSBefore(q, p) PROVE LBefore(q, p)
  <2>1. PICK k \in Nat : Decides(q, p, k) /\ \A j \in 1 .. k - 1 : ~is_LMS(t, q + j)
    BY <1>2 DEF LMSBefore
  <2>2. q + k < n
    BY <2>1 DEF Decides
  <2> DEFINE Places == { j \in Nat : j < k /\ t[q + j] # L_Type }
  <2>3. ASSUME Places # {} PROVE FALSE
    <3>1. PICK m \in Places : \A j \in Places : m <= j
      <4>1. Places \subseteq Nat
        OBVIOUS
      <4> HIDE DEF Places
      <4> QED
        BY <2>3, <4>1, Smallest
    <3>2. m \in Nat /\ m < k /\ t[q + m] # L_Type
      OBVIOUS
    <3>3. m # 0
      <4>1. q + 0 = q
        BY <1>1
      <4> QED
        BY <3>2, <4>1
    <3>4. /\ m - 1 \in Nat /\ m - 1 < k /\ ~(m <= m - 1) /\ q + m - 1 = q + (m - 1)
          /\ q + m \in Positions(s) /\ q + m > 0 /\ m \in 1 .. k - 1
      BY <1>1, <2>2, <3>2, <3>3
    <3>5. m - 1 \notin Places
      <4> HIDE DEF Places
      <4> QED
        BY <3>1, <3>4
    <3>6. t[q + (m - 1)] = L_Type
      BY <3>4, <3>5
    <3>7. is_LMS(t, q + m)
      BY <1>1, <3>2, <3>4, <3>6 DEF is_LMS
    <3> QED
      BY <2>1, <3>4, <3>7
  <2>4. \A j \in 0 .. k - 1 : t[q + j] = L_Type
    BY <2>3
  <2> QED
    BY <2>1, <2>4 DEF LBefore
<1> QED
  BY <1>2 DEF NotAfter, LMSPairs, LPairs

\* The order of the LMS substrings is the suffix order made coarser.
LEMMA LMSBeforeFacts ==
  ASSUME Typed
  PROVE  /\ \A p, q \in Positions(s) : LMSBefore(p, q) => SuffixLess(s, p, q)
         /\ \A a, b, c \in Positions(s) : LMSBefore(a, c) => LMSBefore(a, b) \/ LMSBefore(b, c)
<1>1. /\ n \in Nat \ {0} /\ Positions(s) = 0 .. n - 1 /\ L_Type # S_Type
      /\ \A j \in Positions(s) : /\ t[j] \in { L_Type, S_Type } /\ At(s, j) \in Nat
                                 /\ At(s, j) = 0 <=> j = n - 1
  BY TypedFacts DEF L_Type, S_Type
<1>2. \A p, q \in Positions(s) : LMSBefore(p, q) => SuffixLess(s, p, q)
  BY DecidesLess DEF LMSBefore
<1>3. ASSUME NEW a \in Positions(s), NEW b \in Positions(s), NEW c \in Positions(s),
             LMSBefore(a, c), ~LMSBefore(a, b)
      PROVE  LMSBefore(b, c)
  <2>1. PICK k \in Nat : Decides(a, c, k) /\ \A j \in 1 .. k - 1 : ~is_LMS(t, a + j)
    BY <1>3 DEF LMSBefore
  <2>2. /\ a + k < n /\ c + k < n
        /\ \A j \in 0 .. k - 1 : Alike(a + j, c + j)
        /\ Smaller(a + k, c + k)
    BY <2>1 DEF Decides
  \* b is like a for m characters, and then no larger.
  <2>3. \E m \in 0 .. k :
          /\ \A j \in 0 .. m - 1 : Alike(b + j, a + j)
          /\ b + m < n
          /\ Smaller(b + m, a + m) \/ (m = k /\ Alike(b + m, a + m))
    <3>1. CASE \E h \in 0 .. k : b + h < n /\ ~Alike(b + h, a + h)
      <4>1. PICK h \in 0 .. k : b + h < n /\ ~Alike(b + h, a + h)
        BY <3>1
      <4>2. h \in Nat /\ a + h < n
        BY <1>1, <2>2
      <4>3. PICK m \in 0 .. h : Decides(b, a, m) \/ Decides(a, b, m)
        BY <4>1, <4>2, FirstUnlike
      <4>4. m \in 0 .. k /\ m \in Nat /\ \A j \in 1 .. m - 1 : j \in 1 .. k - 1
        BY <4>2
      <4>5. ~Decides(a, b, m)
        BY <1>3, <2>1, <4>4 DEF LMSBefore
      <4>6. Decides(b, a, m)
        BY <4>3, <4>5
      <4> QED
        BY <4>4, <4>6 DEF Decides
    <3>2. CASE ~ \E h \in 0 .. k : b + h < n /\ ~Alike(b + h, a + h)
      <4>1. b + k < n
        <5> SUFFICES ASSUME b + k >= n PROVE FALSE
          BY <1>1
        <5> DEFINE h == n - 1 - b
        <5>1. h \in 0 .. k /\ b + h = n - 1 /\ b + h < n /\ a + h < n - 1 /\ n - 1 \in Positions(s)
              /\ a + h \in Positions(s)
          <6>1. a \in 0 .. n - 1 /\ b \in 0 .. n - 1 /\ k \in Nat /\ n \in Nat \ {0}
                /\ a + k < n /\ b + k >= n
            BY <1>1, <2>2
          <6>2. h \in Nat /\ h < k
            BY <6>1
          <6> QED
            BY <1>1, <6>1, <6>2
        <5> HIDE DEF h
        <5>2. Alike(b + h, a + h)
          BY <3>2, <5>1
        <5>3. a + h # n - 1
          BY <1>1, <5>1
        <5> QED
          BY <1>1, <5>1, <5>2, <5>3 DEF Alike
      <4>2. \A h \in 0 .. k : b + h < n
        BY <1>1, <4>1
      <4>3. k \in 0 .. k /\ \A j \in 0 .. k - 1 : j \in 0 .. k
        OBVIOUS
      <4> QED
        BY <3>2, <4>2, <4>3
    <3> QED
      BY <3>1, <3>2
  <2>4. PICK m \in 0 .. k :
          /\ \A j \in 0 .. m - 1 : Alike(b + j, a + j)
          /\ b + m < n
          /\ Smaller(b + m, a + m) \/ (m = k /\ Alike(b + m, a + m))
    BY <2>3
  <2>5. m \in Nat /\ c + m < n /\ c + m \in Positions(s) /\ a + m \in Positions(s) /\ b + m \in Positions(s)
    BY <1>1, <2>2, <2>4
  <2>6. \A j \in 0 .. m - 1 : Alike(b + j, c + j)
    <3>1. \A j \in 0 .. m - 1 : j \in 0 .. k - 1
      OBVIOUS
    <3> QED
      BY <2>2, <2>4, <3>1 DEF Alike
  <2>7. Smaller(b + m, c + m)
    <3>1. /\ At(s, a + m) \in Nat /\ At(s, b + m) \in Nat /\ At(s, c + m) \in Nat
          /\ t[a + m] \in { L_Type, S_Type } /\ t[b + m] \in { L_Type, S_Type } /\ t[c + m] \in { L_Type, S_Type }
      BY <1>1, <2>5
    <3>2. CASE m = k
      BY <2>2, <2>4, <3>1, <3>2, <1>1 DEF Smaller, Alike
    <3>3. CASE m # k
      <4>1. m \in 0 .. k - 1
        BY <3>3
      <4>2. Alike(a + m, c + m)
        BY <2>2, <4>1
      <4> QED
        BY <2>4, <3>3, <4>2 DEF Smaller, Alike
    <3> QED
      BY <3>2, <3>3
  <2>8. Decides(b, c, m)
    BY <2>4, <2>5, <2>6, <2>7 DEF Decides
  <2>9. ASSUME NEW j \in 1 .. m - 1 PROVE ~is_LMS(t, b + j)
    <3>1. m - 1 \in Nat /\ \A h \in 0 .. m - 1 : Alike(b + h, a + h)
      BY <2>4, <2>5
    <3>2. is_LMS(t, b + j) <=> is_LMS(t, a + j)
      BY <3>1, AlikeLMS
    <3>3. j \in 1 .. k - 1
      BY <2>5
    <3> QED
      BY <2>1, <3>2, <3>3
  <2> QED
    BY <2>5, <2>8, <2>9 DEF LMSBefore
<1> QED
  BY <1>2, <1>3

-----------------------------------------------------------------------------
(* The start of an induction *)

\* An array that holds nothing but LMS suffixes in the S-type part of their
\* buckets, none twice, is what the sequential scan can start from.
LEMMA SeedsInv ==
  ASSUME TypesGiven, NEW A, A \in [ Positions(s) -> Positions(s) \cup { None } ],
         \A x \in Positions(s) : A[x] # None =>
           is_LMS(t, A[x]) /\ x \in Region(S_Type, At(s, A[x])),
         \A x, y \in Positions(s) : A[x] # None /\ A[x] = A[y] => x = y
  PROVE  SeqInv(L_Type, A, generate_buckets(s, K, FALSE), 0)
<1> DEFINE b == generate_buckets(s, K, FALSE)
<1>1. /\ n \in Nat \ {0} /\ Positions(s) = 0 .. n - 1 /\ None \in Nat /\ n < None
      /\ L_Type # S_Type
  BY TextFacts, ConstantFacts DEF TypesGiven, L_Type, S_Type
<1>2. b \in [ 0 .. K - 1 -> Int ]
  BY BucketsType DEF TypesGiven
<1>3. \A c \in 0 .. K - 1 : InBounds(L_Type, b, c) /\ Filled(L_Type, b, c) = {}
  <2> TAKE c \in 0 .. K - 1
  <2>1. b[c] = Start(c) /\ Start(c) \in Nat /\ Count(c, L_Type) \in Nat
    BY BucketBounds DEF Start
  <2> HIDE DEF b
  <2> QED
    BY <1>1, <2>1 DEF InBounds, Filled
<1> HIDE DEF b
<1>5. \A v : Induces(L_Type, v) => v # None
  <2>1. None - 1 \notin Positions(s)
    BY <1>1, TextsAssumption, ConstantsAssumption, ConstantFacts DEF TypesGiven, n
  <2> QED
    BY <2>1 DEF Induces
<1>6. ASSUME NEW c \in 0 .. K - 1, NEW x \in Region(L_Type, c) PROVE ~Induces(L_Type, A[x])
  <2>1. x \in Positions(s)
    BY <1>6, RegionsApart
  <2>2. ASSUME A[x] # None PROVE FALSE
    <3>1. A[x] \in Positions(s) /\ At(s, A[x]) \in 0 .. K - 1
      BY <2>1, <2>2, TextFacts DEF TypesGiven
    <3>2. x \in Region(S_Type, At(s, A[x]))
      BY <2>1, <2>2
    <3> QED
      BY <1>1, <3>1, <3>2, RegionsApart
  <2> QED
    BY <1>5, <2>2
<1>7. \A x, y \in Positions(s) : A[x] = A[y] /\ Induces(L_Type, A[x]) => x = y
  BY <1>5
<1>8. \A x \in Positions(s) : A[x] # None => t[A[x]] # L_Type /\ is_LMS(t, A[x])
  BY <1>1 DEF is_LMS
<1> QED
  BY <1>2, <1>3, <1>6, <1>7, <1>8 DEF SeqInv, b

\* The sentinel has cell 0.
LEMMA SentinelCell ==
  ASSUME Typed
  PROVE  Region(S_Type, 0) = { 0 } /\ 0 \in 0 .. K - 1
<1>1. /\ n \in Nat \ {0} /\ Positions(s) = 0 .. n - 1 /\ L_Type # S_Type /\ TypesGiven /\ K \in Nat \ {0}
      /\ \A p \in Positions(s) : /\ At(s, p) \in 0 .. K - 1
                                 /\ At(s, p) = 0 <=> p = n - 1
      /\ t[n - 1] = S_Type
  BY TypedFacts, Neighbours, ConstantFacts DEF L_Type, S_Type
<1>2. 0 \in 0 .. K - 1
  BY <1>1
<1>3. OfKind(0, L_Type) = {} /\ OfKind(0, S_Type) = { n - 1 }
  BY <1>1 DEF OfKind
<1>4. Count(0, L_Type) = 0 /\ Count(0, S_Type) = 1
  BY <1>3, FS_EmptySet, FS_Singleton DEF Count
<1>5. Start(0) = 0
  <2>1. { p \in Positions(s) : At(s, p) < 0 } = {}
    BY <1>1
  <2>2. Start(0) = Cardinality({ p \in Positions(s) : At(s, p) < 0 })
    BY <1>2 DEF Start, generate_buckets
  <2> QED
    BY <2>1, <2>2, FS_EmptySet
<1>6. End(0) = 1
  <2>1. End(0) = Start(0) + Count(0, L_Type) + Count(0, S_Type)
    BY <1>1, <1>2, BucketBounds
  <2> QED
    BY <1>4, <1>5, <2>1
<1> QED
  BY <1>1, <1>2, <1>4, <1>6 DEF Region

\* What an induction starts from: all the LMS suffixes, in order.
Seeding(R, A) ==
  /\ A \in [ Positions(s) -> Positions(s) \cup { None } ]
  /\ \A x \in Positions(s) : A[x] # None =>
       is_LMS(t, A[x]) /\ x \in Region(S_Type, At(s, A[x]))
  /\ \A x, y \in Positions(s) : A[x] # None /\ A[x] = A[y] => x = y
  /\ \A q \in Positions(s) : is_LMS(t, q) => \E x \in Positions(s) : A[x] = q
  /\ \A x, y \in Positions(s) :
       x < y /\ A[x] # None /\ A[y] # None => << A[x], A[y] >> \in R

\* Seeds in order are the start of a pass that keeps the order.
LEMMA SeedingStarts ==
  ASSUME Typed, n >= 2, NEW R, NEW A, Seeding(R, A)
  PROVE  /\ SeqInv(L_Type, A, generate_buckets(s, K, FALSE), 0)
         /\ OrderInv(L_Type, R, A, generate_buckets(s, K, FALSE), 0)
<1> DEFINE b == generate_buckets(s, K, FALSE)
<1>1. /\ n \in Nat \ {0} /\ Positions(s) = 0 .. n - 1 /\ L_Type # S_Type /\ TypesGiven
      /\ At(s, n - 1) = 0 /\ is_LMS(t, n - 1) /\ None \in Nat /\ n < None
  BY TypedFacts, Neighbours, TextFacts, ConstantFacts DEF L_Type, S_Type, TypesGiven
<1>2. SeqInv(L_Type, A, b, 0)
  BY <1>1, SeedsInv DEF Seeding
<1> HIDE DEF b
<1>3. \A x \in Positions(s) : A[x] # None => x \in Region(t[A[x]], At(s, A[x]))
  BY DEF Seeding, is_LMS
<1>4. \A x, y \in Positions(s) :
        x < y /\ Settled(L_Type, A, b, x) /\ Settled(L_Type, A, b, y) => << A[x], A[y] >> \in R
  BY DEF Seeding, Settled
<1>5. Visited(L_Type, 0) = {}
  BY DEF Visited
<1>6. \A q : IsSeed(L_Type, q) => \E x \in Positions(s) : A[x] = q
  BY DEF Seeding, IsSeed
<1>7. A[0] = n - 1
  <2>1. PICK x \in Positions(s) : A[x] = n - 1
    BY <1>1 DEF Seeding
  <2>2. A[x] # None
    BY <1>1, <2>1
  <2>3. x \in Region(S_Type, 0)
    BY <1>1, <2>1, <2>2 DEF Seeding
  <2> QED
    BY <2>1, <2>3, SentinelCell
<1> QED
  BY <1>2, <1>3, <1>4, <1>5, <1>6, <1>7 DEF OrderInv, b

\* run_saca inserts the LMS suffixes in text order: no two of them at the same
\* cell, and in the order of their first characters.
LEMMA TextOrderSeeds ==
  ASSUME Typed
  PROVE  Seeding(NotAfter(LPairs), InsertLMS(s, t, TextOrder(s)))
<1> DEFINE A == InsertLMS(s, t, TextOrder(s))
           M == LMSPositions(s, t)
           same(c) == { q \in M : At(s, q) = c }
           Ordered == { pq \in Nat \X Nat : pq[1] < pq[2] }
           cell(p) == generate_buckets(s, K, TRUE)[At(s, p)] - 1 - Place(Ordered, same(At(s, p)), p)
<1>1. /\ n \in Nat \ {0} /\ Positions(s) = 0 .. n - 1 /\ L_Type # S_Type /\ TypesGiven
      /\ None \in Nat /\ n < None /\ IsFiniteSet(Positions(s))
      /\ \A p \in Positions(s) : At(s, p) \in 0 .. K - 1
  BY TypedFacts, TextFacts, ConstantFacts, PositionsFinite DEF L_Type, S_Type, TypesGiven
<1>2. TextOrder(s) \in [ Positions(s) -> Int ] /\ \A p \in Positions(s) : TextOrder(s)[p] = p
  BY <1>1 DEF TextOrder
<1>3. /\ A \in [ Positions(s) -> Positions(s) \cup { None } ]
      /\ \A x \in Positions(s) : A[x] # None => is_LMS(t, A[x]) /\ x \in Region(S_Type, At(s, A[x]))
      /\ \A x, y \in Positions(s) : A[x] # None /\ A[x] = A[y] => x = y
  BY <1>1, <1>2, InsertedFacts
<1>4. \A p \in M : p \in Positions(s) /\ is_LMS(t, p) /\ At(s, p) \in 0 .. K - 1 /\ p \in Nat
  BY <1>1 DEF LMSPositions
<1>5. ASSUME NEW p \in M
      PROVE  { q \in M : At(s, q) = At(s, p) /\ TextOrder(s)[q] < TextOrder(s)[p] } =
             { q \in same(At(s, p)) : << q, p >> \in Ordered }
  BY <1>2, <1>4
<1>6. A = [ c \in Positions(s) |->
              IF \E p \in M : cell(p) = c THEN CHOOSE p \in M : cell(p) = c ELSE None ]
  <2> DEFINE cell2(p) == generate_buckets(s, K, TRUE)[At(s, p)] - 1 -
               Cardinality({ q \in M : At(s, q) = At(s, p) /\ TextOrder(s)[q] < TextOrder(s)[p] })
  <2>1. A = [ c \in Positions(s) |->
              IF \E p \in M : cell2(p) = c THEN CHOOSE p \in M : cell2(p) = c ELSE None ]
    BY DEF InsertLMS
  <2>2. \A p \in M : cell2(p) = cell(p)
    BY <1>5 DEF Place
  <2> HIDE DEF cell, cell2, A, M
  <2> SUFFICES ASSUME NEW c \in Positions(s)
               PROVE  (IF \E p \in M : cell2(p) = c THEN CHOOSE p \in M : cell2(p) = c ELSE None)
                      = (IF \E p \in M : cell(p) = c THEN CHOOSE p \in M : cell(p) = c ELSE None)
    BY <2>1, Zenon
  <2>3. (\E p \in M : cell2(p) = c) <=> (\E p \in M : cell(p) = c)
    BY <2>2
  <2>4. (CHOOSE p \in M : cell2(p) = c) = (CHOOSE p \in M : cell(p) = c)
    BY <2>2
  <2> QED
    BY <2>3, <2>4
<1>7. ASSUME NEW c PROVE IsFiniteSet(same(c)) /\ Orders(Ordered, same(c)) /\ same(c) \subseteq Nat
  <2>1. same(c) \subseteq Positions(s) /\ same(c) \subseteq Nat
    BY <1>4
  <2>2. IsFiniteSet(same(c))
    BY <1>1, <2>1, FS_Subset
  <2>3. \A p, q \in Nat : << p, q >> \in Ordered <=> p < q
    OBVIOUS
  <2> HIDE DEF Ordered, same
  <2> QED
    BY <2>1, <2>2, <2>3 DEF Orders
<1>8. ASSUME NEW p \in M PROVE cell(p) \in Region(S_Type, At(s, p)) /\ cell(p) \in Positions(s)
  <2> DEFINE c == At(s, p)
  <2>1. same(c) \subseteq OfKind(c, S_Type) /\ p \in same(c) /\ c \in 0 .. K - 1
    BY <1>4 DEF OfKind, is_LMS
  <2>2. IsFiniteSet(OfKind(c, S_Type)) /\ Count(c, S_Type) \in Nat
    BY <1>1, KindsFinite
  <2>3. Cardinality(same(c)) <= Count(c, S_Type)
    BY <2>1, <2>2, FS_Subset DEF Count
  <2>4. Cardinality(same(c)) \in Nat /\ Place(Ordered, same(c), p) \in 0 .. Cardinality(same(c)) - 1
    <3>1. IsFiniteSet(same(c)) /\ Orders(Ordered, same(c))
      BY <1>7
    <3> HIDE DEF same, Ordered, c
    <3> QED
      BY <2>1, <3>1, OrderPlaces
  <2>5. End(c) \in Nat /\ cell(p) = End(c) - 1 - Place(Ordered, same(c), p)
    BY <1>1, <2>1, BucketBounds DEF End
  <2> HIDE DEF c, same, Ordered, cell
  <2>6. cell(p) \in End(c) - Count(c, S_Type) .. End(c) - 1
    BY <2>2, <2>3, <2>4, <2>5
  <2>7. cell(p) \in Region(S_Type, c)
    BY <1>1, <2>6 DEF Region
  <2>8. cell(p) \in Positions(s)
    BY <1>1, <2>1, <2>7, RegionsApart
  <2> QED
    BY <2>7, <2>8 DEF c
<1>9. ASSUME NEW p \in M, NEW q \in M, cell(p) = cell(q) PROVE p = q
  <2>1. At(s, p) = At(s, q)
    <3>1. /\ cell(p) \in Region(S_Type, At(s, p)) /\ cell(p) \in Region(S_Type, At(s, q))
          /\ At(s, p) \in 0 .. K - 1 /\ At(s, q) \in 0 .. K - 1
      BY <1>4, <1>8, <1>9
    <3> HIDE DEF cell
    <3> QED
      BY <1>1, <3>1, RegionsApart
  <2> DEFINE c == At(s, p)
  <2>2. p \in same(c) /\ q \in same(c)
    BY <2>1
  <2>3. Place(Ordered, same(c), p) = Place(Ordered, same(c), q)
    <3>1. IsFiniteSet(same(c)) /\ Orders(Ordered, same(c))
      BY <1>7
    <3>2. Cardinality(same(c)) \in Nat
          /\ Place(Ordered, same(c), p) \in 0 .. Cardinality(same(c)) - 1
          /\ Place(Ordered, same(c), q) \in 0 .. Cardinality(same(c)) - 1
      <4> HIDE DEF same, Ordered, c
      <4> QED
        BY <2>2, <3>1, OrderPlaces
    <3>3. End(c) \in Nat /\ cell(p) = End(c) - 1 - Place(Ordered, same(c), p)
          /\ cell(q) = End(c) - 1 - Place(Ordered, same(c), q)
      BY <1>1, <1>4, <2>1, BucketBounds DEF End
    <3>4. End(c) - 1 - Place(Ordered, same(c), p) = End(c) - 1 - Place(Ordered, same(c), q)
      BY <1>9, <3>3
    <3>5. \A e, a, b \in Nat : e - 1 - a = e - 1 - b => a = b
      OBVIOUS
    <3>6. /\ End(c) \in Nat /\ Place(Ordered, same(c), p) \in Nat
          /\ Place(Ordered, same(c), q) \in Nat
      <4> HIDE DEF same, Ordered, c
      <4> QED
        BY <3>2, <3>3
    <3> HIDE DEF same, Ordered, c
    <3> QED
      BY <3>4, <3>5, <3>6
  <2>4. IsFiniteSet(same(c)) /\ Orders(Ordered, same(c))
    BY <1>7
  <2> HIDE DEF same, Ordered, c
  <2> QED
    BY <2>2, <2>3, <2>4, OrderPlaces
<1>10. ASSUME NEW q \in Positions(s), is_LMS(t, q) PROVE \E x \in Positions(s) : A[x] = q
  <2>1. q \in M
    BY <1>10 DEF LMSPositions
  <2>2. cell(q) \in Positions(s)
    BY <1>8, <2>1
  <2> HIDE DEF cell, A, M
  <2>3. A[cell(q)] = CHOOSE p \in M : cell(p) = cell(q)
    BY <1>6, <2>1, <2>2
  <2>4. \A p \in M : cell(p) = cell(q) => p = q
    BY <1>9, <2>1
  <2>5. A[cell(q)] = q
    BY <2>1, <2>3, <2>4
  <2> QED
    BY <2>2, <2>5
<1> HIDE DEF cell, A, M
<1>11. ASSUME NEW x \in Positions(s), NEW y \in Positions(s), x < y, A[x] # None, A[y] # None
       PROVE  << A[x], A[y] >> \in NotAfter(LPairs)
  <2>1. /\ A[x] \in Positions(s) /\ A[y] \in Positions(s)
        /\ is_LMS(t, A[x]) /\ is_LMS(t, A[y])
        /\ x \in Region(S_Type, At(s, A[x])) /\ y \in Region(S_Type, At(s, A[y]))
        /\ At(s, A[x]) \in 0 .. K - 1 /\ At(s, A[y]) \in 0 .. K - 1
    BY <1>1, <1>3, <1>11
  <2>2. At(s, A[x]) < At(s, A[y]) \/ At(s, A[x]) = At(s, A[y])
    BY <1>1, <1>11, <2>1, RegionBounds
  <2>3. ASSUME LBefore(A[y], A[x]) PROVE FALSE
    <3>1. PICK k \in Nat : Decides(A[y], A[x], k) /\ \A j \in 0 .. k - 1 : t[A[y] + j] = L_Type
      BY <2>3 DEF LBefore
    <3>2. t[A[y]] = S_Type /\ A[y] + 0 = A[y] /\ t[A[x]] = S_Type
      BY <1>1, <2>1 DEF is_LMS
    <3>3. k = 0
      <4> SUFFICES ASSUME k # 0 PROVE FALSE
        OBVIOUS
      <4>1. 0 \in 0 .. k - 1
        OBVIOUS
      <4> QED
        BY <1>1, <3>1, <3>2, <4>1
    <3>4. Smaller(A[y], A[x])
      <4>1. A[y] + k = A[y] /\ A[x] + k = A[x]
        BY <1>1, <2>1, <3>3
      <4> QED
        BY <3>1, <4>1 DEF Decides
    <3> QED
      BY <1>1, <2>1, <2>2, <3>2, <3>4 DEF Smaller
  <2> QED
    BY <2>1, <2>3 DEF NotAfter, LPairs
<1> QED
  BY <1>3, <1>10, <1>11 DEF Seeding, A

-----------------------------------------------------------------------------
(* The passes of the pipeline put the suffixes in order *)

\* While an induction, the first or the second, runs.
InducingInv(rd) ==
  /\ RefinementInv /\ Typed /\ n >= 2
  /\ OrderInv(type, OrderOf(rd, type), VisibleSA, buckets, ScannedCells)

\* Each pass sorts by an order of its kind.
LEMMA OrdersOfPasses ==
  ASSUME Typed, NEW rd \in { 1, 2 }, NEW ty \in { L_Type, S_Type }
  PROVE  PassOrder(ty, OrderOf(rd, ty))
<1>1. L_Type # S_Type
  BY DEF L_Type, S_Type
<1>2. CASE rd = 2
  BY <1>2, LessPairsOrder DEF OrderOf
<1>3. CASE rd = 1 /\ ty = L_Type
  BY <1>3, LPairsOrder DEF OrderOf
<1>4. CASE rd = 1 /\ ty = S_Type
  BY <1>1, <1>4, LMSPairsOrder DEF OrderOf
<1> QED
  BY <1>2, <1>3, <1>4

\* The order is about the text and what the scan sees only.
LEMMA OrderInvNext ==
  ASSUME UNCHANGED << s, t >>, NEW rd,
         OrderInv(type', OrderOf(rd, type'), VisibleSA', buckets', ScannedCells')
  PROVE  OrderInv(type, OrderOf(rd, type), VisibleSA, buckets, ScannedCells)'
<1>1. /\ n' = n
      /\ \A c, ty : OfKind(c, ty)' = OfKind(c, ty) /\ Count(c, ty)' = Count(c, ty)
      /\ \A c : Start(c)' = Start(c) /\ End(c)' = End(c)
      /\ \A ty, v : Induces(ty, v)' <=> Induces(ty, v)
      /\ \A ty, q : IsSeed(ty, q)' <=> IsSeed(ty, q)
  BY DEF n, OfKind, Count, Start, End, Induces, IsSeed
<1>2. /\ \A ty, b, c : Filled(ty, b, c)' = Filled(ty, b, c)
      /\ \A ty, c : Region(ty, c)' = Region(ty, c)
      /\ \A ty, sc : Visited(ty, sc)' = Visited(ty, sc)
  BY <1>1 DEF Filled, Region, Visited
<1>3. \A ty, A, b, x : Settled(ty, A, b, x)' <=> Settled(ty, A, b, x)
  BY <1>2 DEF Settled
<1>4. OrderOf(rd, type)' = OrderOf(rd, type')
  <2>1. \A p, q : Smaller(p, q)' <=> Smaller(p, q)
    BY DEF Smaller
  <2>2. \A p, q : Alike(p, q)' <=> Alike(p, q)
    BY DEF Alike
  <2>3. \A p, q, k : Decides(p, q, k)' <=> Decides(p, q, k)
    BY <1>1, <2>1, <2>2 DEF Decides
  <2>4. /\ \A p, q : LBefore(p, q)' <=> LBefore(p, q)
        /\ \A p, q : LMSBefore(p, q)' <=> LMSBefore(p, q)
    BY <2>3 DEF LBefore, LMSBefore
  <2>5. LPairs' = LPairs /\ LMSPairs' = LMSPairs /\ LessPairs(s)' = LessPairs(s)
    BY <2>4 DEF LPairs, LMSPairs, LessPairs
  <2> QED
    BY <2>5 DEF OrderOf, NotAfter
<1> QED
  BY <1>1, <1>2, <1>3, <1>4 DEF OrderInv

\* A step of the sequential scan.
LEMMA VisitFacts ==
  ASSUME Typed, type \in { L_Type, S_Type }, Sequential!Visit,
         SeqInv(type, VisibleSA, buckets, ScannedCells)
  PROVE  /\ ScannedCells < n /\ ScannedCells' = ScannedCells + 1
         /\ UNCHANGED << s, t, type >>
         /\ ~Induces(type, VisibleSA[CellAfter(type, ScannedCells)]) =>
              VisibleSA' = VisibleSA /\ buckets' = buckets
         /\ \A q : /\ Induces(type, VisibleSA[CellAfter(type, ScannedCells)])
                   /\ q = VisibleSA[CellAfter(type, ScannedCells)] - 1
              => /\ VisibleSA' = [ VisibleSA EXCEPT ![NextFree(type, buckets, At(s, q))] = q ]
                 /\ buckets' = Advanced(type, buckets, At(s, q))
<1> DEFINE cell == CellAfter(type, ScannedCells)
<1>1. /\ [ x \in Positions(s) |-> Visible(x) ] = VisibleSA
      /\ [ x \in Positions(s) |-> Visible(x) ]' = VisibleSA'
  BY DEF VisibleSA
<1>2. /\ ScannedCells < Len(s) /\ Sequential!InduceCell
      /\ ScannedCells' = ScannedCells + 1
      /\ UNCHANGED << s, t, type >>
  BY DEF Sequential!Visit
<1>3. Sequential!ScanCell = cell
  BY SameVocabulary DEF Sequential!ScanCell, CellAfter, n
<1>4. \A v : Sequential!Inducible(v) <=> Induces(type, v)
  BY SameVocabulary DEF Sequential!Inducible, Induces
<1>5. \A x : Sequential!At(s, x) = At(s, x)
  BY SameVocabulary
<1>6. Sequential!L_Type = L_Type
  BY SameVocabulary
<1> HIDE DEF cell
<1>7. ASSUME ~Induces(type, VisibleSA[cell])
      PROVE  VisibleSA' = VisibleSA /\ buckets' = buckets
  BY <1>1, <1>2, <1>3, <1>4, <1>7 DEF Sequential!InduceCell
<1>8. ASSUME NEW q, Induces(type, VisibleSA[cell]), q = VisibleSA[cell] - 1
      PROVE  /\ VisibleSA' = [ VisibleSA EXCEPT ![NextFree(type, buckets, At(s, q))] = q ]
             /\ buckets' = Advanced(type, buckets, At(s, q))
  <2>1. /\ VisibleSA' = [ VisibleSA EXCEPT
             ![IF type = L_Type THEN buckets[At(s, q)] ELSE buckets[At(s, q)] - 1] = q ]
        /\ buckets' = [ buckets EXCEPT
             ![At(s, q)] = IF type = L_Type THEN @ + 1 ELSE @ - 1 ]
    BY <1>1, <1>2, <1>3, <1>4, <1>5, <1>6, <1>8 DEF Sequential!InduceCell
  <2> QED
    BY <2>1 DEF NextFree, Advanced
<1> QED
  BY <1>2, <1>7, <1>8 DEF cell, n

\* A step of the pipeline visits the next cell, starts the S pass, or shows the
\* scan nothing.
LEMMA StepViews ==
  ASSUME RefinementInv, PipelineStep \/ SecondPass
  PROVE  /\ RefinementInv'
         /\ \/ Sequential!Visit /\ ScannedCells \in 0 .. n - 1
            \/ Sequential!NextPass
            \/ SameView
<1>1. PipelineInv'
  BY NextPreserves DEF RefinementInv, Next
<1>2. CASE PrepareReset \/ PrepareEnd \/ UpdateStart \/ UpdateEnd
  BY <1>1, <1>2, OtherTasksRefine
<1>3. CASE PrepareCell
  BY <1>1, <1>3, PrepareCellRefines
<1>4. CASE InduceStart
  BY <1>1, <1>4, InduceStartRefines
<1>5. CASE InduceCell
  <2>1. RefinementInv' /\ Sequential!Visit
    BY <1>1, <1>5, InduceCellRefines
  <2>2. pc["induce"] = "run" /\ store = NoStore /\ InScan(Block("induce"), index["induce"])
    BY <1>5 DEF InduceCell
  <2>3. Block("induce") = Filling
    BY <2>2, FillingBlock DEF RefinementInv, PipelineInv
  <2>4. ScannedCells \in 0 .. n - 1
    BY <2>2, <2>3, ScanReads
  <2> QED
    BY <2>1, <2>4
<1>6. CASE InduceStore
  BY <1>1, <1>6, InduceStoreRefines
<1>7. CASE InduceEnd
  BY <1>1, <1>7, InduceEndRefines
<1>8. CASE UpdateEntry
  BY <1>1, <1>8, UpdateEntryRefines
<1>9. CASE NextIteration
  BY <1>1, <1>9, NextIterationRefines
<1>10. CASE SecondPass
  BY <1>1, <1>10, SecondPassRefines
<1> QED
  BY <1>2, <1>3, <1>4, <1>5, <1>6, <1>7, <1>8, <1>9, <1>10 DEF PipelineStep, TaskStep

\* Each step of the pipeline keeps the order.
LEMMA InducingKept ==
  ASSUME NEW rd \in { 1, 2 }, InducingInv(rd), PipelineStep \/ SecondPass
  PROVE  InducingInv(rd)'
<1>1. /\ RefinementInv /\ Typed /\ n >= 2
      /\ OrderInv(type, OrderOf(rd, type), VisibleSA, buckets, ScannedCells)
      /\ SeqInv(type, VisibleSA, buckets, ScannedCells)
      /\ type \in { L_Type, S_Type }
      /\ n \in Nat
  BY TypedFacts DEF InducingInv, RefinementInv, PipelineInv, TypeOK
<1>2. /\ RefinementInv'
      /\ \/ Sequential!Visit /\ ScannedCells \in 0 .. n - 1
         \/ Sequential!NextPass
         \/ SameView
  BY <1>1, StepViews
<1>3. UNCHANGED << s, t >>
  BY DEF PipelineStep, TaskStep, SecondPass, PrepareReset, PrepareCell, PrepareEnd, InduceStart,
         InduceCell, InduceStore, InduceEnd, UpdateStart, UpdateEntry, UpdateEnd, NextIteration
<1>4. Typed' /\ n' >= 2
  BY <1>1, <1>3 DEF Typed, n
<1>5. OrderInv(type', OrderOf(rd, type'), VisibleSA', buckets', ScannedCells')
  <2>1. CASE SameView
    BY <1>1, <2>1 DEF SameView
  <2>2. CASE Sequential!NextPass
    <3>1. /\ ScannedCells = n /\ type = L_Type /\ type' = S_Type
          /\ buckets' = generate_buckets(s, K, TRUE)
          /\ ScannedCells' = 0 /\ VisibleSA' = VisibleSA
      BY <2>2, SameVocabulary DEF Sequential!NextPass, VisibleSA, n
    <3>2. ASSUME NEW p \in Positions(s), NEW q \in Positions(s), t[p] = L_Type, t[q] = L_Type,
                 << p, q >> \in OrderOf(rd, L_Type)
          PROVE  << p, q >> \in OrderOf(rd, S_Type)
      <4>1. CASE rd = 2
        BY <3>2, <4>1 DEF OrderOf
      <4>2. CASE rd = 1
        <5>1. << p, q >> \in NotAfter(LPairs)
          BY <3>2, <4>2 DEF OrderOf
        <5>2. << p, q >> \in NotAfter(LMSPairs)
          BY <1>1, <3>2, <5>1, LPairsSwitch
        <5> QED
          BY <4>2, <5>2 DEF OrderOf, L_Type, S_Type
      <4> QED
        BY <4>1, <4>2
    <3>3. /\ SeqInv(L_Type, VisibleSA, buckets, n)
          /\ OrderInv(L_Type, OrderOf(rd, L_Type), VisibleSA, buckets, n)
      BY <1>1, <3>1
    <3>4. OrderInv(S_Type, OrderOf(rd, S_Type), VisibleSA, generate_buckets(s, K, TRUE), 0)
      BY <1>1, <3>2, <3>3, OrderSwitches
    <3> QED
      BY <3>1, <3>4
  <2>3. CASE Sequential!Visit /\ ScannedCells \in 0 .. n - 1
    <3> DEFINE sc == ScannedCells
               v == VisibleSA[CellAfter(type, sc)]
               q == v - 1
    <3>1. /\ ScannedCells < n /\ ScannedCells' = ScannedCells + 1 /\ type' = type
          /\ ~Induces(type, v) => VisibleSA' = VisibleSA /\ buckets' = buckets
          /\ Induces(type, v) =>
               /\ VisibleSA' = [ VisibleSA EXCEPT ![NextFree(type, buckets, At(s, q))] = q ]
               /\ buckets' = Advanced(type, buckets, At(s, q))
      BY <1>1, <2>3, VisitFacts
    <3>2. sc \in 0 .. n - 1
      BY <2>3
    <3>3. PassOrder(type, OrderOf(rd, type))
      BY <1>1, OrdersOfPasses
    <3>4. OrderInv(type, OrderOf(rd, type), VisibleSA', buckets', sc + 1)
      <4>1. CASE Induces(type, v)
        BY <1>1, <3>1, <3>2, <3>3, <4>1, OrderAfterInduced
      <4>2. CASE ~Induces(type, v)
        BY <1>1, <3>1, <3>2, <4>2, OrderAfterNothing
      <4> QED
        BY <4>1, <4>2
    <3> QED
      BY <3>1, <3>4
  <2> QED
    BY <1>2, <2>1, <2>2, <2>3
<1>6. OrderInv(type, OrderOf(rd, type), VisibleSA, buckets, ScannedCells)'
  BY <1>3, <1>5, OrderInvNext
<1> QED
  BY <1>2, <1>4, <1>6 DEF InducingInv

-----------------------------------------------------------------------------
(* The ends of the inductions *)

\* Between the inductions the pipeline rests with empty buffers.
BuffersIdle ==
  /\ index \in [Tasks -> Int]
  /\ r \in [Parities -> [0 .. PartLength -> (0 .. K - 1) \X (0 .. None)]]
  /\ w \in [Parities -> [0 .. PartLength -> Int \X (0 .. None)]]
  /\ store = NoStore
  /\ \A p \in Parities, x \in 0 .. PartLength : ~Valid(w[p][x])

\* An L pass is entered with the seeds in SA.
PassStarted(rd) ==
  /\ BuffersIdle /\ Typed /\ n >= 2
  /\ type = L_Type /\ buckets = generate_buckets(s, K, FALSE)
  /\ blocknum = 0 /\ pc = Spawned(0) /\ w_count = [ p \in Parities |-> 0 ]
  /\ Seeding(OrderOf(rd, L_Type), SA)

\* A pass entered with the seeds in order satisfies the invariant of the passes.
LEMMA PassBegins ==
  ASSUME NEW rd \in { 1, 2 }, PassStarted(rd)
  PROVE  InducingInv(rd)
<1>1. /\ BuffersIdle /\ Typed /\ n >= 2
      /\ type = L_Type /\ buckets = generate_buckets(s, K, FALSE)
      /\ blocknum = 0 /\ pc = Spawned(0) /\ w_count = [ p \in Parities |-> 0 ]
      /\ Seeding(OrderOf(rd, L_Type), SA)
  BY DEF PassStarted
<1>2. /\ n \in Nat \ {0} /\ Positions(s) = 0 .. n - 1 /\ TypesGiven /\ s \in Texts
      /\ block_amount \in Nat \ {0} /\ None \in Nat /\ n < None
  BY <1>1, TypedFacts, TextFacts, ConstantFacts DEF TypesGiven
<1>3. SA \in [ Positions(s) -> Positions(s) \cup { None } ]
  BY <1>1 DEF Seeding
<1>4. \A p \in Parities, x \in 0 .. PartLength : ~Valid(w[p][x])
  BY <1>1 DEF BuffersIdle
<1>5. TypeOK
  <2>1. t \in [Positions(s) -> { L_Type, S_Type }]
    BY <1>2 DEF TypesGiven
  <2>2. SA \in [Positions(s) -> 0 .. None]
    BY <1>2, <1>3
  <2>3. buckets \in [0 .. K - 1 -> Int]
    BY <1>1, <1>2, BucketsType
  <2>4. blocknum \in 0 .. block_amount + 2 /\ blocknum \in 0 .. block_amount + 3
    BY <1>1, <1>2
  <2>5. pc \in [Tasks -> { "idle", "start", "run" }]
    BY <1>1, <1>2, <2>4, SpawnedFacts
  <2>6. w_count \in [Parities -> 0 .. PartLength]
    BY <1>1, ConstantFacts
  <2> QED
    BY <1>1, <1>2, <2>1, <2>2, <2>3, <2>4, <2>5, <2>6 DEF TypeOK, BuffersIdle
<1>6. pc["induce"] # "run" /\ pc["update"] # "run"
  BY <1>1, <1>2, SpawnedFacts DEF Tasks
<1>7. Schedule
  <2>1. \A task \in Tasks : pc[task] # "idle" => StageOf(task, blocknum) >= 0
    BY <1>1, <1>2, SpawnedFacts
  <2> QED
    BY <1>1, <1>2, <1>6, <2>1 DEF Schedule, BuffersIdle
<1>8. PipelineInv
  BY <1>1, <1>4, <1>5, <1>6, <1>7, BlockFacts
     DEF PipelineInv, FillingInOrder, FlushingInOrder
<1>9. Pending = {}
  BY <1>1, <1>4 DEF Pending, BuffersIdle
<1>10. VisibleSA = SA
  BY <1>3, <1>9 DEF VisibleSA, Visible
<1>11. ScannedCells = 0
  BY <1>1, <1>5, <1>7, ScanProgress DEF Progress
<1>12. PendingInv
  BY <1>1, <1>3, <1>4, <1>9 DEF PendingInv, BuffersIdle
<1>13. IndexInv /\ RecordsInv
  <2>1. pc["prepare"] = "start"
    BY <1>1, <1>2 DEF Spawned, Tasks, StageOf
  <2>2. ~(StageOf("induce", blocknum) >= 0)
    BY <1>1, <1>2 DEF StageOf
  <2> QED
    BY <1>6, <2>1, <2>2 DEF IndexInv, RecordsInv
<1>14. /\ SeqInv(type, VisibleSA, buckets, ScannedCells)
       /\ OrderInv(type, OrderOf(rd, type), VisibleSA, buckets, ScannedCells)
  BY <1>1, <1>10, <1>11, SeedingStarts
<1> QED
  BY <1>1, <1>8, <1>12, <1>13, <1>14 DEF InducingInv, RefinementInv

\* The two inductions, as facts about a state and about the next one.
LEMMA FirstBegins == PassStarted(1) => InducingInv(1)
BY PassBegins

LEMMA FirstBeginsNext == PassStarted(1)' => InducingInv(1)'
BY FirstBegins, PTL

LEMMA SecondBegins == PassStarted(2) => InducingInv(2)
BY PassBegins

LEMMA SecondBeginsNext == PassStarted(2)' => InducingInv(2)'
BY SecondBegins, PTL

\* At the end of an S pass SA holds every suffix once, in the order of the passes,
\* and the buffers are empty.
InducedOrder(rd) ==
  /\ SA \in [ Positions(s) -> Positions(s) ]
  /\ \A q \in Positions(s) : \E x \in Positions(s) : SA[x] = q
  /\ \A x, y \in Positions(s) : SA[x] = SA[y] => x = y
  /\ \A x, y \in Positions(s) : x < y => << SA[x], SA[y] >> \in OrderOf(rd, S_Type)

\* PassDone in the S pass: SA is filled and nothing is pending.
LEMMA PassEnds ==
  ASSUME NEW rd \in { 1, 2 }, InducingInv(rd), PassDone, type = S_Type
  PROVE  BuffersIdle /\ InducedOrder(rd)
<1>1. /\ PipelineInv /\ TypeOK /\ Schedule /\ PendingInv /\ Typed /\ n >= 2
      /\ SeqInv(type, VisibleSA, buckets, ScannedCells)
      /\ OrderInv(type, OrderOf(rd, type), VisibleSA, buckets, ScannedCells)
  BY DEF InducingInv, RefinementInv, PipelineInv
<1>2. store = NoStore /\ \A p \in Parities, x \in 0 .. PartLength : ~Valid(w[p][x])
  BY <1>1, EmptyAtPassEnd
<1>3. BuffersIdle
  BY <1>1, <1>2 DEF BuffersIdle, TypeOK
<1>4. Pending = {}
  BY <1>2 DEF Pending
<1>5. VisibleSA = SA
  BY <1>1, <1>4 DEF VisibleSA, Visible, TypeOK
<1>6. ScannedCells = n
  <2>1. blocknum = block_amount + 3 /\ block_amount \in Nat
    BY <1>1, TextFacts DEF PassDone, TypeOK
  <2> QED
    BY <1>1, <2>1, ScanProgress DEF Progress
<1>7. PassOrder(S_Type, OrderOf(rd, S_Type))
  BY <1>1, OrdersOfPasses
<1>8. InducedOrder(rd)
  BY <1>1, <1>5, <1>6, <1>7, PassesSort DEF InducedOrder
<1> QED
  BY <1>3, <1>8

\* The LMS suffixes in text order start the first induction.
LEMMA FirstSeeds ==
  Typed /\ SA = InsertLMS(s, t, TextOrder(s)) => Seeding(OrderOf(1, L_Type), SA)
BY TextOrderSeeds DEF OrderOf

LEMMA FirstSeedsNext ==
  (Typed /\ SA = InsertLMS(s, t, TextOrder(s)) => Seeding(OrderOf(1, L_Type), SA))'
BY FirstSeeds, PTL

\* EnterPass(L_Type) asks for the starts of the buckets.
LEMMA FirstBuckets ==
  generate_buckets(s, K, L_Type = S_Type) = generate_buckets(s, K, FALSE)
BY DEF generate_buckets, L_Type, S_Type

\* InsertUnsortedLMS enters the first induction.
LEMMA InsertStarts ==
  ASSUME BuffersIdle, Typed, n >= 2, InsertUnsortedLMS
  PROVE  PassStarted(1)'
<1>1. /\ UNCHANGED << s, t, index, r, w, store >>
      /\ SA' = InsertLMS(s, t, TextOrder(s)) /\ EnterPass(L_Type)
  BY DEF InsertUnsortedLMS
<1>2. /\ type' = L_Type /\ buckets' = generate_buckets(s, K, FALSE)
      /\ blocknum' = 0 /\ pc' = Spawned(0) /\ w_count' = [ p \in Parities |-> 0 ]
  BY <1>1, FirstBuckets DEF EnterPass
<1>3. Typed' /\ n' >= 2 /\ BuffersIdle'
  BY <1>1 DEF Typed, n, BuffersIdle, Valid
<1>4. Seeding(OrderOf(1, L_Type), SA)'
  BY <1>1, <1>3, FirstSeedsNext
<1>5. Spawned(0)' = Spawned(0)
  BY <1>1 DEF Spawned, StageOf, block_amount, n
<1> QED
  BY <1>1, <1>2, <1>3, <1>4, <1>5 DEF PassStarted

\* FinalInducing enters the second.
LEMMA FinalStarts ==
  ASSUME BuffersIdle, Typed, n >= 2, Seeding(OrderOf(2, L_Type), SA), FinalInducing
  PROVE  PassStarted(2)'
<1>1. /\ UNCHANGED << s, t, SA, index, r, w, store >> /\ EnterPass(L_Type)
  BY DEF FinalInducing
<1>2. /\ type' = L_Type /\ buckets' = generate_buckets(s, K, FALSE)
      /\ blocknum' = 0 /\ pc' = Spawned(0) /\ w_count' = [ p \in Parities |-> 0 ]
  BY <1>1, FirstBuckets DEF EnterPass
<1>3. Typed' /\ n' >= 2 /\ BuffersIdle'
  BY <1>1 DEF Typed, n, BuffersIdle, Valid
<1>4. Seeding(OrderOf(2, L_Type), SA)'
  <2>1. \A c : Region(S_Type, c)' = Region(S_Type, c)
    BY <1>1 DEF Region, Start, End, Count, OfKind
  <2>2. OrderOf(2, L_Type)' = OrderOf(2, L_Type)
    BY <1>1 DEF OrderOf, NotAfter, LessPairs
  <2> QED
    BY <1>1, <2>1, <2>2 DEF Seeding
<1>5. Spawned(0)' = Spawned(0)
  BY <1>1 DEF Spawned, StageOf, block_amount, n
<1> QED
  BY <1>1, <1>2, <1>3, <1>4, <1>5 DEF PassStarted

-----------------------------------------------------------------------------
(* The LMS suffixes in text order *)

\* Sizes of sets, by maps between them.
LEMMA AtMostAsMany ==
  ASSUME NEW S, NEW T, IsFiniteSet(T), NEW f \in [ S -> T ],
         \A p, q \in S : f[p] = f[q] => p = q
  PROVE  IsFiniteSet(S) /\ Cardinality(S) <= Cardinality(T)
<1>1. f \in Injection(S, T)
  BY DEF Injection, IsInjective
<1> QED
  BY <1>1, FS_Injection

\* A one-to-one map onto T counts T.
LEMMA AsMany ==
  ASSUME NEW S, NEW T, IsFiniteSet(S), NEW f \in [ S -> T ],
         \A p, q \in S : f[p] = f[q] => p = q,
         \A q \in T : \E p \in S : f[p] = q
  PROVE  IsFiniteSet(T) /\ Cardinality(S) = Cardinality(T)
<1>1. f \in Injection(S, T) /\ f \in Surjection(S, T)
  BY DEF Injection, IsInjective, Surjection
<1> QED
  BY <1>1, FS_Surjection

\* Numbers in ascending and in descending order.
Ascending == { pq \in Nat \X Nat : pq[1] < pq[2] }
Descending == { pq \in Nat \X Nat : pq[1] > pq[2] }

\* Numbers are ordered both ways.
LEMMA NumberOrders ==
  ASSUME NEW T, T \subseteq Nat
  PROVE  Orders(Ascending, T) /\ Orders(Descending, T)
<1>1. \A p, q \in Nat : /\ << p, q >> \in Ascending <=> p < q
                        /\ << p, q >> \in Descending <=> p > q
  BY DEF Ascending, Descending
<1>2. \A p \in T : p \in Nat
  OBVIOUS
<1> QED
  BY <1>1, <1>2 DEF Orders

LMSSet == LMSPositions(s, t)
LMSCount == Cardinality(LMSSet)

\* LMS positions are two apart, and one is the sentinel's.
LEMMA LMSApart ==
  ASSUME Typed, n >= 2
  PROVE  /\ LMSSet \subseteq 1 .. n - 1 /\ LMSSet \subseteq Positions(s) /\ LMSSet \subseteq Nat
         /\ IsFiniteSet(LMSSet)
         /\ \A p \in LMSSet : is_LMS(t, p) /\ t[p] = S_Type
         /\ \A p \in Positions(s) : is_LMS(t, p) => p \in LMSSet
         /\ n - 1 \in LMSSet
         /\ \A p, q \in LMSSet : p < q => p + 1 < q
         /\ \A p, q \in LMSSet : p \div 2 = q \div 2 => p = q
         /\ LMSCount \in Nat /\ LMSCount >= 1 /\ 2 * LMSCount <= n
<1>1. /\ n \in Nat \ {0} /\ Positions(s) = 0 .. n - 1 /\ L_Type # S_Type
      /\ IsFiniteSet(Positions(s)) /\ is_LMS(t, n - 1)
  BY TypedFacts, PositionsFinite, Neighbours DEF L_Type, S_Type
<1>2. /\ LMSSet \subseteq 1 .. n - 1 /\ LMSSet \subseteq Positions(s) /\ LMSSet \subseteq Nat
      /\ \A p \in LMSSet : is_LMS(t, p) /\ t[p] = S_Type /\ t[p - 1] = L_Type
      /\ \A p \in Positions(s) : is_LMS(t, p) => p \in LMSSet
      /\ n - 1 \in LMSSet
  BY <1>1 DEF LMSSet, LMSPositions, is_LMS
<1>3. IsFiniteSet(LMSSet)
  BY <1>1, <1>2, FS_Subset
<1>4. ASSUME NEW p \in LMSSet, NEW q \in LMSSet, p < q PROVE p + 1 < q
  <2>1. p \in Nat /\ q \in Nat /\ t[p] = S_Type /\ t[q - 1] = L_Type
    BY <1>2
  <2>2. q - 1 # p
    BY <1>1, <2>1
  <2> QED
    BY <1>4, <2>1, <2>2
<1>5. ASSUME NEW p \in LMSSet, NEW q \in LMSSet, p # q
      PROVE  p \div 2 # q \div 2 /\ (p - 1) \div 2 # (q - 1) \div 2
  <2>1. p \in Nat /\ q \in Nat /\ p >= 1 /\ q >= 1
    BY <1>1, <1>2
  <2>2. p + 1 < q \/ q + 1 < p
    BY <1>4, <1>5, <2>1
  <2> QED
    BY <2>1, <2>2
<1>6. LMSCount \in Nat /\ LMSCount >= 1
  <2>1. LMSCount \in Nat
    BY <1>3, FS_CardinalityType DEF LMSCount
  <2>2. LMSCount # 0
    BY <1>2, <1>3, FS_EmptySet DEF LMSCount
  <2> QED
    BY <2>1, <2>2
<1>7. 2 * LMSCount <= n
  <2> DEFINE T == 0 .. (n \div 2) - 1
             f == [ p \in LMSSet |-> (p - 1) \div 2 ]
  <2>1. n \div 2 \in Nat /\ 2 * (n \div 2) <= n
    BY <1>1
  <2>2. IsFiniteSet(T) /\ Cardinality(T) = n \div 2
    <3>1. \A h \in Nat : /\ 0 \in Int /\ h - 1 \in Int
                         /\ (IF 0 > h - 1 THEN 0 ELSE (h - 1) - 0 + 1) = h
      OBVIOUS
    <3> QED
      BY <2>1, <3>1, FS_Interval
  <2>3. \A p \in LMSSet : (p - 1) \div 2 \in T
    <3> TAKE p \in LMSSet
    <3>1. p \in 1 .. n - 1
      BY <1>2
    <3> QED
      BY <1>1, <3>1
  <2>4. f \in [ LMSSet -> T ]
    BY <2>3
  <2>5. \A p, q \in LMSSet : f[p] = f[q] => p = q
    BY <1>5
  <2> HIDE DEF f, T
  <2>6. LMSCount <= Cardinality(T)
    BY <2>2, <2>4, <2>5, AtMostAsMany DEF LMSCount
  <2> QED
    BY <1>1, <1>6, <2>1, <2>2, <2>6
<1> QED
  BY <1>2, <1>3, <1>4, <1>5, <1>6, <1>7

\* The LMS positions by number.
LEMMA LMSNumbers ==
  ASSUME Typed, n >= 2
  PROVE  /\ \A k \in 0 .. LMSCount - 1 : LMSAt(k) \in LMSSet
         /\ \A a, b \in 0 .. LMSCount - 1 : a < b <=> LMSAt(a) < LMSAt(b)
         /\ \A a, b \in 0 .. LMSCount - 1 : LMSAt(a) = LMSAt(b) => a = b
         /\ \A p \in LMSSet : \E k \in 0 .. LMSCount - 1 : LMSAt(k) = p
         /\ LMSAt(LMSCount - 1) = n - 1
<1>1. /\ LMSSet \subseteq 1 .. n - 1 /\ LMSSet \subseteq Nat /\ IsFiniteSet(LMSSet)
      /\ n - 1 \in LMSSet /\ LMSCount \in Nat /\ LMSCount >= 1 /\ n \in Nat
  BY LMSApart, TypedFacts
<1>2. /\ \A p \in LMSSet : Place(Ascending, LMSSet, p) \in 0 .. LMSCount - 1
      /\ \A p, q \in LMSSet :
           << p, q >> \in Ascending <=> Place(Ascending, LMSSet, p) < Place(Ascending, LMSSet, q)
      /\ \A p, q \in LMSSet :
           Place(Ascending, LMSSet, p) = Place(Ascending, LMSSet, q) => p = q
      /\ \A k \in 0 .. LMSCount - 1 : \E p \in LMSSet : Place(Ascending, LMSSet, p) = k
  <2>1. Orders(Ascending, LMSSet) /\ IsFiniteSet(LMSSet)
    BY <1>1, NumberOrders
  <2> QED
    BY <2>1, OrderPlaces DEF LMSCount
<1>3. \A p, q \in LMSSet : << p, q >> \in Ascending <=> p < q
  BY <1>1 DEF Ascending
<1>4. ASSUME NEW p \in LMSSet
      PROVE  Cardinality({ q \in LMSSet : q < p }) = Place(Ascending, LMSSet, p)
  <2>1. { q \in LMSSet : q < p } = { q \in LMSSet : << q, p >> \in Ascending }
    BY <1>3
  <2> QED
    BY <2>1 DEF Place
<1>5. ASSUME NEW k \in 0 .. LMSCount - 1
      PROVE  LMSAt(k) \in LMSSet /\ Place(Ascending, LMSSet, LMSAt(k)) = k
  <2>1. \E p \in LMSSet : Cardinality({ q \in LMSSet : q < p }) = k
    BY <1>2, <1>4
  <2>2. LMSAt(k) = CHOOSE p \in LMSSet : Cardinality({ q \in LMSSet : q < p }) = k
    BY DEF LMSAt, LMSSet
  <2>3. LMSAt(k) \in LMSSet /\ Cardinality({ q \in LMSSet : q < LMSAt(k) }) = k
    BY <2>1, <2>2
  <2> QED
    BY <1>4, <2>3
<1>6. ASSUME NEW p \in LMSSet PROVE \E k \in 0 .. LMSCount - 1 : LMSAt(k) = p
  <2>1. Place(Ascending, LMSSet, p) \in 0 .. LMSCount - 1
    BY <1>2
  <2> QED
    BY <1>2, <1>5, <2>1
<1>7. \A a, b \in 0 .. LMSCount - 1 : a < b <=> LMSAt(a) < LMSAt(b)
  <2> TAKE a, b \in 0 .. LMSCount - 1
  <2>1. /\ LMSAt(a) \in LMSSet /\ Place(Ascending, LMSSet, LMSAt(a)) = a
        /\ LMSAt(b) \in LMSSet /\ Place(Ascending, LMSSet, LMSAt(b)) = b
    BY <1>5
  <2>2. << LMSAt(a), LMSAt(b) >> \in Ascending <=> a < b
    BY <1>2, <2>1
  <2> QED
    BY <1>3, <2>1, <2>2
<1>8. LMSAt(LMSCount - 1) = n - 1
  <2>1. PICK k \in 0 .. LMSCount - 1 : LMSAt(k) = n - 1
    BY <1>1, <1>6
  <2>2. LMSCount - 1 \in 0 .. LMSCount - 1 /\ LMSAt(LMSCount - 1) \in 1 .. n - 1
    <3>1. LMSCount - 1 \in 0 .. LMSCount - 1
      BY <1>1
    <3> QED
      BY <1>1, <1>5, <3>1
  <2>3. ~(k < LMSCount - 1)
    <3> SUFFICES ASSUME k < LMSCount - 1 PROVE FALSE
      OBVIOUS
    <3>1. LMSAt(k) < LMSAt(LMSCount - 1)
      BY <1>7, <2>2
    <3> QED
      BY <1>1, <2>1, <2>2, <3>1
  <2> QED
    BY <1>1, <2>1, <2>3
<1> QED
  BY <1>5, <1>6, <1>7, <1>8

-----------------------------------------------------------------------------
(* Collecting the LMS suffixes *)

\* The first cells of SA hold the LMS suffixes, each once, in order.
LMSInFront(R) ==
  /\ n1 = LMSCount
  /\ SA \in [ Positions(s) -> Positions(s) \cup { None } ]
  /\ \A x \in 0 .. n1 - 1 : SA[x] \in LMSSet
  /\ \A p \in LMSSet : \E x \in 0 .. n1 - 1 : SA[x] = p
  /\ \A x, y \in 0 .. n1 - 1 : SA[x] = SA[y] => x = y
  /\ \A x, y \in 0 .. n1 - 1 : x < y => << SA[x], SA[y] >> \in R

ClearAbove == \A x \in Positions(s) : x >= n1 => SA[x] = None

\* CollectLMS keeps the order of the first induction.
LEMMA CollectFacts ==
  ASSUME Typed, n >= 2, InducedOrder(1), CollectLMS
  PROVE  LMSInFront(NotAfter(LMSPairs))' /\ ClearAbove'
<1> DEFINE cells == { c \in Positions(s) : is_LMS(t, SA[c]) }
           at(k) == CHOOSE e \in cells : Place(Ascending, cells, e) = k
           m == Cardinality(cells)
<1>1. /\ SA \in [ Positions(s) -> Positions(s) ]
      /\ \A q \in Positions(s) : \E x \in Positions(s) : SA[x] = q
      /\ \A x, y \in Positions(s) : SA[x] = SA[y] => x = y
      /\ \A x, y \in Positions(s) : x < y => << SA[x], SA[y] >> \in NotAfter(LMSPairs)
  BY DEF InducedOrder, OrderOf, L_Type, S_Type
<1>2. /\ n \in Nat \ {0} /\ Positions(s) = 0 .. n - 1 /\ IsFiniteSet(Positions(s))
      /\ LMSSet \subseteq Positions(s) /\ \A p \in LMSSet : is_LMS(t, p)
      /\ \A p \in Positions(s) : is_LMS(t, p) => p \in LMSSet
      /\ IsFiniteSet(LMSSet) /\ LMSCount \in Nat /\ 2 * LMSCount <= n /\ LMSCount >= 1
  BY TypedFacts, PositionsFinite, LMSApart
<1>3. /\ cells \subseteq Positions(s) /\ cells \subseteq Nat /\ IsFiniteSet(cells)
      /\ \A c \in cells : SA[c] \in LMSSet
      /\ \A p \in LMSSet : \E c \in cells : SA[c] = p
  <2>1. cells \subseteq Positions(s)
    OBVIOUS
  <2>2. IsFiniteSet(cells)
    BY <1>2, <2>1, FS_Subset
  <2>3. \A c \in cells : SA[c] \in LMSSet
    BY <1>1, <1>2
  <2>4. ASSUME NEW p \in LMSSet PROVE \E c \in cells : SA[c] = p
    <3>1. PICK c \in Positions(s) : SA[c] = p
      BY <1>1, <1>2
    <3>2. is_LMS(t, SA[c])
      BY <1>2, <3>1
    <3> QED
      BY <3>1, <3>2
  <2> QED
    BY <1>2, <2>1, <2>2, <2>3, <2>4
<1>4. ASSUME NEW e \in cells
      PROVE  Cardinality({ d \in 0 .. e - 1 : is_LMS(t, SA[d]) }) = Place(Ascending, cells, e)
  <2>1. e \in 0 .. n - 1
    BY <1>2
  <2>2. { d \in 0 .. e - 1 : is_LMS(t, SA[d]) } = { d \in cells : << d, e >> \in Ascending }
    BY <1>2, <2>1 DEF Ascending
  <2> QED
    BY <2>2 DEF Place
<1>5. /\ n1' = m
      /\ SA' = [ k \in Positions(s) |-> IF k < m THEN SA[at(k)] ELSE None ]
      /\ UNCHANGED << s, t >>
  <2> DEFINE rankAmong(e) == Cardinality({ d \in 0 .. e - 1 : is_LMS(t, SA[d]) })
  <2>1. /\ n1' = m
        /\ SA' = [ k \in Positions(s) |->
                     IF k < m THEN SA[CHOOSE c \in cells : rankAmong(c) = k] ELSE None ]
        /\ UNCHANGED << s, t >>
    BY DEF CollectLMS
  <2>2. \A k : (CHOOSE c \in cells : rankAmong(c) = k) = at(k)
    <3> TAKE k
    <3>1. \A c \in cells : rankAmong(c) = k <=> Place(Ascending, cells, c) = k
      BY <1>4
    <3> HIDE DEF rankAmong, cells
    <3> QED
      BY <3>1
  <2> HIDE DEF rankAmong, cells, m, at
  <2> QED
    BY <2>1, <2>2
<1> HIDE DEF cells
<1>6. /\ m \in Nat
      /\ \A c \in cells : Place(Ascending, cells, c) \in 0 .. m - 1
      /\ \A c, d \in cells :
           << c, d >> \in Ascending <=> Place(Ascending, cells, c) < Place(Ascending, cells, d)
      /\ \A c, d \in cells : Place(Ascending, cells, c) = Place(Ascending, cells, d) => c = d
      /\ \A k \in 0 .. m - 1 : \E c \in cells : Place(Ascending, cells, c) = k
  <2>1. Orders(Ascending, cells) /\ IsFiniteSet(cells)
    BY <1>3, NumberOrders
  <2> QED
    BY <2>1, OrderPlaces
<1>7. m = LMSCount
  <2> DEFINE f == [ c \in cells |-> SA[c] ]
  <2>1. f \in [ cells -> LMSSet ]
    BY <1>3
  <2>2. \A c, d \in cells : f[c] = f[d] => c = d
    BY <1>1, <1>3
  <2>3. \A p \in LMSSet : \E c \in cells : f[c] = p
    BY <1>3
  <2> HIDE DEF f
  <2> QED
    BY <1>3, <2>1, <2>2, <2>3, AsMany DEF LMSCount
<1> HIDE DEF m
<1>8. \A k \in 0 .. m - 1 : at(k) \in cells /\ Place(Ascending, cells, at(k)) = k
  BY <1>6
<1> HIDE DEF at
<1>9. \A k \in 0 .. m - 1 : k \in Positions(s) /\ SA'[k] = SA[at(k)]
  BY <1>2, <1>5, <1>7
<1>10. LMSSet' = LMSSet /\ LMSCount' = LMSCount /\ n' = n /\ Positions(s)' = Positions(s)
  BY <1>5 DEF LMSSet, LMSCount, n
<1>11. NotAfter(LMSPairs)' = NotAfter(LMSPairs)
  BY <1>5, <1>10 DEF NotAfter, LMSPairs, LMSBefore, Decides, Smaller, Alike, n
<1>12. \A k \in 0 .. m - 1 : SA'[k] \in LMSSet
  BY <1>3, <1>8, <1>9
<1>13. SA' \in [ Positions(s) -> Positions(s) \cup { None } ]
  <2>1. ASSUME NEW k \in Positions(s), k < m PROVE SA[at(k)] \in Positions(s)
    <3>1. k \in 0 .. m - 1
      BY <1>2, <1>6, <2>1
    <3> QED
      BY <1>2, <1>3, <1>8, <3>1
  <2> QED
    BY <1>5, <2>1
<1>14. ASSUME NEW p \in LMSSet PROVE \E x \in 0 .. m - 1 : SA'[x] = p
  <2>1. PICK c \in cells : SA[c] = p
    BY <1>3
  <2>2. Place(Ascending, cells, c) \in 0 .. m - 1
    BY <1>6
  <2>3. at(Place(Ascending, cells, c)) = c
    BY <1>6, <1>8, <2>2
  <2> QED
    BY <1>9, <2>1, <2>2, <2>3
<1>15. ASSUME NEW x \in 0 .. m - 1, NEW y \in 0 .. m - 1
       PROVE  /\ SA'[x] = SA'[y] => x = y
              /\ x < y => << SA'[x], SA'[y] >> \in NotAfter(LMSPairs)
  <2>1. /\ at(x) \in cells /\ at(y) \in cells /\ SA'[x] = SA[at(x)] /\ SA'[y] = SA[at(y)]
        /\ Place(Ascending, cells, at(x)) = x /\ Place(Ascending, cells, at(y)) = y
    BY <1>8, <1>9
  <2>2. SA'[x] = SA'[y] => at(x) = at(y)
    BY <1>1, <1>3, <2>1
  <2>3. ASSUME x < y PROVE at(x) < at(y)
    <3>1. << at(x), at(y) >> \in Ascending
      BY <1>6, <2>1, <2>3
    <3> QED
      BY <3>1 DEF Ascending
  <2> QED
    BY <1>1, <1>3, <2>1, <2>2, <2>3
<1>16. LMSInFront(NotAfter(LMSPairs))'
  <2>1. /\ \A x \in 0 .. m - 1 : SA'[x] \in LMSSet
        /\ \A p \in LMSSet : \E x \in 0 .. m - 1 : SA'[x] = p
        /\ \A x, y \in 0 .. m - 1 : SA'[x] = SA'[y] => x = y
        /\ \A x, y \in 0 .. m - 1 : x < y => << SA'[x], SA'[y] >> \in NotAfter(LMSPairs)
    BY <1>12, <1>14, <1>15
  <2> QED
    BY <1>5, <1>7, <1>10, <1>11, <1>13, <2>1 DEF LMSInFront
<1>17. ClearAbove'
  <2>1. \A x \in Positions(s) : x >= m => SA'[x] = None
    BY <1>2, <1>5, <1>6
  <2> QED
    BY <1>5, <1>10, <2>1 DEF ClearAbove
<1> QED
  BY <1>16, <1>17

-----------------------------------------------------------------------------
(* Naming the LMS substrings *)

\* The loop of run_saca finds a difference if one substring is before the other.
LEMMA DifferFacts ==
  ASSUME Typed, NEW p \in Positions(s), NEW q \in Positions(s)
  PROVE  Differ(p, q) <=> LMSBefore(p, q) \/ LMSBefore(q, p)
<1>1. n \in Nat \ {0} /\ Positions(s) = 0 .. n - 1 /\ p \in Nat /\ q \in Nat
  BY TypedFacts
<1>2. ASSUME Differ(p, q) PROVE LMSBefore(p, q) \/ LMSBefore(q, p)
  <2>1. PICK j \in 0 .. n - 1 :
          /\ p + j < n /\ q + j < n
          /\ At(s, p + j) # At(s, q + j) \/ t[p + j] # t[q + j]
          /\ \A k \in 1 .. j - 1 : ~is_LMS(t, p + k) /\ ~is_LMS(t, q + k)
    BY <1>2 DEF Differ
  <2>2. j \in Nat /\ ~Alike(p + j, q + j)
    BY <1>1, <2>1 DEF Alike
  <2>3. PICK k \in 0 .. j : Decides(p, q, k) \/ Decides(q, p, k)
    BY <2>1, <2>2, FirstUnlike
  <2>4. k \in Nat /\ \A l \in 1 .. k - 1 : ~is_LMS(t, p + l) /\ ~is_LMS(t, q + l)
    <3>1. k \in Nat /\ \A l \in 1 .. k - 1 : l \in 1 .. j - 1
      BY <2>2
    <3> QED
      BY <2>1, <3>1
  <2> QED
    BY <2>3, <2>4 DEF LMSBefore
<1>3. ASSUME NEW a \in Positions(s), NEW b \in Positions(s), LMSBefore(a, b)
      PROVE  \E j \in 0 .. n - 1 :
               /\ a + j < n /\ b + j < n
               /\ At(s, a + j) # At(s, b + j) \/ t[a + j] # t[b + j]
               /\ \A k \in 1 .. j - 1 : ~is_LMS(t, a + k) /\ ~is_LMS(t, b + k)
  <2>1. PICK k \in Nat : Decides(a, b, k) /\ \A j \in 1 .. k - 1 : ~is_LMS(t, a + j)
    BY <1>3 DEF LMSBefore
  <2>2. /\ a + k < n /\ b + k < n /\ Smaller(a + k, b + k)
        /\ \A j \in 0 .. k - 1 : Alike(a + j, b + j)
    BY <2>1 DEF Decides
  <2>3. k \in 0 .. n - 1
    BY <1>1, <2>2
  <2>4. At(s, a + k) # At(s, b + k) \/ t[a + k] # t[b + k]
    <3> SUFFICES ASSUME At(s, a + k) = At(s, b + k), t[a + k] = t[b + k] PROVE FALSE
      OBVIOUS
    <3>1. At(s, a + k) \in Nat
      <4>1. a + k \in Positions(s)
        BY <1>1, <2>2
      <4> QED
        BY <4>1, TypedFacts
    <3> QED
      BY <2>2, <3>1 DEF Smaller, L_Type, S_Type
  <2>5. ASSUME NEW j \in 1 .. k - 1 PROVE ~is_LMS(t, b + j)
    <3>1. k - 1 \in Nat
      BY <2>1
    <3>2. is_LMS(t, a + j) <=> is_LMS(t, b + j)
      BY <2>2, <3>1, AlikeLMS
    <3> QED
      BY <2>1, <3>2
  <2> QED
    BY <2>1, <2>2, <2>3, <2>4, <2>5
<1>4. ASSUME LMSBefore(p, q) PROVE Differ(p, q)
  BY <1>3, <1>4 DEF Differ
<1>5. ASSUME LMSBefore(q, p) PROVE Differ(p, q)
  <2>1. PICK j \in 0 .. n - 1 :
               /\ q + j < n /\ p + j < n
               /\ At(s, q + j) # At(s, p + j) \/ t[q + j] # t[p + j]
               /\ \A k \in 1 .. j - 1 : ~is_LMS(t, q + k) /\ ~is_LMS(t, p + k)
    BY <1>3, <1>5
  <2> QED
    BY <2>1 DEF Differ
<1> QED
  BY <1>2, <1>4, <1>5

\* The name of the LMS substring at p.
NameOf(p) == SA[n1 + p \div 2]

\* The first i LMS substrings, in their order, have names: equal for equal ones,
\* smaller for smaller ones, and none left out.
NamesInv ==
  /\ i \in 0 .. n1 /\ name \in 0 .. i
  /\ i > 0 => name >= 1
  /\ i = 0 => previous_LMS = -1
  /\ i > 0 => \E j \in 0 .. i - 1 : previous_LMS = SA[j] /\ NameOf(SA[j]) = name - 1
  /\ \A j \in 0 .. i - 1 : NameOf(SA[j]) \in 0 .. name - 1
  /\ \A v \in 0 .. name - 1 : \E j \in 0 .. i - 1 : NameOf(SA[j]) = v
  /\ \A j, k \in 0 .. i - 1 : NameOf(SA[j]) < NameOf(SA[k]) <=> LMSBefore(SA[j], SA[k])
  /\ \A c \in n1 .. n - 1 : SA[c] # None => \E j \in 0 .. i - 1 : c = n1 + SA[j] \div 2

\* Where the names are put.
LEMMA NameCells ==
  ASSUME Typed, n >= 2, n1 = LMSCount
  PROVE  /\ \A p \in LMSSet : n1 + p \div 2 \in n1 .. n - 1 /\ n1 + p \div 2 \in Positions(s)
         /\ \A p, q \in LMSSet : n1 + p \div 2 = n1 + q \div 2 => p = q
         /\ \A p, q \in LMSSet : p < q <=> n1 + p \div 2 < n1 + q \div 2
<1>1. /\ n \in Nat /\ Positions(s) = 0 .. n - 1 /\ n1 \in Nat /\ 2 * n1 <= n
      /\ LMSSet \subseteq 1 .. n - 1
      /\ \A p, q \in LMSSet : p < q => p + 1 < q
  BY TypedFacts, LMSApart
<1>2. ASSUME NEW p \in LMSSet PROVE n1 + p \div 2 \in n1 .. n - 1 /\ p \in Nat
  <2>1. p \in 1 .. n - 1
    BY <1>1
  <2> QED
    BY <1>1, <2>1
<1>3. ASSUME NEW p \in LMSSet, NEW q \in LMSSet, p < q PROVE n1 + p \div 2 < n1 + q \div 2
  BY <1>1, <1>2, <1>3
<1>4. ASSUME NEW p \in LMSSet, NEW q \in LMSSet
      PROVE  /\ n1 + p \div 2 = n1 + q \div 2 => p = q
             /\ p < q <=> n1 + p \div 2 < n1 + q \div 2
  <2>1. p \in Nat /\ q \in Nat
    BY <1>2
  <2>2. CASE p < q
    BY <1>1, <1>3, <2>1, <2>2
  <2>3. CASE q < p
    BY <1>1, <1>3, <2>1, <2>3
  <2> QED
    BY <1>1, <2>1, <2>2, <2>3
<1> QED
  BY <1>1, <1>2, <1>4

\* NameNext gives the next LMS suffix its name.
LEMMA NameStep ==
  ASSUME Typed, n >= 2, LMSInFront(NotAfter(LMSPairs)), NamesInv, NameNext
  PROVE  LMSInFront(NotAfter(LMSPairs))' /\ NamesInv'
<1> DEFINE cur == SA[i]
           diff == previous_LMS = -1 \/ Differ(cur, previous_LMS)
           newName == IF diff THEN name + 1 ELSE name
           cell == n1 + cur \div 2
           N2(p) == SA'[n1 + p \div 2]
<1>1. /\ n \in Nat \ {0} /\ Positions(s) = 0 .. n - 1 /\ n < None /\ None \in Nat
      /\ n1 = LMSCount /\ n1 \in Nat /\ 2 * n1 <= n
      /\ LMSSet \subseteq Positions(s) /\ LMSSet \subseteq Nat
      /\ SA \in [ Positions(s) -> Positions(s) \cup { None } ]
      /\ \A x \in 0 .. n1 - 1 : SA[x] \in LMSSet
      /\ \A x, y \in 0 .. n1 - 1 : SA[x] = SA[y] => x = y
      /\ \A x, y \in 0 .. n1 - 1 : x < y => ~LMSBefore(SA[y], SA[x])
  BY TypedFacts, LMSApart, TextFacts, ConstantFacts DEF LMSInFront, NotAfter, LMSPairs, TypesGiven
<1>2. /\ i < n1 /\ i \in Nat /\ name \in 0 .. i
      /\ name' = newName /\ previous_LMS' = (IF diff THEN cur ELSE previous_LMS)
      /\ SA' = [ SA EXCEPT ![cell] = newName - 1 ]
      /\ i' = i + 1
      /\ UNCHANGED << s, t, n1 >>
  BY <1>1 DEF NameNext, NamesInv
<1>3. /\ cur \in LMSSet /\ cell \in n1 .. n - 1 /\ cell \in Positions(s) /\ i \in 0 .. n1 - 1
  BY <1>1, <1>2, NameCells
<1>4. \A j \in 0 .. i - 1 : /\ j \in 0 .. n1 - 1 /\ SA[j] \in LMSSet /\ SA[j] \in Positions(s)
                            /\ ~LMSBefore(cur, SA[j]) /\ SA[j] # cur
                            /\ n1 + SA[j] \div 2 # cell /\ n1 + SA[j] \div 2 \in Positions(s)
  <2> TAKE j \in 0 .. i - 1
  <2>1. j \in 0 .. n1 - 1 /\ j < i /\ SA[j] \in LMSSet
    BY <1>1, <1>2
  <2>2. SA[j] # cur /\ ~LMSBefore(cur, SA[j])
    BY <1>1, <1>3, <2>1
  <2> QED
    BY <1>1, <1>3, <2>1, <2>2, NameCells
<1>5. newName \in 0 .. i + 1 /\ newName >= 1 /\ newName - 1 \in Positions(s) /\ newName - 1 # None
  <2>1. newName >= 1
    <3>1. CASE i = 0
      BY <1>2, <3>1 DEF NamesInv
    <3>2. CASE i > 0
      BY <1>2, <3>2 DEF NamesInv
    <3> QED
      BY <1>2, <3>1, <3>2
  <2>2. newName \in 0 .. i + 1
    BY <1>2
  <2> HIDE DEF newName
  <2> QED
    BY <1>1, <1>2, <2>1, <2>2
<1>6. LMSSet' = LMSSet /\ LMSCount' = LMSCount /\ n' = n
  BY <1>2 DEF LMSSet, LMSCount, n
<1>7. /\ \A p, q : LMSBefore(p, q)' <=> LMSBefore(p, q)
      /\ NotAfter(LMSPairs)' = NotAfter(LMSPairs)
  BY <1>2, <1>6 DEF NotAfter, LMSPairs, LMSBefore, Decides, Smaller, Alike, n
<1> HIDE DEF cur, cell, newName, diff
<1>8. /\ \A x \in 0 .. n1 - 1 : SA'[x] = SA[x]
      /\ SA'[cell] = newName - 1
      /\ \A x \in Positions(s) : x # cell => SA'[x] = SA[x]
      /\ SA' \in [ Positions(s) -> Positions(s) \cup { None } ]
  BY <1>1, <1>2, <1>3, <1>5
<1>9. LMSInFront(NotAfter(LMSPairs))'
  BY <1>1, <1>2, <1>6, <1>7, <1>8 DEF LMSInFront
<1>10. /\ \A j \in 0 .. i - 1 : SA'[j] = SA[j] /\ N2(SA'[j]) = NameOf(SA[j])
       /\ SA'[i] = cur /\ N2(SA'[i]) = newName - 1
  <2>1. \A j \in 0 .. i - 1 : SA'[j] = SA[j] /\ SA'[n1 + SA[j] \div 2] = SA[n1 + SA[j] \div 2]
    BY <1>4, <1>8
  <2>2. SA'[i] = cur
    BY <1>3, <1>8 DEF cur
  <2>3. SA'[n1 + SA'[i] \div 2] = newName - 1
    BY <1>8, <2>2 DEF cell
  <2> QED
    BY <2>1, <2>2, <2>3 DEF NameOf
<1> HIDE DEF N2
<1>11. \A j \in 0 .. i - 1 : NameOf(SA[j]) \in 0 .. name - 1 /\ NameOf(SA[j]) \in Nat
  BY <1>2 DEF NamesInv
\* The new name against the names there are.
<1>12. ASSUME NEW j \in 0 .. i - 1
       PROVE  /\ NameOf(SA[j]) < newName - 1 <=> LMSBefore(SA[j], cur)
              /\ ~(newName - 1 < NameOf(SA[j]))
              /\ NameOf(SA[j]) \in 0 .. newName - 1
  <2>1. PICK l \in 0 .. i - 1 : previous_LMS = SA[l] /\ NameOf(SA[l]) = name - 1
    BY <1>2 DEF NamesInv
  <2>2. /\ NameOf(SA[j]) < NameOf(SA[l]) <=> LMSBefore(SA[j], SA[l])
        /\ NameOf(SA[l]) < NameOf(SA[j]) <=> LMSBefore(SA[l], SA[j])
    BY DEF NamesInv
  <2>3. SA[l] \in Positions(s) /\ SA[j] \in Positions(s) /\ cur \in Positions(s)
        /\ ~LMSBefore(cur, SA[l]) /\ ~LMSBefore(cur, SA[j])
    BY <1>1, <1>3, <1>4
  <2>4. previous_LMS # -1
    BY <1>1, <2>1, <2>3
  <2>5. diff <=> LMSBefore(SA[l], cur)
    BY <2>1, <2>3, <2>4, DifferFacts DEF diff
  <2>6. NameOf(SA[j]) \in 0 .. name - 1 /\ name \in Nat
    BY <1>2, <1>11
  <2>7. /\ LMSBefore(SA[l], cur) => LMSBefore(SA[l], SA[j]) \/ LMSBefore(SA[j], cur)
        /\ LMSBefore(SA[j], cur) => LMSBefore(SA[j], SA[l]) \/ LMSBefore(SA[l], cur)
        /\ LMSBefore(SA[j], SA[l]) => LMSBefore(SA[j], cur) \/ LMSBefore(cur, SA[l])
    BY <2>3, LMSBeforeFacts
  <2>8. CASE diff
    <3>1. newName - 1 = name
      BY <2>6, <2>8 DEF newName
    <3>2. LMSBefore(SA[j], cur)
      BY <2>1, <2>2, <2>5, <2>6, <2>7, <2>8
    <3> QED
      BY <2>6, <3>1, <3>2
  <2>9. CASE ~diff
    <3>1. newName = name
      BY <2>9 DEF newName
    <3>2. LMSBefore(SA[j], cur) <=> LMSBefore(SA[j], SA[l])
      BY <2>3, <2>5, <2>7, <2>9
    <3> QED
      BY <2>1, <2>2, <2>6, <3>1, <3>2
  <2> QED
    BY <2>8, <2>9
<1>13. ~LMSBefore(cur, cur)
  <2>1. cur \in Positions(s)
    BY <1>1, <1>3
  <2> QED
    BY <2>1, LMSBeforeFacts, LessOrder, TypedFacts
<1>14. ASSUME NEW j \in 0 .. i, NEW k \in 0 .. i
       PROVE  N2(SA'[j]) < N2(SA'[k]) <=> LMSBefore(SA'[j], SA'[k])
  <2>1. j \in 0 .. i - 1 \/ j = i
    BY <1>2
  <2>2. k \in 0 .. i - 1 \/ k = i
    BY <1>2
  <2>4. CASE j \in 0 .. i - 1 /\ k \in 0 .. i - 1
    BY <1>10, <2>4 DEF NamesInv
  <2>5. CASE j = i /\ k \in 0 .. i - 1
    BY <1>4, <1>10, <1>12, <2>5
  <2>6. CASE j \in 0 .. i - 1 /\ k = i
    BY <1>10, <1>12, <2>6
  <2>7. CASE j = i /\ k = i
    BY <1>5, <1>10, <1>13, <2>7
  <2> QED
    BY <2>1, <2>2, <2>4, <2>5, <2>6, <2>7
<1>15. ASSUME NEW j \in 0 .. i PROVE N2(SA'[j]) \in 0 .. newName - 1
  <2>1. CASE j = i
    BY <1>5, <1>10, <2>1
  <2>2. CASE j \in 0 .. i - 1
    BY <1>10, <1>12, <2>2
  <2> QED
    BY <1>2, <2>1, <2>2
<1>16. ASSUME NEW v \in 0 .. newName - 1 PROVE \E j \in 0 .. i : N2(SA'[j]) = v
  <2>1. CASE v = newName - 1
    BY <1>2, <1>10, <2>1
  <2>2. CASE v # newName - 1
    <3>1. v \in 0 .. name - 1
      <4>1. newName = name + 1 \/ newName = name
        BY DEF newName
      <4> QED
        BY <1>2, <2>2, <4>1
    <3>2. PICK j \in 0 .. i - 1 : NameOf(SA[j]) = v
      BY <3>1 DEF NamesInv
    <3> QED
      BY <1>2, <1>10, <3>2
  <2> QED
    BY <2>1, <2>2
<1>17. ASSUME NEW c \in n1 .. n - 1, SA'[c] # None PROVE \E j \in 0 .. i : c = n1 + SA'[j] \div 2
  <2>1. CASE c = cell
    BY <1>2, <1>10, <2>1 DEF cell
  <2>2. CASE c # cell
    <3>1. SA'[c] = SA[c]
      BY <1>1, <1>8, <2>2
    <3>2. PICK j \in 0 .. i - 1 : c = n1 + SA[j] \div 2
      BY <1>17, <3>1 DEF NamesInv
    <3> QED
      BY <1>2, <1>10, <3>2
  <2> QED
    BY <2>1, <2>2
<1>18. \E j \in 0 .. i : previous_LMS' = SA'[j] /\ N2(SA'[j]) = newName - 1
  <2>1. CASE diff
    BY <1>2, <1>10, <2>1
  <2>2. CASE ~diff
    <3>1. newName = name
      BY <2>2 DEF newName
    <3>2. i > 0
      BY <1>2, <1>5, <3>1
    <3>3. PICK j \in 0 .. i - 1 : previous_LMS = SA[j] /\ NameOf(SA[j]) = name - 1
      BY <3>2 DEF NamesInv
    <3> QED
      BY <1>2, <1>10, <2>2, <3>1, <3>3
  <2> QED
    BY <2>1, <2>2
<1>19. 0 .. i' - 1 = 0 .. i /\ i' \in 0 .. n1 /\ i' > 0 /\ name' \in 0 .. i' /\ name' >= 1
  BY <1>1, <1>2, <1>5
<1> QED
  <2>1. \A p : NameOf(p)' = N2(p)
    BY <1>2 DEF NameOf, N2
  <2>2. \A j, k : LMSBefore(SA[j], SA[k])' <=> LMSBefore(SA'[j], SA'[k])
    BY <1>7
  <2> QED
    BY <1>2, <1>6, <1>9, <1>14, <1>15, <1>16, <1>17, <1>18, <1>19, <2>1, <2>2 DEF NamesInv

-----------------------------------------------------------------------------
(* The reduced text *)

\* The names are the characters of the reduced text.
ReducedInv ==
  /\ n1 = LMSCount /\ name \in 1 .. n1
  /\ \A k \in 0 .. n1 - 1 : s1[k + 1] \in 0 .. name - 1
  /\ \A v \in 0 .. name - 1 : \E k \in 0 .. n1 - 1 : s1[k + 1] = v
  /\ \A a, b \in 0 .. n1 - 1 : s1[a + 1] < s1[b + 1] <=> LMSBefore(LMSAt(a), LMSAt(b))

\* ShiftNames makes the names, in text order, the reduced text.
LEMMA ShiftStep ==
  ASSUME Typed, n >= 2, LMSInFront(NotAfter(LMSPairs)), NamesInv, ShiftNames
  PROVE  ReducedInv'
<1> DEFINE named == { c \in n1 .. n - 1 : SA[c] # None }
           above(c) == Place(Descending, named, c)
           cell(p) == n1 + p \div 2
<1>1. /\ n \in Nat \ {0} /\ Positions(s) = 0 .. n - 1 /\ n < None /\ None \in Nat
      /\ n1 = LMSCount /\ n1 \in Nat /\ n1 >= 1 /\ 2 * n1 <= n
      /\ LMSSet \subseteq Positions(s) /\ LMSSet \subseteq Nat /\ IsFiniteSet(LMSSet)
      /\ \A x \in 0 .. n1 - 1 : SA[x] \in LMSSet
      /\ \A p \in LMSSet : \E x \in 0 .. n1 - 1 : SA[x] = p
  BY TypedFacts, LMSApart, TextFacts, ConstantFacts DEF LMSInFront, TypesGiven
<1>2. /\ i = n1
      /\ SA' = [ c \in Positions(s) |->
                   IF \E d \in named : n - 1 - above(d) = c
                     THEN SA[CHOOSE d \in named : n - 1 - above(d) = c]
                     ELSE SA[c] ]
      /\ UNCHANGED << s, t, n1, name >>
  <2>1. ASSUME NEW d \in named
        PROVE  Cardinality({ e \in named : e > d }) = above(d)
    <3>1. \A e \in named : e \in Nat
      BY <1>1
    <3>2. { e \in named : e > d } = { e \in named : << e, d >> \in Descending }
      BY <2>1, <3>1 DEF Descending
    <3> QED
      BY <3>2 DEF Place
  <2> DEFINE above2(d) == Cardinality({ e \in named : e > d })
  <2>2. /\ i = n1
        /\ SA' = [ c \in Positions(s) |->
                   IF \E d \in named : n - 1 - above2(d) = c
                     THEN SA[CHOOSE d \in named : n - 1 - above2(d) = c]
                     ELSE SA[c] ]
        /\ UNCHANGED << s, t, n1, name >>
    BY DEF ShiftNames
  <2>3. \A d \in named : above2(d) = above(d)
    BY <2>1
  <2> HIDE DEF named, above, above2
  <2>4. ASSUME NEW c
        PROVE  /\ (\E d \in named : n - 1 - above2(d) = c) <=> (\E d \in named : n - 1 - above(d) = c)
               /\ (CHOOSE d \in named : n - 1 - above2(d) = c)
                    = (CHOOSE d \in named : n - 1 - above(d) = c)
    BY <2>3
  <2> QED
    BY <2>2, <2>4
<1>3. /\ \A p \in LMSSet : cell(p) \in n1 .. n - 1 /\ cell(p) \in Positions(s)
      /\ \A p, q \in LMSSet : cell(p) = cell(q) => p = q
      /\ \A p, q \in LMSSet : p < q <=> cell(p) < cell(q)
  BY <1>1, NameCells
<1>4. /\ \A p \in LMSSet : NameOf(p) \in 0 .. name - 1
      /\ \A v \in 0 .. name - 1 : \E p \in LMSSet : NameOf(p) = v
      /\ \A p, q \in LMSSet : NameOf(p) < NameOf(q) <=> LMSBefore(p, q)
      /\ \A c \in n1 .. n - 1 : SA[c] # None => \E p \in LMSSet : c = cell(p)
      /\ name \in 1 .. n1
  <2>1. /\ \A x \in 0 .. n1 - 1 : NameOf(SA[x]) \in 0 .. name - 1
        /\ \A v \in 0 .. name - 1 : \E x \in 0 .. n1 - 1 : NameOf(SA[x]) = v
        /\ \A x, y \in 0 .. n1 - 1 : NameOf(SA[x]) < NameOf(SA[y]) <=> LMSBefore(SA[x], SA[y])
        /\ \A c \in n1 .. n - 1 : SA[c] # None => \E x \in 0 .. n1 - 1 : c = n1 + SA[x] \div 2
        /\ name \in 0 .. n1 /\ name >= 1
    BY <1>1, <1>2 DEF NamesInv
  <2>2. \A p, q \in LMSSet : NameOf(p) < NameOf(q) <=> LMSBefore(p, q)
    <3> TAKE p, q \in LMSSet
    <3>1. PICK x \in 0 .. n1 - 1 : SA[x] = p
      BY <1>1
    <3>2. PICK y \in 0 .. n1 - 1 : SA[y] = q
      BY <1>1
    <3> QED
      BY <2>1, <3>1, <3>2
  <2>3. \A p \in LMSSet : NameOf(p) \in 0 .. name - 1
    BY <1>1, <2>1
  <2>4. \A v \in 0 .. name - 1 : \E p \in LMSSet : NameOf(p) = v
    BY <1>1, <2>1
  <2>5. \A c \in n1 .. n - 1 : SA[c] # None => \E p \in LMSSet : c = cell(p)
    BY <1>1, <2>1
  <2> QED
    BY <1>1, <2>1, <2>2, <2>3, <2>4, <2>5
<1>5. /\ \A p \in LMSSet : cell(p) \in named
      /\ \A c \in named : \E p \in LMSSet : c = cell(p)
      /\ named \subseteq Nat
  <2>1. ASSUME NEW p \in LMSSet PROVE cell(p) \in named
    <3>1. SA[cell(p)] \in 0 .. name - 1 /\ name \in 1 .. n1
      BY <1>4 DEF NameOf
    <3>2. SA[cell(p)] # None
      BY <1>1, <3>1
    <3> QED
      BY <1>3, <3>2
  <2> QED
    BY <1>1, <1>4, <2>1
<1> HIDE DEF named, cell
<1>6. IsFiniteSet(named) /\ Cardinality(named) = n1
  <2> DEFINE f == [ p \in LMSSet |-> cell(p) ]
  <2>1. /\ f \in [ LMSSet -> named ]
        /\ \A p, q \in LMSSet : f[p] = f[q] => p = q
        /\ \A c \in named : \E p \in LMSSet : f[p] = c
    BY <1>3, <1>5
  <2> HIDE DEF f
  <2>2. IsFiniteSet(LMSSet)
    BY <1>1
  <2>3. IsFiniteSet(named) /\ Cardinality(LMSSet) = Cardinality(named)
    BY <2>1, <2>2, AsMany
  <2> QED
    BY <1>1, <2>3 DEF LMSCount
<1>7. /\ \A c \in named : above(c) \in 0 .. n1 - 1
      /\ \A c, d \in named : << c, d >> \in Descending <=> above(c) < above(d)
      /\ \A c, d \in named : above(c) = above(d) => c = d
  <2>1. Orders(Descending, named) /\ IsFiniteSet(named) /\ Cardinality(named) = n1
    BY <1>5, <1>6, NumberOrders
  <2> QED
    BY <2>1, OrderPlaces
<1> HIDE DEF above
<1>8. /\ \A k \in 0 .. n1 - 1 : LMSAt(k) \in LMSSet
      /\ \A a, b \in 0 .. n1 - 1 : a < b <=> LMSAt(a) < LMSAt(b)
      /\ \A p \in LMSSet : \E k \in 0 .. n1 - 1 : LMSAt(k) = p
  BY <1>1, LMSNumbers
<1>9. \A k \in 0 .. n1 - 1 : above(cell(LMSAt(k))) = n1 - 1 - k
  <2> DEFINE f == [ k \in 0 .. n1 - 1 |-> n1 - 1 - above(cell(LMSAt(k))) ]
  <2>1. \A k \in 0 .. n1 - 1 : above(cell(LMSAt(k))) \in 0 .. n1 - 1
    BY <1>5, <1>7, <1>8
  <2>2. f \in [ 0 .. n1 - 1 -> 0 .. n1 - 1 ]
    BY <1>1, <2>1
  <2>3. ASSUME NEW j \in 0 .. n1 - 1, NEW k \in 0 .. n1 - 1, j < k PROVE f[j] < f[k]
    <3>1. /\ cell(LMSAt(j)) \in named /\ cell(LMSAt(k)) \in named
          /\ cell(LMSAt(j)) < cell(LMSAt(k))
      BY <1>3, <1>5, <1>8, <2>3
    <3>2. << cell(LMSAt(k)), cell(LMSAt(j)) >> \in Descending
      BY <1>5, <3>1 DEF Descending
    <3>3. above(cell(LMSAt(k))) < above(cell(LMSAt(j)))
      BY <1>7, <3>1, <3>2
    <3> QED
      BY <1>1, <2>1, <3>3
  <2> HIDE DEF f
  <2>4. \A k \in 0 .. n1 - 1 : f[k] = k
    BY <1>1, <2>2, <2>3, Identity
  <2> QED
    BY <1>1, <2>1, <2>4 DEF f
<1>10. \A k \in 0 .. n1 - 1 : SA'[n - n1 + k] = NameOf(LMSAt(k))
  <2> TAKE k \in 0 .. n1 - 1
  <2> DEFINE c == n - n1 + k
             d == cell(LMSAt(k))
  <2>1. c \in Positions(s) /\ d \in named /\ above(d) = n1 - 1 - k
    <3>1. c \in Positions(s)
      BY <1>1
    <3>2. d \in named
      BY <1>5, <1>8
    <3> QED
      BY <1>9, <3>1, <3>2
  <2>2. n - 1 - above(d) = c
    BY <1>1, <2>1
  <2>3. ASSUME NEW e \in named, n - 1 - above(e) = c PROVE e = d
    <3>1. above(e) \in 0 .. n1 - 1
      BY <1>7
    <3>2. above(e) = above(d)
      BY <1>1, <2>1, <2>3, <3>1
    <3> QED
      BY <1>7, <2>1, <3>2
  <2> HIDE DEF c, d
  <2>4. SA'[c] = SA[CHOOSE e \in named : n - 1 - above(e) = c]
    BY <1>2, <2>1, <2>2
  <2>5. (CHOOSE e \in named : n - 1 - above(e) = c) = d
    BY <2>1, <2>2, <2>3
  <2> QED
    BY <2>4, <2>5 DEF c, d, NameOf, cell
<1>11. \A k \in 0 .. n1 - 1 : s1'[k + 1] = NameOf(LMSAt(k))
  <2> TAKE k \in 0 .. n1 - 1
  <2>1. s1' = [ l \in 1 .. n1 |-> SA'[n - n1 + l - 1] ]
    BY <1>2 DEF s1, n
  <2>2. k + 1 \in 1 .. n1 /\ n - n1 + (k + 1) - 1 = n - n1 + k
    BY <1>1
  <2> QED
    BY <1>10, <2>1, <2>2
<1>12. /\ LMSCount' = LMSCount /\ n1' = n1 /\ name' = name
       /\ \A k : LMSAt(k)' = LMSAt(k)
       /\ \A p, q : LMSBefore(p, q)' <=> LMSBefore(p, q)
  BY <1>2 DEF LMSCount, LMSSet, LMSAt, LMSBefore, Decides, Smaller, Alike, n
<1>13. \A v \in 0 .. name - 1 : \E k \in 0 .. n1 - 1 : s1'[k + 1] = v
  <2> TAKE v \in 0 .. name - 1
  <2>1. PICK p \in LMSSet : NameOf(p) = v
    BY <1>4
  <2>2. PICK k \in 0 .. n1 - 1 : LMSAt(k) = p
    BY <1>8
  <2> QED
    BY <1>11, <2>1, <2>2
<1>14. /\ \A k \in 0 .. n1 - 1 : s1'[k + 1] \in 0 .. name - 1
       /\ \A a, b \in 0 .. n1 - 1 : s1'[a + 1] < s1'[b + 1] <=> LMSBefore(LMSAt(a), LMSAt(b))
  BY <1>4, <1>8, <1>11
<1> QED
  BY <1>1, <1>4, <1>12, <1>13, <1>14 DEF ReducedInv

\* Two LMS substrings neither of which is before the other are as long and alike,
\* up to and including the next LMS position.
LEMMA EqualSubstrings ==
  ASSUME Typed, n >= 2, NEW a \in 0 .. LMSCount - 2, NEW b \in 0 .. LMSCount - 2,
         ~LMSBefore(LMSAt(a), LMSAt(b)), ~LMSBefore(LMSAt(b), LMSAt(a))
  PROVE  \E d \in Nat : /\ LMSAt(a + 1) = LMSAt(a) + d /\ LMSAt(b + 1) = LMSAt(b) + d
                        /\ \A j \in 0 .. d - 1 : Alike(LMSAt(a) + j, LMSAt(b) + j)
<1> DEFINE p == LMSAt(a)
           q == LMSAt(b)
           d == LMSAt(a + 1) - p
           e == LMSAt(b + 1) - q
<1>1. /\ n \in Nat \ {0} /\ Positions(s) = 0 .. n - 1 /\ LMSCount \in Nat
      /\ LMSSet \subseteq 1 .. n - 1
      /\ \A x \in LMSSet : is_LMS(t, x)
      /\ \A x \in Positions(s) : is_LMS(t, x) => x \in LMSSet
  BY TypedFacts, LMSApart
\* The LMS position after the c-th.
<1>2. ASSUME NEW c \in 0 .. LMSCount - 2
      PROVE  /\ LMSAt(c) \in LMSSet /\ LMSAt(c + 1) \in LMSSet
             /\ LMSAt(c) < LMSAt(c + 1)
             /\ \A x \in Positions(s) : LMSAt(c) < x /\ x < LMSAt(c + 1) => ~is_LMS(t, x)
  <2>1. c \in 0 .. LMSCount - 1 /\ c + 1 \in 0 .. LMSCount - 1 /\ c < c + 1
    BY <1>1
  <2>2. LMSAt(c) \in LMSSet /\ LMSAt(c + 1) \in LMSSet /\ LMSAt(c) < LMSAt(c + 1)
    BY <2>1, LMSNumbers
  <2>3. ASSUME NEW x \in Positions(s), LMSAt(c) < x, x < LMSAt(c + 1), is_LMS(t, x) PROVE FALSE
    <3>1. PICK k \in 0 .. LMSCount - 1 : LMSAt(k) = x
      BY <1>1, <2>3, LMSNumbers
    <3>2. c < k /\ k < c + 1
      BY <2>1, <2>3, <3>1, LMSNumbers
    <3> QED
      BY <2>1, <3>2
  <2> QED
    BY <2>2, <2>3
<1>3. /\ p \in Nat /\ q \in Nat /\ p \in Positions(s) /\ q \in Positions(s)
      /\ d \in Nat \ {0} /\ e \in Nat \ {0}
      /\ p + d = LMSAt(a + 1) /\ q + e = LMSAt(b + 1) /\ p + d < n /\ q + e < n
      /\ is_LMS(t, p + d) /\ is_LMS(t, q + e)
  <2>1. /\ p \in 1 .. n - 1 /\ LMSAt(a + 1) \in 1 .. n - 1 /\ p < LMSAt(a + 1)
        /\ q \in 1 .. n - 1 /\ LMSAt(b + 1) \in 1 .. n - 1 /\ q < LMSAt(b + 1)
        /\ is_LMS(t, LMSAt(a + 1)) /\ is_LMS(t, LMSAt(b + 1))
    BY <1>1, <1>2
  <2>2. \A x, y \in Nat : x < y => y - x \in Nat \ {0} /\ x + (y - x) = y
    OBVIOUS
  <2>3. LMSAt(a + 1) \in Nat /\ LMSAt(b + 1) \in Nat /\ p \in Nat /\ q \in Nat
    BY <1>1, <2>1
  <2>4. d \in Nat \ {0} /\ e \in Nat \ {0} /\ p + d = LMSAt(a + 1) /\ q + e = LMSAt(b + 1)
    BY <2>1, <2>2, <2>3
  <2> HIDE DEF p, q, d, e
  <2> QED
    BY <1>1, <2>1, <2>3, <2>4
<1>4. /\ \A j \in 1 .. d - 1 : ~is_LMS(t, p + j)
      /\ \A j \in 1 .. e - 1 : ~is_LMS(t, q + j)
  <2>1. \A x \in Positions(s) : p < x /\ x < p + d => ~is_LMS(t, x)
    BY <1>2, <1>3
  <2>2. \A x \in Positions(s) : q < x /\ x < q + e => ~is_LMS(t, x)
    BY <1>2, <1>3
  <2> HIDE DEF p, q, d, e
  <2>3. \A j \in 1 .. d - 1 : p + j \in Positions(s) /\ p < p + j /\ p + j < p + d
    BY <1>1, <1>3
  <2>4. \A j \in 1 .. e - 1 : q + j \in Positions(s) /\ q < q + j /\ q + j < q + e
    BY <1>1, <1>3
  <2> QED
    BY <2>1, <2>2, <2>3, <2>4
<1>5. ~LMSBefore(p, q) /\ ~LMSBefore(q, p)
  OBVIOUS
<1> HIDE DEF p, q, d, e
<1>6. ASSUME NEW m \in Nat, m <= d, m <= e PROVE Alike(p + m, q + m)
  <2> SUFFICES ASSUME ~Alike(p + m, q + m) PROVE FALSE
    OBVIOUS
  <2>1. p + m < n /\ q + m < n
    BY <1>1, <1>3, <1>6
  <2>2. PICK k \in 0 .. m : Decides(p, q, k) \/ Decides(q, p, k)
    BY <1>3, <2>1, FirstUnlike
  <2>3. /\ k \in Nat
        /\ \A j \in 1 .. k - 1 : j \in 1 .. d - 1 /\ j \in 1 .. e - 1
    BY <1>3, <1>6
  <2> QED
    BY <1>4, <1>5, <2>2, <2>3 DEF LMSBefore
<1>7. d = e
  <2>1. CASE d < e
    <3>1. \A j \in 0 .. d : Alike(p + j, q + j)
      BY <1>3, <1>6, <2>1
    <3>2. \A j \in 1 .. d : is_LMS(t, p + j) <=> is_LMS(t, q + j)
      <4>1. p \in Positions(s) /\ q \in Positions(s) /\ d \in Nat
        BY <1>3
      <4> QED
        BY <3>1, <4>1, AlikeLMS
    <3>3. d \in 1 .. e - 1 /\ d \in 1 .. d
      BY <1>3, <2>1
    <3> QED
      BY <1>3, <1>4, <3>2, <3>3
  <2>2. CASE e < d
    <3>1. \A j \in 0 .. e : Alike(p + j, q + j)
      BY <1>3, <1>6, <2>2
    <3>2. \A j \in 1 .. e : is_LMS(t, p + j) <=> is_LMS(t, q + j)
      <4>1. p \in Positions(s) /\ q \in Positions(s) /\ e \in Nat
        BY <1>3
      <4> QED
        BY <3>1, <4>1, AlikeLMS
    <3>3. e \in 1 .. d - 1 /\ e \in 1 .. e
      BY <1>3, <2>2
    <3> QED
      BY <1>3, <1>4, <3>2, <3>3
  <2> QED
    BY <1>3, <2>1, <2>2
<1>8. \A j \in 0 .. d - 1 : Alike(p + j, q + j)
  BY <1>3, <1>6, <1>7
<1>9. d \in Nat /\ LMSAt(a + 1) = p + d /\ LMSAt(b + 1) = q + d
  BY <1>3, <1>7
<1> QED
  BY <1>8, <1>9 DEF p, q

-----------------------------------------------------------------------------
(* The suffixes of the reduced text *)

\* The reduced text ends in its only 0, the name of the sentinel.
LEMMA ReducedTerminated ==
  ASSUME Typed, n >= 2, ReducedInv
  PROVE  /\ n1 \in Nat /\ n1 >= 1 /\ 2 * n1 <= n
         /\ Len(s1) = n1 /\ Positions(s1) = 0 .. n1 - 1 /\ Terminated(s1)
         /\ \A k : At(s1, k) = s1[k + 1]
<1>1. /\ n \in Nat \ {0} /\ Positions(s) = 0 .. n - 1
      /\ n1 = LMSCount /\ n1 \in Nat /\ n1 >= 1 /\ 2 * n1 <= n
      /\ \A p \in Positions(s) : At(s, p) \in 0 .. K - 1 /\ (At(s, p) = 0 <=> p = n - 1)
      /\ LMSSet \subseteq Positions(s) /\ LMSAt(n1 - 1) = n - 1
      /\ \A k \in 0 .. n1 - 1 : LMSAt(k) \in LMSSet
      /\ \A a, b \in 0 .. n1 - 1 : LMSAt(a) = LMSAt(b) => a = b
  BY TypedFacts, LMSApart, LMSNumbers DEF ReducedInv
<1>2. Len(s1) = n1
  <2>1. s1 = [ k \in 1 .. n1 |-> SA[n - n1 + k - 1] ]
    BY DEF s1
  <2>2. DOMAIN s1 = 1 .. n1
    BY <2>1
  <2>3. s1 \in Seq({ SA[n - n1 + k - 1] : k \in 1 .. n1 })
    <3> DEFINE V == { SA[n - n1 + k - 1] : k \in 1 .. n1 }
    <3>1. \A k \in 1 .. n1 : SA[n - n1 + k - 1] \in V
      OBVIOUS
    <3> HIDE DEF V
    <3>2. s1 \in [ 1 .. n1 -> V ]
      BY <2>1, <3>1
    <3>3. s1 \in Seq(V)
      BY <1>1, <3>2, SeqDef
    <3> QED
      BY <3>3 DEF V
  <2>4. Len(s1) \in Nat /\ DOMAIN s1 = 1 .. Len(s1)
    BY <2>3, LenProperties
  <2> QED
    BY <1>1, <2>2, <2>4
<1>3. Positions(s1) = 0 .. n1 - 1
  BY <1>2 DEF Positions
<1>4. \A k : At(s1, k) = s1[k + 1]
  BY DEF At
<1>5. /\ \A k \in 0 .. n1 - 1 : s1[k + 1] \in Nat
      /\ n1 - 1 \in 0 .. n1 - 1
  BY <1>1 DEF ReducedInv
<1>6. ASSUME NEW k \in 0 .. n1 - 1, k # n1 - 1 PROVE s1[(n1 - 1) + 1] < s1[k + 1]
  <2>1. LMSAt(k) \in Positions(s) /\ LMSAt(k) # n - 1 /\ n - 1 \in Positions(s)
    BY <1>1, <1>5, <1>6
  <2>2. At(s, n - 1) = 0 /\ At(s, LMSAt(k)) \in Nat /\ At(s, LMSAt(k)) # 0
    BY <1>1, <2>1
  <2>3. Decides(n - 1, LMSAt(k), 0)
    <3>1. (n - 1) + 0 = n - 1 /\ LMSAt(k) + 0 = LMSAt(k) /\ n - 1 < n /\ LMSAt(k) < n /\ 0 .. 0 - 1 = {}
      BY <1>1, <2>1
    <3>2. Smaller(n - 1, LMSAt(k))
      BY <2>2 DEF Smaller
    <3> QED
      BY <3>1, <3>2 DEF Decides
  <2>4. LMSBefore(LMSAt(n1 - 1), LMSAt(k))
    <3>1. 1 .. 0 - 1 = {}
      OBVIOUS
    <3> QED
      BY <1>1, <2>3, <3>1 DEF LMSBefore
  <2> QED
    BY <1>5, <2>4 DEF ReducedInv
<1>7. s1[(n1 - 1) + 1] = 0
  <2>1. 0 \in 0 .. name - 1
    BY <1>1 DEF ReducedInv
  <2>2. PICK k \in 0 .. n1 - 1 : s1[k + 1] = 0
    BY <2>1 DEF ReducedInv
  <2>3. CASE k = n1 - 1
    BY <2>2, <2>3
  <2>4. CASE k # n1 - 1
    BY <1>5, <1>6, <2>2, <2>4
  <2> QED
    BY <2>3, <2>4
<1>8. Terminated(s1)
  <2>1. ASSUME NEW k \in Positions(s1)
        PROVE  At(s1, k) \in Nat /\ (At(s1, k) = 0 <=> k = Len(s1) - 1)
    <3>1. k \in 0 .. n1 - 1
      BY <1>3
    <3>2. CASE k = n1 - 1
      BY <1>2, <1>4, <1>7, <3>2
    <3>3. CASE k # n1 - 1
      BY <1>2, <1>4, <1>5, <1>6, <1>7, <3>1, <3>3
    <3> QED
      BY <3>2, <3>3
  <2> QED
    BY <1>1, <1>2, <1>3, <2>1 DEF Terminated
<1> QED
  BY <1>1, <1>2, <1>3, <1>4, <1>8

\* A suffix of the reduced text that is smaller than another stands for an LMS
\* suffix that is smaller.
LEMMA ReducedLess ==
  ASSUME Typed, n >= 2, ReducedInv, NEW a \in 0 .. n1 - 1, NEW b \in 0 .. n1 - 1,
         SuffixLess(s1, a, b)
  PROVE  SuffixLess(s, LMSAt(a), LMSAt(b))
<1>1. /\ n1 \in Nat /\ n1 >= 1 /\ n1 = LMSCount /\ Len(s1) = n1
      /\ \A k : At(s1, k) = s1[k + 1]
      /\ \A k \in 0 .. n1 - 1 : LMSAt(k) \in Positions(s) /\ s1[k + 1] \in Nat
      /\ \A x, y \in 0 .. n1 - 1 : s1[x + 1] < s1[y + 1] <=> LMSBefore(LMSAt(x), LMSAt(y))
  <2>1. /\ n1 \in Nat /\ n1 >= 1 /\ Len(s1) = n1
        /\ \A k : At(s1, k) = s1[k + 1]
    BY ReducedTerminated
  <2>2. n1 = LMSCount /\ \A k \in 0 .. n1 - 1 : s1[k + 1] \in 0 .. name - 1
    BY DEF ReducedInv
  <2>3. \A k \in 0 .. n1 - 1 : LMSAt(k) \in Positions(s)
    BY <2>2, LMSNumbers, LMSApart
  <2>4. \A x, y \in 0 .. n1 - 1 : s1[x + 1] < s1[y + 1] <=> LMSBefore(LMSAt(x), LMSAt(y))
    BY DEF ReducedInv
  <2> QED
    BY <2>1, <2>2, <2>3, <2>4
<1>2. PICK k \in 0 .. n1 - 1 :
        /\ a + k < n1 /\ b + k < n1
        /\ At(s1, a + k) < At(s1, b + k)
        /\ \A j \in 0 .. k - 1 : At(s1, a + j) = At(s1, b + j)
  BY <1>1 DEF SuffixLess
<1> DEFINE T == { j \in 0 .. k : SuffixLess(s, LMSAt(a + j), LMSAt(b + j)) }
<1>3. \A j \in 0 .. k : a + j \in 0 .. n1 - 1 /\ b + j \in 0 .. n1 - 1
  BY <1>1, <1>2
<1>4. k \in T
  <2>1. k \in 0 .. k /\ a + k \in 0 .. n1 - 1 /\ b + k \in 0 .. n1 - 1
    BY <1>1, <1>2
  <2>2. LMSBefore(LMSAt(a + k), LMSAt(b + k))
    BY <1>1, <1>2, <2>1
  <2> QED
    BY <1>1, <2>1, <2>2, LMSBeforeFacts
<1>5. PICK m \in T : \A j \in T : m <= j
  <2>1. T \subseteq Nat /\ T # {}
    <3>1. T \subseteq 0 .. k /\ 0 .. k \subseteq Nat
      OBVIOUS
    <3> HIDE DEF T
    <3> QED
      BY <1>4, <3>1
  <2> HIDE DEF T
  <2> QED
    BY <2>1, Smallest
<1>6. ASSUME m # 0 PROVE FALSE
  <2> DEFINE j == m - 1
             p == LMSAt(a + j)
             q == LMSAt(b + j)
  <2>1. m \in 0 .. k /\ SuffixLess(s, LMSAt(a + m), LMSAt(b + m))
    BY <1>5
  <2>2. /\ j \in 0 .. k - 1 /\ j \in 0 .. k /\ (a + j) + 1 = a + m /\ (b + j) + 1 = b + m
        /\ a + j \in 0 .. LMSCount - 2 /\ b + j \in 0 .. LMSCount - 2
    BY <1>1, <1>2, <1>6, <2>1
  <2>3. s1[(a + j) + 1] = s1[(b + j) + 1]
    <3>1. At(s1, a + j) = At(s1, b + j)
      BY <1>2, <2>2
    <3> QED
      BY <3>1 DEF At
  <2>4. ~LMSBefore(p, q) /\ ~LMSBefore(q, p)
    <3>1. a + j \in 0 .. n1 - 1 /\ b + j \in 0 .. n1 - 1
      BY <1>3, <2>2
    <3>2. s1[(a + j) + 1] \in Nat /\ s1[(b + j) + 1] \in Nat
      BY <1>1, <3>1
    <3>3. ~(s1[(a + j) + 1] < s1[(b + j) + 1]) /\ ~(s1[(b + j) + 1] < s1[(a + j) + 1])
      BY <2>3, <3>2
    <3> QED
      BY <1>1, <3>1, <3>3
  <2>5. PICK d \in Nat : /\ LMSAt((a + j) + 1) = p + d /\ LMSAt((b + j) + 1) = q + d
                         /\ \A l \in 0 .. d - 1 : Alike(p + l, q + l)
    <3>1. a + j \in 0 .. LMSCount - 2 /\ b + j \in 0 .. LMSCount - 2
      BY <2>2
    <3> QED
      BY <2>4, <3>1, EqualSubstrings
  <2>6. SuffixLess(s, p + d, q + d)
    BY <2>1, <2>2, <2>5
  <2>7. p \in Positions(s) /\ q \in Positions(s) /\ p + d \in Positions(s) /\ q + d \in Positions(s)
    <3>1. a + m \in 0 .. n1 - 1 /\ b + m \in 0 .. n1 - 1 /\ a + j \in 0 .. n1 - 1 /\ b + j \in 0 .. n1 - 1
      BY <1>3, <2>1, <2>2
    <3> QED
      BY <1>1, <2>2, <2>5, <3>1
  <2>8. \A l \in 0 .. d - 1 : At(s, p + l) = At(s, q + l)
    BY <2>5 DEF Alike
  <2>9. SuffixLess(s, p, q)
    <3> HIDE DEF p, q
    <3> QED
      BY <2>6, <2>7, <2>8, LessBehind, TypedFacts
  <2>10. j \in T
    BY <2>2, <2>9
  <2> QED
    BY <1>5, <2>1, <2>2, <2>10
<1>7. SuffixLess(s, LMSAt(a + 0), LMSAt(b + 0))
  BY <1>5, <1>6
<1>8. a + 0 = a /\ b + 0 = b
  BY <1>1
<1> QED
  BY <1>7, <1>8

\* The suffixes of the reduced text are ordered as the LMS suffixes.
LEMMA ReducedOrder ==
  ASSUME Typed, n >= 2, ReducedInv, NEW a \in 0 .. n1 - 1, NEW b \in 0 .. n1 - 1
  PROVE  SuffixLess(s1, a, b) <=> SuffixLess(s, LMSAt(a), LMSAt(b))
<1>1. Terminated(s1) /\ a \in Positions(s1) /\ b \in Positions(s1)
  BY ReducedTerminated
<1>2. Terminated(s) /\ LMSAt(a) \in Positions(s) /\ LMSAt(b) \in Positions(s)
  BY TypedFacts, LMSNumbers, LMSApart DEF ReducedInv
<1>3. ASSUME SuffixLess(s, LMSAt(a), LMSAt(b)), ~SuffixLess(s1, a, b) PROVE FALSE
  <2>1. a = b \/ SuffixLess(s1, b, a)
    BY <1>1, <1>3, LessOrder
  <2>2. CASE a = b
    BY <1>2, <1>3, <2>2, LessOrder
  <2>3. CASE SuffixLess(s1, b, a)
    <3>1. SuffixLess(s, LMSAt(b), LMSAt(a))
      BY <2>3, ReducedLess
    <3>2. SuffixLess(s, LMSAt(a), LMSAt(a))
      BY <1>2, <1>3, <3>1, LessOrder
    <3> QED
      BY <1>2, <3>2, LessOrder
  <2> QED
    BY <2>1, <2>2, <2>3
<1> QED
  BY <1>3, ReducedLess

\* So the reduced text is what ReducedTextIsEquivalent says of it.
LEMMA ReducedEquivalent ==
  ASSUME Typed, n >= 2, ReducedInv
  PROVE  ReducedTextIsEquivalent
<1>1. /\ n1 \in Nat /\ n1 >= 1 /\ 2 * n1 <= n /\ Len(s1) = n1
      /\ Positions(s1) = 0 .. n1 - 1 /\ Terminated(s1)
      /\ \A k : At(s1, k) = s1[k + 1]
  BY ReducedTerminated
<1>2. \A k \in 0 .. n1 - 1 : s1[k + 1] = 0 <=> k = n1 - 1
  BY <1>1 DEF Terminated
<1>3. s1[n1] = 0
  <2>1. n1 - 1 \in 0 .. n1 - 1 /\ (n1 - 1) + 1 = n1
    BY <1>1
  <2> QED
    BY <1>2, <2>1
<1>4. \A k \in 1 .. n1 - 1 : s1[k] # 0
  <2> TAKE k \in 1 .. n1 - 1
  <2>1. k - 1 \in 0 .. n1 - 1 /\ (k - 1) + 1 = k /\ k - 1 # n1 - 1
    BY <1>1
  <2> QED
    BY <1>2, <2>1
<1>5. { s1[k] : k \in 1 .. n1 } = 0 .. name - 1
  <2>1. ASSUME NEW k \in 1 .. n1 PROVE s1[k] \in 0 .. name - 1
    <3>1. k - 1 \in 0 .. n1 - 1 /\ (k - 1) + 1 = k
      BY <1>1
    <3> QED
      BY <3>1 DEF ReducedInv
  <2>2. ASSUME NEW v \in 0 .. name - 1 PROVE \E k \in 1 .. n1 : s1[k] = v
    <3>1. PICK k \in 0 .. n1 - 1 : s1[k + 1] = v
      BY DEF ReducedInv
    <3>2. k + 1 \in 1 .. n1
      BY <1>1
    <3> QED
      BY <3>1, <3>2
  <2> QED
    BY <2>1, <2>2
<1>6. \A a, b \in 0 .. n1 - 1 : SuffixLess(s1, a, b) <=> SuffixLess(s, LMSAt(a), LMSAt(b))
  BY ReducedOrder
<1> QED
  BY <1>1, <1>3, <1>4, <1>5, <1>6 DEF ReducedTextIsEquivalent

-----------------------------------------------------------------------------
(* The sorted LMS suffixes *)

\* The first cells of SA hold the suffixes of the reduced text in order.
SortedInv ==
  /\ n1 = LMSCount
  /\ \A x \in 0 .. n1 - 1 : SA[x] \in 0 .. n1 - 1
  /\ \A x, y \in 0 .. n1 - 1 : x < y => SuffixLess(s, LMSAt(SA[x]), LMSAt(SA[y]))

\* Neither the text nor the number of LMS positions changes.
LEMMA LMSNext ==
  ASSUME UNCHANGED << s, t >>
  PROVE  /\ n' = n /\ LMSSet' = LMSSet /\ LMSCount' = LMSCount
         /\ \A k : LMSAt(k)' = LMSAt(k)
         /\ \A c : End(c)' = End(c) /\ Count(c, S_Type)' = Count(c, S_Type)
BY DEF LMSCount, LMSSet, LMSAt, n, End, Count, OfKind

\* Recurse: the suffix array of the reduced text sorts the LMS suffixes.
LEMMA RecurseStep ==
  ASSUME Typed, n >= 2, ReducedInv, Recurse
  PROVE  SortedInv'
<1>1. /\ n1 \in Nat /\ n1 >= 1 /\ 2 * n1 <= n /\ Positions(s1) = 0 .. n1 - 1 /\ Terminated(s1)
      /\ n \in Nat /\ Positions(s) = 0 .. n - 1
  BY ReducedTerminated, TypedFacts
<1>2. /\ SA' = [ c \in Positions(s) |-> IF c < n1 THEN SuffixArray(s1)[c] ELSE SA[c] ]
      /\ UNCHANGED << s, t, n1 >>
  BY DEF Recurse
<1>3. ASSUME NEW x \in 0 .. n1 - 1
      PROVE  SA'[x] \in 0 .. n1 - 1 /\ Rank(s1, SA'[x]) = x
  <2>1. x \in Positions(s) /\ x < n1 /\ x \in Positions(s1)
    BY <1>1
  <2>2. SA'[x] = CHOOSE p \in Positions(s1) : Rank(s1, p) = x
    BY <1>2, <2>1 DEF SuffixArray
  <2>3. \E p \in Positions(s1) : Rank(s1, p) = x
    BY <1>1, <2>1, RankFacts
  <2> QED
    BY <1>1, <2>2, <2>3
<1>4. ASSUME NEW x \in 0 .. n1 - 1, NEW y \in 0 .. n1 - 1, x < y
      PROVE  SuffixLess(s, LMSAt(SA'[x]), LMSAt(SA'[y]))
  <2>1. SuffixLess(s1, SA'[x], SA'[y])
    <3>1. SA'[x] \in Positions(s1) /\ SA'[y] \in Positions(s1) /\ Rank(s1, SA'[x]) < Rank(s1, SA'[y])
      BY <1>1, <1>3, <1>4
    <3> QED
      BY <1>1, <3>1, RankFacts
  <2> QED
    BY <1>3, <2>1, ReducedOrder
<1>5. n1 = LMSCount
  BY DEF ReducedInv
<1> QED
  BY <1>2, <1>3, <1>4, <1>5, LMSNext DEF SortedInv

\* NamesAreRanks: names that are all different are the ranks.
LEMMA RanksStep ==
  ASSUME Typed, n >= 2, ReducedInv, NamesAreRanks
  PROVE  SortedInv'
<1>1. /\ n1 \in Nat /\ n1 >= 1 /\ 2 * n1 <= n
      /\ n \in Nat /\ Positions(s) = 0 .. n - 1
      /\ n1 = LMSCount /\ name = n1
      /\ \A k \in 0 .. n1 - 1 : LMSAt(k) \in Positions(s)
  <2>1. n1 \in Nat /\ n1 >= 1 /\ 2 * n1 <= n /\ n \in Nat /\ Positions(s) = 0 .. n - 1
    BY ReducedTerminated, TypedFacts
  <2>2. n1 = LMSCount /\ name \in 1 .. n1 /\ name >= n1
    BY DEF ReducedInv, NamesAreRanks
  <2> QED
    BY <2>1, <2>2, LMSNumbers, LMSApart
<1>2. /\ SA' = [ c \in Positions(s) |->
               IF \E k \in 1 .. n1 : s1[k] = c
                 THEN (CHOOSE k \in 1 .. n1 : s1[k] = c) - 1
                 ELSE SA[c] ]
      /\ UNCHANGED << s, t, n1 >>
  BY DEF NamesAreRanks
<1>3. ASSUME NEW x \in 0 .. n1 - 1
      PROVE  SA'[x] \in 0 .. n1 - 1 /\ s1[SA'[x] + 1] = x
  <2>1. x \in Positions(s)
    BY <1>1
  <2>2. \E k \in 1 .. n1 : s1[k] = x
    <3>1. PICK k \in 0 .. n1 - 1 : s1[k + 1] = x
      BY <1>1 DEF ReducedInv
    <3>2. k + 1 \in 1 .. n1
      BY <1>1
    <3> QED
      BY <3>1, <3>2
  <2> DEFINE k == CHOOSE l \in 1 .. n1 : s1[l] = x
  <2>3. SA'[x] = k - 1
    BY <1>2, <2>1, <2>2
  <2>4. k \in 1 .. n1 /\ s1[k] = x
    BY <2>2
  <2> HIDE DEF k
  <2>5. SA'[x] + 1 = k /\ SA'[x] \in 0 .. n1 - 1
    BY <1>1, <2>3, <2>4
  <2> QED
    BY <2>4, <2>5
<1>4. ASSUME NEW x \in 0 .. n1 - 1, NEW y \in 0 .. n1 - 1, x < y
      PROVE  SuffixLess(s, LMSAt(SA'[x]), LMSAt(SA'[y]))
  <2>1. SA'[x] \in 0 .. n1 - 1 /\ SA'[y] \in 0 .. n1 - 1 /\ s1[SA'[x] + 1] < s1[SA'[y] + 1]
    BY <1>3, <1>4
  <2>2. LMSBefore(LMSAt(SA'[x]), LMSAt(SA'[y]))
    BY <2>1 DEF ReducedInv
  <2> QED
    BY <1>1, <2>1, <2>2, LMSBeforeFacts
<1>5. /\ LMSCount' = LMSCount /\ n1' = n1 /\ n1' = LMSCount'
      /\ \A k : LMSAt(k)' = LMSAt(k)
  <2>1. UNCHANGED << s, t, n1 >> /\ n1 = LMSCount
    BY <1>1, <1>2
  <2> QED
    BY <2>1, LMSNext
<1>6. UNCHANGED s
  BY <1>2
<1> QED
  BY <1>3, <1>4, <1>5, <1>6 DEF SortedInv

-----------------------------------------------------------------------------
(* Placing the LMS suffixes *)

\* The LMS suffixes up to cell i are still to be placed; the others are at the ends
\* of their buckets; all are there once and in order.
PlacingInv ==
  /\ n1 = LMSCount /\ i \in -1 .. n1 - 1
  /\ SA \in [ Positions(s) -> Positions(s) \cup { None } ]
  /\ buckets \in [ 0 .. K - 1 -> Int ]
  /\ \A x \in 0 .. i : SA[x] # None
  /\ \A x \in Positions(s) : SA[x] # None =>
       /\ SA[x] \in LMSSet
       /\ x > i => x \in buckets[At(s, SA[x])] .. End(At(s, SA[x])) - 1
  /\ \A c \in 0 .. K - 1 :
       /\ buckets[c] >= End(c) - Count(c, S_Type) /\ buckets[c] <= End(c)
       /\ \A x \in buckets[c] .. End(c) - 1 :
            x > i /\ x \in Positions(s) /\ SA[x] # None /\ At(s, SA[x]) = c
  /\ \A p \in LMSSet : \E x \in Positions(s) : SA[x] = p
  /\ \A x, y \in Positions(s) : SA[x] # None /\ SA[x] = SA[y] => x = y
  /\ \A x, y \in Positions(s) :
       x < y /\ SA[x] # None /\ SA[y] # None => ~SuffixLess(s, SA[y], SA[x])

\* RestoreLMS: the front of SA holds the LMS suffixes in order.
LEMMA RestoreStep ==
  ASSUME Typed, n >= 2, SortedInv, RestoreLMS
  PROVE  PlacingInv'
<1>1. /\ n \in Nat \ {0} /\ Positions(s) = 0 .. n - 1 /\ n < None /\ None \in Nat /\ TypesGiven
      /\ n1 = LMSCount /\ n1 \in Nat /\ n1 >= 1 /\ 2 * n1 <= n
      /\ LMSSet \subseteq Positions(s) /\ Terminated(s)
      /\ \A k \in 0 .. n1 - 1 : LMSAt(k) \in LMSSet
      /\ \A p \in LMSSet : \E k \in 0 .. n1 - 1 : LMSAt(k) = p
      /\ \A x \in 0 .. n1 - 1 : SA[x] \in 0 .. n1 - 1
      /\ \A x, y \in 0 .. n1 - 1 : x < y => SuffixLess(s, LMSAt(SA[x]), LMSAt(SA[y]))
  <2>1. /\ n \in Nat \ {0} /\ Positions(s) = 0 .. n - 1 /\ n < None /\ None \in Nat /\ TypesGiven
        /\ LMSSet \subseteq Positions(s) /\ Terminated(s)
    BY TypedFacts, TextFacts, ConstantFacts, LMSApart DEF TypesGiven
  <2>2. /\ n1 = LMSCount /\ n1 \in Nat /\ n1 >= 1 /\ 2 * n1 <= n
    BY LMSApart DEF SortedInv
  <2>3. /\ \A k \in 0 .. n1 - 1 : LMSAt(k) \in LMSSet
        /\ \A p \in LMSSet : \E k \in 0 .. n1 - 1 : LMSAt(k) = p
    BY <2>2, LMSNumbers
  <2> QED
    BY <2>1, <2>2, <2>3 DEF SortedInv
<1>2. /\ SA' = [ c \in Positions(s) |-> IF c < n1 THEN LMSAt(SA[c]) ELSE None ]
      /\ buckets' = generate_buckets(s, K, TRUE)
      /\ i' = n1 - 1
      /\ UNCHANGED << s, t, n1 >>
  BY DEF RestoreLMS
<1>3. /\ \A x \in 0 .. n1 - 1 : /\ x \in Positions(s) /\ SA'[x] = LMSAt(SA[x])
                                /\ SA'[x] \in LMSSet /\ SA'[x] # None /\ SA'[x] \in Positions(s)
      /\ \A x \in Positions(s) : SA'[x] # None => x \in 0 .. n1 - 1
  <2>1. \A x \in 0 .. n1 - 1 : x \in Positions(s) /\ x < n1
    BY <1>1
  <2>2. \A x \in 0 .. n1 - 1 : SA'[x] = LMSAt(SA[x])
    BY <1>2, <2>1
  <2>3. \A x \in 0 .. n1 - 1 : SA'[x] \in LMSSet
    BY <1>1, <2>2
  <2>4. \A p \in LMSSet : p \in Positions(s) /\ p # None
    BY <1>1
  <2>5. \A x \in Positions(s) : SA'[x] # None => x \in 0 .. n1 - 1
    BY <1>1, <1>2
  <2> QED
    BY <2>1, <2>2, <2>3, <2>4, <2>5
<1>4. SA' \in [ Positions(s) -> Positions(s) \cup { None } ]
  <2>1. \A x \in Positions(s) : x < n1 => x \in 0 .. n1 - 1
    BY <1>1
  <2>2. \A x \in Positions(s) : x < n1 => LMSAt(SA[x]) \in Positions(s)
    BY <1>1, <2>1
  <2> QED
    BY <1>2, <2>2
<1>5. \A x, y \in 0 .. n1 - 1 : x < y => SuffixLess(s, SA'[x], SA'[y])
  BY <1>1, <1>3
<1>6. \A x, y \in 0 .. n1 - 1 : SA[x] = SA[y] => x = y
  <2> TAKE x, y \in 0 .. n1 - 1
  <2> SUFFICES ASSUME SA[x] = SA[y], x # y PROVE FALSE
    OBVIOUS
  <2>1. SuffixLess(s, LMSAt(SA[x]), LMSAt(SA[x]))
    <3>1. x < y \/ y < x
      BY <1>1
    <3> QED
      BY <1>1, <3>1
  <2> QED
    BY <1>1, <2>1, LessOrder
<1>7. ASSUME NEW p \in LMSSet PROVE \E x \in Positions(s) : SA'[x] = p
  <2> DEFINE T == 0 .. n1 - 1
             f == [ x \in T |-> SA[x] ]
  <2>1. PICK k \in 0 .. n1 - 1 : LMSAt(k) = p
    BY <1>1
  <2>2. IsFiniteSet(T) /\ Cardinality(T) = n1
    <3>1. 0 \in Int /\ n1 - 1 \in Int /\ (IF 0 > n1 - 1 THEN 0 ELSE (n1 - 1) - 0 + 1) = n1
      BY <1>1
    <3> QED
      BY <3>1, FS_Interval
  <2>3. 0 .. 0 + Cardinality(T) - 1 = 0 .. n1 - 1
    BY <1>1, <2>2
  <2>4. f \in [ T -> 0 .. 0 + Cardinality(T) - 1 ]
    BY <1>1, <2>3
  <2>5. \A x, y \in T : f[x] = f[y] => x = y
    BY <1>6
  <2>6. \A x \in T : f[x] = SA[x]
    OBVIOUS
  <2>7. k \in 0 .. 0 + Cardinality(T) - 1
    BY <2>1, <2>3
  <2> HIDE DEF T, f
  <2>8. PICK x \in T : f[x] = k
    BY <2>2, <2>4, <2>5, <2>7, FillsRange
  <2>9. x \in 0 .. n1 - 1 /\ SA[x] = k
    BY <2>6, <2>8 DEF T
  <2> QED
    BY <1>3, <2>1, <2>9
<1>8. /\ n' = n /\ LMSSet' = LMSSet /\ LMSCount' = LMSCount
      /\ \A c : End(c)' = End(c) /\ Count(c, S_Type)' = Count(c, S_Type)
  BY <1>2, LMSNext
<1>9. buckets' \in [ 0 .. K - 1 -> Int ]
  BY <1>1, <1>2, BucketsType DEF TypesGiven
<1>10. ASSUME NEW c \in 0 .. K - 1
       PROVE  /\ buckets'[c] >= End(c) - Count(c, S_Type) /\ buckets'[c] <= End(c)
              /\ buckets'[c] .. End(c) - 1 = {}
  <2>1. buckets'[c] = End(c) /\ End(c) \in Nat /\ Count(c, S_Type) \in Nat
    BY <1>1, <1>2, BucketBounds DEF End
  <2> QED
    BY <2>1
<1>11. ASSUME NEW x \in Positions(s), NEW y \in Positions(s), SA'[x] # None, SA'[y] # None
       PROVE  /\ SA'[x] = SA'[y] => x = y
              /\ x < y => ~SuffixLess(s, SA'[y], SA'[x])
  <2>1. /\ x \in 0 .. n1 - 1 /\ y \in 0 .. n1 - 1
        /\ SA'[x] \in Positions(s) /\ SA'[y] \in Positions(s)
    BY <1>3, <1>11
  <2>2. ASSUME x < y PROVE ~SuffixLess(s, SA'[y], SA'[x]) /\ SA'[x] # SA'[y]
    BY <1>1, <1>5, <2>1, <2>2, LessOrder
  <2>3. ASSUME y < x PROVE SA'[x] # SA'[y]
    BY <1>1, <1>5, <2>1, <2>3, LessOrder
  <2>4. x < y \/ y < x \/ x = y
    BY <1>1, <2>1
  <2> QED
    BY <2>2, <2>3, <2>4
<1>12. /\ i' \in -1 .. n1 - 1
       /\ \A x \in 0 .. i' : SA'[x] # None
       /\ \A x \in Positions(s) : SA'[x] # None => SA'[x] \in LMSSet /\ ~(x > i')
  BY <1>1, <1>2, <1>3
<1> QED
  BY <1>1, <1>2, <1>4, <1>7, <1>8, <1>9, <1>10, <1>11, <1>12 DEF PlacingInv

-----------------------------------------------------------------------------
(* One LMS suffix is placed *)

\* Cells still to be placed and the filled cells of a bucket hold different suffixes.
LEMMA PlacingRoom ==
  ASSUME Typed, PlacingInv, NEW low \in 0 .. i, i \in Nat, NEW c \in 0 .. K - 1, NEW T, IsFiniteSet(T),
         \A x \in low .. i : SA[x] \in T,
         \A x \in buckets[c] .. End(c) - 1 : SA[x] \in T
  PROVE  i - low + 1 + (End(c) - buckets[c]) <= Cardinality(T)
<1> DEFINE A == low .. i
           B == buckets[c] .. End(c) - 1
           f == [ x \in A \cup B |-> SA[x] ]
<1>1. /\ n \in Nat \ {0} /\ Positions(s) = 0 .. n - 1 /\ TypesGiven
      /\ low \in Nat /\ End(c) \in Nat /\ buckets[c] \in Int /\ buckets[c] <= End(c)
  <2>1. n \in Nat \ {0} /\ Positions(s) = 0 .. n - 1 /\ TypesGiven
    BY TypedFacts
  <2>2. End(c) \in Nat
    BY <2>1, BucketBounds
  <2>3. buckets[c] \in Int /\ buckets[c] <= End(c)
    BY DEF PlacingInv
  <2> QED
    BY <2>1, <2>2, <2>3
<1>2. IsFiniteSet(A) /\ Cardinality(A) = i - low + 1
  <2>1. low \in Int /\ i \in Int /\ (IF low > i THEN 0 ELSE i - low + 1) = i - low + 1
    BY <1>1
  <2> QED
    BY <2>1, FS_Interval
<1>3. IsFiniteSet(B) /\ Cardinality(B) = End(c) - buckets[c]
  <2>1. /\ buckets[c] \in Int /\ End(c) - 1 \in Int
        /\ (IF buckets[c] > End(c) - 1 THEN 0 ELSE (End(c) - 1) - buckets[c] + 1) = End(c) - buckets[c]
    BY <1>1
  <2> QED
    BY <2>1, FS_Interval
<1>4. \A x \in B : x > i /\ x \in Positions(s) /\ SA[x] # None
  BY DEF PlacingInv
<1>5. \A x \in A : x \in 0 .. i /\ ~(x > i)
  BY <1>1
<1>6. \A x \in 0 .. i : x \in Positions(s) /\ SA[x] # None
  <2>1. n1 - 1 <= n - 1 /\ i <= n1 - 1 /\ n1 \in Int
    <3>1. n1 = Cardinality(LMSSet) /\ LMSSet \subseteq Positions(s)
      BY DEF PlacingInv, LMSCount, LMSSet, LMSPositions
    <3>2. IsFiniteSet(Positions(s)) /\ Cardinality(Positions(s)) = n
      BY PositionsFinite, TypedFacts DEF n
    <3>3. n1 <= n /\ n1 \in Nat
      BY <3>1, <3>2, FS_Subset, FS_CardinalityType
    <3>4. i \in -1 .. n1 - 1
      BY DEF PlacingInv
    <3> QED
      BY <1>1, <3>3, <3>4
  <2>2. \A x \in 0 .. i : x \in Positions(s)
    BY <1>1, <2>1
  <2> QED
    BY <2>2 DEF PlacingInv
<1>7. A \cap B = {}
  BY <1>4, <1>5
<1>8. Cardinality(A \cup B) = i - low + 1 + (End(c) - buckets[c])
  <2>1. Cardinality(A \cap B) = 0
    BY <1>7, FS_EmptySet
  <2> HIDE DEF A, B
  <2>2. Cardinality(A \cup B) = Cardinality(A) + Cardinality(B) - Cardinality(A \cap B)
    BY <1>2, <1>3, FS_Union
  <2> QED
    BY <1>1, <1>2, <1>3, <2>1, <2>2
<1>9. f \in [ A \cup B -> T ]
  OBVIOUS
<1>10. \A x, y \in A \cup B : f[x] = f[y] => x = y
  <2>1. \A x \in A \cup B : x \in Positions(s) /\ SA[x] # None /\ f[x] = SA[x]
    BY <1>4, <1>5, <1>6
  <2>2. \A x, y \in Positions(s) : SA[x] # None /\ SA[x] = SA[y] => x = y
    BY DEF PlacingInv
  <2> HIDE DEF A, B, f
  <2> QED
    BY <2>1, <2>2
<1> HIDE DEF A, B, f
<1>11. Cardinality(A \cup B) <= Cardinality(T)
  BY <1>9, <1>10, AtMostAsMany
<1> QED
  BY <1>8, <1>11

\* The cell for the next suffix is in its bucket, not before the suffix itself,
\* and free.
LEMMA PlaceCell ==
  ASSUME Typed, n >= 2, PlacingInv, i \in Nat,
         NEW j, j = SA[i], NEW c, c = At(s, j), NEW cell, cell = buckets[c] - 1
  PROVE  /\ i \in Positions(s) /\ j \in LMSSet /\ j \in Positions(s) /\ j # None /\ c \in 0 .. K - 1
         /\ cell \in Region(S_Type, c) /\ cell \in Positions(s) /\ cell \in Nat
         /\ cell >= i
         /\ cell # i => SA[cell] = None
         /\ cell >= End(c) - Count(c, S_Type) /\ cell < End(c)
<1>1. /\ n \in Nat \ {0} /\ Positions(s) = 0 .. n - 1 /\ TypesGiven /\ n < None /\ None \in Nat
      /\ Terminated(s) /\ LMSSet \subseteq Positions(s)
      /\ \A p \in LMSSet : t[p] = S_Type
      /\ \A p \in Positions(s) : At(s, p) \in 0 .. K - 1
      /\ IsFiniteSet(Positions(s))
  BY TypedFacts, TextFacts, ConstantFacts, LMSApart, PositionsFinite DEF TypesGiven
<1>2. n1 = LMSCount /\ n1 \in Nat /\ 2 * n1 <= n /\ i <= n1 - 1
  BY LMSApart DEF PlacingInv
<1>3. \A x \in 0 .. i : x \in Positions(s) /\ SA[x] # None /\ SA[x] \in LMSSet
  <2>1. \A x \in 0 .. i : x \in Positions(s)
    BY <1>1, <1>2
  <2> QED
    BY <2>1 DEF PlacingInv
<1>4. i \in 0 .. i /\ i \in Positions(s)
  BY <1>1, <1>2
<1>5. j \in LMSSet /\ j \in Positions(s) /\ j # None /\ c \in 0 .. K - 1
  BY <1>1, <1>3, <1>4
<1>6. /\ buckets[c] \in Int /\ buckets[c] <= End(c) /\ buckets[c] >= End(c) - Count(c, S_Type)
      /\ \A x \in buckets[c] .. End(c) - 1 :
           x > i /\ x \in Positions(s) /\ SA[x] # None /\ At(s, SA[x]) = c
  BY <1>5 DEF PlacingInv
<1>7. \A x \in Positions(s) : SA[x] # None => SA[x] \in LMSSet
  BY DEF PlacingInv
<1>8. End(c) \in Nat /\ Count(c, S_Type) \in Nat /\ IsFiniteSet(OfKind(c, S_Type))
  BY <1>1, <1>5, BucketBounds, KindsFinite
<1>9. cell >= End(c) - Count(c, S_Type)
  <2>1. \A x \in buckets[c] .. End(c) - 1 : SA[x] \in OfKind(c, S_Type)
    BY <1>1, <1>6, <1>7 DEF OfKind
  <2>2. \A x \in i .. i : SA[x] \in OfKind(c, S_Type)
    BY <1>1, <1>5 DEF OfKind
  <2>3. i - i + 1 + (End(c) - buckets[c]) <= Count(c, S_Type)
    BY <1>4, <1>5, <1>8, <2>1, <2>2, PlacingRoom DEF Count
  <2> QED
    BY <1>6, <1>8, <2>3
<1>10. cell \in Region(S_Type, c) /\ cell < End(c)
  BY <1>6, <1>8, <1>9 DEF Region, L_Type, S_Type
<1>11. cell \in Positions(s)
  <2>1. S_Type \in { L_Type, S_Type }
    OBVIOUS
  <2> QED
    BY <1>1, <1>5, <1>10, <2>1, RegionsApart
<1>12. cell >= i
  <2> DEFINE T == { p \in Positions(s) : At(s, p) <= c }
  <2>1. IsFiniteSet(T) /\ Cardinality(T) = End(c)
    <3>1. T \subseteq Positions(s)
      OBVIOUS
    <3>2. Cardinality(T) = End(c)
      BY <1>5 DEF End, generate_buckets
    <3> QED
      BY <1>1, <3>1, <3>2, FS_Subset
  <2>2. \A x \in buckets[c] .. End(c) - 1 : SA[x] \in T
    BY <1>1, <1>5, <1>6, <1>7
  <2>3. ASSUME NEW x \in 0 .. i PROVE SA[x] \in T
    <3>1. SA[x] \in Positions(s) /\ x \in Positions(s) /\ SA[x] # None
      BY <1>1, <1>3
    <3>2. ~SuffixLess(s, j, SA[x])
      <4>1. CASE x = i
        BY <1>1, <1>5, <4>1, LessOrder
      <4>2. CASE x < i
        BY <1>4, <1>5, <3>1, <4>2 DEF PlacingInv
      <4> QED
        BY <4>1, <4>2
    <3>3. ~(c < At(s, SA[x]))
      BY <1>1, <1>5, <3>1, <3>2, LessStep
    <3>4. At(s, SA[x]) \in 0 .. K - 1
      BY <1>1, <3>1
    <3>5. At(s, SA[x]) <= c
      BY <1>5, <3>3, <3>4
    <3> QED
      BY <3>1, <3>5
  <2> HIDE DEF T
  <2>4. 0 \in 0 .. i
    OBVIOUS
  <2>5. i - 0 + 1 + (End(c) - buckets[c]) <= Cardinality(T)
    BY <1>5, <2>1, <2>2, <2>3, <2>4, PlacingRoom
  <2> QED
    BY <1>6, <1>8, <2>1, <2>5
<1>13. ASSUME cell # i PROVE SA[cell] = None
  <2> SUFFICES ASSUME SA[cell] # None PROVE FALSE
    OBVIOUS
  <2> DEFINE d == At(s, SA[cell])
  <2>1. cell > i
    BY <1>6, <1>12, <1>13
  <2>2. SA[cell] \in Positions(s) /\ d \in 0 .. K - 1 /\ cell \in buckets[d] .. End(d) - 1
    BY <1>1, <1>7, <1>11, <2>1 DEF PlacingInv
  <2>3. buckets[d] >= End(d) - Count(d, S_Type) /\ buckets[d] \in Int
    BY <2>2 DEF PlacingInv
  <2>4. End(d) \in Nat /\ Count(d, S_Type) \in Nat
    BY <1>1, <2>2, BucketBounds
  <2> HIDE DEF d
  <2>5. cell \in Region(S_Type, d)
    BY <2>2, <2>3, <2>4 DEF Region, L_Type, S_Type
  <2>6. d = c
    <3>1. S_Type \in { L_Type, S_Type }
      OBVIOUS
    <3> QED
      BY <1>1, <1>5, <1>10, <2>2, <2>5, <3>1, RegionsApart
  <2> QED
    BY <1>6, <2>2, <2>6
<1>14. cell \in Nat
  BY <1>1, <1>11
<1> QED
  BY <1>4, <1>5, <1>9, <1>10, <1>11, <1>12, <1>13, <1>14

\* PlaceLMS moves one LMS suffix to the end of its bucket and keeps the order.
LEMMA PlaceStep ==
  ASSUME Typed, n >= 2, PlacingInv, PlaceLMS
  PROVE  PlacingInv'
<1> DEFINE j == SA[i]
           c == At(s, j)
           cell == buckets[c] - 1
<1>1. i \in Nat
  BY DEF PlacingInv, PlaceLMS
<1>2. /\ i \in Positions(s) /\ j \in LMSSet /\ j \in Positions(s) /\ j # None /\ c \in 0 .. K - 1
      /\ cell \in Region(S_Type, c) /\ cell \in Positions(s) /\ cell \in Nat
      /\ cell >= i
      /\ cell # i => SA[cell] = None
      /\ cell >= End(c) - Count(c, S_Type) /\ cell < End(c)
  BY <1>1, PlaceCell
<1>3. /\ SA' = [ [ SA EXCEPT ![i] = None ] EXCEPT ![cell] = j ]
      /\ buckets' = [ buckets EXCEPT ![c] = cell ]
      /\ i' = i - 1 /\ UNCHANGED << s, t, n1 >>
  BY DEF PlaceLMS
<1>4. /\ n1 = LMSCount /\ i \in -1 .. n1 - 1 /\ LMSCount \in Nat
      /\ SA \in [ Positions(s) -> Positions(s) \cup { None } ]
      /\ buckets \in [ 0 .. K - 1 -> Int ]
  BY LMSApart DEF PlacingInv
<1>5. /\ n \in Nat \ {0} /\ Positions(s) = 0 .. n - 1 /\ TypesGiven /\ n < None /\ None \in Nat
      /\ Terminated(s) /\ LMSSet \subseteq Positions(s)
      /\ \A p \in Positions(s) : At(s, p) \in 0 .. K - 1
  BY TypedFacts, TextFacts, ConstantFacts, LMSApart DEF TypesGiven
<1>6. /\ buckets[c] = cell + 1
      /\ buckets' \in [ 0 .. K - 1 -> Int ] /\ buckets'[c] = cell
      /\ \A d \in 0 .. K - 1 : d # c => buckets'[d] = buckets[d]
  BY <1>2, <1>3, <1>4
<1> HIDE DEF cell, c, j
<1>7. /\ SA' \in [ Positions(s) -> Positions(s) \cup { None } ]
      /\ SA'[cell] = j
      /\ \A x \in Positions(s) : x # cell /\ x # i => SA'[x] = SA[x]
      /\ i # cell => SA'[i] = None
  BY <1>2, <1>3, <1>4
<1>8. \A x \in Positions(s) : SA[x] # None /\ x # i => x # cell /\ SA'[x] = SA[x]
  BY <1>2, <1>7
<1>9. \A x \in Positions(s) : SA'[x] # None =>
        x = cell \/ (x # cell /\ x # i /\ SA'[x] = SA[x] /\ SA[x] # None)
  BY <1>2, <1>7
<1>10. i' \in -1 .. n1' - 1 /\ n1' = LMSCount'
  BY <1>1, <1>3, <1>4, LMSNext
<1>11. \A x \in 0 .. i' : SA'[x] # None
  <2>1. ASSUME NEW x \in 0 .. i' PROVE SA'[x] # None
    <3>1. x \in 0 .. i /\ x # i /\ x \in Positions(s)
      BY <1>1, <1>2, <1>3, <1>5
    <3>2. SA[x] # None
      BY <3>1 DEF PlacingInv
    <3> QED
      BY <1>8, <3>1, <3>2
  <2> QED
    BY <2>1
<1>12. ASSUME NEW x \in Positions(s), SA'[x] # None
       PROVE  /\ SA'[x] \in LMSSet
              /\ x > i' => x \in buckets'[At(s, SA'[x])] .. End(At(s, SA'[x])) - 1
  <2>1. CASE x = cell
    <3>1. SA'[x] = j /\ At(s, j) = c
      BY <1>7, <2>1 DEF c
    <3>2. End(c) \in Nat
      BY <1>2, <1>5, BucketBounds
    <3>3. x \in buckets'[c] .. End(c) - 1
      BY <1>2, <1>6, <2>1, <3>2
    <3> QED
      BY <1>2, <3>1, <3>3
  <2>2. CASE x # cell
    <3>1. x # i /\ SA'[x] = SA[x] /\ SA[x] # None
      BY <1>9, <1>12, <2>2
    <3>2. SA[x] \in LMSSet
      BY <3>1 DEF PlacingInv
    <3>3. ASSUME x > i' PROVE x \in buckets'[At(s, SA[x])] .. End(At(s, SA[x])) - 1
      <4>1. x > i
        BY <1>1, <1>3, <1>5, <3>1, <3>3
      <4> DEFINE d == At(s, SA[x])
      <4>2. x \in buckets[d] .. End(d) - 1
        BY <3>1, <4>1 DEF PlacingInv
      <4>3. d \in 0 .. K - 1
        BY <1>5, <3>2
      <4> HIDE DEF d
      <4>4. d # c => buckets'[d] = buckets[d]
        BY <1>6, <4>3
      <4>5. buckets[d] \in Int /\ End(d) \in Nat
        BY <1>4, <1>5, <4>3, BucketBounds
      <4>6. x \in buckets'[d] .. End(d) - 1
        <5>1. CASE d = c
          BY <1>2, <1>5, <1>6, <4>2, <4>5, <5>1
        <5>2. CASE d # c
          BY <4>2, <4>4, <5>2
        <5> QED
          BY <5>1, <5>2
      <4> QED
        BY <4>6 DEF d
    <3> QED
      BY <3>1, <3>2, <3>3
  <2> QED
    BY <2>1, <2>2
<1>13. ASSUME NEW d \in 0 .. K - 1
       PROVE  /\ buckets'[d] >= End(d) - Count(d, S_Type) /\ buckets'[d] <= End(d)
              /\ \A x \in buckets'[d] .. End(d) - 1 :
                   x > i' /\ x \in Positions(s) /\ SA'[x] # None /\ At(s, SA'[x]) = d
  <2>1. /\ buckets[d] >= End(d) - Count(d, S_Type) /\ buckets[d] <= End(d) /\ buckets[d] \in Int
        /\ \A x \in buckets[d] .. End(d) - 1 :
             x > i /\ x \in Positions(s) /\ SA[x] # None /\ At(s, SA[x]) = d
    BY DEF PlacingInv
  <2>2. End(d) \in Nat /\ Count(d, S_Type) \in Nat
    BY <1>5, BucketBounds
  <2>3. \A x \in buckets[d] .. End(d) - 1 :
          x > i' /\ x \in Positions(s) /\ SA'[x] # None /\ At(s, SA'[x]) = d
    <3> TAKE x \in buckets[d] .. End(d) - 1
    <3>1. x > i /\ x # i /\ x \in Positions(s) /\ SA[x] # None /\ At(s, SA[x]) = d
      BY <1>1, <2>1
    <3>2. SA'[x] = SA[x]
      BY <1>8, <3>1
    <3>3. x \in Int /\ i' = i - 1
      BY <1>3, <1>5, <3>1
    <3>4. x > i'
      BY <1>1, <3>1, <3>3
    <3> QED
      BY <3>1, <3>2, <3>4
  <2>4. CASE d = c
    <3>1. \A x \in cell .. End(d) - 1 : x = cell \/ x \in buckets[d] .. End(d) - 1
      BY <1>2, <1>6, <2>2, <2>4
    <3>2. cell > i' /\ SA'[cell] # None /\ At(s, SA'[cell]) = c
      <4>1. cell > i'
        BY <1>1, <1>2, <1>3
      <4> QED
        BY <1>2, <1>7, <4>1 DEF c
    <3>3. buckets'[d] = cell
      BY <1>6, <2>4
    <3>4. \A x \in cell .. End(d) - 1 :
             x > i' /\ x \in Positions(s) /\ SA'[x] # None /\ At(s, SA'[x]) = d
      BY <1>2, <2>3, <2>4, <3>1, <3>2
    <3>5. cell >= End(d) - Count(d, S_Type) /\ cell <= End(d)
      BY <1>2, <2>2, <2>4
    <3> QED
      BY <3>3, <3>4, <3>5
  <2>5. CASE d # c
    BY <1>6, <2>1, <2>3, <2>5
  <2> QED
    BY <2>4, <2>5
<1>14. ASSUME NEW p \in LMSSet PROVE \E x \in Positions(s) : SA'[x] = p
  <2>1. PICK x \in Positions(s) : SA[x] = p
    BY DEF PlacingInv
  <2>2. p # None
    BY <1>5
  <2>3. CASE x = i
    BY <1>2, <1>7, <2>1, <2>3 DEF j
  <2>4. CASE x # i
    BY <1>8, <2>1, <2>2, <2>4
  <2> QED
    BY <2>3, <2>4
<1>15. ASSUME NEW x \in Positions(s), NEW y \in Positions(s), SA'[x] # None, SA'[x] = SA'[y]
       PROVE  x = y
  <2>1. \A v \in Positions(s) : SA[v] = SA[i] => v = i
    BY <1>2 DEF PlacingInv, j
  <2>2. CASE x = cell
    BY <1>7, <1>9, <1>15, <2>1, <2>2 DEF j
  <2>3. CASE y = cell
    BY <1>7, <1>9, <1>15, <2>1, <2>3 DEF j
  <2>4. CASE x # cell /\ y # cell
    <3>1. SA[x] # None /\ SA[x] = SA[y]
      BY <1>9, <1>15, <2>4
    <3> QED
      BY <3>1 DEF PlacingInv
  <2> QED
    BY <2>2, <2>3, <2>4
<1>16. ASSUME NEW x \in Positions(s), NEW y \in Positions(s), x < y, SA'[x] # None, SA'[y] # None
       PROVE  ~SuffixLess(s, SA'[y], SA'[x])
  <2>1. \A u, v \in Positions(s) :
          u < v /\ SA[u] # None /\ SA[v] # None => ~SuffixLess(s, SA[v], SA[u])
    BY DEF PlacingInv
  <2>2. SA[i] # None /\ j = SA[i]
    BY <1>2 DEF j
  <2>3. CASE x = cell
    <3>1. y # cell /\ y > i
      BY <1>2, <1>5, <1>16, <2>3
    <3>2. SA'[y] = SA[y] /\ SA[y] # None
      BY <1>9, <1>16, <3>1
    <3>3. ~SuffixLess(s, SA[y], SA[i])
      BY <1>2, <2>1, <2>2, <3>1, <3>2
    <3> QED
      BY <1>7, <2>2, <2>3, <3>2, <3>3
  <2>4. CASE y = cell
    <3>1. x # cell /\ x < cell
      BY <1>2, <1>5, <1>16, <2>4
    <3>2. SA'[x] = SA[x] /\ SA[x] # None /\ x # i
      BY <1>9, <1>16, <3>1
    <3>3. CASE x < i
      <4>1. ~SuffixLess(s, SA[i], SA[x])
        BY <1>2, <2>1, <2>2, <3>2, <3>3
      <4> QED
        BY <1>7, <2>2, <2>4, <3>2, <4>1
    <3>4. CASE x > i
      <4> DEFINE d == At(s, SA[x])
      <4>1. /\ SA[x] \in LMSSet /\ x \in buckets[d] .. End(d) - 1
        BY <3>2, <3>4 DEF PlacingInv
      <4>2. SA[x] \in Positions(s) /\ d \in 0 .. K - 1
        BY <1>5, <4>1
      <4>3. buckets[d] >= End(d) - Count(d, S_Type) /\ buckets[d] \in Int
        BY <4>2 DEF PlacingInv
      <4>4. End(d) \in Nat /\ Count(d, S_Type) \in Nat
        BY <1>5, <4>2, BucketBounds
      <4> HIDE DEF d
      <4>5. x \in Region(S_Type, d)
        BY <4>1, <4>3, <4>4 DEF Region, L_Type, S_Type
      <4>6. d < c \/ d = c
        <5>1. S_Type \in { L_Type, S_Type }
          OBVIOUS
        <5> QED
          BY <1>2, <1>5, <3>1, <4>2, <4>5, <5>1, RegionBounds
      <4>7. d # c
        BY <1>2, <1>5, <1>6, <3>1, <4>1
      <4>8. SuffixLess(s, SA[x], j)
        BY <1>2, <1>5, <4>2, <4>6, <4>7, LessStep DEF c, d
      <4>9. ~SuffixLess(s, j, SA[x])
        BY <1>2, <1>5, <4>2, <4>8, LessOrder
      <4> QED
        BY <1>7, <2>4, <3>2, <4>9
    <3> QED
      BY <1>1, <1>5, <3>2, <3>3, <3>4
  <2>5. CASE x # cell /\ y # cell
    <3>1. SA'[x] = SA[x] /\ SA[x] # None /\ SA'[y] = SA[y] /\ SA[y] # None
      BY <1>9, <1>16, <2>5
    <3> QED
      BY <1>16, <2>1, <3>1
  <2> QED
    BY <2>3, <2>4, <2>5
<1>17. /\ n' = n /\ LMSSet' = LMSSet /\ Positions(s)' = Positions(s)
       /\ \A d : End(d)' = End(d) /\ Count(d, S_Type)' = Count(d, S_Type)
       /\ \A p : At(s, p)' = At(s, p)
  BY <1>3, LMSNext
<1>18. UNCHANGED s
  BY <1>3
<1>19. \A x \in Positions(s) : SA'[x] # None =>
         /\ SA'[x] \in LMSSet
         /\ x > i' => x \in buckets'[At(s, SA'[x])] .. End(At(s, SA'[x])) - 1
  BY <1>12
<1>20. \A d \in 0 .. K - 1 :
         /\ buckets'[d] >= End(d) - Count(d, S_Type) /\ buckets'[d] <= End(d)
         /\ \A x \in buckets'[d] .. End(d) - 1 :
              x > i' /\ x \in Positions(s) /\ SA'[x] # None /\ At(s, SA'[x]) = d
  BY <1>13
<1>21. \A p \in LMSSet : \E x \in Positions(s) : SA'[x] = p
  BY <1>14
<1>22. \A x, y \in Positions(s) : SA'[x] # None /\ SA'[x] = SA'[y] => x = y
  BY <1>15
<1>23. \A x, y \in Positions(s) :
         x < y /\ SA'[x] # None /\ SA'[y] # None => ~SuffixLess(s, SA'[y], SA'[x])
  BY <1>16
<1>24. SA' \in [ Positions(s) -> Positions(s) \cup { None } ] /\ buckets' \in [ 0 .. K - 1 -> Int ]
  BY <1>6, <1>7
<1> QED
  BY <1>10, <1>11, <1>17, <1>18, <1>19, <1>20, <1>21, <1>22, <1>23, <1>24 DEF PlacingInv

\* All LMS suffixes are placed: they are the seeds of the final inducing.
LEMMA PlacedSeeds ==
  ASSUME Typed, n >= 2, PlacingInv, i = -1
  PROVE  Seeding(OrderOf(2, L_Type), SA)
<1>1. /\ n \in Nat \ {0} /\ Positions(s) = 0 .. n - 1 /\ TypesGiven
      /\ LMSSet \subseteq Positions(s)
      /\ \A p \in LMSSet : is_LMS(t, p)
      /\ \A p \in Positions(s) : At(s, p) \in 0 .. K - 1
      /\ \A p \in Positions(s) : is_LMS(t, p) => p \in LMSSet
  BY TypedFacts, LMSApart
<1>2. ASSUME NEW x \in Positions(s), SA[x] # None
      PROVE  is_LMS(t, SA[x]) /\ SA[x] \in Positions(s) /\ x \in Region(S_Type, At(s, SA[x]))
  <2> DEFINE c == At(s, SA[x])
  <2>1. SA[x] \in LMSSet /\ x > i
    BY <1>1, <1>2 DEF PlacingInv
  <2>2. x \in buckets[c] .. End(c) - 1
    BY <1>2, <2>1 DEF PlacingInv
  <2>3. c \in 0 .. K - 1
    BY <1>1, <2>1
  <2>4. buckets[c] >= End(c) - Count(c, S_Type) /\ buckets[c] \in Int
    BY <2>3 DEF PlacingInv
  <2>5. End(c) \in Nat /\ Count(c, S_Type) \in Nat
    BY <1>1, <2>3, BucketBounds
  <2> HIDE DEF c
  <2>6. x \in Region(S_Type, c)
    BY <2>2, <2>4, <2>5 DEF Region, L_Type, S_Type
  <2> QED
    BY <1>1, <2>1, <2>6 DEF c
<1>3. OrderOf(2, L_Type) = NotAfter(LessPairs(s))
  BY DEF OrderOf
<1>4. ASSUME NEW x \in Positions(s), NEW y \in Positions(s), x < y, SA[x] # None, SA[y] # None
      PROVE  << SA[x], SA[y] >> \in NotAfter(LessPairs(s))
  <2>1. SA[x] \in Positions(s) /\ SA[y] \in Positions(s)
    BY <1>2, <1>4
  <2>2. ~SuffixLess(s, SA[y], SA[x])
    BY <1>4 DEF PlacingInv
  <2> QED
    BY <2>1, <2>2 DEF NotAfter, LessPairs
<1>5. /\ SA \in [ Positions(s) -> Positions(s) \cup { None } ]
      /\ \A x, y \in Positions(s) : SA[x] # None /\ SA[x] = SA[y] => x = y
      /\ \A q \in Positions(s) : is_LMS(t, q) => \E x \in Positions(s) : SA[x] = q
  BY <1>1 DEF PlacingInv
<1> QED
  BY <1>2, <1>3, <1>4, <1>5 DEF Seeding

\* Sorted suffixes are the suffix array.
LEMMA SortedIsResult ==
  ASSUME Typed, InducedOrder(2)
  PROVE  SA = SuffixArray(s)
<1> DEFINE f == [ c \in 0 .. n - 1 |-> Rank(s, SA[c]) ]
<1>1. n \in Nat \ {0} /\ Positions(s) = 0 .. n - 1 /\ Terminated(s)
  BY TypedFacts
<1>2. /\ SA \in [ Positions(s) -> Positions(s) ]
      /\ \A x, y \in Positions(s) : SA[x] = SA[y] => x = y
      /\ \A x, y \in Positions(s) : x < y => << SA[x], SA[y] >> \in NotAfter(LessPairs(s))
  BY DEF InducedOrder, OrderOf
<1>3. f \in [ 0 .. n - 1 -> 0 .. n - 1 ]
  BY <1>1, <1>2, RankFacts
<1>4. ASSUME NEW x \in 0 .. n - 1, NEW y \in 0 .. n - 1, x < y
      PROVE  f[x] < f[y]
  <2>1. SA[x] \in Positions(s) /\ SA[y] \in Positions(s) /\ SA[x] # SA[y]
    <3>1. x \in Positions(s) /\ y \in Positions(s) /\ x # y
      BY <1>1, <1>4
    <3> QED
      BY <1>2, <3>1
  <2>2. ~SuffixLess(s, SA[y], SA[x])
    BY <1>1, <1>2, <1>4, <2>1 DEF NotAfter, LessPairs
  <2>3. SuffixLess(s, SA[x], SA[y])
    BY <1>1, <2>1, <2>2, LessOrder
  <2> QED
    BY <1>1, <2>1, <2>3, RankFacts
<1>5. \A c \in 0 .. n - 1 : f[c] = Rank(s, SA[c])
  OBVIOUS
<1> HIDE DEF f
<1>6. \A c \in 0 .. n - 1 : f[c] = c
  BY <1>1, <1>3, <1>4, Identity
<1> QED
  BY <1>1, <1>2, <1>5, <1>6, IsSuffixArray

-----------------------------------------------------------------------------
(* The phases together *)

\* What each phase of run_saca has to go on.
SaisInv ==
  /\ s \in Texts
  /\ typing!BytesInv /\ typing!TypesInv
  /\ phase \in { "start", "induce", "name", "reduce", "restore", "place", "done" }
  /\ phase = "start" => /\ BuffersIdle /\ round = 1
                        /\ types_phase # "first" => n >= MinSize
  /\ phase = "induce" => round \in { 1, 2 } /\ InducingInv(round)
  /\ phase \in { "name", "reduce", "restore", "place" } =>
       BuffersIdle /\ Typed /\ n >= 2 /\ round = 1
  /\ phase = "name" => LMSInFront(NotAfter(LMSPairs)) /\ NamesInv
  /\ phase = "reduce" => ReducedInv
  /\ phase = "restore" => SortedInv
  /\ phase = "place" => PlacingInv
  /\ phase = "done" => SA = SuffixArray(s)

\* The empty buffers stay in the sequential phases.
LEMMA IdleKept ==
  ASSUME BuffersIdle, UNCHANGED << index, r, w, store >>
  PROVE  BuffersIdle'
BY DEF BuffersIdle, Valid

\* So do the types of the text,
LEMMA TypedKept ==
  ASSUME UNCHANGED << s, t >>
  PROVE  (Typed => Typed') /\ n' = n
BY DEF Typed, n

\* and the orders of the passes.
LEMMA OrdersNext ==
  ASSUME UNCHANGED << s, t >>
  PROVE  /\ \A p, q : LMSBefore(p, q)' <=> LMSBefore(p, q)
         /\ NotAfter(LMSPairs)' = NotAfter(LMSPairs)
<1>1. n' = n
  BY DEF n
<1>2. /\ \A p, q : Smaller(p, q)' <=> Smaller(p, q)
      /\ \A p, q : Alike(p, q)' <=> Alike(p, q)
  BY DEF Smaller, Alike
<1>3. \A p, q, k : Decides(p, q, k)' <=> Decides(p, q, k)
  BY <1>1, <1>2 DEF Decides
<1>4. \A p, q : LMSBefore(p, q)' <=> LMSBefore(p, q)
  BY <1>3 DEF LMSBefore
<1> QED
  BY <1>4 DEF NotAfter, LMSPairs

\* The invariants speak of the text, SA and the sequential variables only.
LEMMA QuietPhases ==
  ASSUME UNCHANGED << s, t, SA, buckets, n1, i, name, previous_LMS >>
  PROVE  /\ LMSInFront(NotAfter(LMSPairs)) => LMSInFront(NotAfter(LMSPairs))'
         /\ NamesInv => NamesInv'
         /\ ReducedInv => ReducedInv'
         /\ SortedInv => SortedInv'
         /\ PlacingInv => PlacingInv'
<1>1. /\ n' = n /\ LMSSet' = LMSSet /\ LMSCount' = LMSCount
      /\ \A k : LMSAt(k)' = LMSAt(k)
      /\ \A c : End(c)' = End(c) /\ Count(c, S_Type)' = Count(c, S_Type)
  BY LMSNext
<1>2. /\ \A p, q : LMSBefore(p, q)' <=> LMSBefore(p, q)
      /\ NotAfter(LMSPairs)' = NotAfter(LMSPairs)
  BY OrdersNext
<1>3. LMSInFront(NotAfter(LMSPairs)) => LMSInFront(NotAfter(LMSPairs))'
  BY <1>1, <1>2 DEF LMSInFront
<1>4. NamesInv => NamesInv'
  BY <1>1, <1>2 DEF NamesInv, NameOf
<1>5. ReducedInv => ReducedInv'
  <2>1. s1' = s1
    BY <1>1 DEF s1
  <2> QED
    BY <1>1, <1>2, <2>1 DEF ReducedInv
<1>6. SortedInv => SortedInv'
  BY <1>1 DEF SortedInv
<1>7. PlacingInv => PlacingInv'
  BY <1>1 DEF PlacingInv
<1> QED
  BY <1>3, <1>4, <1>5, <1>6, <1>7

\* Nothing changes for the pipeline when none of its variables does.
LEMMA QuietInducing ==
  ASSUME NEW rd \in { 1, 2 }, InducingInv(rd), UNCHANGED vars
  PROVE  InducingInv(rd)'
<1>1. /\ RefinementInv /\ Typed /\ n >= 2
      /\ OrderInv(type, OrderOf(rd, type), VisibleSA, buckets, ScannedCells)
  BY DEF InducingInv
<1>2. RefinementInv'
  BY <1>1, NextRefines
<1>3. /\ UNCHANGED << s, t, type, blocknum, SA, buckets, w, store >> /\ PendingInv
      /\ UNCHANGED << s, type, blocknum >> /\ pc' = pc /\ index' = index
  BY <1>1 DEF vars, RefinementInv
<1>4. ScannedCells' = ScannedCells
  BY <1>1, <1>3, SteadyScan
<1>5. VisibleSA' = VisibleSA
  BY <1>3, QuietStep
<1>6. Typed' /\ n' = n
  BY <1>1, <1>3, TypedKept
<1>7. OrderInv(type', OrderOf(rd, type'), VisibleSA', buckets', ScannedCells')
  BY <1>1, <1>3, <1>4, <1>5
<1>8. OrderInv(type, OrderOf(rd, type), VisibleSA, buckets, ScannedCells)'
  BY <1>3, <1>7, OrderInvNext
<1> QED
  BY <1>1, <1>2, <1>6, <1>8 DEF InducingInv

\* Naming starts with no name given.
LEMMA NamingStarts ==
  ASSUME Typed, n >= 2, LMSInFront(NotAfter(LMSPairs)), ClearAbove,
         i = 0, name = 0, previous_LMS = -1
  PROVE  NamesInv
<1>1. n1 \in Nat /\ 2 * n1 <= n /\ n \in Nat /\ Positions(s) = 0 .. n - 1
  BY TypedFacts, LMSApart DEF LMSInFront
<1>2. \A c \in n1 .. n - 1 : SA[c] = None
  BY <1>1 DEF ClearAbove
<1>3. i \in 0 .. n1 /\ name \in 0 .. i /\ 0 .. i - 1 = {} /\ 0 .. name - 1 = {} /\ ~(i > 0)
  BY <1>1
<1> QED
  BY <1>2, <1>3 DEF NamesInv

LEMMA NamingStartsNext ==
  (Typed /\ n >= 2 /\ LMSInFront(NotAfter(LMSPairs)) /\ ClearAbove
     /\ i = 0 /\ name = 0 /\ previous_LMS = -1 => NamesInv)'
<1>1. Typed /\ n >= 2 /\ LMSInFront(NotAfter(LMSPairs)) /\ ClearAbove
        /\ i = 0 /\ name = 0 /\ previous_LMS = -1 => NamesInv
  BY NamingStarts
<1> QED
  BY <1>1, PTL

\* Once compute_types has ended the types are there.
LEMMA TypesDone ==
  ASSUME SaisInv, phase = "start", types_phase = "done"
  PROVE  Typed /\ n >= 2
<1>1. t = Types(s)
  BY DEF SaisInv, typing!TypesInv, typing!TypesAreCorrect,
         Types, typing!Types, Positions, typing!Positions,
         IsS, typing!IsS, At, typing!At,
         S_Type, typing!S_Type, L_Type, typing!L_Type
<1>2. s \in Texts /\ n >= MinSize
  BY DEF SaisInv
<1>3. n \in Nat
  BY <1>2, TextFacts
<1>4. n >= 2
  BY <1>2, <1>3, MinSizeAssumption
<1> QED
  BY <1>1, <1>2, <1>4 DEF Typed

\* run_saca starts with empty buffers and nothing typed.
LEMMA SaisStarts == SaisInit => SaisInv
<1> SUFFICES ASSUME SaisInit PROVE SaisInv
  OBVIOUS
<1>1. typing!BytesInv /\ typing!TypesInv
  BY InitFact
<1>2. s \in Texts /\ types_phase = "first"
  BY DEF SaisInit, compute_types!Init
<1>3. BuffersInit /\ phase = "start" /\ round = 1
  BY DEF SaisInit
<1>4. BuffersIdle
  <2> USE <1>3 DEF BuffersInit
  <2>1. /\ index \in [Tasks -> Int]
        /\ r \in [Parities -> [0 .. PartLength -> (0 .. K - 1) \X (0 .. None)]]
        /\ w \in [Parities -> [0 .. PartLength -> Int \X (0 .. None)]]
    BY ConstantFacts
  <2>2. \A p \in Parities, x \in 0 .. PartLength : ~Valid(w[p][x])
    BY EmptyEntries
  <2> QED
    BY <2>1, <2>2 DEF BuffersIdle
<1> QED
  BY <1>1, <1>2, <1>3, <1>4 DEF SaisInv

\* compute_types changes the types and its own variables only.
LEMMA TypingFrame ==
  ASSUME ComputeTypes
  PROVE  UNCHANGED << s, index, r, w, store, phase, round >> /\ n >= MinSize /\ phase = "start"
<1>1. UNCHANGED s
  BY DEF ComputeTypes, compute_types!TaskStep, compute_types!StoreByte, compute_types!SkipLast,
         compute_types!ClassifyByCharacter, compute_types!ClassifyByNeighbour, compute_types!MoveBorder,
         compute_types!EndFirstPass, compute_types!SetRest, compute_types!TakeOver, compute_types!Finish
<1> QED
  BY <1>1 DEF ComputeTypes, seqVars

\* Each step of run_saca keeps what its phase has to go on.
LEMMA SaisStep ==
  ASSUME SaisInv, [SaisNext]_saisVars
  PROVE  SaisInv'
<1>1. typing!BytesInv' /\ typing!TypesInv'
  BY StepFact DEF SaisInv
<1>2. s \in Texts
  BY DEF SaisInv
<1>3. ~ComputeTypes => UNCHANGED << s, t, types_phase >> /\ n' = n
  BY OtherSteps DEF typesVars, n
<1>4. CASE CallSais
  <2>1. SA' = SuffixArray(s) /\ phase' = "done" /\ UNCHANGED s
    BY <1>4 DEF CallSais
  <2>2. SA' = SuffixArray(s')
    BY <2>1
  <2> QED
    BY <1>1, <1>2, <2>1, <2>2 DEF SaisInv
<1>5. CASE ComputeTypes
  <2>1. /\ UNCHANGED << s, index, r, w, store, phase, round >> /\ n >= MinSize /\ phase = "start"
        /\ BuffersIdle /\ round = 1
    BY <1>5, TypingFrame DEF SaisInv
  <2>2. n' >= MinSize
    BY <2>1 DEF n
  <2>3. BuffersIdle'
    BY <2>1, IdleKept
  <2> QED
    BY <1>1, <1>2, <2>1, <2>2, <2>3 DEF SaisInv
<1>6. CASE InsertUnsortedLMS
  <2>1. /\ phase = "start" /\ types_phase = "done" /\ phase' = "induce"
        /\ UNCHANGED << s, round >>
    BY <1>6 DEF InsertUnsortedLMS
  <2>2. BuffersIdle /\ round = 1
    BY <2>1 DEF SaisInv
  <2>3. Typed /\ n >= 2
    BY <2>1, TypesDone
  <2>4. InducingInv(1)'
    BY <1>6, <2>2, <2>3, InsertStarts, FirstBeginsNext
  <2> QED
    BY <1>1, <1>2, <2>1, <2>2, <2>4 DEF SaisInv
<1>7. ASSUME phase = "induce", phase' = "induce", round' = round, UNCHANGED s,
             PipelineStep \/ SecondPass \/ UNCHANGED vars
      PROVE  SaisInv'
  <2>1. round \in { 1, 2 } /\ InducingInv(round)
    BY <1>7 DEF SaisInv
  <2>2. \A rd \in { 1, 2 } : InducingInv(rd) => InducingInv(rd)'
    BY <1>7, InducingKept, QuietInducing
  <2>3. CASE round = 1
    <3>1. InducingInv(1)'
      BY <2>1, <2>2, <2>3
    <3> QED
      BY <1>1, <1>2, <1>7, <2>3, <3>1 DEF SaisInv
  <2>4. CASE round = 2
    <3>1. InducingInv(2)'
      BY <2>1, <2>2, <2>4
    <3> QED
      BY <1>1, <1>2, <1>7, <2>4, <3>1 DEF SaisInv
  <2> QED
    BY <2>1, <2>3, <2>4
<1>8. CASE Induce
  <2>1. phase = "induce" /\ (PipelineStep \/ SecondPass) /\ phase' = phase /\ round' = round
    BY <1>8 DEF Induce, seqVars
  <2>2. UNCHANGED s
    BY <1>3, <2>1 DEF ComputeTypes
  <2> QED
    BY <1>7, <2>1, <2>2
<1>9. ASSUME phase \in { "name", "reduce", "restore", "place" }, UNCHANGED << s, t, index, r, w, store, round >>
      PROVE  BuffersIdle' /\ Typed' /\ n' >= 2 /\ round' = 1 /\ s' \in Texts
  <2>1. BuffersIdle /\ Typed /\ n >= 2 /\ round = 1
    BY <1>9 DEF SaisInv
  <2> QED
    BY <1>2, <1>9, <2>1, IdleKept, TypedKept
<1>10. CASE CollectLMS
  <2>1. /\ phase = "induce" /\ round = 1 /\ PassDone /\ type = S_Type /\ phase' = "name"
        /\ i' = 0 /\ name' = 0 /\ previous_LMS' = -1
        /\ UNCHANGED << s, t, index, r, w, store, round >>
    BY <1>10 DEF CollectLMS, tasksIdle
  <2>2. InducingInv(1)
    BY <2>1 DEF SaisInv
  <2>3. Typed /\ n >= 2 /\ BuffersIdle /\ InducedOrder(1)
    BY <2>1, <2>2, PassEnds DEF InducingInv
  <2>4. LMSInFront(NotAfter(LMSPairs))' /\ ClearAbove'
    BY <1>10, <2>3, CollectFacts
  <2>5. BuffersIdle' /\ Typed' /\ n' >= 2
    BY <2>1, <2>3, IdleKept, TypedKept
  <2>6. NamesInv'
    BY <2>1, <2>4, <2>5, NamingStartsNext
  <2> QED
    BY <1>1, <1>2, <2>1, <2>4, <2>5, <2>6 DEF SaisInv
<1>11. CASE NameNext
  <2>1. /\ phase = "name" /\ phase' = "name" /\ UNCHANGED << s, t, index, r, w, store, round >>
    BY <1>11 DEF NameNext, tasksIdle
  <2>2. Typed /\ n >= 2 /\ LMSInFront(NotAfter(LMSPairs)) /\ NamesInv
    BY <2>1 DEF SaisInv
  <2>3. LMSInFront(NotAfter(LMSPairs))' /\ NamesInv'
    BY <1>11, <2>2, NameStep
  <2>4. BuffersIdle' /\ Typed' /\ n' >= 2 /\ round' = 1 /\ s' \in Texts
    BY <1>9, <2>1
  <2> QED
    BY <1>1, <2>1, <2>3, <2>4 DEF SaisInv
<1>12. CASE ShiftNames
  <2>1. /\ phase = "name" /\ phase' = "reduce" /\ UNCHANGED << s, t, index, r, w, store, round >>
    BY <1>12 DEF ShiftNames, tasksIdle
  <2>2. Typed /\ n >= 2 /\ LMSInFront(NotAfter(LMSPairs)) /\ NamesInv
    BY <2>1 DEF SaisInv
  <2>3. ReducedInv'
    BY <1>12, <2>2, ShiftStep
  <2>4. BuffersIdle' /\ Typed' /\ n' >= 2 /\ round' = 1 /\ s' \in Texts
    BY <1>9, <2>1
  <2> QED
    BY <1>1, <2>1, <2>3, <2>4 DEF SaisInv
<1>13. CASE Recurse \/ NamesAreRanks
  <2>1. /\ phase = "reduce" /\ phase' = "restore" /\ UNCHANGED << s, t, index, r, w, store, round >>
    BY <1>13 DEF Recurse, NamesAreRanks, tasksIdle
  <2>2. Typed /\ n >= 2 /\ ReducedInv
    BY <2>1 DEF SaisInv
  <2>3. SortedInv'
    BY <1>13, <2>2, RecurseStep, RanksStep
  <2>4. BuffersIdle' /\ Typed' /\ n' >= 2 /\ round' = 1 /\ s' \in Texts
    BY <1>9, <2>1
  <2> QED
    BY <1>1, <2>1, <2>3, <2>4 DEF SaisInv
<1>14. CASE RestoreLMS
  <2>1. /\ phase = "restore" /\ phase' = "place" /\ UNCHANGED << s, t, index, r, w, store, round >>
    BY <1>14 DEF RestoreLMS, tasksIdle
  <2>2. Typed /\ n >= 2 /\ SortedInv
    BY <2>1 DEF SaisInv
  <2>3. PlacingInv'
    BY <1>14, <2>2, RestoreStep
  <2>4. BuffersIdle' /\ Typed' /\ n' >= 2 /\ round' = 1 /\ s' \in Texts
    BY <1>9, <2>1
  <2> QED
    BY <1>1, <2>1, <2>3, <2>4 DEF SaisInv
<1>15. CASE PlaceLMS
  <2>1. /\ phase = "place" /\ phase' = "place" /\ UNCHANGED << s, t, index, r, w, store, round >>
    BY <1>15 DEF PlaceLMS, tasksIdle
  <2>2. Typed /\ n >= 2 /\ PlacingInv
    BY <2>1 DEF SaisInv
  <2>3. PlacingInv'
    BY <1>15, <2>2, PlaceStep
  <2>4. BuffersIdle' /\ Typed' /\ n' >= 2 /\ round' = 1 /\ s' \in Texts
    BY <1>9, <2>1
  <2> QED
    BY <1>1, <2>1, <2>3, <2>4 DEF SaisInv
<1>16. CASE FinalInducing
  <2>1. phase = "place" /\ i = -1 /\ phase' = "induce" /\ round' = 2 /\ UNCHANGED s
    BY <1>16 DEF FinalInducing
  <2>2. BuffersIdle /\ Typed /\ n >= 2 /\ PlacingInv
    BY <2>1 DEF SaisInv
  <2>3. InducingInv(2)'
    BY <1>16, <2>1, <2>2, PlacedSeeds, FinalStarts, SecondBeginsNext
  <2> QED
    BY <1>1, <1>2, <2>1, <2>3 DEF SaisInv
<1>17. CASE Return
  <2>1. /\ phase = "induce" /\ round = 2 /\ PassDone /\ type = S_Type /\ phase' = "done"
        /\ UNCHANGED << s, SA >>
    BY <1>17 DEF Return, vars
  <2>2. InducingInv(2)
    BY <2>1 DEF SaisInv
  <2>3. Typed /\ InducedOrder(2)
    BY <2>1, <2>2, PassEnds DEF InducingInv
  <2>4. SA' = SuffixArray(s')
    BY <2>1, <2>3, SortedIsResult
  <2> QED
    BY <1>1, <1>2, <2>1, <2>4 DEF SaisInv
<1>18. CASE UNCHANGED saisVars
  <2>1. /\ UNCHANGED vars /\ UNCHANGED << s, t, SA, buckets, n1, i, name, previous_LMS >>
        /\ UNCHANGED << index, r, w, store, phase, round, types_phase >>
    BY <1>18 DEF saisVars, vars, seqVars, typesVars
  <2>2. CASE phase = "induce"
    BY <1>7, <2>1, <2>2
  <2>3. CASE phase = "start"
    <3>1. BuffersIdle' /\ n' = n
      BY <2>1, <2>3, IdleKept, TypedKept DEF SaisInv
    <3> QED
      BY <1>1, <1>2, <2>1, <2>3, <3>1 DEF SaisInv
  <2>4. CASE phase \in { "name", "reduce", "restore", "place" }
    <3>1. BuffersIdle' /\ Typed' /\ n' >= 2 /\ round' = 1 /\ s' \in Texts
      BY <1>9, <2>1, <2>4
    <3>2. /\ phase = "name" => LMSInFront(NotAfter(LMSPairs))' /\ NamesInv'
          /\ phase = "reduce" => ReducedInv'
          /\ phase = "restore" => SortedInv'
          /\ phase = "place" => PlacingInv'
      BY <2>1, <2>4, QuietPhases DEF SaisInv
    <3> QED
      BY <1>1, <2>1, <2>4, <3>1, <3>2 DEF SaisInv
  <2>5. CASE phase = "done"
    BY <1>1, <1>2, <2>1, <2>5 DEF SaisInv
  <2> QED
    BY <2>2, <2>3, <2>4, <2>5 DEF SaisInv
<1> QED
  BY <1>4, <1>5, <1>6, <1>8, <1>10, <1>11, <1>12, <1>13, <1>14, <1>15, <1>16, <1>17, <1>18
     DEF SaisNext, SaisTerminating

\* The invariant of run_saca: what each phase hands to the next.
THEOREM SaisInvariance == SaisSpec => []SaisInv
<1>1. SaisInv /\ [SaisNext]_saisVars => SaisInv'
  BY SaisStep
<1> QED
  BY <1>1, SaisStarts, PTL DEF SaisSpec

\* The reduced text is a legal input of the recursive call, and its suffixes are
\* ordered as the LMS suffixes of the text (run_saca between the inductions).
THEOREM SaisReduces == SaisSpec => []ReducedTextIsEquivalent
<1>1. SaisInv => ReducedTextIsEquivalent
  <2>1. CASE phase = "reduce"
    BY <2>1, ReducedEquivalent DEF SaisInv
  <2>2. CASE phase # "reduce"
    BY <2>2 DEF ReducedTextIsEquivalent
  <2> QED
    BY <2>1, <2>2
<1> QED
  BY <1>1, SaisInvariance, PTL

\* What run_saca returns is the suffix array of its text.
THEOREM SaisSorts == SaisSpec => []ResultIsSuffixArray
<1>1. SaisInv => ResultIsSuffixArray
  BY DEF SaisInv, ResultIsSuffixArray
<1> QED
  BY <1>1, SaisInvariance, PTL

=============================================================================
