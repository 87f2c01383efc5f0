-------------------------- MODULE PipelinedInducing --------------------------
(***************************************************************************)
(* parallel_sais.hpp, pipelined_Inducing: one pass of induced sorting, cut *)
(* into blocks of PartLength cells that run through a three-stage          *)
(* pipeline.  In iteration b (variable blocknum) a taskgroup runs, in      *)
(* parallel,                                                               *)
(*    prepare  block b    : read the cells of the block and record in the  *)
(*                          read buffer r the (character, suffix) pair     *)
(*                          each of them will induce;                      *)
(*    induce   block b-1  : the sequential scan; an induced suffix goes to *)
(*                          SA if its cell is near, otherwise to the write *)
(*                          buffer w;                                      *)
(*    update   block b-2  : copy the write buffer of that block to SA.     *)
(* The end of the taskgroup is a barrier.  In an S pass, which scans from  *)
(* right to left, the tasks work on block block_amount - b instead.  There *)
(* are two read and two write buffers, chosen by the parity of the block.  *)
(*                                                                         *)
(* The tasks share SA without synchronisation.  An action is one access to *)
(* a cell of SA together with the task-local work around it; a cell that a *)
(* task is storing is visible to the others as the old value, the new one, *)
(* or (UIntPair, which is stored in two parts) a mixture: see ReadCell.    *)
(* The inner "parallel for" of prepare and update runs in a team of one    *)
(* (nested parallelism is off by default and the code never enables it).   *)
(***************************************************************************)
EXTENDS SaisText

CONSTANTS
  Texts,        \* the texts considered
  K,            \* alphabet size with the sentinel
  PartLength,   \* part_length (10000000 in the code)
  LowBase,      \* a cell of SA is a low part below LowBase and a high part
  HiBase        \*   below HiBase (2^32 and 2^8 for uint40)

ASSUME ConstantsAssumption ==
  /\ K \in Nat \ {0}
  /\ PartLength \in Nat \ {0}
  /\ LowBase \in Nat \ {0}
  /\ HiBase \in Nat \ {0, 1}

\* Texts end in the unique sentinel.  Their positions fit in the int that
\* getBit takes (int index), hence in the low part of a cell.
ASSUME TextsAssumption ==
  \A x \in Texts : /\ x \in Seq(0 .. K - 1)
                   /\ Len(x) > 0
                   /\ Len(x) + 1 < LowBase
                   /\ \A i \in Positions(x) :
                        At(x, i) = 0 <=> i = Len(x) - 1

VARIABLES
  s,          \* text
  t,          \* suffix types, as computed by compute_types
  SA,
  buckets,
  type,       \* the pass: L_Type or S_Type
  blocknum,   \* pipeline iteration
  pc,         \* per task: "idle", "start" or "run"
  index,      \* per task: the loop variable i
  r,          \* read buffers r1 (block parity 0) and r2
  w,          \* write buffers w1 and w2
  w_count,    \* write_amount_1 and write_amount_2
  store       \* the store to SA the induce task is executing, or NoStore

vars == << s, t, SA, buckets, type, blocknum, pc, index, r, w, w_count, store >>

Tasks == { "prepare", "induce", "update" }
Parities == { 0, 1 }

None == LowBase * HiBase - 1            \* static_cast<sa_index>(-1)
NoRecord == << 0, None >>               \* an empty buffer entry
NoStore == << >>

n == Len(s)
block_amount == IF n \div PartLength = 0 THEN 1 ELSE n \div PartLength

-----------------------------------------------------------------------------
(* Which block each task works on. *)

BlockOf(b) == IF type = L_Type THEN b ELSE block_amount - b

\* Faulty variant: the update stage lags one iteration more.
StageOf_LateUpdate(task, b) ==
  [ prepare |-> IF b <= block_amount THEN b ELSE -1,
    induce |-> IF b <= block_amount + 1 THEN b - 1 ELSE -1,
    update |-> b - 3 ][task]

\* preparing_block, inducing_block, updating_block of iteration b; -1 when
\* the task is not spawned.
StageOf(task, b) ==
  [ prepare |-> IF b <= block_amount THEN b ELSE -1,
    induce |-> IF b <= block_amount + 1 THEN b - 1 ELSE -1,
    update |-> b - 2 ][task]

Block(task) == BlockOf(StageOf(task, blocknum))

\* Faulty variant: the buffers alternate with the iteration, not the block.
Parity_Iteration(task) == blocknum % 2

Parity(task) == Block(task) % 2
translate(task) == Block(task) * PartLength

\* The induce scan of a block: its first index and its end.
FirstIndex(k) ==
  IF type = L_Type THEN 0
  ELSE (IF PartLength <= n - k * PartLength
          THEN PartLength ELSE n - k * PartLength) - 1

InScan(k, i) ==
  IF type = L_Type THEN i < PartLength /\ i + k * PartLength < n ELSE i >= 0

Spawned(b) ==
  [ task \in Tasks |-> IF StageOf(task, b) >= 0 THEN "start" ELSE "idle" ]

-----------------------------------------------------------------------------
(* Reading a cell of SA that another task may be storing. *)

Mix(hi, lo) == (hi \div LowBase) * LowBase + (lo % LowBase)

\* An entry of a write buffer that update_SA copies.
Valid(e) == e[1] # 0 /\ e[2] # None

\* Stores in progress, as <<cell, value>> pairs: the induce task's direct
\* store, and the entry the update task is at.
StoresInProgress ==
  (IF store = NoStore THEN {} ELSE { store })
  \cup { e \in { w[p][i] : p \in Parities, i \in 0 .. PartLength } :
           /\ pc["update"] = "run"
           /\ index["update"] <= PartLength
           /\ e = w[Parity("update")][index["update"]]
           /\ Valid(e) }

ReadCell(c) ==
  { SA[c] } \cup
  UNION { { e[2], Mix(SA[c], e[2]), Mix(e[2], SA[c]) } :
            e \in { x \in StoresInProgress : x[1] = c } }

\* A cell with value v induces suffix v - 1 in this pass, if that is a
\* position of the text with the type of the pass.
Inducible(v) ==
  /\ v # None
  /\ v - 1 \in Positions(s)
  /\ t[v - 1] = type

-----------------------------------------------------------------------------
(* prepare_parallel and prepare *)

PrepareReset ==
  /\ pc["prepare"] = "start"
  /\ r' = [ r EXCEPT ![Parity("prepare")] = [ i \in 0 .. PartLength |-> NoRecord ] ]
  /\ pc' = [ pc EXCEPT !["prepare"] = "run" ]
  /\ index' = [ index EXCEPT !["prepare"] = 0 ]
  /\ UNCHANGED << s, t, SA, buckets, type, blocknum, w, w_count, store >>

\* Faulty variant: no type check.
Recordable_AnyType(v) == v # None /\ v - 1 \in Positions(s)

\* prepare's own test of the cell it has read.
Recordable(v) ==
  /\ v # None
  /\ v - 1 \in Positions(s)
  /\ t[v - 1] = type

PrepareCell ==
  LET i == index["prepare"]
      j == translate("prepare") + i
  IN  /\ pc["prepare"] = "run"
      /\ i <= PartLength
      /\ \E v \in IF j < n THEN ReadCell(j) ELSE { None } :
           r' = IF Recordable(v)
                  THEN [ r EXCEPT ![Parity("prepare")][i] =
                           << At(s, v - 1), v - 1 >> ]
                  ELSE r
      /\ index' = [ index EXCEPT !["prepare"] = i + 1 ]
      /\ UNCHANGED << s, t, SA, buckets, type, blocknum, pc, w, w_count, store >>

PrepareEnd ==
  /\ pc["prepare"] = "run"
  /\ index["prepare"] = PartLength + 1
  /\ pc' = [ pc EXCEPT !["prepare"] = "idle" ]
  /\ UNCHANGED << s, t, SA, buckets, type, blocknum, index, r, w, w_count, store >>

-----------------------------------------------------------------------------
(* induce_L_Types_Pipelined and induce_S_Types_Pipelined *)

InduceStart ==
  /\ pc["induce"] = "start"
  /\ pc' = [ pc EXCEPT !["induce"] = "run" ]
  /\ index' = [ index EXCEPT !["induce"] = FirstIndex(Block("induce")) ]
  /\ UNCHANGED << s, t, SA, buckets, type, blocknum, r, w, w_count, store >>

\* Faulty variant: only the task's own block is written directly.
Near_OwnBlock(idx, i) ==
  IF type = L_Type
    THEN /\ translate("induce") <= idx
         /\ idx < translate("induce") + PartLength
    ELSE /\ translate("induce") <= idx
         /\ idx <= translate("induce") + i

\* The cells the induce task writes directly: from its own block on, two
\* blocks in the direction of the scan.
Near(idx, i) ==
  IF type = L_Type
    THEN /\ translate("induce") <= idx
         /\ idx <= translate("induce") + 2 * PartLength
    ELSE /\ translate("induce") - 2 * PartLength <= idx
         /\ idx <= translate("induce") + i

\* The prepared character of the record at index i, or the one read from the
\* text when there is no record.
InducedChar(rec, pos) == IF rec[1] = 0 THEN At(s, pos) ELSE rec[1]

NextCell(i) == IF type = L_Type THEN i + 1 ELSE i - 1

InduceCell ==
  LET i == index["induce"]
      p == Parity("induce")
  IN  /\ pc["induce"] = "run"
      /\ store = NoStore
      /\ InScan(Block("induce"), i)
      /\ \E v \in ReadCell(translate("induce") + i) :
           LET pos == v - 1
               chr == InducedChar(r[p][i], pos)
               idx == IF type = L_Type THEN buckets[chr] ELSE buckets[chr] - 1
           IN  IF Inducible(v)
                 THEN /\ r' = [ r EXCEPT ![p][i] =
                                  IF @[1] = 0 THEN @ ELSE NoRecord ]
                      /\ buckets' = [ buckets EXCEPT
                            ![chr] = IF type = L_Type THEN @ + 1 ELSE @ - 1 ]
                      /\ IF Near(idx, i)
                           THEN /\ store' = << idx, pos >>
                                /\ UNCHANGED << w, w_count >>
                           ELSE /\ w' = [ w EXCEPT ![p][w_count[p]] =
                                            << idx, pos >> ]
                                /\ w_count' = [ w_count EXCEPT ![p] = @ + 1 ]
                                /\ store' = store
                 ELSE UNCHANGED << r, buckets, w, w_count, store >>
      /\ index' = [ index EXCEPT !["induce"] = NextCell(i) ]
      /\ UNCHANGED << s, t, SA, type, blocknum, pc >>

\* The direct store reaches SA.
InduceStore ==
  /\ store # NoStore
  /\ SA' = [ SA EXCEPT ![store[1]] = store[2] ]
  /\ store' = NoStore
  /\ UNCHANGED << s, t, buckets, type, blocknum, pc, index, r, w, w_count >>

InduceEnd ==
  /\ pc["induce"] = "run"
  /\ store = NoStore
  /\ ~InScan(Block("induce"), index["induce"])
  /\ pc' = [ pc EXCEPT !["induce"] = "idle" ]
  /\ UNCHANGED << s, t, SA, buckets, type, blocknum, index, r, w, w_count, store >>

-----------------------------------------------------------------------------
(* update_parallel and update_SA *)

UpdateStart ==
  /\ pc["update"] = "start"
  /\ pc' = [ pc EXCEPT !["update"] = "run" ]
  /\ index' = [ index EXCEPT !["update"] = 0 ]
  /\ UNCHANGED << s, t, SA, buckets, type, blocknum, r, w, w_count, store >>

\* Faulty variant: the last entry is left behind.
InUpdate_Short(i) == i <= PartLength /\ i + 1 < w_count[Parity("update")]

InUpdate(i) == i <= PartLength /\ i <= w_count[Parity("update")] + 1

UpdateEntry ==
  LET i == index["update"]
      p == Parity("update")
      e == w[p][i]
  IN  /\ pc["update"] = "run"
      /\ InUpdate(i)
      /\ IF Valid(e)
           THEN /\ SA' = [ SA EXCEPT ![e[1]] = e[2] ]
                /\ w' = [ w EXCEPT ![p][i] = NoRecord ]
           ELSE UNCHANGED << SA, w >>
      /\ index' = [ index EXCEPT !["update"] = i + 1 ]
      /\ UNCHANGED << s, t, buckets, type, blocknum, pc, r, w_count, store >>

UpdateEnd ==
  /\ pc["update"] = "run"
  /\ ~InUpdate(index["update"])
  /\ w_count' = [ w_count EXCEPT ![Parity("update")] = 0 ]
  /\ pc' = [ pc EXCEPT !["update"] = "idle" ]
  /\ UNCHANGED << s, t, SA, buckets, type, blocknum, index, r, w, store >>

-----------------------------------------------------------------------------
(* The pipeline loop *)

AllIdle == \A task \in Tasks : pc[task] = "idle"

\* Faulty variant: the loop runs once more.
NextIteration_OnceMore ==
  /\ AllIdle
  /\ blocknum <= block_amount + 3
  /\ blocknum' = blocknum + 1
  /\ pc' = IF blocknum < block_amount + 3 THEN Spawned(blocknum + 1) ELSE pc
  /\ UNCHANGED << s, t, SA, buckets, type, index, r, w, w_count, store >>

\* The end of a taskgroup, and the next iteration's tasks.  After iteration
\* block_amount + 2 the loop ends: StageOf is not evaluated again.
NextIteration ==
  /\ AllIdle
  /\ blocknum <= block_amount + 2
  /\ blocknum' = blocknum + 1
  /\ pc' = IF blocknum < block_amount + 2 THEN Spawned(blocknum + 1) ELSE pc
  /\ UNCHANGED << s, t, SA, buckets, type, index, r, w, w_count, store >>

PassDone == AllIdle /\ blocknum = block_amount + 3

\* What entering pipelined_Inducing(type = ty) sets.
EnterPass(ty) ==
  /\ type' = ty
  /\ buckets' = generate_buckets(s, K, ty = S_Type)
  /\ blocknum' = 0
  /\ pc' = Spawned(0)
  /\ w_count' = [ p \in Parities |-> 0 ]

TaskStep ==
  \/ PrepareReset \/ PrepareCell \/ PrepareEnd
  \/ InduceStart \/ InduceCell \/ InduceStore \/ InduceEnd
  \/ UpdateStart \/ UpdateEntry \/ UpdateEnd

PipelineStep == TaskStep \/ NextIteration

-----------------------------------------------------------------------------
(* Two passes over SA, L then S, as run_saca calls them twice. *)

\* run_saca puts the LMS suffixes at the ends of their buckets, from the end
\* of each bucket down, in the order of turn.
InsertLMS(x, types, turn) ==
  LET ends == generate_buckets(x, K, TRUE)
      cell(p) == ends[At(x, p)] - 1 -
        Cardinality({ q \in LMSPositions(x, types) :
                        At(x, q) = At(x, p) /\ turn[q] < turn[p] })
  IN  [ c \in Positions(x) |->
          IF \E p \in LMSPositions(x, types) : cell(p) = c
            THEN CHOOSE p \in LMSPositions(x, types) : cell(p) = c
            ELSE None ]

\* The first induction inserts them in text order, the final one in
\* descending suffix order.
TextOrder(x) == [ p \in Positions(x) |-> p ]
DescendingOrder(x) == [ p \in Positions(x) |-> Len(x) - 1 - Rank(x, p) ]

BuffersInit ==
  /\ index = [ task \in Tasks |-> 0 ]
  /\ r = [ p \in Parities |-> [ i \in 0 .. PartLength |-> << 0, 0 >> ] ]
  /\ w = [ p \in Parities |-> [ i \in 0 .. PartLength |-> << 0, 0 >> ] ]
  /\ w_count = [ p \in Parities |-> 0 ]
  /\ store = NoStore

Init ==
  /\ s \in Texts
  /\ t = Types(s)
  /\ SA \in { InsertLMS(s, t, TextOrder(s)), InsertLMS(s, t, DescendingOrder(s)) }
  /\ type = L_Type
  /\ buckets = generate_buckets(s, K, FALSE)
  /\ blocknum = 0
  /\ pc = Spawned(0)
  /\ BuffersInit

SecondPass ==
  /\ PassDone
  /\ type = L_Type
  /\ EnterPass(S_Type)
  /\ UNCHANGED << s, t, SA, index, r, w, store >>

\* Back in the caller.
Terminating ==
  /\ PassDone
  /\ type = S_Type
  /\ UNCHANGED vars

Next == PipelineStep \/ SecondPass \/ Terminating

\* Every spawned task is eventually run by the team and the barrier of the
\* taskgroup is passed once its tasks are done.
Fairness == WF_vars(Next)

Spec == Init /\ [][Next]_vars /\ Fairness

-----------------------------------------------------------------------------
(* Properties *)



TypeOK ==
  /\ s \in Texts
  /\ t \in [Positions(s) -> { L_Type, S_Type }]
  /\ SA \in [Positions(s) -> 0 .. None]
  /\ buckets \in [0 .. K - 1 -> Int]
  /\ type \in { L_Type, S_Type }
  /\ blocknum \in 0 .. block_amount + 3
  /\ pc \in [Tasks -> { "idle", "start", "run" }]
  /\ index \in [Tasks -> Int]
  /\ r \in [Parities -> [0 .. PartLength -> (0 .. K - 1) \X (0 .. None)]]
  /\ w \in [Parities -> [0 .. PartLength -> Int \X (0 .. None)]]
  /\ w_count \in [Parities -> 0 .. PartLength]
  /\ store = NoStore \/ store \in Int \X (0 .. None)

\* The pending writes: entries of the write buffers and the store in progress.
Pending ==
  { e \in { w[p][i] : p \in Parities, i \in 0 .. PartLength } : Valid(e) }
  \cup (IF store = NoStore THEN {} ELSE { store })

\* Tasks of one iteration never touch the same buffer: prepare fills one read
\* buffer while induce empties the other, and induce fills one write buffer
\* while update empties the other.
BuffersNotShared ==
  pc["induce"] # "idle" =>
    /\ pc["prepare"] # "idle" => Parity("prepare") # Parity("induce")
    /\ pc["update"] # "idle" => Parity("update") # Parity("induce")

\* A cell the scan has still to visit in the current block has no write
\* pending: whatever another block or the scan itself has induced into the
\* block is in SA when the scan gets there.
Unvisited(i) ==
  /\ i \in 0 .. PartLength - 1
  /\ translate("induce") + i < n
  /\ IF type = L_Type THEN i >= index["induce"] ELSE i <= index["induce"]

ScanSeesAllWrites ==
  pc["induce"] = "run" =>
    \A i \in 0 .. PartLength - 1 : Unvisited(i) =>
      \A p \in Parities, k \in 0 .. PartLength :
        Valid(w[p][k]) => w[p][k][1] # translate("induce") + i

\* A record prepared for a cell, while SA was being written by the two other
\* tasks and possibly with torn reads, is what the cell holds when the scan
\* consumes it: the scan takes the character from the record and the suffix
\* from SA, and never compares them.
PreparedIsCurrent ==
  pc["induce"] = "run" =>
    \A i \in 0 .. PartLength - 1 :
      (Unvisited(i) /\ r[Parity("induce")][i][1] # 0) =>
        LET pos == SA[translate("induce") + i] - 1
        IN  pos \in Positions(s) /\ r[Parity("induce")][i] = << At(s, pos), pos >>

\* The strengthening that makes the properties above inductive.  While block
\* k is induced, the entries of its write buffer are for cells behind the scan
\* or too far ahead for the direct store; the block before it has filled the
\* other buffer in the same way, and the update task has yet to copy the
\* entries from its index on.
Filling == BlockOf(blocknum - 1)
Flushing == BlockOf(blocknum - 2)

Far(k, idx) ==
  IF type = L_Type
    THEN idx < k * PartLength \/ idx > k * PartLength + 2 * PartLength
    ELSE idx < k * PartLength - 2 * PartLength \/ idx > k * PartLength

Schedule ==
  /\ \A task \in Tasks : pc[task] # "idle" =>
       StageOf(task, blocknum) >= 0 /\ blocknum <= block_amount + 2
  /\ store # NoStore => pc["induce"] = "run"
  /\ pc["induce"] = "run" =>
       IF type = L_Type THEN index["induce"] >= 0 /\ index["induce"] <= PartLength
       ELSE index["induce"] < PartLength
  /\ pc["update"] = "run" => index["update"] >= 0

FillingInOrder ==
  /\ \A x \in 0 .. PartLength :
       Valid(w[Filling % 2][x]) =>
         /\ Far(Filling, w[Filling % 2][x][1])
         /\ x < w_count[Filling % 2]
         /\ pc["induce"] = "run" /\ type = S_Type =>
              \/ w[Filling % 2][x][1] < Filling * PartLength - 2 * PartLength
              \/ w[Filling % 2][x][1] > Filling * PartLength + index["induce"]
  /\ (pc["induce"] = "start" \/ StageOf("induce", blocknum) < 0) =>
       w_count[Filling % 2] = 0
  /\ pc["induce"] = "run" =>
       w_count[Filling % 2] <=
         (IF type = L_Type THEN index["induce"] ELSE PartLength - 1 - index["induce"])

FlushingInOrder ==
  /\ \A x \in 0 .. PartLength :
       Valid(w[Flushing % 2][x]) =>
         /\ Far(Flushing, w[Flushing % 2][x][1])
         /\ x < w_count[Flushing % 2]
         /\ pc["update"] = "run" => x >= index["update"]
  /\ pc["update"] = "idle" => w_count[Flushing % 2] = 0

PipelineInv == TypeOK /\ Schedule /\ FillingInOrder /\ FlushingInOrder

\* At the end of a pass nothing is left in the write buffers, and the counts
\* of the next pass start from zero.
NothingLeftBehind ==
  PassDone => Pending = {} /\ \A p \in Parities : w_count[p] = 0

\* The pipeline implements the sequential scan: SA with the pending writes
\* applied is the sequential scan's SA.
Visible(c) ==
  IF \E e \in Pending : e[1] = c
    THEN (CHOOSE e \in Pending : e[1] = c)[2]
    ELSE SA[c]

AtMost(x, y) == IF x <= y THEN x ELSE y

\* Cells before the block in the direction of the scan, and with it.
CellsUpTo(k) ==
  IF type = L_Type THEN AtMost(n, k * PartLength)
  ELSE n - AtMost(n, (k + 1) * PartLength)

CellsThrough(k) ==
  IF type = L_Type THEN AtMost(n, (k + 1) * PartLength)
  ELSE n - AtMost(n, k * PartLength)

ScannedCells ==
  LET stage == StageOf("induce", blocknum)
      k == Block("induce")
  IN  CASE blocknum = 0 -> 0
        [] blocknum > block_amount + 1 -> n
        [] OTHER ->
             CASE pc["induce"] = "start" -> CellsUpTo(k)
               [] pc["induce"] = "idle" -> CellsThrough(k)
               [] pc["induce"] = "run" ->
                    IF type = L_Type
                      THEN AtMost(n, translate("induce") + index["induce"])
                      ELSE IF index["induce"] < -1 THEN CellsUpTo(k)
                           ELSE n - 1 - (translate("induce") + index["induce"])

Sequential == INSTANCE InducingSeq WITH
  SA <- [ c \in Positions(s) |-> Visible(c) ],
  scanned <- ScannedCells

ImplementsSequential == Sequential!Spec

=============================================================================
