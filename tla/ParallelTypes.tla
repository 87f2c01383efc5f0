---------------------------- MODULE ParallelTypes ----------------------------
(***************************************************************************)
(* parallel_sais.hpp, compute_types: the suffix types, computed by         *)
(* thread_count tasks, each for one part of the text.                      *)
(*                                                                         *)
(* First pass: a task goes through its part from right to left.  A run of  *)
(* equal characters that reaches the end of the part cannot be classified  *)
(* without the next part; thread_border is where that run begins.  After   *)
(* the barrier the main thread lets a part that is one such run take over  *)
(* the information of its right neighbour, and in the second pass each     *)
(* task sets its unclassified run to the type of the next part's first     *)
(* character (thread_info).                                                *)
(*                                                                         *)
(* The types are bits of a byte vector, and setBit loads and stores a      *)
(* whole byte without synchronisation: two actions here.                   *)
(*                                                                         *)
(* ParallelSais runs these steps in place of its call of compute_types.    *)
(***************************************************************************)
EXTENDS SaisText

CONSTANTS
  Texts,
  ThreadCounts,     \* the numbers of parts considered (block_amount)
  ByteBits          \* 8 in the code

VARIABLES
  s,
  thread_count,
  t,               \* the type bits
  thread_border,
  thread_info,
  phase,           \* "first", "second" or "done"
  i,               \* per task: the loop variable
  byte             \* per task: the byte setBit has loaded and changed

vars == << s, thread_count, t, thread_border, thread_info, phase, i, byte >>

n == Len(s)
Threads == 0 .. thread_count - 1
Last == thread_count - 1

\* Faulty variant: the parts are not rounded to whole bytes.
part_length_Unaligned == n \div thread_count

part_length ==
  LET even == n \div thread_count IN even - (even % ByteBits)

rest_length == n - Last * part_length

Length(id) == IF id < Last THEN part_length ELSE rest_length
Offset(id) == id * part_length
Part(id) == Offset(id) .. Offset(id) + Length(id) - 1

NotLoaded == << >>

\* setBit(position, value) by task id: load the byte and OR the value in; the
\* store comes as a step of its own.
SameByte(p, q) == p \div ByteBits = q \div ByteBits

LoadByte(id, position, value) ==
  byte' = [ byte EXCEPT ![id] =
    [ p \in { q \in Positions(s) : SameByte(q, position) } |->
        IF p = position THEN (IF t[p] = 1 THEN 1 ELSE value) ELSE t[p] ] ]

StoreByte(id) ==
  /\ byte[id] # NotLoaded
  /\ t' = [ p \in Positions(s) |-> IF p \in DOMAIN byte[id] THEN byte[id][p] ELSE t[p] ]
  /\ byte' = [ byte EXCEPT ![id] = NotLoaded ]
  /\ UNCHANGED << s, thread_count, thread_border, thread_info, phase, i >>

Init ==
  /\ s \in Texts
  /\ thread_count \in ThreadCounts
  /\ t = [ p \in Positions(s) |-> IF p = n - 1 THEN S_Type ELSE 0 ]
  /\ thread_border = [ id \in Threads |-> Length(id) ]
  /\ thread_info = [ id \in Threads |-> 0 ]
  /\ phase = "first"
  /\ i = [ id \in Threads |-> Length(id) - 1 ]
  /\ byte = [ id \in Threads |-> NotLoaded ]

-----------------------------------------------------------------------------
(* compute_types_first_pass *)

InFirstPass(id) == phase = "first" /\ byte[id] = NotLoaded /\ i[id] >= 0

\* The last position of the text is not touched.
SkipLast(id) ==
  /\ InFirstPass(id)
  /\ i[id] + Offset(id) + 1 >= n
  /\ i' = [ i EXCEPT ![id] = @ - 1 ]
  /\ UNCHANGED << s, thread_count, t, thread_border, thread_info, phase, byte >>

ClassifyByCharacter(id) ==
  LET p == i[id] + Offset(id)
  IN  /\ InFirstPass(id)
      /\ p + 1 < n
      /\ At(s, p + 1) # At(s, p)
      /\ LoadByte(id, p, IF At(s, p + 1) < At(s, p) THEN L_Type ELSE S_Type)
      /\ i' = [ i EXCEPT ![id] = @ - 1 ]
      /\ UNCHANGED << s, thread_count, t, thread_border, thread_info, phase >>

\* Faulty variant: the type right of the part's end is copied although its
\* task may not have computed it.
MayCopy_AcrossParts(id) == TRUE

\* Equal characters: the right neighbour's type may be copied if it is in the
\* part and classified.
MayCopy(id) ==
  \/ i[id] + 1 < Length(id) /\ thread_border[id] # i[id] + 1
  \/ id = Last

ClassifyByNeighbour(id) ==
  LET p == i[id] + Offset(id)
  IN  /\ InFirstPass(id)
      /\ p + 1 < n
      /\ At(s, p + 1) = At(s, p)
      /\ MayCopy(id)
      /\ LoadByte(id, p, t[p + 1])
      /\ i' = [ i EXCEPT ![id] = @ - 1 ]
      /\ UNCHANGED << s, thread_count, t, thread_border, thread_info, phase >>

MoveBorder(id) ==
  LET p == i[id] + Offset(id)
  IN  /\ InFirstPass(id)
      /\ p + 1 < n
      /\ At(s, p + 1) = At(s, p)
      /\ ~MayCopy(id)
      /\ thread_border' = [ thread_border EXCEPT ![id] = i[id] ]
      /\ i' = [ i EXCEPT ![id] = @ - 1 ]
      /\ UNCHANGED << s, thread_count, t, thread_info, phase, byte >>

\* The end of the task: i = -2 marks it.
EndFirstPass(id) ==
  /\ phase = "first"
  /\ byte[id] = NotLoaded
  /\ i[id] = -1
  /\ thread_info' = [ thread_info EXCEPT ![id] =
       IF thread_border[id] # 0 THEN t[Offset(id)] ELSE @ ]
  /\ i' = [ i EXCEPT ![id] = -2 ]
  /\ UNCHANGED << s, thread_count, t, thread_border, phase, byte >>

-----------------------------------------------------------------------------
(* compute_types between the passes, and compute_types_second_pass *)

\* The nearest part, from id to the right, that has a border information.
Informed(id) ==
  CHOOSE j \in id .. Last :
    (thread_border[j] # 0 \/ j = Last) /\ \A k \in id .. j - 1 : thread_border[k] = 0

TakeOver ==
  /\ phase = "first"
  /\ \A id \in Threads : i[id] = -2
  /\ thread_info' = [ id \in Threads |-> thread_info[Informed(id)] ]
  /\ i' = thread_border
  /\ phase' = "second"
  /\ UNCHANGED << s, thread_count, t, thread_border, byte >>

SetRest(id) ==
  /\ phase = "second"
  /\ byte[id] = NotLoaded
  /\ i[id] < Length(id)
  /\ LoadByte(id, i[id] + Offset(id), thread_info[id + 1])
  /\ i' = [ i EXCEPT ![id] = @ + 1 ]
  /\ UNCHANGED << s, thread_count, t, thread_border, thread_info, phase >>

Finish ==
  /\ phase = "second"
  /\ \A id \in Threads : i[id] >= Length(id) /\ byte[id] = NotLoaded
  /\ phase' = "done"
  /\ UNCHANGED << s, thread_count, t, thread_border, thread_info, i, byte >>

Terminating == phase = "done" /\ UNCHANGED vars

TaskStep(id) ==
  \/ StoreByte(id)
  \/ SkipLast(id) \/ ClassifyByCharacter(id) \/ ClassifyByNeighbour(id)
  \/ MoveBorder(id) \/ EndFirstPass(id)
  \/ SetRest(id)

Next == (\E id \in Threads : TaskStep(id)) \/ TakeOver \/ Finish \/ Terminating

Spec == Init /\ [][Next]_vars /\ WF_vars(Next)

-----------------------------------------------------------------------------
(* Properties *)

\* The tasks compute the suffix types.
TypesAreCorrect == phase = "done" => t = Types(s)

\* Two tasks never have the same byte loaded, so that no store undoes another
\* task's setBit.
BytesNotShared ==
  \A a, b \in Threads :
    a # b => DOMAIN byte[a] \cap DOMAIN byte[b] = {}

=============================================================================
