----------------------------- MODULE PrefixSumEff -----------------------------
(***************************************************************************)
(* util/prefix_sum.hpp, par_prefix_sum_eff: prefix sums in place, of the   *)
(* input of PrefixSum.  Level by level, elements at distance 2^level are   *)
(* added to each other (pair sums); on the way back from the recursion the *)
(* elements in between are completed.  Inputs below a cutoff are summed    *)
(* sequentially.                                                           *)
(*                                                                         *)
(* A sum is the sequence of its addends, and an iteration of a parallel    *)
(* loop is a load and a store, as in PrefixSum.                            *)
(***************************************************************************)
EXTENDS PrefixSum

CONSTANT Cutoff  \* 2048 in the code

ASSUME CutoffAssumption == Cutoff \in Nat \ {0, 1}

VARIABLES
  array,         \* the span that is the input and the output
  tmp,           \* the copy the exclusive completion reads
  factor,        \* 2^level
  stage,         \* "enter", "pairs", "return", "complete", "shift" or "done"
  eff_todo,
  eff_running    \* iterations that have loaded: the place and what they will store

effVars == << size, inclusive, array, tmp, factor, stage, eff_todo, eff_running >>

prev_factor == factor \div 2
number_of_even_idx == size \div factor

\* An element of the previous level that has no partner in this one.
residue == (size \div prev_factor) % 2

EffInit ==
  /\ size \in Sizes
  /\ inclusive \in BOOLEAN   \* of the outermost call; the recursive ones are inclusive
  /\ array = in
  /\ tmp = << >>
  /\ factor = 2
  /\ stage = "enter"
  /\ eff_todo = {}
  /\ eff_running = {}

\* What seq_prefix_sum puts at i.
SumAt(i) == Addends(0, IF inclusive THEN i + 1 ELSE i)

\* seq_prefix_sum, for inputs below the cutoff.
Sequential ==
  /\ stage = "enter"
  /\ size < Cutoff
  /\ array' = [ i \in 0 .. size - 1 |-> SumAt(i) ]
  /\ stage' = "done"
  /\ UNCHANGED << size, inclusive, tmp, factor, eff_todo, eff_running >>

EnterLevel ==
  /\ stage = "enter"
  /\ size >= Cutoff
  /\ factor <= size
  /\ eff_todo' = 1 .. number_of_even_idx
  /\ stage' = "pairs"
  /\ UNCHANGED << size, inclusive, array, tmp, factor, eff_running >>

\* The stride is longer than the input: the recursion turns back.
TurnBack ==
  /\ stage = "enter"
  /\ size >= Cutoff
  /\ factor > size
  /\ factor' = prev_factor
  /\ stage' = "return"
  /\ UNCHANGED << size, inclusive, array, tmp, eff_todo, eff_running >>

\* After the recursive call: the elements between those it has summed.
BeginCompletion ==
  /\ stage = "return"
  /\ factor > 2 \/ inclusive
  /\ stage' = "complete"
  /\ eff_todo' = 1 .. number_of_even_idx - 1
  /\ UNCHANGED << size, inclusive, array, tmp, factor, eff_running >>

\* After the outermost exclusive call's recursive call: every sum moves one
\* place to the right, out of a copy.
BeginShift ==
  /\ stage = "return"
  /\ factor = 2
  /\ ~inclusive
  /\ tmp' = array
  /\ array' = [ array EXCEPT ![0] = identity, ![1] = array[0] ]
  /\ stage' = "shift"
  /\ eff_todo' = 2 .. size - 1
  /\ UNCHANGED << size, inclusive, factor, eff_running >>

EffStart(i, store) ==
  /\ Cardinality(eff_running) < TeamSize
  /\ eff_todo' = eff_todo \ { i }
  /\ eff_running' = eff_running \cup { store }
  /\ UNCHANGED << size, inclusive, array, tmp, factor, stage >>

PairLoad ==
  \E i \in eff_todo :
    LET pos == i * factor - 1
    IN  /\ stage = "pairs"
        /\ EffStart(i, << pos, add(array[pos - prev_factor], array[pos]) >>)

CompleteLoad ==
  \E i \in eff_todo :
    LET pos == i * factor - 1
    IN  /\ stage = "complete"
        /\ EffStart(i, << pos + prev_factor, add(array[pos], array[pos + prev_factor]) >>)

\* Faulty variant: reads the array instead of the copy.
ShiftLoad_InPlace ==
  \E i \in eff_todo :
    /\ stage = "shift"
    /\ EffStart(i, << i, IF i % 2 = 0 THEN array[i - 1] ELSE add(array[i - 2], array[i - 1]) >>)

ShiftLoad ==
  \E i \in eff_todo :
    /\ stage = "shift"
    /\ EffStart(i, << i, IF i % 2 = 0 THEN tmp[i - 1] ELSE add(tmp[i - 2], tmp[i - 1]) >>)

EffStore ==
  \E store \in eff_running :
    /\ array' = [ array EXCEPT ![store[1]] = store[2] ]
    /\ eff_running' = eff_running \ { store }
    /\ UNCHANGED << size, inclusive, tmp, factor, stage, eff_todo >>

EffLoopDone == eff_todo = {} /\ eff_running = {}

Recurse ==
  /\ stage = "pairs"
  /\ EffLoopDone
  /\ factor' = 2 * factor
  /\ stage' = "enter"
  /\ UNCHANGED << size, inclusive, array, tmp, eff_todo, eff_running >>

\* The last element of the level, when it has no partner; back to the caller.
Residue ==
  LET pos == number_of_even_idx * factor - 1
  IN  /\ stage = "complete"
      /\ EffLoopDone
      /\ array' = IF residue = 1
                    THEN [ array EXCEPT ![pos + prev_factor] = add(array[pos], @) ]
                    ELSE array
      /\ factor' = prev_factor
      /\ stage' = IF factor = 2 THEN "done" ELSE "return"
      /\ UNCHANGED << size, inclusive, tmp, eff_todo, eff_running >>

ShiftDone ==
  /\ stage = "shift"
  /\ EffLoopDone
  /\ stage' = "done"
  /\ UNCHANGED << size, inclusive, array, tmp, factor, eff_todo, eff_running >>

EffTerminating == stage = "done" /\ UNCHANGED effVars

EffNext ==
  \/ Sequential \/ EnterLevel \/ PairLoad \/ Recurse \/ TurnBack
  \/ BeginCompletion \/ CompleteLoad \/ Residue
  \/ BeginShift \/ ShiftLoad \/ ShiftDone
  \/ EffStore \/ EffTerminating

EffSpec == EffInit /\ [][EffNext]_effVars /\ WF_effVars(EffNext)

-----------------------------------------------------------------------------
(* Properties *)

\* The sums are the sequential ones, in place and in the order of the input,
\* for every size and whatever the order of the iterations.
InPlaceEqualsSequential ==
  stage = "done" => \A i \in 0 .. size - 1 : array[i] = SumAt(i)

=============================================================================
