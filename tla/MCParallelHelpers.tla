--------------------------- MODULE MCParallelHelpers ---------------------------
(* Small instances of the parallel routines that the constructors call: the *)
(* two prefix sums (PrefixSum and PrefixSumEff, one after the other, of the  *)
(* same input) or a merge (ParallelMerge).                                   *)
EXTENDS PrefixSumEff, ParallelMerge

CONSTANT MaxSize

MCSizes == 1 .. MaxSize

VARIABLE routine     \* "sums" or "merge"; the other one is idle

inPlaceVars == << array, tmp, factor, stage, eff_todo, eff_running >>

SumsIdle ==
  /\ size = 1 /\ inclusive = FALSE /\ tree = << >> /\ out = << >> /\ phase = "idle"
  /\ offset = 0 /\ todo = {} /\ running = {}
  /\ array = << >> /\ tmp = << >> /\ factor = 1 /\ stage = "idle"
  /\ eff_todo = {} /\ eff_running = {}

MergeIdle ==
  /\ method = "idle" /\ team = 1 /\ input = << << >>, << >> >> /\ job = "idle"
  /\ output = << >> /\ pos = << << >>, << >> >> /\ tasks = {}

MCInit ==
  \/ routine = "sums" /\ Init /\ EffInit /\ MergeIdle
  \/ routine = "merge" /\ MergeInit /\ SumsIdle

TreeStep ==
  /\ UpLoad \/ DownLoad \/ Store \/ UpNext \/ TurnAround \/ DownNext \/ CopyOut
  /\ UNCHANGED << routine, inPlaceVars, mergeVars >>

InPlaceStep ==
  /\ phase = "done"
  /\ EffNext
  /\ UNCHANGED << routine, vars, mergeVars >>

MergeStep ==
  /\ MergeNext
  /\ UNCHANGED << routine, vars, inPlaceVars >>

MergeDone == job = "merge" /\ tasks = {}

MCNext ==
  \/ TreeStep \/ InPlaceStep \/ MergeStep
  \/ MergeDone /\ UNCHANGED << routine, vars, inPlaceVars, mergeVars >>

MCSpec == MCInit /\ [][MCNext]_<< routine, vars, inPlaceVars, mergeVars >>

===============================================================================
