----------------------------- MODULE Construction -----------------------------
(***************************************************************************)
(* What happens around an algorithm (util/saca.hpp): the text is prepared, *)
(* the algorithm constructs an array of it, and the driver has the array   *)
(* written (-B) or checked (-c, -q) against the text as it was read.       *)
(* Neither changes the array or what the other reads, so that one of them  *)
(* is enough for a call.                                                   *)
(*                                                                         *)
(* The algorithm is external and may be wrong: it returns any array of the *)
(* text's length.                                                          *)
(***************************************************************************)
EXTENDS Integers, Sequences, FiniteSets

CONSTANTS
  CharacterValues, MaxLength, MaxSentinels,     \* as in EffectiveAlphabet
  MaxIndex,                                     \* as in SaCheck
  ByteBits, BitsModulus, FixedBits              \* as in UniformSa

VARIABLES
  \* prepare_and_construct_sa
  input, text, effective, max_character, alphabet_i, alphabet_pc,
  \* the array, without the sentinels' entries
  sa,
  \* sa_check_dispatch
  check, place, check_i, P, result,
  \* write_binary
  fixed, bits, header, out, write_i, v, b, write_pc

alphabetVars == << input, text, effective, max_character, alphabet_i, alphabet_pc >>
checkVars == << check, place, check_i, P, result >>
writeVars == << fixed, bits, header, out, write_i, v, b, write_pc >>
vars == << alphabetVars, sa, checkVars, writeVars >>

alphabet == INSTANCE EffectiveAlphabet WITH i <- alphabet_i, pc <- alphabet_pc
sa_check == INSTANCE SaCheck WITH
  text <- input, i <- check_i, Characters <- alphabet!Character
write_binary == INSTANCE UniformSa WITH i <- write_i, pc <- write_pc

ASSUME ConstructionAssumption ==
  alphabet!AlphabetAssumption /\ sa_check!CheckAssumption /\ write_binary!WidthAssumption

Init ==
  /\ alphabet!Init
  /\ sa = << >>
  /\ check = "none" /\ place = "idle" /\ check_i = 0 /\ P = << >> /\ result = "ok"
  /\ fixed = 0 /\ bits = 0 /\ header = write_binary!NoHeader /\ out = << >>
  /\ write_i = 0 /\ v = 0 /\ b = 0 /\ write_pc = "idle"

Prepare ==
  /\ alphabet!MarkCharacter \/ alphabet!AddUp \/ alphabet!MapCharacter
  /\ UNCHANGED << sa, checkVars, writeVars >>

Idle == alphabet_pc = "construct" /\ place = "idle" /\ write_pc = "idle"

ConstructAndCheck ==
  /\ Idle
  /\ sa' \in sa_check!Arrays(Len(input))
  /\ check' \in { "naive", "sorter", "fast" }
  /\ place' = "begin"
  /\ UNCHANGED << alphabetVars, check_i, P, result, writeVars >>

ConstructAndWrite ==
  /\ Idle
  /\ sa' \in sa_check!Arrays(Len(input))
  /\ fixed' \in FixedBits
  /\ bits' = fixed' % BitsModulus
  /\ write_pc' = "width"
  /\ UNCHANGED << alphabetVars, checkVars, header, out, write_i, v, b >>

CheckStep ==
  /\ \/ sa_check!CompareLengths
     \/ sa_check!CompareWithSorted
     \/ sa_check!SortByPosition \/ sa_check!ComparePosition \/ sa_check!CompareTriples
     \/ sa_check!CompareNeighbours
  /\ UNCHANGED << alphabetVars, writeVars >>

WriteStep ==
  /\ \/ write_binary!ChooseBits \/ write_binary!RoundUp \/ write_binary!BeginEntry
     \/ write_binary!PutByte \/ write_binary!EndEntry
  /\ UNCHANGED << alphabetVars, checkVars >>

Done ==
  /\ place = "done" \/ write_pc = "done"
  /\ UNCHANGED vars

Next ==
  Prepare \/ ConstructAndCheck \/ ConstructAndWrite \/ CheckStep \/ WriteStep \/ Done

Spec == Init /\ [][Next]_vars /\ WF_vars(Next)

-----------------------------------------------------------------------------
(* Properties, stated in the modules of the parts *)

\* The algorithm gets a text whose suffixes are ordered as the input's are.
OrderKept == alphabet!OrderKept

\* The checks by sorting, and the fast one where there are neighbours to
\* compare, accept suffix arrays of the text as it was read and nothing else.
SorterIsExact == sa_check!SorterIsExact
FastIsExact == sa_check!FastIsExact

\* A reader who knows the rounded width gets the array back.
EntriesReadBack == write_binary!EntriesReadBack

=============================================================================
