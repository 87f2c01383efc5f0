-------------------------- MODULE EffectiveAlphabet --------------------------
(***************************************************************************)
(* What every construction starts with (util/saca.hpp,                     *)
(* prepare_and_construct_sa, and util/alphabet.hpp): the text is copied    *)
(* into an array with room for the algorithm's extra sentinels, the        *)
(* characters that occur are numbered 1, 2, ... by running sums over a     *)
(* table of all characters, and the text is replaced by these numbers.     *)
(* Table entries are characters, that is, they wrap around.                *)
(***************************************************************************)
EXTENDS Integers, Sequences, FiniteSets

CONSTANTS
  CharacterValues,   \* 256 in the code
  MaxLength,
  MaxSentinels       \* the largest EXTRA_SENTINELS of an algorithm

AlphabetAssumption ==
  /\ CharacterValues \in Nat \ {0}
  /\ MaxLength \in Nat
  /\ MaxSentinels \in Nat

VARIABLES
  input,             \* the text as it is read
  text,              \* text_with_sentinels
  effective,         \* the table
  max_character,
  i,
  pc

vars == << input, text, effective, max_character, i, pc >>

SENTINEL == 0
Character == 0 .. CharacterValues - 1
text_size == Len(input)

Init ==
  /\ input \in UNION { [1 .. n -> Character] : n \in 0 .. MaxLength }
  /\ \E extra_sentinels \in 0 .. MaxSentinels :
       text = [ k \in 1 .. text_size + extra_sentinels |->
                  IF k <= text_size THEN input[k] ELSE SENTINEL ]
  /\ effective = [ c \in Character |-> 0 ]
  /\ max_character = 0
  /\ i = 1
  /\ pc = "mark"

\* The table is over the slice without the sentinels.
MarkCharacter ==
  /\ pc = "mark"
  /\ IF i <= text_size
     THEN /\ effective' = [effective EXCEPT ![text[i]] = 1]
          /\ i' = i + 1 /\ pc' = pc
     ELSE effective' = effective /\ i' = 1 /\ pc' = "sum"
  /\ UNCHANGED << input, text, max_character >>

\* Faulty: counts the characters that occur and leaves the others' sums out.
AddUp_OnlyMarked ==
  /\ pc = "sum"
  /\ IF i < CharacterValues
     THEN /\ effective' = [effective EXCEPT ![i] =
                             IF @ = 1 THEN (@ + effective[i - 1]) % CharacterValues
                             ELSE @]
          /\ i' = i + 1
          /\ UNCHANGED << max_character, pc >>
     ELSE /\ max_character' = effective[CharacterValues - 1]
          /\ i' = 1 /\ pc' = "map"
          /\ effective' = effective
  /\ UNCHANGED << input, text >>

AddUp ==
  /\ pc = "sum"
  /\ IF i < CharacterValues
     THEN /\ effective' = [effective EXCEPT ![i] = (@ + effective[i - 1]) % CharacterValues]
          /\ i' = i + 1
          /\ UNCHANGED << max_character, pc >>
     ELSE /\ max_character' = effective[CharacterValues - 1]
          /\ i' = 1 /\ pc' = "map"
          /\ effective' = effective
  /\ UNCHANGED << input, text >>

\* apply_effective_alphabet(text, alphabet), in place.
MapCharacter ==
  /\ pc = "map"
  /\ IF i <= text_size
     THEN /\ text' = [text EXCEPT ![i] = effective[@]]
          /\ i' = i + 1 /\ pc' = pc
     ELSE text' = text /\ i' = i /\ pc' = "construct"
  /\ UNCHANGED << input, effective, max_character >>

Done == pc = "construct" /\ UNCHANGED vars

Next == MarkCharacter \/ AddUp \/ MapCharacter \/ Done

Spec == Init /\ [][Next]_vars /\ WF_vars(Next)

-----------------------------------------------------------------------------

Occurring == { input[k] : k \in 1 .. text_size }

\* The algorithm gets a text whose suffixes are ordered as the input's are:
\* characters keep their order, and the sentinels behind them are smaller
\* than every one.  This needs one character value that does not occur
\* (alphabet.hpp:25-27 says so), and nothing else: the reserved value 0 may
\* occur in the input.
OrderKept ==
  pc = "construct" /\ Occurring # Character =>
    /\ \A j, k \in 1 .. text_size : text[j] < text[k] <=> input[j] < input[k]
    /\ \A k \in 1 .. Len(text) : text[k] = SENTINEL <=> k > text_size

=============================================================================
