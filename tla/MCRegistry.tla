------------------------------ MODULE MCRegistry ------------------------------
(* Small instances of Registry for TLC. *)
EXTENDS Registry

CONSTANTS
  MaxLen,      \* all texts up to this length
  MaxPeriod    \* periodic texts up to this length

\* The texts up to length n whose characters are 1 .. c for some c < k, as the
\* effective alphabet has it.
MCTexts(n, k) ==
  UNION { { x \in [ 1 .. i -> 1 .. k - 1 ] :
              \A j \in 1 .. i : \A d \in 1 .. x[j] : \E l \in 1 .. i : x[l] = d } : i \in 0 .. n }

\* Long texts of few different substrings: periods of q characters, and the same
\* with one place where the period breaks.
MCPeriodic ==
  { [ i \in 1 .. n |-> IF i % q \in s THEN 2 ELSE 1 ] :
      n \in { 10, 13, 16, MaxPeriod }, q \in 2 .. 5, s \in { {0}, {1, 2}, {0, 3} } }
  \cup { [ i \in 1 .. MaxPeriod |-> IF i = j THEN 3 - c ELSE IF i % q = 0 THEN c ELSE 3 - c ] :
      j \in { 1, 6, 12 }, q \in 2 .. 4, c \in 1 .. 2 }

MCAllTexts == MCTexts(MaxLen, 3) \cup MCTexts(4, K) \cup MCPeriodic
MCShortTexts == MCTexts(4, K)

\* The text's first triplet is the smallest of all triplets at sampled positions.
MCFirstTripletTexts ==
  { << 1, 1, 1, 2, 2, 1, 2, 2, 1, 2, 2, 2, 1, 1, 1, 1, 1, 1, 1, 1, 1, 1, 1, 2 >>,
    << 2, 1, 1, 2, 2, 1, 2, 2, 1, 2, 2, 2, 1, 1, 1, 1, 1, 1, 1, 1, 1, 1, 1, 2 >> }

MCVariants == { << "doubling", 2 >>, << "doubling", 4 >>, << "discarding", 2 >>, << "discarding", 4 >> }

=============================================================================
