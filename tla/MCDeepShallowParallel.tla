------------------------ MODULE MCDeepShallowParallel ------------------------
(* Small instances of DeepShallowParallel for TLC. *)
EXTENDS DeepShallowParallel

CONSTANT Lengths

MCTexts == UNION { TextsOfLength(k, K) : k \in Lengths }

=============================================================================
