---------------------------- MODULE MCDeepShallow ----------------------------
(* Small instances of DeepShallow for TLC. *)
EXTENDS DeepShallow

CONSTANT Lengths

MCTexts == UNION { TextsOfLength(k, K) : k \in Lengths }

=============================================================================
