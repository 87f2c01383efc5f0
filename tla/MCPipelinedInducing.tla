-------------------------- MODULE MCPipelinedInducing --------------------------
(* Small instances of PipelinedInducing for TLC. *)
EXTENDS PipelinedInducing

CONSTANT Lengths      \* lengths of the texts, the sentinel included

MCTexts == UNION { TextsOfLength(k, K) : k \in Lengths }

=============================================================================
