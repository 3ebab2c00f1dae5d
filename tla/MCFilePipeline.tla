--------------------------- MODULE MCFilePipeline ---------------------------
(* Instances of FilePipeline for TLC. *)
EXTENDS FilePipeline

CONSTANTS w1, w2, c1, c2, h1

=============================================================================
