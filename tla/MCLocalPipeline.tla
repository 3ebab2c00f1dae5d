-------------------------- MODULE MCLocalPipeline --------------------------
(* Instances of LocalPipeline for TLC. *)
EXTENDS LocalPipeline, TLC

CONSTANTS r1, r2, c1, c2, h1, h2

Symmetry == Permutations({c1, c2}) \cup Permutations({h1, h2})

=============================================================================
