--------------------------- MODULE MCLezPipeline ---------------------------
(* Instances of LezPipeline for TLC. *)
EXTENDS LezPipeline, TLC

CONSTANTS r1, r2, c1, c2, h1, h2, a1, a2

Pdas == c1 :> a1 @@ c2 :> a2

Symmetry == Permutations({h1, h2})

=============================================================================
