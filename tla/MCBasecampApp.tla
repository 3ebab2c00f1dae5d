--------------------------- MODULE MCBasecampApp ---------------------------
(* Instances of BasecampApp for TLC: two files of different types.        *)
EXTENDS BasecampApp, TLC

CONSTANTS f1, f2, c1, c2, pdf, txt

MCCidOf == f1 :> c1 @@ f2 :> c2
MCTypeOf == f1 :> pdf @@ f2 :> txt

=============================================================================
