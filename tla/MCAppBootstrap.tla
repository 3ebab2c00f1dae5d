--------------------------- MODULE MCAppBootstrap ---------------------------
(* Instances of AppBootstrap for TLC. *)
EXTENDS AppBootstrap

CONSTANTS d1, d2

=============================================================================
