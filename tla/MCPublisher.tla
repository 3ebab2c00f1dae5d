---------------------------- MODULE MCPublisher ----------------------------
(* Three calls that publish the same bytes, one of them with an envelope   *)
(* that does not validate; calls meet only over a CID.  Factors have four  *)
(* bits.  The policies: no retry; one, of a delay above max_delay; four    *)
(* whose delays reach it; three whose product, or whose power saturates.   *)
EXTENDS Publisher

CONSTANTS p1, p2, p3, x

ContentOf == [c \in Call |-> x]

PolicyOf(retries, base, max, multiplier) ==
    [max_retries |-> retries, base |-> base, max |-> max, multiplier |-> multiplier]

SomePolicies == {PolicyOf(0, 1, 10, 2), PolicyOf(1, 20, 10, 2), PolicyOf(4, 1, 6, 2),
                 PolicyOf(3, 20, 40, 3), PolicyOf(3, 2, 40, 6)}

=============================================================================
