------------------------------ MODULE Registry ------------------------------
(***************************************************************************)
(* What a registry promises its clients (the RegistryClient trait): a      *)
(* batch registers any CIDs that have no record yet, all with the          *)
(* timestamp of the batch, and a record, once there, never changes.        *)
(*                                                                         *)
(* The pipelines of this project are shown to implement this module.       *)
(***************************************************************************)
EXTENDS RegistryClient

VARIABLE records

Init == records = EmptyTable

\* One batch: it writes the CIDs of S and passes every other one through.
AnchorBatch ==
    \E S \in SUBSET (Cid \ Registered(records)), t \in Time :
        \E h \in [S -> Hash] :
            records' = [c \in Cid |-> IF c \in S
                                      THEN [cid |-> c, hash |-> h[c], ts |-> t]
                                      ELSE records[c]]

Next == AnchorBatch

Spec == Init /\ [][Next]_records

=============================================================================
