-------------------------- MODULE DurableCheckpoint --------------------------
(***************************************************************************)
(* What a runner relies on of its checkpoint: at any time, whatever has    *)
(* crashed, a restart loads a whole checkpoint, and from one moment to the *)
(* next it changes by a batch that was committed and in no other way.      *)
(* BatchAnchorRunner saves in one such step.                               *)
(***************************************************************************)
EXTENDS Naturals

CONSTANTS Cid

VARIABLES cp  \* the checkpoint a restart would load

\* The fields of checkpoint.rs that are used.
Checkpoint == [anchored : SUBSET Cid, committed : Nat]

\* Checkpoint::default().
NoCheckpoint == [anchored |-> {}, committed |-> 0]

Init == cp = NoCheckpoint

\* Batches may be committed in memory while the file cannot be written, so that
\* one save brings several.
Commit ==
    /\ cp' \in Checkpoint
    /\ cp.anchored \subseteq cp'.anchored
    /\ cp.committed < cp'.committed

Spec == Init /\ [][Commit]_cp

=============================================================================
