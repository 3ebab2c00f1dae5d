--------------------------- MODULE LocalPipeline ---------------------------
(***************************************************************************)
(* Batch-anchor runners over one shared registry that answers a batch      *)
(* atomically: MockRegistry, whose table is behind a mutex.  Runners share *)
(* nothing else, so this is the "any party can run this" deployment with   *)
(* an ideal registry.                                                      *)
(***************************************************************************)
EXTENDS BatchAnchorRunner

VARIABLES records,  \* Inner.records of the registry
          seq       \* Inner.seq, the transaction counter

vars == <<proc, disk, inbox, subscribed, deliveries, faults, records, seq>>

Init ==
    /\ RunnerInit
    /\ records = EmptyTable
    /\ seq = 0

\* Mutant of Anchor: the receipt counts CIDs that were already present.
AnchorCountsAll(r) ==
    /\ seq' = seq + 1
    /\ records' = Merge(records, proc[r].pending, proc[r].ts)
    /\ RecordBatch(r, seq + 1, Cardinality(CidsOf(proc[r].pending)))

\* MockRegistry::anchor_batch, whole, and the receipt it gives the runner.
Anchor(r) ==
    /\ seq' = seq + 1
    /\ records' = Merge(records, proc[r].pending, proc[r].ts)
    /\ RecordBatch(r, seq + 1,
                   Cardinality(NewlyAnchored(records, proc[r].pending)))

AnchorErr(r) ==
    /\ FlushErr(r)
    /\ UNCHANGED <<records, seq>>

Step(r) ==
    /\ RunnerStep(r)
    /\ UNCHANGED <<records, seq>>

Next == \E r \in Runner : Step(r) \/ Anchor(r) \/ AnchorErr(r)

\* Assumed of the nodes: a request is answered or its connection breaks (the
\* clients set no timeout).  The loops go on by themselves.  The flush tick
\* needs strong fairness: every poll leaves the select!, but an elapsed
\* interval stays ready and tokio::select! draws among the ready branches at
\* random.
Fairness ==
    \A r \in Runner :
        /\ WF_vars(Subscribe(r) /\ UNCHANGED <<records, seq>>)
        /\ WF_vars((Poll(r) \/ PollErr(r)) /\ UNCHANGED <<records, seq>>)
        /\ WF_vars((DropInvalid(r) \/ DropDuplicate(r) \/ Accept(r))
                    /\ UNCHANGED <<records, seq>>)
        /\ WF_vars((PollDone(r) \/ RoundDone(r)) /\ UNCHANGED <<records, seq>>)
        /\ SF_vars(FlushTick(r) /\ UNCHANGED <<records, seq>>)
        /\ WF_vars(Anchor(r) \/ AnchorErr(r))
        /\ WF_vars((Save(r) \/ SaveErr(r)) /\ UNCHANGED <<records, seq>>)

Spec == Init /\ [][Next]_vars

FairSpec == Spec /\ Fairness

-----------------------------------------------------------------------------
(* Type invariant *)

\* Every variable has its type (RunState, Checkpoint, Inner).
TypeOK ==
    /\ RunnerTypeOK
    /\ records \in Tables
    /\ seq \in Nat

-----------------------------------------------------------------------------
(* Safety *)

\* A checkpoint, on disk or in memory, names only CIDs the registry holds
\* (checkpoint.rs: "All CIDs known to be on-chain"): a crash or a failed save
\* between the receipt and the rename never leaves one that is ahead.
CheckpointSound ==
    \A r \in Runner :
        /\ disk[r].anchored \subseteq Registered(records)
        /\ proc[r].mem.anchored \subseteq Registered(records)

\* RunnerStats.anchored counts a CID once over all live runners, also when two
\* anchorers race for it and when a batch is submitted again: what they count
\* can be credited to registered CIDs, none of them twice.
AnchoredCountedOnce ==
    \E credit \in [Runner -> SUBSET Registered(records)] :
        \A r \in Runner :
            /\ IsFiniteSet(credit[r])
            /\ proc[r].stats.anchored = Cardinality(credit[r])
            /\ \A q \in Runner \ {r} : credit[r] \cap credit[q] = {}

-----------------------------------------------------------------------------
(* Refinement *)

\* The pipeline implements the registry its clients rely on: records are
\* written once, by whole batches, whoever races and retries.
Promised == INSTANCE Registry
ImplementsRegistry == Promised!Spec

-----------------------------------------------------------------------------
(* Liveness *)

\* What a daemon accepted reaches its persisted checkpoint unless the process
\* ends first: failed flushes and saves are retried.
PendingAnchored ==
    \A r \in Runner : \A c \in Cid :
        c \in PendingCids(r) ~> (c \in disk[r].anchored \/ proc[r].pc = "down")

\* A message buffered for a runner that does not end is drained, whatever is
\* in the buffer with it.
InboxDrained ==
    \A r \in Runner :
        (inbox[r] # <<>> /\ proc[r].pc # "down")
            ~> (inbox[r] = <<>> \/ proc[r].pc = "down")

\* `anchor` ends: it does not wait for anything but its own calls.
AnchorTerminates ==
    \A r \in Runner \ Daemon : proc[r].pc # "down" ~> proc[r].pc = "down"

=============================================================================
