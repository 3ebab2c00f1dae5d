---------------------------- MODULE LezPipeline ----------------------------
(***************************************************************************)
(* Batch-anchor runners over the on-chain registry through LezRegistry     *)
(* (wb-lez-registry).  The adapter's anchor_batch returns when the         *)
(* sequencer has accepted the transaction, not when the program has run:   *)
(* the runner records and saves the batch while it is still queued.        *)
(***************************************************************************)
EXTENDS BatchAnchorRunner, RegistryProgram

CONSTANT MaxLost  \* bound: queued transactions that are lost

ASSUME LostAssumption == MaxLost \in Nat

VARIABLE lost     \* history: queued transactions that were lost

vars == <<proc, disk, inbox, subscribed, deliveries, faults,
          accounts, mempool, executed, nextTx, lost>>

chainVars == <<accounts, mempool, executed, nextTx, lost>>

Init == RunnerInit /\ ProgramInit /\ lost = {}

\* Mutant of SendBatch: the accounts are not in the order of the entries.
SendBatchReversed(r) ==
    LET b == proc[r].pending
    IN  Submit("batch", [i \in DOMAIN b |-> PdaOf[b[Len(b) + 1 - i].cid]],
               b, proc[r].ts)

\* LezRegistry::anchor_batch: one PDA per entry, in order, and no signer.
SendBatch(r) ==
    Submit("batch", PdasOf(proc[r].pending), proc[r].pending, proc[r].ts)

\* send_transaction succeeded.  The receipt names every submitted CID as
\* anchored: the adapter does not ask which of them are new.
Anchor(r) ==
    /\ SendBatch(r)
    /\ RecordBatch(r, nextTx, Cardinality(CidsOf(proc[r].pending)))
    /\ UNCHANGED lost

\* send_transaction failed: before the sequencer took the transaction, or
\* after, when only the answer was lost.
AnchorErr(r) ==
    /\ FlushErr(r)
    /\ SendBatch(r) \/ UNCHANGED programVars
    /\ UNCHANGED lost

Step(r) == RunnerStep(r) /\ UNCHANGED chainVars

Sequence(tx) == Execute(tx) /\ UNCHANGED <<runnerVars, lost>>

\* The sequencer loses a queued transaction.
Lose(tx) ==
    /\ Cardinality(lost) < MaxLost
    /\ lost' = lost \cup {tx}
    /\ Drop(tx)
    /\ UNCHANGED runnerVars

Next ==
    \/ \E r \in Runner : Step(r) \/ Anchor(r) \/ AnchorErr(r)
    \/ \E tx \in mempool : Sequence(tx) \/ Lose(tx)

Spec == Init /\ [][Next]_vars

\* A queued transaction is sequenced or lost, and the calls of a runner return.
Fairness ==
    /\ WF_vars(\E tx \in mempool : Sequence(tx) \/ Lose(tx))
    /\ \A r \in Runner :
          /\ WF_vars(Subscribe(r) /\ UNCHANGED chainVars)
          /\ WF_vars((Poll(r) \/ PollErr(r)) /\ UNCHANGED chainVars)
          /\ WF_vars((DropInvalid(r) \/ DropDuplicate(r) \/ Accept(r))
                      /\ UNCHANGED chainVars)
          /\ WF_vars((PollDone(r) \/ RoundDone(r)) /\ UNCHANGED chainVars)
          /\ SF_vars(FlushTick(r) /\ UNCHANGED chainVars)
          /\ WF_vars(Anchor(r) \/ AnchorErr(r))
          /\ WF_vars((Save(r) \/ SaveErr(r)) /\ UNCHANGED chainVars)

FairSpec == Spec /\ Fairness

-----------------------------------------------------------------------------

\* Every variable has its type.
TypeOK == RunnerTypeOK /\ ProgramTypeOK /\ lost \subseteq Transaction

\* The CIDs of a set of transactions.
CidsIn(txs) == UNION {CidsOf(tx.entries) : tx \in txs}

\* A CID of a checkpoint is on-chain or its transaction is still queued, unless
\* the chain lost it: no transaction is reverted.  A checkpointed CID that is
\* neither is never submitted again (checkpoint.rs: "All CIDs known to be
\* on-chain", "never re-accumulated or re-submitted").
CheckpointOnItsWay ==
    \A r \in Runner : disk[r].anchored \subseteq
                          Registered(Chain) \cup CidsIn(mempool \cup lost)

\* Every transaction a runner builds is one the program accepts when no record
\* is oversized: it is well-formed, for distinct accounts.
SubmittedWellFormed ==
    \A tx \in mempool \cup executed \cup lost :
        /\ WellFormed(tx)
        /\ \A i, j \in DOMAIN tx.records : tx.records[i] = tx.records[j] => i = j

\* What a runner accepted gets a record on-chain unless the process ends or the
\* chain loses its transaction.
AcceptedLands ==
    \A r \in Runner : \A c \in Cid :
        c \in PendingCids(r) ~>
            (c \in Registered(Chain) \cup CidsIn(lost) \/ proc[r].pc = "down")

=============================================================================
