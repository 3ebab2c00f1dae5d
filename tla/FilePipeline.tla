---------------------------- MODULE FilePipeline ----------------------------
(***************************************************************************)
(* The two files of the batch-anchor CLI, step by step: processes of       *)
(* `run`, `anchor`, `query` and `status` that may overlap share the JSON   *)
(* file of FileRegistry and the checkpoint of CheckpointStore.  A process  *)
(* loads the checkpoint when it starts, anchors batches and saves after    *)
(* each; it may be killed between any two steps of either file.            *)
(* LocalPipeline has the runner in full and takes each file operation as   *)
(* one step.                                                               *)
(***************************************************************************)
EXTENDS FileRegistry

CONSTANT MaxBatch  \* bound: entries in a batch

\* What flush may hand the registry: entries for different CIDs.
Batches ==
    {b \in UNION {[1..n -> AnchorEntry] : n \in 1..MaxBatch} :
        \A i, j \in DOMAIN b : b[i].cid = b[j].cid => i = j}

\* The variables of CheckpointStore; the number of faults is shared.
VARIABLES cpPath, cpTmp, cpData, cpPc, cpFd, running, mem, saved, overlapped

Store == INSTANCE CheckpointStore
         WITH path <- cpPath, tmp <- cpTmp, data <- cpData, pc <- cpPc, fd <- cpFd,
              raced <- overlapped

ASSUME PipelineAssumption == MaxBatch \in Nat /\ Torn \notin Store!Checkpoint

cpVars == <<cpPath, cpTmp, cpData, cpPc, cpFd, running, mem, saved, overlapped>>

registryVars == <<fileVars, st, answer, receipts, raced, calls>>

allVars == <<registryVars, cpVars, faults>>

PipelineInit == Init /\ Store!Init

-----------------------------------------------------------------------------

Start(w) == Store!Start(w) /\ UNCHANGED registryVars

StartErr(w) == Store!StartErr(w) /\ UNCHANGED registryVars

Stop(w) == pc[w] = "idle" /\ Store!Stop(w) /\ UNCHANGED registryVars

\* Between two calls of flush.
Ready(w) == w \in running /\ pc[w] = "idle" /\ cpPc[w] = "idle"

\* flush() hands the registry a batch.  The dedup set, seeded from the
\* checkpoint, keeps the CIDs of earlier batches out of it, unless a failed save
\* left the batch pending and the file behind the memory.
Submit(w, batch, ts) ==
    /\ Ready(w)
    /\ \/ CidsOf(batch) \cap mem[w].anchored = {}
       \/ ~ mem[w].anchored \subseteq Store!OnDisk.anchored
    /\ Call(w, batch, ts)
    /\ UNCHANGED cpVars

SubmitErr(w) == Ready(w) /\ CallErr(w) /\ UNCHANGED cpVars

\* The registry file is being written.
Saving(w) == (Open(w) \/ Write(w)) /\ UNCHANGED cpVars

\* Mutant of Refused: the CIDs of the batch are recorded all the same.
RefusedRecords(w) ==
    /\ pc[w] # "idle"
    /\ Abandon(w)
    /\ Leave(w)
    /\ Store!Commit(w, answer[w].anchored \cup answer[w].present)
    /\ UNCHANGED <<receipts, raced, calls>>

\* anchor_batch returns an error; the batch is retained.
Refused(w) == (RenameErr(w) \/ Fail(w)) /\ UNCHANGED cpVars

\* anchor_batch returns its receipt: every submitted CID is recorded.
Accepted(w) ==
    /\ Rename(w)
    /\ Store!Commit(w, answer[w].anchored \cup answer[w].present)

\* save() of the checkpoint, or an error that is logged.
Checkpointing(w) ==
    /\ Store!Open(w) \/ Store!Write(w) \/ Store!Rename(w) \/ Store!SaveErr(w)
    /\ UNCHANGED registryVars

\* The process is killed on the way to a receipt ...
Crash(w) ==
    /\ Kill(w)
    /\ Store!Exit(w)
    /\ UNCHANGED <<cpPath, cpTmp, cpData, cpPc, cpFd, saved, overlapped>>

\* ... or to a checkpoint.
CrashSaving(w) == Store!Crash(w) /\ UNCHANGED registryVars

\* Steps of a flush after the load of the registry file.
Flush(w) == Saving(w) \/ Refused(w) \/ Accepted(w) \/ Checkpointing(w)

Next ==
    \E w \in Writer :
        \/ Start(w) \/ StartErr(w) \/ Stop(w)
        \/ \E b \in Batches, ts \in Time : Submit(w, b, ts)
        \/ SubmitErr(w)
        \/ Flush(w)
        \/ Crash(w) \/ CrashSaving(w)

Spec == PipelineInit /\ [][Next]_allVars

\* File operations return.
FairSpec == Spec /\ \A w \in Writer : WF_allVars(Flush(w))

-----------------------------------------------------------------------------

\* Every variable has its type.
PipelineTypeOK == TypeOK /\ Store!TypeOK

\* As long as no two calls of the registry have overlapped, every CID that a
\* checkpoint names, on disk or in a process, has its record in the registry
\* file: wherever processes are killed, whatever fails, and also when they
\* overwrite each other's checkpoint.
CheckpointRegistered ==
    raced \/ \A w \in Writer : Store!OnDisk.anchored \cup mem[w].anchored
                                   \subseteq Registered(Visible)

\* A flush ends, whatever other processes do to its temporary files.
FlushEnds == \A w \in Writer : ~Ready(w) /\ w \in running ~> Ready(w) \/ w \notin running

\* The checkpoint file under one process at a time.
CheckpointKept == Store!SerialKept
ImplementsDurable == Store!ImplementsDurable

=============================================================================
