--------------------------- MODULE CheckpointStore ---------------------------
(***************************************************************************)
(* The checkpoint file of wb-index (checkpoint.rs), step by step, under    *)
(* the runners that use it: a runner loads the file when it starts, adds   *)
(* every batch it anchors to its copy in memory and saves that copy.       *)
(* BatchAnchorRunner has the runner in full and a save in one step; here   *)
(* the runner is reduced to what touches the file.                         *)
(***************************************************************************)
EXTENDS ReplacedFile, FiniteSets, Naturals

CONSTANTS Cid,       \* content identifiers
          MaxFaults  \* bound: failed saves and crashes

Checkpoint == [anchored : SUBSET Cid, committed : Nat]

NoCheckpoint == [anchored |-> {}, committed |-> 0]

VARIABLES running, \* processes between their start and their end
          mem,     \* RunState.checkpoint of each process
          saved,   \* CIDs of all saves that have returned
          raced,   \* history: whether two processes ever ran at once
          faults   \* failures so far, for MaxFaults

vars == <<fileVars, running, mem, saved, raced, faults>>

Init ==
    /\ FileInit
    /\ running = {}
    /\ mem = [w \in Writer |-> NoCheckpoint]
    /\ saved = {}
    /\ raced = FALSE
    /\ faults = 0

\* load(): a file that is not there is the default checkpoint.
Load == Content(NoCheckpoint)

-----------------------------------------------------------------------------

\* Mutant of Start: a runner starts with the default checkpoint.
StartDefault(w) ==
    /\ w \notin running
    /\ Load # Torn
    /\ running' = running \cup {w}
    /\ raced' = (raced \/ running # {})
    /\ mem' = [mem EXCEPT ![w] = NoCheckpoint]
    /\ UNCHANGED <<fileVars, saved, faults>>

\* A process starts and loads.
Start(w) ==
    /\ w \notin running
    /\ Load # Torn
    /\ running' = running \cup {w}
    /\ raced' = (raced \/ running # {})
    /\ mem' = [mem EXCEPT ![w] = Load]
    /\ UNCHANGED <<fileVars, saved, faults>>

\* One that finds a file that does not decode ends with an error at once.
StartErr(w) == w \notin running /\ Load = Torn /\ UNCHANGED vars

\* Mutant of Commit: the batch replaces the CIDs of earlier ones.
CommitReplaces(w, batch) ==
    /\ w \in running
    /\ Loaded(w)
    /\ mem' = [mem EXCEPT ![w] = [anchored |-> batch, committed |-> @.committed + 1]]
    /\ UNCHANGED <<path, tmp, data, fd, running, saved, raced, faults>>

\* flush() after the answer of the registry, up to the save.
Commit(w, batch) ==
    /\ w \in running
    /\ Loaded(w)
    /\ mem' = [mem EXCEPT ![w] = [anchored |-> @.anchored \cup batch,
                                  committed |-> @.committed + 1]]
    /\ UNCHANGED <<path, tmp, data, fd, running, saved, raced, faults>>

\* save(): open, write and rename of the temporary file.
Open(w) == OpenTmp(w) /\ UNCHANGED <<running, mem, saved, raced, faults>>

Write(w) ==
    WriteTmp(w, mem[w]) /\ UNCHANGED <<running, mem, saved, raced, faults>>

Rename(w) ==
    /\ RenameTmp(w)
    /\ saved' = saved \cup mem[w].anchored
    /\ UNCHANGED <<running, mem, raced, faults>>

\* A step of save() fails: the runner logs it, keeps its memory and goes on.
SaveErr(w) ==
    /\ \/ RenameTmpErr(w) /\ UNCHANGED faults
       \/ /\ pc[w] # "idle"
          /\ faults < MaxFaults
          /\ faults' = faults + 1
          /\ Abandon(w)
    /\ UNCHANGED <<running, mem, saved, raced>>

\* A process is gone, and with it what it had in memory.
Exit(w) ==
    /\ w \in running
    /\ running' = running \ {w}
    /\ mem' = [mem EXCEPT ![w] = NoCheckpoint]

\* The process ends between two flushes.
Stop(w) ==
    /\ pc[w] = "idle"
    /\ Exit(w)
    /\ UNCHANGED <<fileVars, saved, raced, faults>>

\* The process is killed, also right after the rename.
Crash(w) ==
    /\ pc[w] # "idle"
    /\ faults < MaxFaults
    /\ faults' = faults + 1
    /\ Abandon(w) \/ RenameTmp(w)
    /\ Exit(w)
    /\ UNCHANGED <<saved, raced>>

-----------------------------------------------------------------------------

\* Every variable has its type.
TypeOK ==
    /\ FileTypeOK(Checkpoint)
    /\ running \subseteq Writer
    /\ mem \in [Writer -> Checkpoint]
    /\ saved \subseteq Cid
    /\ raced \in BOOLEAN
    /\ faults \in 0..MaxFaults

OnDisk == IF Load = Torn THEN NoCheckpoint ELSE Load

\* What a save has returned for is in the checkpoint that the next start loads:
\* "anchored_cids grows on each flush, so progress is never lost"
\* (ARCHITECTURE.md section 7).
SavedKept == saved \subseteq OnDisk.anchored

\* It is, and any process that starts, `status` included, can load the file, as
\* long as one process at a time uses it, also many in turn, killed wherever they
\* are.
SerialKept == raced \/ (Load # Torn /\ SavedKept)

\* As long as one process at a time uses it, the file is the checkpoint the
\* runner relies on: a save that is cut short anywhere happened or did not.
Promised == INSTANCE DurableCheckpoint WITH cp <- OnDisk
ImplementsDurable == Promised!Init /\ [][raced' \/ Promised!Commit]_OnDisk

=============================================================================
