------------------------- MODULE BatchAnchorRunner -------------------------
(***************************************************************************)
(* The batch-anchor runner of wb-index (runner.rs, checkpoint.rs,          *)
(* dedup.rs) and the way the CLI drives it: the `run` daemon and the       *)
(* one-shot `anchor` command.  Each runner is a process with a Delivery    *)
(* node that buffers its topic and a checkpoint file of its own; the       *)
(* registry is not here.  The modules that compose this one with a         *)
(* registry say what a call of anchor_batch does and conjoin RecordBatch   *)
(* or FlushErr for its answer.                                             *)
(*                                                                         *)
(* A step is the code between two awaits, or one turn of the loop over the *)
(* drained messages.  A crash may come between any two steps.              *)
(***************************************************************************)
EXTENDS RegistryClient

CONSTANTS Runner,         \* batch-anchor processes
          Daemon,         \* those started with `run`; the others run `anchor`
          BatchSize,      \* RunnerConfig.batch_size
          Rounds,         \* `anchor --rounds`, as rounds.max(1)
          Junk,           \* a payload that is no valid envelope
          BadPayload,     \* a message whose payload is not base64
          MaxDeliveries,  \* bound: messages buffered by all nodes together
          MaxFaults       \* bound: failed calls and crashes of one behaviour

ASSUME RunnerAssumption ==
    /\ Daemon \subseteq Runner
    /\ BatchSize \in Nat
    /\ Rounds \in Nat \ {0}
    /\ Junk \notin AnchorEntry
    /\ BadPayload \notin AnchorEntry
    /\ MaxDeliveries \in Nat
    /\ MaxFaults \in Nat

\* A valid envelope is its anchor entry: the runner uses nothing else of it.
Message == AnchorEntry \cup {Junk, BadPayload}

VARIABLES proc,       \* the memory of each process: RunState and run()'s locals
          disk,       \* the checkpoint file of each runner
          inbox,      \* what each runner's Delivery node has buffered
          subscribed, \* runners whose node buffers the topic
          deliveries, \* messages buffered so far, for MaxDeliveries
          faults      \* failures so far, for MaxFaults

runnerVars == <<proc, disk, inbox, subscribed, deliveries, faults>>

-----------------------------------------------------------------------------

Checkpoint == [anchored : SUBSET Cid, committed : Nat, lastTx : Nat]

\* Checkpoint::default(); tx 0 stands for "no batch yet".
NoCheckpoint == [anchored |-> {}, committed |-> 0, lastTx |-> 0]

Stats == [received : Nat, accepted : Nat, duplicates : Nat, invalid : Nat,
          anchored : Nat, batches : Nat]

NoStats == [received |-> 0, accepted |-> 0, duplicates |-> 0, invalid |-> 0,
            anchored |-> 0, batches |-> 0]

\* down: no process.  subscribing: checkpoint loaded.  idle: at the select! of
\* `run`, or between two rounds of `anchor`.  polling: in the loop over the
\* drained messages.  anchoring: in the call of anchor_batch.  saving: in
\* CheckpointStore::save.
PC == {"down", "subscribing", "idle", "polling", "anchoring", "saving"}

Process == [pc : PC, pending : Seq(AnchorEntry), dedup : SUBSET Cid,
            mem : Checkpoint, stats : Stats, drained : Seq(Message),
            took : BOOLEAN, round : Nat, stopping : BOOLEAN, ts : Time \cup {0}]

\* A runner that does not run: what the constructor builds.
Fresh == [pc |-> "down", pending |-> <<>>, dedup |-> {}, mem |-> NoCheckpoint,
          stats |-> NoStats, drained |-> <<>>, took |-> FALSE, round |-> 0,
          stopping |-> FALSE, ts |-> 0]

RunnerInit ==
    /\ proc = [r \in Runner |-> Fresh]
    /\ disk = [r \in Runner |-> NoCheckpoint]
    /\ inbox = [r \in Runner |-> <<>>]
    /\ subscribed = {}
    /\ deliveries = 0
    /\ faults = 0

PendingCids(r) == CidsOf(proc[r].pending)

Fault == faults < MaxFaults /\ faults' = faults + 1

\* What a flush returns to: the loop, or the end of the process after the last
\* one.  A failed flush is only logged by `run` and ends `anchor`, which
\* flushes nowhere else than at its end.
AfterFlush(p) == IF p.stopping THEN Fresh
                 ELSE [p EXCEPT !.pc = "idle", !.ts = 0]

-----------------------------------------------------------------------------
(* init() *)

\* Mutant of Load: dedup is not seeded from the checkpoint.
LoadUnseeded(r) ==
    /\ proc[r].pc = "down"
    /\ proc' = [proc EXCEPT ![r] = [Fresh EXCEPT !.pc = "subscribing",
                                                 !.mem = disk[r]]]
    /\ UNCHANGED <<disk, inbox, subscribed, deliveries, faults>>

\* Mutant of Load: the checkpoint file is not read.
LoadDefault(r) ==
    /\ proc[r].pc = "down"
    /\ proc' = [proc EXCEPT ![r] = [Fresh EXCEPT !.pc = "subscribing"]]
    /\ UNCHANGED <<disk, inbox, subscribed, deliveries, faults>>

\* CheckpointStore::load and the seeding of dedup.
Load(r) ==
    /\ proc[r].pc = "down"
    /\ proc' = [proc EXCEPT ![r] = [Fresh EXCEPT !.pc = "subscribing",
                                                 !.mem = disk[r],
                                                 !.dedup = disk[r].anchored]]
    /\ UNCHANGED <<disk, inbox, subscribed, deliveries, faults>>

Subscribe(r) ==
    /\ proc[r].pc = "subscribing"
    /\ proc' = [proc EXCEPT ![r].pc = "idle"]
    /\ subscribed' = subscribed \cup {r}
    /\ UNCHANGED <<disk, inbox, deliveries, faults>>

\* The error of subscribe leaves both commands.
SubscribeErr(r) ==
    /\ proc[r].pc = "subscribing"
    /\ Fault
    /\ proc' = [proc EXCEPT ![r] = Fresh]
    /\ UNCHANGED <<disk, inbox, subscribed, deliveries>>

-----------------------------------------------------------------------------
(* poll_once() *)

\* The node answers with what it has buffered, and forgets it.
Poll(r) ==
    /\ proc[r].pc = "idle"
    /\ BadPayload \notin {inbox[r][i] : i \in DOMAIN inbox[r]}
    /\ proc' = [proc EXCEPT ![r] = [proc[r] EXCEPT !.pc = "polling",
                                            !.drained = inbox[r],
                                            !.took = FALSE]]
    /\ inbox' = [inbox EXCEPT ![r] = <<>>]
    /\ UNCHANGED <<disk, subscribed, deliveries, faults>>

\* Mutant of PollErr: a payload that is not base64 fails the poll before the
\* node forgets its messages.
PollErrKeeps(r) ==
    /\ proc[r].pc = "idle"
    /\ BadPayload \in {inbox[r][i] : i \in DOMAIN inbox[r]}
    /\ proc' = IF r \in Daemon THEN proc ELSE [proc EXCEPT ![r] = Fresh]
    /\ UNCHANGED <<disk, inbox, subscribed, deliveries, faults>>

\* The node has drained but the client fails: the answer is lost, or one
\* payload is not base64 and the whole answer is discarded.  `run` logs it and
\* goes on; `anchor` ends.
PollErr(r) ==
    /\ proc[r].pc = "idle"
    /\ \/ /\ BadPayload \in {inbox[r][i] : i \in DOMAIN inbox[r]}
          /\ UNCHANGED faults
       \/ Fault
    /\ proc' = IF r \in Daemon THEN proc ELSE [proc EXCEPT ![r] = Fresh]
    /\ inbox' = [inbox EXCEPT ![r] = <<>>]
    /\ UNCHANGED <<disk, subscribed, deliveries>>

\* One turn of the loop over the drained messages takes the first one.
InLoop(r) ==
    /\ proc[r].pc = "polling"
    /\ proc[r].drained # <<>>

DropInvalid(r) ==
    /\ InLoop(r)
    /\ Head(proc[r].drained) \notin AnchorEntry
    /\ proc' = [proc EXCEPT ![r] =
                   [proc[r] EXCEPT !.drained = Tail(@),
                             !.stats = [proc[r].stats EXCEPT !.received = @ + 1,
                                                             !.invalid = @ + 1]]]
    /\ UNCHANGED <<disk, inbox, subscribed, deliveries, faults>>

DropDuplicate(r) ==
    /\ InLoop(r)
    /\ Head(proc[r].drained) \in AnchorEntry
    /\ Head(proc[r].drained).cid \in proc[r].dedup
    /\ proc' = [proc EXCEPT ![r] =
                   [proc[r] EXCEPT !.drained = Tail(@),
                             !.stats = [proc[r].stats EXCEPT !.received = @ + 1,
                                                             !.duplicates = @ + 1]]]
    /\ UNCHANGED <<disk, inbox, subscribed, deliveries, faults>>

\* Mutant of Accept: the CID is tested against dedup and not inserted.
AcceptUnmarked(r) ==
    /\ InLoop(r)
    /\ Head(proc[r].drained) \in AnchorEntry
    /\ Head(proc[r].drained).cid \notin proc[r].dedup
    /\ proc' = [proc EXCEPT ![r] =
                   [proc[r] EXCEPT !.drained = Tail(@),
                             !.pending = Append(@, Head(proc[r].drained)),
                             !.took = TRUE,
                             !.stats = [proc[r].stats EXCEPT !.received = @ + 1,
                                                             !.accepted = @ + 1]]]
    /\ UNCHANGED <<disk, inbox, subscribed, deliveries, faults>>

\* Mutant of Accept: the CID is queued instead of its anchor entry.
AcceptBareCid(r) ==
    /\ InLoop(r)
    /\ Head(proc[r].drained) \in AnchorEntry
    /\ Head(proc[r].drained).cid \notin proc[r].dedup
    /\ proc' = [proc EXCEPT ![r] =
                   [proc[r] EXCEPT !.drained = Tail(@),
                             !.pending = Append(@, Head(proc[r].drained).cid)]]
    /\ UNCHANGED <<disk, inbox, subscribed, deliveries, faults>>

Accept(r) ==
    /\ InLoop(r)
    /\ Head(proc[r].drained) \in AnchorEntry
    /\ Head(proc[r].drained).cid \notin proc[r].dedup
    /\ proc' = [proc EXCEPT ![r] =
                   [proc[r] EXCEPT !.drained = Tail(@),
                             !.dedup = @ \cup {Head(proc[r].drained).cid},
                             !.pending = Append(@, Head(proc[r].drained)),
                             !.took = TRUE,
                             !.stats = [proc[r].stats EXCEPT !.received = @ + 1,
                                                             !.accepted = @ + 1]]]
    /\ UNCHANGED <<disk, inbox, subscribed, deliveries, faults>>

-----------------------------------------------------------------------------
(* flush(), and what the two commands do around it *)

\* Mutant of FlushState: the batch is recorded before the registry has it.
FlushRecordsFirst(p, ts, last) ==
    [p EXCEPT !.pc = "anchoring", !.ts = ts, !.stopping = last,
              !.mem = [p.mem EXCEPT !.anchored = @ \cup CidsOf(p.pending)]]

\* flush() of a non-empty pending list, up to the call of anchor_batch.
FlushState(p, ts, last) ==
    [p EXCEPT !.pc = "anchoring", !.ts = ts, !.stopping = last]

\* The process leaves after a last flush, which an empty list makes a no-op.
Finish(r) ==
    IF proc[r].pending = <<>>
    THEN proc' = [proc EXCEPT ![r] = Fresh]
    ELSE \E ts \in Time : proc' = [proc EXCEPT ![r] = FlushState(@, ts, TRUE)]

\* `run` after a successful poll: flush a full batch.
PollDone(r) ==
    /\ r \in Daemon
    /\ proc[r].pc = "polling"
    /\ proc[r].drained = <<>>
    /\ IF Len(proc[r].pending) >= BatchSize /\ proc[r].pending # <<>>
       THEN \E ts \in Time :
                proc' = [proc EXCEPT ![r] = FlushState(@, ts, FALSE)]
       ELSE proc' = [proc EXCEPT ![r].pc = "idle"]
    /\ UNCHANGED <<disk, inbox, subscribed, deliveries, faults>>

\* Mutant of RoundDone: rounds are not counted.
RoundUncounted(r) ==
    /\ r \notin Daemon
    /\ proc[r].pc = "polling"
    /\ proc[r].drained = <<>>
    /\ IF (~proc[r].took /\ proc[r].round > 0) \/ proc[r].round + 1 = Rounds
       THEN Finish(r)
       ELSE proc' = [proc EXCEPT ![r].pc = "idle"]
    /\ UNCHANGED <<disk, inbox, subscribed, deliveries, faults>>

\* `anchor` after a successful poll: another round, or the flush.
RoundDone(r) ==
    /\ r \notin Daemon
    /\ proc[r].pc = "polling"
    /\ proc[r].drained = <<>>
    /\ IF (~proc[r].took /\ proc[r].round > 0) \/ proc[r].round + 1 = Rounds
       THEN Finish(r)
       ELSE proc' = [proc EXCEPT ![r] = [proc[r] EXCEPT !.pc = "idle",
                                                  !.round = @ + 1]]
    /\ UNCHANGED <<disk, inbox, subscribed, deliveries, faults>>

\* Mutant of FlushTick: the tick, too, waits for a full batch.
FlushTickFull(r) ==
    /\ r \in Daemon
    /\ proc[r].pc = "idle"
    /\ Len(proc[r].pending) >= BatchSize
    /\ \E ts \in Time : proc' = [proc EXCEPT ![r] = FlushState(@, ts, FALSE)]
    /\ UNCHANGED <<disk, inbox, subscribed, deliveries, faults>>

\* The flush interval of `run` ticks.
FlushTick(r) ==
    /\ r \in Daemon
    /\ proc[r].pc = "idle"
    /\ proc[r].pending # <<>>
    /\ \E ts \in Time : proc' = [proc EXCEPT ![r] = FlushState(@, ts, FALSE)]
    /\ UNCHANGED <<disk, inbox, subscribed, deliveries, faults>>

\* Ctrl-C, seen at the select! only.
Shutdown(r) ==
    /\ r \in Daemon
    /\ proc[r].pc = "idle"
    /\ Finish(r)
    /\ UNCHANGED <<disk, inbox, subscribed, deliveries, faults>>

\* anchor_batch answered with a receipt: transaction tx, n CIDs newly anchored.
RecordBatch(r, tx, n) ==
    /\ proc[r].pc = "anchoring"
    /\ proc' = [proc EXCEPT ![r] =
                   [proc[r] EXCEPT !.pc = "saving",
                             !.mem = [anchored |-> @.anchored \cup PendingCids(r),
                                      committed |-> @.committed + 1,
                                      lastTx |-> tx],
                             !.stats = [proc[r].stats EXCEPT !.anchored = @ + n,
                                                             !.batches = @ + 1]]]
    /\ UNCHANGED <<disk, inbox, subscribed, deliveries, faults>>

\* Mutant of FlushErr: pending is taken before the call and not put back.
FlushErrClears(r) ==
    /\ proc[r].pc = "anchoring"
    /\ Fault
    /\ proc' = [proc EXCEPT ![r] = AfterFlush([proc[r] EXCEPT !.pending = <<>>])]
    /\ UNCHANGED <<disk, inbox, subscribed, deliveries>>

\* anchor_batch answered with an error: pending is retained.
FlushErr(r) ==
    /\ proc[r].pc = "anchoring"
    /\ Fault
    /\ proc' = [proc EXCEPT ![r] = AfterFlush(@)]
    /\ UNCHANGED <<disk, inbox, subscribed, deliveries>>

\* The rename of the temporary file onto the checkpoint, then pending.clear().
Save(r) ==
    /\ proc[r].pc = "saving"
    /\ disk' = [disk EXCEPT ![r] = proc[r].mem]
    /\ proc' = [proc EXCEPT ![r] = AfterFlush([proc[r] EXCEPT !.pending = <<>>])]
    /\ UNCHANGED <<inbox, subscribed, deliveries, faults>>

\* Mutant of SaveErr: pending is cleared before the save.
SaveErrClears(r) ==
    /\ proc[r].pc = "saving"
    /\ Fault
    /\ proc' = [proc EXCEPT ![r] = AfterFlush([proc[r] EXCEPT !.pending = <<>>])]
    /\ UNCHANGED <<disk, inbox, subscribed, deliveries>>

\* The save fails before the rename: the file is the old one, memory is not.
SaveErr(r) ==
    /\ proc[r].pc = "saving"
    /\ Fault
    /\ proc' = [proc EXCEPT ![r] = AfterFlush(@)]
    /\ UNCHANGED <<disk, inbox, subscribed, deliveries>>

-----------------------------------------------------------------------------
(* The environment *)

\* A relayed message reaches the node of r.  Anyone may publish anything, and
\* the relay may deliver a message twice, late or never.
Deliver(r, m) ==
    /\ r \in subscribed
    /\ deliveries < MaxDeliveries
    /\ deliveries' = deliveries + 1
    /\ inbox' = [inbox EXCEPT ![r] = Append(@, m)]
    /\ UNCHANGED <<proc, disk, subscribed, faults>>

\* The Delivery node of r restarts: subscriptions and buffer are memory only.
NodeRestart(r) ==
    /\ r \in subscribed
    /\ Fault
    /\ subscribed' = subscribed \ {r}
    /\ inbox' = [inbox EXCEPT ![r] = <<>>]
    /\ UNCHANGED <<proc, disk, deliveries>>

Crash(r) ==
    /\ proc[r].pc # "down"
    /\ Fault
    /\ proc' = [proc EXCEPT ![r] = Fresh]
    /\ UNCHANGED <<disk, inbox, subscribed, deliveries>>

\* Every step of a runner and its environment but the answer of the registry.
RunnerStep(r) ==
    \/ Load(r) \/ Subscribe(r) \/ SubscribeErr(r)
    \/ Poll(r) \/ PollErr(r)
    \/ DropInvalid(r) \/ DropDuplicate(r) \/ Accept(r)
    \/ PollDone(r) \/ RoundDone(r) \/ FlushTick(r) \/ Shutdown(r)
    \/ Save(r) \/ SaveErr(r)
    \/ Crash(r) \/ NodeRestart(r)
    \/ \E m \in Message : Deliver(r, m)

-----------------------------------------------------------------------------

RunnerTypeOK ==
    /\ proc \in [Runner -> Process]
    /\ disk \in [Runner -> Checkpoint]
    /\ inbox \in [Runner -> Seq(Message)]
    /\ subscribed \in SUBSET Runner
    /\ deliveries \in 0..MaxDeliveries
    /\ faults \in 0..MaxFaults

-----------------------------------------------------------------------------
(* Safety *)

\* The dedup set of a live runner holds exactly the CIDs it still has to anchor
\* and those it knows anchored.  A CID in neither would be dropped as a
\* duplicate on every later broadcast without ever being submitted.
NothingSwallowed ==
    \A r \in Runner :
        proc[r].pc # "down" =>
            proc[r].dedup = PendingCids(r) \cup proc[r].mem.anchored

\* A CID the persisted checkpoint names is never pending again, whatever is
\* re-broadcast, and however often the runner restarts: it is "never
\* re-accumulated or re-submitted" (checkpoint.rs).
NeverResubmitted ==
    \A r \in Runner : PendingCids(r) \cap disk[r].anchored = {}

\* No batch holds a CID twice, also after failed flushes and saves that retain
\* pending: each entry of a transaction addresses an account of its own.
BatchesDistinct ==
    \A r \in Runner : \A i, j \in DOMAIN proc[r].pending :
        proc[r].pending[i].cid = proc[r].pending[j].cid => i = j

-----------------------------------------------------------------------------
(* Action properties *)

\* The persisted checkpoint only grows: no restart, error or crash takes a CID
\* out of it ("progress is never lost", ARCHITECTURE.md section 7).
CheckpointGrows ==
    [][\A r \in Runner :
          /\ disk[r].anchored \subseteq disk'[r].anchored
          /\ disk[r].committed <= disk'[r].committed]_runnerVars

\* An entry leaves the pending list of a live process only when the persisted
\* checkpoint takes its CID: a failed flush or save retains the whole list.
PendingRetained ==
    [][\A r \in Runner : proc'[r].pc # "down" =>
          \A c \in PendingCids(r) :
              c \in PendingCids(r)' \/ c \in disk'[r].anchored]_runnerVars

=============================================================================
