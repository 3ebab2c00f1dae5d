---------------------- MODULE BatchAnchorRunnerProofs ----------------------
(***************************************************************************)
(* The inductive invariant of a runner, preserved by every step of a       *)
(* runner and its environment and by either answer of the registry.  It    *)
(* says nothing of the registry: the pipelines add what theirs guarantees. *)
(***************************************************************************)
EXTENDS BatchAnchorRunner, RegistryClientProofs

\* The entries of a batch are for different CIDs.
Distinct(batch) ==
    \A i, j \in DOMAIN batch : batch[i].cid = batch[j].cid => i = j

\* What holds of a process p with checkpoint file d.
Consistent(p, d) ==
    /\ p.pc = "down" => p.pending = <<>>
    /\ p.pc # "down" =>
           /\ p.dedup = CidsOf(p.pending) \cup p.mem.anchored
           /\ d.anchored \subseteq p.mem.anchored
           /\ d.committed <= p.mem.committed
    /\ p.pc = "saving" => CidsOf(p.pending) \subseteq p.mem.anchored
    /\ p.pc = "anchoring" => p.ts \in Time
    /\ CidsOf(p.pending) \cap d.anchored = {}
    /\ Distinct(p.pending)

RunnerInv ==
    /\ RunnerTypeOK
    /\ \A r \in Runner : Consistent(proc[r], disk[r])

\* The constructed runner is consistent with any checkpoint file.
LEMMA FreshConsistent ==
    ASSUME NEW d \in Checkpoint
    PROVE  Fresh \in Process /\ Consistent(Fresh, d)
  <1>1. NoCheckpoint \in Checkpoint /\ NoStats \in Stats
    BY DEF NoCheckpoint, Checkpoint, NoStats, Stats
  <1>2. Fresh \in Process
    BY <1>1 DEF Fresh, Process, PC
  <1>3. Consistent(Fresh, d)
    BY CidsOfEmpty DEF Consistent, Fresh, Distinct
  <1>4. QED
    BY <1>2, <1>3

\* A step that gives runner r the process p and the checkpoint file d.
LEMMA OneProcess ==
    ASSUME RunnerInv, NEW r \in Runner, NEW p \in Process, NEW d \in Checkpoint,
           proc' = [proc EXCEPT ![r] = p],
           disk' = [disk EXCEPT ![r] = d],
           inbox' \in [Runner -> Seq(Message)],
           subscribed' \in SUBSET Runner,
           deliveries' \in 0..MaxDeliveries,
           faults' \in 0..MaxFaults,
           Consistent(p, d)
    PROVE  RunnerInv'
  <1>1. proc \in [Runner -> Process] /\ disk \in [Runner -> Checkpoint]
    BY DEF RunnerInv, RunnerTypeOK
  <1>2. proc' \in [Runner -> Process] /\ disk' \in [Runner -> Checkpoint]
    BY <1>1
  <1>3. ASSUME NEW q \in Runner
        PROVE  Consistent(proc'[q], disk'[q])
    BY <1>1, <1>3 DEF RunnerInv
  <1>4. QED
    BY <1>2, <1>3 DEF RunnerInv, RunnerTypeOK

\* The initial states.
LEMMA RunnerInitInv == RunnerInit => RunnerInv
  <1> SUFFICES ASSUME RunnerInit PROVE RunnerInv
    OBVIOUS
  <1>1. NoCheckpoint \in Checkpoint
    BY DEF NoCheckpoint, Checkpoint
  <1>2. RunnerTypeOK
    BY <1>1, FreshConsistent, RunnerAssumption DEF RunnerInit, RunnerTypeOK
  <1>3. QED
    BY <1>1, <1>2, FreshConsistent DEF RunnerInit, RunnerInv

\* The process that leaves a flush.
LEMMA AfterFlushConsistent ==
    ASSUME NEW p \in Process, NEW d \in Checkpoint, p.pc # "down", Consistent(p, d)
    PROVE  AfterFlush(p) \in Process /\ Consistent(AfterFlush(p), d)
  <1>1. CASE p.stopping
    BY <1>1, FreshConsistent DEF AfterFlush
  <1>2. CASE ~p.stopping
    <2> DEFINE q == [p EXCEPT !.pc = "idle", !.ts = 0]
    <2>1. q \in Process
      BY DEF Process, PC
    <2>2. /\ q.pc = "idle"
          /\ q.pending = p.pending /\ q.dedup = p.dedup /\ q.mem = p.mem
      BY DEF Process
    <2>3. QED
      BY <1>2, <2>1, <2>2 DEF AfterFlush, Consistent
  <1>3. QED
    BY <1>1, <1>2

\* The process that enters the call of anchor_batch.
LEMMA FlushStateConsistent ==
    ASSUME NEW p \in Process, NEW d \in Checkpoint, p.pc # "down", Consistent(p, d),
           NEW ts \in Time, NEW last \in BOOLEAN
    PROVE  /\ FlushState(p, ts, last) \in Process
           /\ Consistent(FlushState(p, ts, last), d)
  <1> DEFINE q == [p EXCEPT !.pc = "anchoring", !.ts = ts, !.stopping = last]
  <1>1. q \in Process
    BY DEF Process, PC
  <1>2. /\ q.pc = "anchoring" /\ q.ts = ts
        /\ q.pending = p.pending /\ q.dedup = p.dedup /\ q.mem = p.mem
    BY DEF Process
  <1>3. QED
    BY <1>1, <1>2 DEF FlushState, Consistent

-----------------------------------------------------------------------------
(* One lemma per action *)

\* The types a step of runner r starts from.
LEMMA ProcessTypes ==
    ASSUME RunnerInv, NEW r \in Runner
    PROVE  /\ proc \in [Runner -> Process] /\ disk \in [Runner -> Checkpoint]
           /\ proc[r] \in Process /\ disk[r] \in Checkpoint
           /\ Consistent(proc[r], disk[r])
           /\ disk = [disk EXCEPT ![r] = disk[r]]
           /\ proc = [proc EXCEPT ![r] = proc[r]]
  BY DEF RunnerInv, RunnerTypeOK

\* A step that ends the process keeps the checkpoint file.
LEMMA ExitInv ==
    ASSUME RunnerInv, NEW r \in Runner, proc' = [proc EXCEPT ![r] = Fresh],
           inbox' \in [Runner -> Seq(Message)],
           UNCHANGED <<disk, subscribed, deliveries>>,
           faults' \in 0..MaxFaults
    PROVE  RunnerInv'
  <1>1. disk' = [disk EXCEPT ![r] = disk[r]] /\ disk[r] \in Checkpoint
    BY ProcessTypes
  <1>2. QED
    BY <1>1, FreshConsistent, OneProcess DEF RunnerInv, RunnerTypeOK

\* The budget of faults.
LEMMA FaultType ==
    ASSUME faults \in 0..MaxFaults, Fault
    PROVE  faults' \in 0..MaxFaults
  BY RunnerAssumption DEF Fault

\* Loading the checkpoint makes a consistent process: it seeds dedup with it.
LEMMA LoadInv ==
    ASSUME RunnerInv, NEW r \in Runner, Load(r) PROVE RunnerInv'
  <1> DEFINE p == [Fresh EXCEPT !.pc = "subscribing", !.mem = disk[r],
                                !.dedup = disk[r].anchored]
  <1>1. disk[r] \in Checkpoint /\ disk' = [disk EXCEPT ![r] = disk[r]]
    BY ProcessTypes DEF Load
  <1>2. p \in Process
    BY <1>1, FreshConsistent DEF Process, PC, Checkpoint
  <1>3. /\ p.pc = "subscribing" /\ p.pending = <<>>
        /\ p.mem = disk[r] /\ p.dedup = disk[r].anchored
    BY DEF Fresh
  <1>4. Consistent(p, disk[r])
    BY <1>1, <1>3, CidsOfEmpty DEF Consistent, Distinct, Checkpoint
  <1> HIDE DEF p
  <1>5. QED
    BY <1>1, <1>2, <1>4, OneProcess DEF Load, RunnerInv, RunnerTypeOK, p

\* Subscribing changes no part of the state the invariant relates.
LEMMA SubscribeInv ==
    ASSUME RunnerInv, NEW r \in Runner, Subscribe(r) PROVE RunnerInv'
  <1> DEFINE p == [proc[r] EXCEPT !.pc = "idle"]
  <1>1. /\ proc[r] \in Process /\ disk[r] \in Checkpoint
        /\ Consistent(proc[r], disk[r])
        /\ disk' = [disk EXCEPT ![r] = disk[r]]
    BY ProcessTypes DEF Subscribe
  <1>2. p \in Process
    BY <1>1 DEF Process, PC
  <1>3. Consistent(p, disk[r])
    BY <1>1 DEF Consistent, Process, Subscribe
  <1>4. proc' = [proc EXCEPT ![r] = p]
    BY ProcessTypes DEF Subscribe
  <1>5. QED
    BY <1>1, <1>2, <1>3, <1>4, OneProcess DEF Subscribe, RunnerInv, RunnerTypeOK

\* Draining the inbox moves messages into the process.
LEMMA PollInv ==
    ASSUME RunnerInv, NEW r \in Runner, Poll(r) PROVE RunnerInv'
  <1> DEFINE p == [proc[r] EXCEPT !.pc = "polling", !.drained = inbox[r],
                                  !.took = FALSE]
  <1>1. /\ proc[r] \in Process /\ disk[r] \in Checkpoint
        /\ Consistent(proc[r], disk[r])
        /\ disk' = [disk EXCEPT ![r] = disk[r]]
    BY ProcessTypes DEF Poll
  <1>2. p \in Process /\ inbox' \in [Runner -> Seq(Message)]
    <2>1. inbox \in [Runner -> Seq(Message)] /\ inbox[r] \in Seq(Message)
      BY DEF RunnerInv, RunnerTypeOK
    <2>2. p \in Process
      BY <1>1, <2>1 DEF Process, PC
    <2>3. <<>> \in Seq(Message)
      OBVIOUS
    <2>4. inbox' \in [Runner -> Seq(Message)]
      BY <2>1, <2>3 DEF Poll
    <2>5. QED
      BY <2>2, <2>4
  <1>3. Consistent(p, disk[r])
    BY <1>1 DEF Consistent, Process, Poll
  <1>4. proc' = [proc EXCEPT ![r] = p]
    BY ProcessTypes DEF Poll
  <1>5. QED
    BY <1>1, <1>2, <1>3, <1>4, OneProcess DEF Poll, RunnerInv, RunnerTypeOK

\* A failed poll of `run` keeps the process; one of `anchor` ends it.
LEMMA PollErrInv ==
    ASSUME RunnerInv, NEW r \in Runner, PollErr(r) PROVE RunnerInv'
  <1>1. inbox' \in [Runner -> Seq(Message)] /\ faults' \in 0..MaxFaults
    BY FaultType DEF PollErr, RunnerInv, RunnerTypeOK
  <1>2. CASE r \in Daemon
    BY <1>1, <1>2 DEF PollErr, RunnerInv, RunnerTypeOK
  <1>3. CASE r \notin Daemon
    BY <1>1, <1>3, ExitInv DEF PollErr
  <1>4. QED
    BY <1>2, <1>3

\* A turn of the loop that only counts the message it drops.
LEMMA DropInv ==
    ASSUME RunnerInv, NEW r \in Runner, proc[r].pc = "polling",
           proc[r].drained # <<>>, NEW st \in Stats,
           proc' = [proc EXCEPT ![r] =
                       [proc[r] EXCEPT !.drained = Tail(@), !.stats = st]],
           UNCHANGED <<disk, inbox, subscribed, deliveries, faults>>
    PROVE  RunnerInv'
  <1> DEFINE p == [proc[r] EXCEPT !.drained = Tail(@), !.stats = st]
  <1>1. /\ proc[r] \in Process /\ disk[r] \in Checkpoint
        /\ Consistent(proc[r], disk[r])
        /\ disk' = [disk EXCEPT ![r] = disk[r]]
    BY ProcessTypes
  <1>2. Tail(proc[r].drained) \in Seq(Message)
    BY <1>1 DEF Process
  <1>3. p \in Process
    BY <1>1, <1>2 DEF Process, PC
  <1>4. Consistent(p, disk[r])
    BY <1>1 DEF Consistent, Process
  <1>5. proc' = [proc EXCEPT ![r] = p]
    OBVIOUS
  <1>6. QED
    BY <1>1, <1>3, <1>4, <1>5, OneProcess DEF RunnerInv, RunnerTypeOK

\* The counters after one more message of a kind.
CountedStats(st) ==
    {[st EXCEPT !.received = @ + 1, !.invalid = @ + 1],
     [st EXCEPT !.received = @ + 1, !.duplicates = @ + 1],
     [st EXCEPT !.received = @ + 1, !.accepted = @ + 1]}

\* Counting a message keeps the counters natural numbers.
LEMMA CountedType ==
    ASSUME NEW p \in Process
    PROVE  CountedStats(p.stats) \subseteq Stats
  <1> DEFINE st == p.stats
  <1>1. st \in Stats
    BY DEF Process
  <1> HIDE DEF st
  <1>2. /\ st.received + 1 \in Nat /\ st.invalid + 1 \in Nat
        /\ st.duplicates + 1 \in Nat /\ st.accepted + 1 \in Nat
    BY <1>1 DEF Stats
  <1>3. ASSUME NEW m \in Nat, NEW n \in Nat
        PROVE  /\ [st EXCEPT !.received = m, !.invalid = n] \in Stats
               /\ [st EXCEPT !.received = m, !.duplicates = n] \in Stats
               /\ [st EXCEPT !.received = m, !.accepted = n] \in Stats
    BY <1>1 DEF Stats
  <1>4. CountedStats(st) \subseteq Stats
    BY <1>2, <1>3 DEF CountedStats
  <1>5. QED
    BY <1>4 DEF st

\* An invalid message is counted and dropped.
LEMMA DropInvalidInv ==
    ASSUME RunnerInv, NEW r \in Runner, DropInvalid(r) PROVE RunnerInv'
  <1> DEFINE st == [proc[r].stats EXCEPT !.received = @ + 1, !.invalid = @ + 1]
  <1>1. proc \in [Runner -> Process] /\ st \in Stats
    BY ProcessTypes, CountedType DEF CountedStats
  <1>2. proc' = [proc EXCEPT ![r] =
                    [proc[r] EXCEPT !.drained = Tail(@), !.stats = st]]
    BY DEF DropInvalid, InLoop
  <1> HIDE DEF st
  <1>3. QED
    BY <1>1, <1>2, DropInv DEF DropInvalid, InLoop

\* A duplicate is counted and dropped.
LEMMA DropDuplicateInv ==
    ASSUME RunnerInv, NEW r \in Runner, DropDuplicate(r) PROVE RunnerInv'
  <1> DEFINE st == [proc[r].stats EXCEPT !.received = @ + 1, !.duplicates = @ + 1]
  <1>1. proc \in [Runner -> Process] /\ st \in Stats
    BY ProcessTypes, CountedType DEF CountedStats
  <1>2. proc' = [proc EXCEPT ![r] =
                    [proc[r] EXCEPT !.drained = Tail(@), !.stats = st]]
    BY DEF DropDuplicate, InLoop
  <1> HIDE DEF st
  <1>3. QED
    BY <1>1, <1>2, DropInv DEF DropDuplicate, InLoop

\* Accepting a message adds its CID to dedup and to pending at once, and dedup
\* makes it different from every CID pending or checkpointed.
LEMMA AcceptInv ==
    ASSUME RunnerInv, NEW r \in Runner, Accept(r) PROVE RunnerInv'
  <1> DEFINE m == Head(proc[r].drained)
             st == [proc[r].stats EXCEPT !.received = @ + 1, !.accepted = @ + 1]
             p == [proc[r] EXCEPT !.drained = Tail(@), !.dedup = @ \cup {m.cid},
                                  !.pending = Append(@, m), !.took = TRUE,
                                  !.stats = st]
  <1>1. /\ proc \in [Runner -> Process]
        /\ proc[r] \in Process /\ disk[r] \in Checkpoint
        /\ Consistent(proc[r], disk[r])
        /\ disk' = [disk EXCEPT ![r] = disk[r]]
    BY ProcessTypes DEF Accept, InLoop
  <1>2. /\ m \in AnchorEntry /\ m.cid \in Cid /\ m.cid \notin proc[r].dedup
        /\ proc[r].pending \in Seq(AnchorEntry) /\ proc[r].pc = "polling"
    BY <1>1 DEF Accept, InLoop, AnchorEntry, Process
  <1>3. p \in Process
    <2>1. Tail(proc[r].drained) \in Seq(Message)
      BY <1>1 DEF Process, Accept, InLoop
    <2>2. Append(proc[r].pending, m) \in Seq(AnchorEntry)
      BY <1>2
    <2>3. st \in Stats
      BY <1>1, CountedType DEF CountedStats
    <2>4. proc[r].dedup \cup {m.cid} \in SUBSET Cid
      BY <1>1, <1>2 DEF Process
    <2> HIDE DEF m, st
    <2>5. QED
      BY <1>1, <2>1, <2>2, <2>3, <2>4 DEF Process, PC
  <1>4. /\ p.pc = "polling" /\ p.pending = Append(proc[r].pending, m)
        /\ p.dedup = proc[r].dedup \cup {m.cid} /\ p.mem = proc[r].mem
    BY <1>1, <1>2 DEF Process
  <1>5. proc' = [proc EXCEPT ![r] = p]
    BY DEF Accept, InLoop
  <1>6. CidsOf(p.pending) = CidsOf(proc[r].pending) \cup {m.cid}
    BY <1>2, <1>4, CidsOfAppend
  <1>7. Distinct(p.pending)
    <2> DEFINE old == proc[r].pending
    <2>1. Distinct(old) /\ m.cid \notin CidsOf(old)
      BY <1>1, <1>2 DEF Consistent
    <2>2. \A i \in DOMAIN old : old[i].cid # m.cid
      BY <2>1 DEF CidsOf
    <2>3. /\ DOMAIN Append(old, m) = DOMAIN old \cup {Len(old) + 1}
          /\ \A i \in DOMAIN old : Append(old, m)[i] = old[i]
          /\ Append(old, m)[Len(old) + 1] = m
      BY <1>2
    <2> HIDE DEF m, old
    <2>4. QED
      BY <1>4, <2>1, <2>2, <2>3 DEF Distinct, old
  <1>8. Consistent(p, disk[r])
    BY <1>1, <1>2, <1>4, <1>6, <1>7 DEF Consistent
  <1> HIDE DEF p
  <1>9. QED
    BY <1>1, <1>3, <1>5, <1>8, OneProcess
       DEF Accept, InLoop, RunnerInv, RunnerTypeOK

\* A step that replaces the process of r and keeps every file and queue.
LEMMA QuietStep ==
    ASSUME RunnerInv, NEW r \in Runner, NEW p \in Process,
           Consistent(p, disk[r]), proc' = [proc EXCEPT ![r] = p],
           UNCHANGED <<disk, inbox, subscribed, deliveries>>,
           faults' \in 0..MaxFaults
    PROVE  RunnerInv'
  <1>1. disk' = [disk EXCEPT ![r] = disk[r]] /\ disk[r] \in Checkpoint
    BY ProcessTypes
  <1>2. QED
    BY <1>1, OneProcess DEF RunnerInv, RunnerTypeOK

\* The flush that a live process begins.
LEMMA BeginFlushInv ==
    ASSUME RunnerInv, NEW r \in Runner, NEW ts \in Time, NEW last \in BOOLEAN,
           proc[r].pc # "down",
           proc' = [proc EXCEPT ![r] = FlushState(proc[r], ts, last)],
           UNCHANGED <<disk, inbox, subscribed, deliveries, faults>>
    PROVE  RunnerInv'
  <1>1. /\ FlushState(proc[r], ts, last) \in Process
        /\ Consistent(FlushState(proc[r], ts, last), disk[r])
    BY ProcessTypes, FlushStateConsistent
  <1>2. QED
    BY <1>1, QuietStep DEF RunnerInv, RunnerTypeOK

\* The last flush begins, or the process ends with nothing pending.
LEMMA FinishInv ==
    ASSUME RunnerInv, NEW r \in Runner, proc[r].pc # "down", Finish(r),
           UNCHANGED <<disk, inbox, subscribed, deliveries, faults>>
    PROVE  RunnerInv'
  <1>1. CASE proc[r].pending = <<>>
    BY <1>1, ExitInv DEF Finish, RunnerInv, RunnerTypeOK
  <1>2. CASE proc[r].pending # <<>>
    BY <1>2, BeginFlushInv DEF Finish
  <1>3. QED
    BY <1>1, <1>2

\* A live process goes back to the loop.
LEMMA BackToLoopInv ==
    ASSUME RunnerInv, NEW r \in Runner, proc[r].pc # "down", NEW n \in Nat,
           proc' = [proc EXCEPT ![r] =
                       [proc[r] EXCEPT !.pc = "idle", !.round = n]],
           UNCHANGED <<disk, inbox, subscribed, deliveries, faults>>
    PROVE  RunnerInv'
  <1> DEFINE p == [proc[r] EXCEPT !.pc = "idle", !.round = n]
  <1>1. proc[r] \in Process /\ Consistent(proc[r], disk[r])
    BY ProcessTypes
  <1>2. p \in Process
    BY <1>1 DEF Process, PC
  <1>3. Consistent(p, disk[r])
    BY <1>1 DEF Consistent, Process
  <1> HIDE DEF p
  <1>4. QED
    BY <1>2, <1>3, QuietStep DEF RunnerInv, RunnerTypeOK, p

\* After a poll the daemon flushes a full batch or goes back to the loop.
LEMMA PollDoneInv ==
    ASSUME RunnerInv, NEW r \in Runner, PollDone(r) PROVE RunnerInv'
  <1>1. CASE Len(proc[r].pending) >= BatchSize /\ proc[r].pending # <<>>
    BY <1>1, BeginFlushInv DEF PollDone
  <1>2. CASE ~(Len(proc[r].pending) >= BatchSize /\ proc[r].pending # <<>>)
    <2> DEFINE p == [proc[r] EXCEPT !.pc = "idle"]
    <2>1. proc[r] \in Process /\ Consistent(proc[r], disk[r])
      BY ProcessTypes
    <2>2. p \in Process
      BY <2>1 DEF Process, PC
    <2>3. Consistent(p, disk[r])
      BY <2>1 DEF Consistent, Process, PollDone
    <2>4. proc' = [proc EXCEPT ![r] = p]
      BY <1>2 DEF PollDone
    <2> HIDE DEF p
    <2>5. QED
      BY <2>2, <2>3, <2>4, QuietStep DEF PollDone, RunnerInv, RunnerTypeOK
  <1>3. QED
    BY <1>1, <1>2

\* After a round `anchor` polls again or begins its only flush.
LEMMA RoundDoneInv ==
    ASSUME RunnerInv, NEW r \in Runner, RoundDone(r) PROVE RunnerInv'
  <1> DEFINE Over == \/ ~proc[r].took /\ proc[r].round > 0
                     \/ proc[r].round + 1 = Rounds
  <1>1. CASE Over
    BY <1>1, FinishInv DEF RoundDone
  <1>2. CASE ~Over
    <2>1. proc[r].round + 1 \in Nat
      BY ProcessTypes DEF Process
    <2>2. QED
      BY <1>2, <2>1, BackToLoopInv DEF RoundDone
  <1>3. QED
    BY <1>1, <1>2

\* The flush interval begins a flush.
LEMMA FlushTickInv ==
    ASSUME RunnerInv, NEW r \in Runner, FlushTick(r) PROVE RunnerInv'
  BY BeginFlushInv DEF FlushTick

\* Ctrl-C begins the last flush or ends the process.
LEMMA ShutdownInv ==
    ASSUME RunnerInv, NEW r \in Runner, Shutdown(r) PROVE RunnerInv'
  BY FinishInv DEF Shutdown

\* The receipt adds the pending CIDs to the in-memory checkpoint.
LEMMA RecordBatchInv ==
    ASSUME RunnerInv, NEW r \in Runner, NEW tx \in Nat, NEW n \in Nat,
           RecordBatch(r, tx, n)
    PROVE  RunnerInv'
  <1> DEFINE mem == [anchored |-> proc[r].mem.anchored \cup PendingCids(r),
                     committed |-> proc[r].mem.committed + 1,
                     lastTx |-> tx]
             st == [proc[r].stats EXCEPT !.anchored = @ + n, !.batches = @ + 1]
             p == [proc[r] EXCEPT !.pc = "saving", !.mem = mem, !.stats = st]
  <1>1. /\ proc[r] \in Process /\ disk[r] \in Checkpoint
        /\ proc[r].mem \in Checkpoint /\ proc[r].stats \in Stats
        /\ Consistent(proc[r], disk[r]) /\ proc[r].pc = "anchoring"
    BY ProcessTypes DEF Process, RecordBatch
  <1>2. PendingCids(r) \subseteq Cid
    BY <1>1, CidsOfType DEF PendingCids, Process
  <1>3. mem \in Checkpoint
    BY <1>1, <1>2 DEF Checkpoint
  <1>4. st \in Stats
    <2>1. /\ proc[r].stats.anchored + n \in Nat
          /\ proc[r].stats.batches + 1 \in Nat
      BY <1>1 DEF Stats
    <2>2. QED
      BY <1>1, <2>1 DEF Stats
  <1>5. proc' = [proc EXCEPT ![r] = p]
    BY DEF RecordBatch
  <1>6. mem.anchored = proc[r].mem.anchored \cup PendingCids(r)
        /\ mem.committed = proc[r].mem.committed + 1
    OBVIOUS
  <1> HIDE DEF mem, st
  <1>7. p \in Process
    BY <1>1, <1>3, <1>4 DEF Process, PC
  <1>8. /\ p.pc = "saving" /\ p.pending = proc[r].pending /\ p.mem = mem
        /\ p.dedup = proc[r].dedup
    BY <1>1 DEF Process
  <1>9. disk[r].committed <= mem.committed
    BY <1>1, <1>6 DEF Consistent, Checkpoint
  <1> HIDE DEF p
  <1>10. Consistent(p, disk[r])
    BY <1>1, <1>6, <1>8, <1>9 DEF Consistent, PendingCids
  <1>11. QED
    BY <1>5, <1>7, <1>10, QuietStep DEF RecordBatch, RunnerInv, RunnerTypeOK

\* A failed flush retains what is pending.
LEMMA FlushErrInv ==
    ASSUME RunnerInv, NEW r \in Runner, FlushErr(r) PROVE RunnerInv'
  <1>1. /\ AfterFlush(proc[r]) \in Process
        /\ Consistent(AfterFlush(proc[r]), disk[r])
    BY ProcessTypes, AfterFlushConsistent DEF FlushErr
  <1>2. faults' \in 0..MaxFaults
    BY FaultType DEF FlushErr, RunnerInv, RunnerTypeOK
  <1>3. QED
    BY <1>1, <1>2, QuietStep DEF FlushErr

\* A failed save retains what is pending and leaves the file alone.
LEMMA SaveErrInv ==
    ASSUME RunnerInv, NEW r \in Runner, SaveErr(r) PROVE RunnerInv'
  <1>1. /\ AfterFlush(proc[r]) \in Process
        /\ Consistent(AfterFlush(proc[r]), disk[r])
    BY ProcessTypes, AfterFlushConsistent DEF SaveErr
  <1>2. faults' \in 0..MaxFaults
    BY FaultType DEF SaveErr, RunnerInv, RunnerTypeOK
  <1>3. QED
    BY <1>1, <1>2, QuietStep DEF SaveErr

\* A save clears what is pending as the file takes its CIDs.
LEMMA SaveInv ==
    ASSUME RunnerInv, NEW r \in Runner, Save(r) PROVE RunnerInv'
  <1> DEFINE q == [proc[r] EXCEPT !.pending = <<>>]
  <1>1. /\ proc[r] \in Process /\ proc[r].mem \in Checkpoint
        /\ Consistent(proc[r], disk[r]) /\ proc[r].pc = "saving"
    BY ProcessTypes DEF Process, Save
  <1>2. q \in Process
    <2>1. <<>> \in Seq(AnchorEntry)
      OBVIOUS
    <2>2. QED
      BY <1>1, <2>1 DEF Process
  <1>3. /\ q.pc = "saving" /\ q.pending = <<>> /\ q.mem = proc[r].mem
        /\ q.dedup = proc[r].dedup
    BY <1>1 DEF Process
  <1>4. proc[r].mem.committed <= proc[r].mem.committed
    BY <1>1 DEF Checkpoint
  <1>5. proc[r].dedup = proc[r].mem.anchored
    BY <1>1 DEF Consistent
  <1> HIDE DEF q
  <1>6. Consistent(q, proc[r].mem)
    BY <1>3, <1>4, <1>5, CidsOfEmpty DEF Consistent, Distinct
  <1>7. AfterFlush(q) \in Process /\ Consistent(AfterFlush(q), proc[r].mem)
    BY <1>1, <1>2, <1>3, <1>6, AfterFlushConsistent
  <1>8. QED
    BY <1>1, <1>7, OneProcess DEF Save, RunnerInv, RunnerTypeOK, q

\* A crash leaves the checkpoint file alone.
LEMMA CrashInv ==
    ASSUME RunnerInv, NEW r \in Runner, Crash(r) PROVE RunnerInv'
  BY ExitInv, FaultType DEF Crash, RunnerInv, RunnerTypeOK

\* A failed subscribe ends the process.
LEMMA SubscribeErrInv ==
    ASSUME RunnerInv, NEW r \in Runner, SubscribeErr(r) PROVE RunnerInv'
  BY ExitInv, FaultType DEF SubscribeErr, RunnerInv, RunnerTypeOK

\* A delivery changes an inbox only.
LEMMA DeliverInv ==
    ASSUME RunnerInv, NEW r \in Runner, NEW m \in Message, Deliver(r, m)
    PROVE  RunnerInv'
  <1>1. inbox' \in [Runner -> Seq(Message)]
    BY DEF Deliver, RunnerInv, RunnerTypeOK
  <1>2. deliveries' \in 0..MaxDeliveries
    BY RunnerAssumption DEF Deliver, RunnerInv, RunnerTypeOK
  <1>3. QED
    BY <1>1, <1>2 DEF Deliver, RunnerInv, RunnerTypeOK

\* A restart of the node concerns no process and no file.
LEMMA NodeRestartInv ==
    ASSUME RunnerInv, NEW r \in Runner, NodeRestart(r) PROVE RunnerInv'
  <1>1. inbox' \in [Runner -> Seq(Message)]
    BY DEF NodeRestart, RunnerInv, RunnerTypeOK
  <1>2. QED
    BY <1>1, FaultType DEF NodeRestart, RunnerInv, RunnerTypeOK

-----------------------------------------------------------------------------

\* Every step of a runner and its environment preserves the invariant.
LEMMA RunnerStepInv ==
    ASSUME RunnerInv, NEW r \in Runner, RunnerStep(r) PROVE RunnerInv'
  BY LoadInv, SubscribeInv, SubscribeErrInv, PollInv, PollErrInv,
     DropInvalidInv, DropDuplicateInv, AcceptInv, PollDoneInv, RoundDoneInv,
     FlushTickInv, ShutdownInv, SaveInv, SaveErrInv, CrashInv, DeliverInv,
     NodeRestartInv
     DEF RunnerStep

-----------------------------------------------------------------------------
(* The invariants and action properties of BatchAnchorRunner *)

\* The invariant contains the properties the runs check.
LEMMA RunnerInvImplies ==
    RunnerInv => NothingSwallowed /\ NeverResubmitted /\ BatchesDistinct
  BY DEF RunnerInv, Consistent, Distinct, NothingSwallowed, NeverResubmitted,
         BatchesDistinct, PendingCids

\* Whatever a runner does on its own, its memory and its file come from the
\* two: loaded, saved, or reset.
LEMMA CheckpointSources ==
    ASSUME RunnerInv, NEW r \in Runner, RunnerStep(r) \/ FlushErr(r),
           NEW q \in Runner
    PROVE  /\ disk'[q].anchored \in {disk[q].anchored, proc[q].mem.anchored}
           /\ proc'[q].mem.anchored \in
                 {disk[q].anchored, proc[q].mem.anchored, {}}
  <1>1. /\ proc \in [Runner -> Process] /\ disk \in [Runner -> Checkpoint]
        /\ proc[r] \in Process
    BY ProcessTypes
  <1>2. Fresh.mem.anchored = {} /\ AfterFlush(proc[r]).mem.anchored \in
            {proc[r].mem.anchored, {}}
    BY <1>1 DEF Fresh, NoCheckpoint, AfterFlush, Process
  <1>3. CASE Load(r)
    BY <1>1, <1>3 DEF Load, Fresh
  <1>4. CASE Subscribe(r) \/ Poll(r)
    <2>1. disk' = disk
      BY <1>4 DEF Subscribe, Poll
    <2>2. ASSUME q # r PROVE proc'[q] = proc[q]
      BY <1>1, <1>4, <2>2 DEF Subscribe, Poll
    <2>3. proc'[r].mem.anchored \in {proc[r].mem.anchored, {}}
      <3>1. CASE Subscribe(r)
        BY <1>1, <3>1 DEF Subscribe, Process
      <3>2. CASE Poll(r)
        BY <1>1, <3>2 DEF Poll, Process
      <3>3. QED
        BY <1>4, <3>1, <3>2
    <2>4. QED
      BY <2>1, <2>2, <2>3
  <1>5. CASE SubscribeErr(r) \/ PollErr(r) \/ Crash(r)
    BY <1>1, <1>2, <1>5 DEF SubscribeErr, PollErr, Crash
  <1>6. CASE DropInvalid(r) \/ DropDuplicate(r) \/ Accept(r)
    <2>1. disk' = disk
      BY <1>6 DEF DropInvalid, DropDuplicate, Accept
    <2>2. ASSUME q # r PROVE proc'[q] = proc[q]
      BY <1>1, <1>6, <2>2 DEF DropInvalid, DropDuplicate, Accept
    <2>3. proc'[r].mem.anchored \in {proc[r].mem.anchored, {}}
      BY <1>1, <1>2, <1>6 DEF DropInvalid, DropDuplicate, Accept, Process
    <2>4. QED
      BY <2>1, <2>2, <2>3
  <1>7. CASE PollDone(r) \/ RoundDone(r) \/ FlushTick(r) \/ Shutdown(r)
    <2>1. disk' = disk
      BY <1>7 DEF PollDone, RoundDone, FlushTick, Shutdown
    <2>2. ASSUME q # r PROVE proc'[q] = proc[q]
      BY <1>1, <1>7, <2>2 DEF PollDone, RoundDone, FlushTick, Shutdown, Finish, FlushState
    <2>3. proc'[r].mem.anchored \in {proc[r].mem.anchored, {}}
      <3>1. ASSUME NEW ts \in Time, NEW last \in BOOLEAN,
                   proc' = [proc EXCEPT ![r] = FlushState(proc[r], ts, last)]
            PROVE  proc'[r].mem = proc[r].mem
        BY <1>1, <3>1 DEF FlushState, Process
      <3>2. ASSUME Finish(r)
            PROVE  proc'[r].mem.anchored \in {proc[r].mem.anchored, {}}
        <4>1. CASE proc[r].pending = <<>>
          BY <1>1, <1>2, <3>2, <4>1 DEF Finish
        <4>2. CASE proc[r].pending # <<>>
          BY <3>1, <3>2, <4>2 DEF Finish
        <4>3. QED
          BY <4>1, <4>2
      <3>3. CASE PollDone(r)
        <4>1. CASE proc' = [proc EXCEPT ![r].pc = "idle"]
          BY <1>1, <4>1 DEF Process
        <4>2. CASE proc' # [proc EXCEPT ![r].pc = "idle"]
          BY <3>1, <3>3, <4>2 DEF PollDone
        <4>3. QED
          BY <4>1, <4>2
      <3>4. CASE RoundDone(r)
        BY <1>1, <3>2, <3>4 DEF RoundDone, Process
      <3>5. CASE FlushTick(r)
        BY <1>1, <3>1, <3>5 DEF FlushTick
      <3>6. CASE Shutdown(r)
        BY <3>2, <3>6 DEF Shutdown
      <3>7. QED
        BY <1>7, <3>3, <3>4, <3>5, <3>6
    <2>4. QED
      BY <2>1, <2>2, <2>3
  <1>8. CASE SaveErr(r) \/ FlushErr(r)
    BY <1>1, <1>2, <1>8 DEF SaveErr, FlushErr
  <1>9. CASE Save(r)
    <2> DEFINE p == [proc[r] EXCEPT !.pending = <<>>]
    <2>1. AfterFlush(p).mem.anchored \in {proc[r].mem.anchored, {}}
      BY <1>1 DEF AfterFlush, Fresh, NoCheckpoint, Process
    <2> HIDE DEF p
    <2>2. QED
      BY <1>1, <1>9, <2>1 DEF Save, p
  <1>10. CASE NodeRestart(r) \/ \E m \in Message : Deliver(r, m)
    BY <1>1, <1>10 DEF Deliver, NodeRestart
  <1>11. QED
    BY <1>3, <1>4, <1>5, <1>6, <1>7, <1>8, <1>9, <1>10 DEF RunnerStep

\* When the registry answers, the memory gains the CIDs of the batch and no
\* other, and no file changes.
LEMMA RecordBatchSources ==
    ASSUME RunnerInv, NEW r \in Runner, NEW tx, NEW n, RecordBatch(r, tx, n),
           NEW q \in Runner
    PROVE  /\ disk' = disk
           /\ proc'[q].mem.anchored \subseteq proc[q].mem.anchored \cup PendingCids(r)
  <1>1. proc \in [Runner -> Process] /\ proc[r] \in Process
    BY ProcessTypes
  <1>2. CASE q = r
    <2>1. proc'[r].mem.anchored = proc[r].mem.anchored \cup PendingCids(r)
      BY <1>1 DEF RecordBatch, Process
    <2>2. QED
      BY <1>2, <2>1 DEF RecordBatch
  <1>3. CASE q # r
    BY <1>1, <1>3 DEF RecordBatch
  <1>4. QED
    BY <1>2, <1>3

\* Only Save writes a checkpoint file, with one that extends it.
LEMMA CheckpointGrowsStep ==
    ASSUME RunnerInv, NEW r \in Runner, RunnerStep(r), NEW q \in Runner
    PROVE  /\ disk[q].anchored \subseteq disk'[q].anchored
           /\ disk[q].committed <= disk'[q].committed
  <1>1. /\ disk \in [Runner -> Checkpoint] /\ disk[q] \in Checkpoint
        /\ disk[q].committed <= disk[q].committed
    BY ProcessTypes DEF Checkpoint
  <1>2. CASE Save(r)
    <2>1. /\ disk[r].anchored \subseteq proc[r].mem.anchored
          /\ disk[r].committed <= proc[r].mem.committed
      BY <1>2, ProcessTypes DEF Save, Consistent
    <2>2. QED
      BY <1>1, <1>2, <2>1 DEF Save
  <1>3. CASE ~Save(r)
    <2>1. disk' = disk
      BY <1>3 DEF RunnerStep, Load, Subscribe, SubscribeErr, Poll, PollErr,
           DropInvalid, DropDuplicate, Accept, PollDone, RoundDone, FlushTick,
           Shutdown, SaveErr, Crash, NodeRestart, Deliver
    <2>2. QED
      BY <1>1, <2>1
  <1>4. QED
    BY <1>2, <1>3

\* Whatever a step does, what a process has pending stays pending, or its file
\* has it, or the process has ended.
LEMMA PendingSources ==
    ASSUME RunnerInv, NEW r \in Runner, NEW tx, NEW n,
           RunnerStep(r) \/ FlushErr(r) \/ RecordBatch(r, tx, n),
           NEW q \in Runner, proc'[q].pc # "down"
    PROVE  PendingCids(q) \subseteq PendingCids(q)' \cup disk'[q].anchored
  <1> DEFINE Keeps == PendingCids(q) \subseteq PendingCids(q)' \cup disk'[q].anchored
  <1>1. /\ proc \in [Runner -> Process] /\ disk \in [Runner -> Checkpoint]
        /\ proc[r] \in Process /\ Consistent(proc[r], disk[r])
        /\ Fresh.pc = "down"
    BY ProcessTypes DEF Fresh
  <1>2. ASSUME proc'[q].pending = proc[q].pending PROVE Keeps
    BY <1>2 DEF PendingCids
  <1>3. CASE Load(r)
    <2>1. CASE q = r
      BY <1>1, <1>3, <2>1, CidsOfEmpty DEF Load, Consistent, PendingCids
    <2>2. CASE q # r
      BY <1>1, <1>2, <1>3, <2>2 DEF Load
    <2>3. QED
      BY <2>1, <2>2
  <1>4. CASE Subscribe(r)
    BY <1>1, <1>2, <1>4 DEF Subscribe, Process
  <1>5. CASE Poll(r)
    BY <1>1, <1>2, <1>5 DEF Poll, Process
  <1>6. CASE SubscribeErr(r) \/ PollErr(r) \/ Crash(r)
    <2>1. proc' = proc \/ proc' = [proc EXCEPT ![r] = Fresh]
      BY <1>6 DEF SubscribeErr, PollErr, Crash
    <2>2. q # r \/ proc' = proc
      BY <1>1, <2>1
    <2>3. QED
      BY <1>1, <1>2, <2>1, <2>2
  <1>7. CASE DropInvalid(r) \/ DropDuplicate(r)
    <2>1. proc'[r].pending = proc[r].pending
      BY <1>1, <1>7 DEF DropInvalid, DropDuplicate, Process
    <2>2. q # r => proc'[q] = proc[q]
      BY <1>1, <1>7 DEF DropInvalid, DropDuplicate
    <2>3. QED
      BY <1>2, <2>1, <2>2
  <1>8. CASE Accept(r)
    <2> DEFINE m == Head(proc[r].drained)
    <2>1. CASE q = r
      <3>1. proc[r].pending \in Seq(AnchorEntry) /\ m \in AnchorEntry
        BY <1>1, <1>8 DEF Accept, Process
      <3>2. proc'[r].pending = Append(proc[r].pending, m)
        BY <1>1, <1>8 DEF Accept, Process
      <3> HIDE DEF m
      <3>3. QED
        BY <2>1, <3>1, <3>2, CidsOfAppend DEF PendingCids
    <2>2. CASE q # r
      BY <1>1, <1>2, <1>8, <2>2 DEF Accept
    <2>3. QED
      BY <2>1, <2>2
  <1>9. ASSUME NEW ts \in Time, NEW last \in BOOLEAN,
               proc' = [proc EXCEPT ![r] = FlushState(proc[r], ts, last)]
        PROVE  Keeps
    BY <1>1, <1>2, <1>9 DEF FlushState, Process
  <1>10. ASSUME Finish(r) PROVE Keeps
    <2>1. CASE proc[r].pending = <<>>
      BY <1>1, <1>2, <1>10, <2>1 DEF Finish
    <2>2. CASE proc[r].pending # <<>>
      BY <1>9, <1>10, <2>2 DEF Finish
    <2>3. QED
      BY <2>1, <2>2
  <1>11. CASE PollDone(r)
    <2>1. CASE proc' = [proc EXCEPT ![r].pc = "idle"]
      BY <1>1, <1>2, <2>1 DEF Process
    <2>2. CASE proc' # [proc EXCEPT ![r].pc = "idle"]
      BY <1>9, <1>11, <2>2 DEF PollDone
    <2>3. QED
      BY <2>1, <2>2
  <1>12. CASE RoundDone(r)
    <2>1. CASE Finish(r)
      BY <1>10, <2>1
    <2>2. CASE ~Finish(r)
      <3>1. proc' = [proc EXCEPT ![r] = [proc[r] EXCEPT !.pc = "idle", !.round = @ + 1]]
        BY <1>12, <2>2 DEF RoundDone
      <3>2. QED
        BY <1>1, <1>2, <3>1 DEF Process
    <2>3. QED
      BY <2>1, <2>2
  <1>13. CASE FlushTick(r)
    BY <1>9, <1>13 DEF FlushTick
  <1>14. CASE Shutdown(r)
    BY <1>10, <1>14 DEF Shutdown
  <1>15. ASSUME NEW p, p.pending = proc[r].pending, p \in Process,
                proc' = [proc EXCEPT ![r] = AfterFlush(p)]
         PROVE  Keeps
    <2>1. CASE q = r /\ p.stopping
      BY <1>1, <1>15, <2>1 DEF AfterFlush
    <2>2. CASE q = r /\ ~p.stopping
      BY <1>1, <1>2, <1>15, <2>2 DEF AfterFlush, Process
    <2>3. CASE q # r
      BY <1>1, <1>2, <1>15, <2>3
    <2>4. QED
      BY <2>1, <2>2, <2>3
  <1>16. CASE SaveErr(r) \/ FlushErr(r)
    BY <1>1, <1>15, <1>16 DEF SaveErr, FlushErr
  <1>17. CASE Save(r)
    <2>1. CASE q = r
      <3>1. disk'[q].anchored = proc[r].mem.anchored
        BY <1>1, <1>17, <2>1 DEF Save
      <3>2. CidsOf(proc[r].pending) \subseteq proc[r].mem.anchored
        BY <1>1, <1>17 DEF Save, Consistent
      <3>3. QED
        BY <2>1, <3>1, <3>2 DEF PendingCids
    <2>2. CASE q # r
      BY <1>1, <1>2, <1>17, <2>2 DEF Save
    <2>3. QED
      BY <2>1, <2>2
  <1>18. CASE RecordBatch(r, tx, n)
    BY <1>1, <1>2, <1>18 DEF RecordBatch, Process
  <1>19. CASE NodeRestart(r) \/ \E m \in Message : Deliver(r, m)
    BY <1>2, <1>19 DEF NodeRestart, Deliver
  <1>20. QED
    BY <1>3, <1>4, <1>5, <1>6, <1>7, <1>8, <1>11, <1>12, <1>13, <1>14,
       <1>16, <1>17, <1>18, <1>19 DEF RunnerStep

\* Only a receipt raises the count of anchored CIDs; the end of a process resets
\* it.
LEMMA AnchoredSources ==
    ASSUME RunnerInv, NEW r \in Runner, RunnerStep(r) \/ FlushErr(r),
           NEW q \in Runner
    PROVE  \/ proc'[q].stats.anchored = proc[q].stats.anchored
           \/ proc'[q].stats.anchored = 0
  <1> DEFINE Keeps == proc'[q].stats.anchored \in {proc[q].stats.anchored, 0}
  <1>1. /\ proc \in [Runner -> Process] /\ proc[r] \in Process
        /\ proc[r].stats \in Stats /\ Fresh.stats.anchored = 0
    BY ProcessTypes DEF Fresh, NoStats, Process
  <1>2. ASSUME NEW p, p.stats.anchored \in {proc[r].stats.anchored, 0},
               proc' = [proc EXCEPT ![r] = p]
        PROVE  Keeps
    <2>1. CASE q = r
      BY <1>1, <1>2, <2>1
    <2>2. CASE q # r
      BY <1>1, <1>2, <2>2
    <2>3. QED
      BY <2>1, <2>2
  <1>3. CASE proc' = proc
    BY <1>3
  <1>4. CASE proc' = [proc EXCEPT ![r] = Fresh]
    BY <1>1, <1>2, <1>4
  <1>5. ASSUME NEW p \in Process, p.stats = proc[r].stats,
               proc' = [proc EXCEPT ![r] = AfterFlush(p)]
        PROVE  Keeps
    <2>1. AfterFlush(p).stats.anchored \in {proc[r].stats.anchored, 0}
      <3>1. CASE p.stopping
        BY <1>1, <3>1 DEF AfterFlush
      <3>2. CASE ~p.stopping
        BY <1>5, <3>2 DEF AfterFlush, Process
      <3>3. QED
        BY <3>1, <3>2
    <2>2. QED
      BY <1>2, <1>5, <2>1
  <1>6. ASSUME NEW ts \in Time, NEW last \in BOOLEAN,
               proc' = [proc EXCEPT ![r] = FlushState(proc[r], ts, last)]
        PROVE  Keeps
    <2>1. FlushState(proc[r], ts, last).stats = proc[r].stats
      BY <1>1 DEF FlushState, Process
    <2>2. QED
      BY <1>2, <1>6, <2>1
  <1>7. CASE Load(r)
    <2>1. [Fresh EXCEPT !.pc = "subscribing", !.mem = disk[r],
                        !.dedup = disk[r].anchored].stats.anchored = 0
      BY DEF Fresh, NoStats
    <2>2. QED
      BY <1>2, <1>7, <2>1 DEF Load
  <1>8. ASSUME proc' = [proc EXCEPT ![r].pc = "idle"] PROVE Keeps
    <2>1. proc'[r].stats = proc[r].stats
      BY <1>1, <1>8 DEF Process
    <2>2. q # r => proc'[q] = proc[q]
      BY <1>1, <1>8
    <2>3. QED
      BY <2>1, <2>2
  <1>9. CASE Poll(r)
    <2>1. proc'[r].stats = proc[r].stats
      BY <1>1, <1>9 DEF Poll, Process
    <2>2. q # r => proc'[q] = proc[q]
      BY <1>1, <1>9 DEF Poll
    <2>3. QED
      BY <2>1, <2>2
  <1>10. CASE DropInvalid(r) \/ DropDuplicate(r) \/ Accept(r)
    <2>1. proc'[r].stats.anchored = proc[r].stats.anchored
      <3> DEFINE st == proc[r].stats
                 st1 == [st EXCEPT !.received = @ + 1, !.invalid = @ + 1]
                 st2 == [st EXCEPT !.received = @ + 1, !.duplicates = @ + 1]
                 st3 == [st EXCEPT !.received = @ + 1, !.accepted = @ + 1]
      <3>1. /\ st1.anchored = st.anchored /\ st2.anchored = st.anchored
            /\ st3.anchored = st.anchored
        BY <1>1 DEF Stats
      <3> HIDE DEF st1, st2, st3
      <3>2. CASE DropInvalid(r)
        <4>1. proc' = [proc EXCEPT ![r] =
                          [proc[r] EXCEPT !.drained = Tail(@), !.stats = st1]]
          BY <3>2 DEF DropInvalid, st1
        <4>2. QED
          BY <1>1, <3>1, <4>1 DEF Process
      <3>3. CASE DropDuplicate(r)
        <4>1. proc' = [proc EXCEPT ![r] =
                          [proc[r] EXCEPT !.drained = Tail(@), !.stats = st2]]
          BY <3>3 DEF DropDuplicate, st2
        <4>2. QED
          BY <1>1, <3>1, <4>1 DEF Process
      <3>4. CASE Accept(r)
        <4>1. proc'[r].stats = st3
          BY <1>1, <3>4 DEF Accept, Process, st3
        <4>2. QED
          BY <3>1, <4>1
      <3>5. QED
        BY <1>10, <3>2, <3>3, <3>4
    <2>2. q # r => proc'[q] = proc[q]
      BY <1>1, <1>10 DEF DropInvalid, DropDuplicate, Accept
    <2>3. QED
      BY <2>1, <2>2
  <1>11. ASSUME Finish(r) PROVE Keeps
    BY <1>4, <1>6, <1>11 DEF Finish
  <1>12. CASE PollDone(r)
    BY <1>6, <1>8, <1>12 DEF PollDone
  <1>13. CASE RoundDone(r)
    <2>1. CASE Finish(r)
      BY <1>11, <2>1
    <2>2. CASE ~Finish(r)
      <3>1. proc' = [proc EXCEPT ![r] = [proc[r] EXCEPT !.pc = "idle", !.round = @ + 1]]
        BY <1>13, <2>2 DEF RoundDone
      <3>2. [proc[r] EXCEPT !.pc = "idle", !.round = @ + 1].stats = proc[r].stats
        BY <1>1 DEF Process
      <3>3. QED
        BY <1>2, <3>1, <3>2
    <2>3. QED
      BY <2>1, <2>2
  <1>14. CASE FlushTick(r) \/ Shutdown(r)
    BY <1>6, <1>11, <1>14 DEF FlushTick, Shutdown
  <1>15. CASE Save(r)
    <2> DEFINE p == [proc[r] EXCEPT !.pending = <<>>]
    <2>0. <<>> \in Seq(AnchorEntry)
      OBVIOUS
    <2>1. p \in Process /\ p.stats = proc[r].stats
      BY <1>1, <2>0 DEF Process
    <2>2. proc' = [proc EXCEPT ![r] = AfterFlush(p)]
      BY <1>15 DEF Save
    <2> HIDE DEF p
    <2>3. QED
      BY <1>5, <2>1, <2>2
  <1>16. CASE SaveErr(r) \/ FlushErr(r)
    BY <1>1, <1>5, <1>16 DEF SaveErr, FlushErr
  <1>17. CASE SubscribeErr(r) \/ PollErr(r) \/ Crash(r)
    BY <1>3, <1>4, <1>17 DEF SubscribeErr, PollErr, Crash
  <1>18. CASE NodeRestart(r) \/ \E m \in Message : Deliver(r, m)
    BY <1>3, <1>18 DEF NodeRestart, Deliver
  <1>19. CASE Subscribe(r)
    BY <1>8, <1>19 DEF Subscribe
  <1>20. QED
    BY <1>7, <1>9, <1>10, <1>12, <1>13, <1>14, <1>15, <1>16, <1>17, <1>18, <1>19
       DEF RunnerStep

=============================================================================
