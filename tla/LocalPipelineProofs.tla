------------------------ MODULE LocalPipelineProofs ------------------------
(***************************************************************************)
(* Theorems about LocalPipeline, for any sets of runners, daemons, CIDs    *)
(* and hashes, any batch size and any bounds.                              *)
(***************************************************************************)
EXTENDS LocalPipeline, BatchAnchorRunnerProofs

\* The inductive invariant: the runners' own, and what the atomic registry
\* adds to it.
PipelineInv ==
    /\ RunnerInv
    /\ records \in Tables
    /\ seq \in Nat
    /\ CheckpointSound

\* The initial states satisfy it.
LEMMA InitPipelineInv == Init => PipelineInv
  <1> SUFFICES ASSUME Init PROVE PipelineInv
    OBVIOUS
  <1>1. RunnerInv
    BY RunnerInitInv DEF Init
  <1>2. records \in Tables /\ seq \in Nat
    BY DEF Init, EmptyTable, Tables
  <1>3. CheckpointSound
    BY DEF Init, RunnerInit, CheckpointSound, Fresh, NoCheckpoint
  <1>4. QED
    BY <1>1, <1>2, <1>3 DEF PipelineInv

\* The registry answers: it holds the batch before the runner records it.
LEMMA AnchorPipelineInv ==
    ASSUME PipelineInv, NEW r \in Runner, Anchor(r)
    PROVE  PipelineInv'
  <1> DEFINE batch == proc[r].pending
  <1>1. /\ proc \in [Runner -> Process] /\ proc[r].pc = "anchoring"
        /\ batch \in Seq(AnchorEntry) /\ proc[r].ts \in Time
        /\ records \in Tables /\ seq \in Nat
    BY ProcessTypes DEF PipelineInv, Anchor, RecordBatch, Process, Consistent
  <1>2. RunnerInv'
    <2>1. Cardinality(NewlyAnchored(records, batch)) \in Nat /\ seq + 1 \in Nat
      BY <1>1, NewlyAnchoredCount
    <2>2. QED
      BY <2>1, RecordBatchInv DEF PipelineInv, Anchor
  <1>3. records' \in Tables /\ seq' \in Nat
    BY <1>1, MergeType DEF Anchor
  <1>4. Registered(records') = Registered(records) \cup PendingCids(r)
    BY <1>1, MergeRegistered DEF Anchor, PendingCids
  <1>5. CheckpointSound'
    <2> SUFFICES ASSUME NEW q \in Runner
                 PROVE  /\ disk'[q].anchored \subseteq Registered(records')
                        /\ proc'[q].mem.anchored \subseteq Registered(records')
      BY DEF CheckpointSound
    <2>1. /\ disk' = disk
          /\ proc'[q].mem.anchored \subseteq proc[q].mem.anchored \cup PendingCids(r)
      BY RecordBatchSources DEF Anchor, PipelineInv
    <2>2. QED
      BY <1>4, <2>1 DEF PipelineInv, CheckpointSound
  <1>6. QED
    BY <1>2, <1>3, <1>5 DEF PipelineInv

\* A step of a runner, or an error of the registry, leaves the table alone.
LEMMA RunnerPipelineInv ==
    ASSUME PipelineInv, NEW r \in Runner, Step(r) \/ AnchorErr(r)
    PROVE  PipelineInv'
  <1>1. RunnerInv'
    BY RunnerStepInv, FlushErrInv DEF PipelineInv, Step, AnchorErr
  <1>2. records' = records /\ seq' = seq
    BY DEF Step, AnchorErr
  <1>3. CheckpointSound'
    BY <1>2, CheckpointSources
       DEF PipelineInv, CheckpointSound, Step, AnchorErr
  <1>4. QED
    BY <1>1, <1>2, <1>3 DEF PipelineInv

\* Every step preserves it.
LEMMA NextPipelineInv == PipelineInv /\ [Next]_vars => PipelineInv'
  <1> SUFFICES ASSUME PipelineInv, [Next]_vars PROVE PipelineInv'
    OBVIOUS
  <1>1. CASE Next
    BY <1>1, AnchorPipelineInv, RunnerPipelineInv DEF Next
  <1>2. CASE UNCHANGED vars
    BY <1>2 DEF vars, PipelineInv, RunnerInv, RunnerTypeOK, Consistent,
         CheckpointSound
  <1>3. QED
    BY <1>1, <1>2

\* The inductive invariant holds in every reachable state.
THEOREM Invariant == Spec => []PipelineInv
  BY InitPipelineInv, NextPipelineInv, PTL DEF Spec

\* Every variable of the pipeline keeps its type.
THEOREM TypeCorrect == Spec => []TypeOK
  <1>1. PipelineInv => TypeOK
    BY DEF PipelineInv, RunnerInv, TypeOK
  <1>2. QED
    BY <1>1, Invariant, PTL

\* No checkpoint, in memory or on disk, names a CID the registry lacks.
THEOREM CheckpointsSound == Spec => []CheckpointSound
  <1>1. PipelineInv => CheckpointSound
    BY DEF PipelineInv
  <1>2. QED
    BY <1>1, Invariant, PTL

\* A live runner's dedup set is what it has pending or knows anchored.
THEOREM NoneSwallowed == Spec => []NothingSwallowed
  <1>1. PipelineInv => NothingSwallowed
    BY RunnerInvImplies DEF PipelineInv
  <1>2. QED
    BY <1>1, Invariant, PTL

\* What a checkpoint file names is never pending again.
THEOREM CheckpointedNotResubmitted == Spec => []NeverResubmitted
  <1>1. PipelineInv => NeverResubmitted
    BY RunnerInvImplies DEF PipelineInv
  <1>2. QED
    BY <1>1, Invariant, PTL

\* No batch ever holds two entries for one CID.
THEOREM BatchEntriesDistinct == Spec => []BatchesDistinct
  <1>1. PipelineInv => BatchesDistinct
    BY RunnerInvImplies DEF PipelineInv
  <1>2. QED
    BY <1>1, Invariant, PTL

\* A checkpoint file never loses a CID or a batch it counted.
THEOREM CheckpointsGrow == Spec => CheckpointGrows
  <1> DEFINE Grows == \A r \in Runner :
                 /\ disk[r].anchored \subseteq disk'[r].anchored
                 /\ disk[r].committed <= disk'[r].committed
  <1>1. PipelineInv /\ [Next]_vars => [Grows]_runnerVars
    <2> SUFFICES ASSUME PipelineInv, Next PROVE Grows
      BY DEF vars, runnerVars
    <2>1. PICK r \in Runner : Step(r) \/ Anchor(r) \/ AnchorErr(r)
      BY DEF Next
    <2>2. CASE Step(r)
      BY <2>2, CheckpointGrowsStep DEF PipelineInv, Step
    <2>3. CASE Anchor(r) \/ AnchorErr(r)
      <3>1. disk' = disk
        BY <2>3 DEF Anchor, RecordBatch, AnchorErr, FlushErr
      <3>2. \A q \in Runner : disk[q].committed <= disk[q].committed
        BY ProcessTypes DEF PipelineInv, Checkpoint
      <3>3. QED
        BY <3>1, <3>2
    <2>4. QED
      BY <2>1, <2>2, <2>3
  <1>2. QED
    BY <1>1, Invariant, PTL DEF Spec, CheckpointGrows

\* What a process has pending stays pending until its file takes it: failed
\* flushes and saves retain the whole list.
THEOREM NothingDropped == Spec => PendingRetained
  <1> DEFINE Retained == \A r \in Runner : proc'[r].pc # "down" =>
                 \A c \in PendingCids(r) :
                     c \in PendingCids(r)' \/ c \in disk'[r].anchored
  <1>1. PipelineInv /\ [Next]_vars => [Retained]_runnerVars
    <2> SUFFICES ASSUME PipelineInv, Next,
                        NEW q \in Runner, proc'[q].pc # "down"
                 PROVE  PendingCids(q) \subseteq PendingCids(q)' \cup disk'[q].anchored
      BY DEF vars, runnerVars
    <2>1. PICK r \in Runner : Step(r) \/ Anchor(r) \/ AnchorErr(r)
      BY DEF Next
    <2>2. RunnerStep(r) \/ FlushErr(r)
              \/ RecordBatch(r, seq + 1, Cardinality(NewlyAnchored(records, proc[r].pending)))
      BY <2>1 DEF Step, Anchor, AnchorErr
    <2>3. QED
      BY <2>2, PendingSources DEF PipelineInv
  <1>2. QED
    BY <1>1, Invariant, PTL DEF Spec, PendingRetained

\* What the counts rest on: they can be credited, and the registry holds
\* finitely many CIDs.
CountInv == IsFiniteSet(Registered(records)) /\ AnchoredCountedOnce

\* Nothing is registered or counted at the start.
LEMMA InitCountInv == Init => CountInv
  <1> SUFFICES ASSUME Init PROVE CountInv
    OBVIOUS
  <1> DEFINE credit == [r \in Runner |-> {}]
  <1>1. IsFiniteSet(Registered(records))
    BY FS_EmptySet DEF Init, Registered, EmptyTable
  <1>2. \A r \in Runner : proc[r].stats.anchored = 0
    BY DEF Init, RunnerInit, Fresh, NoStats
  <1>3. credit \in [Runner -> SUBSET Registered(records)]
    OBVIOUS
  <1>4. QED
    BY <1>1, <1>2, <1>3, FS_EmptySet DEF CountInv, AnchoredCountedOnce

\* A receipt is credited with CIDs that nobody had registered.
LEMMA AnchorCountInv ==
    ASSUME PipelineInv, CountInv, NEW r \in Runner, Anchor(r)
    PROVE  CountInv'
  <1> DEFINE batch == proc[r].pending
             S == NewlyAnchored(records, batch)
  <1>1. /\ proc \in [Runner -> Process] /\ proc[r] \in Process
        /\ batch \in Seq(AnchorEntry) /\ proc[r].ts \in Time
        /\ records \in Tables /\ proc[r].stats.anchored \in Nat
    BY ProcessTypes DEF PipelineInv, Anchor, RecordBatch, Process, Consistent, Stats
  <1>2. Registered(records') = Registered(records) \cup S
    BY <1>1, MergeRegistered DEF Anchor, NewlyAnchored
  <1>3. S \cap Registered(records) = {}
    BY DEF NewlyAnchored
  <1>4. IsFiniteSet(S)
    BY <1>1, CidsOfFinite, FS_Subset DEF NewlyAnchored
  <1>5. IsFiniteSet(Registered(records'))
    BY <1>2, <1>4, FS_Union DEF CountInv
  <1>6. /\ proc'[r].stats.anchored = proc[r].stats.anchored + Cardinality(S)
        /\ \A q \in Runner \ {r} : proc'[q] = proc[q]
    <2> DEFINE n == Cardinality(S)
               new == [proc[r].stats EXCEPT !.anchored = @ + n, !.batches = @ + 1]
    <2>1. RecordBatch(r, seq + 1, n)
      BY DEF Anchor
    <2> HIDE DEF n
    <2>2. new.anchored = proc[r].stats.anchored + n
      BY <1>1 DEF Process, Stats
    <2>3. proc'[r].stats = new /\ \A q \in Runner \ {r} : proc'[q] = proc[q]
      BY <1>1, <2>1 DEF RecordBatch, Process
    <2> HIDE DEF new
    <2>4. QED
      BY <2>2, <2>3 DEF n
  <1>7. PICK credit \in [Runner -> SUBSET Registered(records)] :
            \A q \in Runner :
                /\ IsFiniteSet(credit[q])
                /\ proc[q].stats.anchored = Cardinality(credit[q])
                /\ \A v \in Runner \ {q} : credit[q] \cap credit[v] = {}
    BY DEF CountInv, AnchoredCountedOnce
  <1> HIDE DEF S
  <1> DEFINE credited == [credit EXCEPT ![r] = credit[r] \cup S]
  <1>8. credited \in [Runner -> SUBSET Registered(records')]
    BY <1>2
  <1>9. /\ IsFiniteSet(credit[r] \cup S)
        /\ Cardinality(credit[r] \cup S) = Cardinality(credit[r]) + Cardinality(S)
    <2>1. credit[r] \cap S = {}
      BY <1>3
    <2>2. QED
      BY <1>4, <1>7, <2>1, DisjointCount
  <1>10. ASSUME NEW q \in Runner
         PROVE  /\ IsFiniteSet(credited[q])
                /\ proc'[q].stats.anchored = Cardinality(credited[q])
                /\ \A v \in Runner \ {q} : credited[q] \cap credited[v] = {}
    <2>1. CASE q = r
      <3>1. credited[q] = credit[r] \cup S
        BY <2>1
      <3>2. \A v \in Runner \ {q} : credited[v] = credit[v]
        BY <2>1
      <3>3. QED
        BY <1>3, <1>6, <1>7, <1>9, <2>1, <3>1, <3>2
    <2>2. CASE q # r
      <3>1. credited[q] = credit[q] /\ credited[r] = credit[r] \cup S
        BY <2>2
      <3>2. \A v \in Runner \ {r} : credited[v] = credit[v]
        OBVIOUS
      <3>3. credit[q] \cap S = {}
        BY <1>3
      <3>4. QED
        BY <1>6, <1>7, <2>2, <3>1, <3>2, <3>3
    <2>3. QED
      BY <2>1, <2>2
  <1> HIDE DEF credited
  <1>11. AnchoredCountedOnce'
    BY <1>8, <1>10 DEF AnchoredCountedOnce
  <1>12. QED
    BY <1>5, <1>11 DEF CountInv

\* No other step raises a count; one that resets it gives its credit back.
LEMMA RunnerCountInv ==
    ASSUME PipelineInv, CountInv, NEW r \in Runner, Step(r) \/ AnchorErr(r)
    PROVE  CountInv'
  <1>1. records' = records
    BY DEF Step, AnchorErr
  <1>2. PICK credit \in [Runner -> SUBSET Registered(records)] :
            \A q \in Runner :
                /\ IsFiniteSet(credit[q])
                /\ proc[q].stats.anchored = Cardinality(credit[q])
                /\ \A v \in Runner \ {q} : credit[q] \cap credit[v] = {}
    BY DEF CountInv, AnchoredCountedOnce
  <1> DEFINE credited == [q \in Runner |->
                 IF proc'[q].stats.anchored = proc[q].stats.anchored
                 THEN credit[q] ELSE {}]
  <1>3. credited \in [Runner -> SUBSET Registered(records')]
    BY <1>1
  <1>4. ASSUME NEW q \in Runner
        PROVE  /\ IsFiniteSet(credited[q])
               /\ proc'[q].stats.anchored = Cardinality(credited[q])
    <2>1. \/ proc'[q].stats.anchored = proc[q].stats.anchored
          \/ proc'[q].stats.anchored = 0
      BY AnchoredSources DEF PipelineInv, Step, AnchorErr
    <2>2. CASE proc'[q].stats.anchored = proc[q].stats.anchored
      BY <1>2, <2>2
    <2>3. CASE proc'[q].stats.anchored # proc[q].stats.anchored
      BY <2>1, <2>3, FS_EmptySet
    <2>4. QED
      BY <2>2, <2>3
  <1>5. \A q \in Runner : \A v \in Runner \ {q} : credited[q] \cap credited[v] = {}
    BY <1>2
  <1> HIDE DEF credited
  <1>6. AnchoredCountedOnce'
    BY <1>3, <1>4, <1>5 DEF AnchoredCountedOnce
  <1>7. QED
    BY <1>1, <1>6 DEF CountInv

\* Live runners together count no CID twice, whoever races and retries.
THEOREM CountedOnce == Spec => []AnchoredCountedOnce
  <1>1. PipelineInv /\ CountInv /\ [Next]_vars => CountInv'
    <2> SUFFICES ASSUME PipelineInv, CountInv, [Next]_vars PROVE CountInv'
      OBVIOUS
    <2>1. CASE Next
      BY <2>1, AnchorCountInv, RunnerCountInv DEF Next
    <2>2. CASE UNCHANGED vars
      BY <2>2 DEF vars, CountInv, AnchoredCountedOnce
    <2>3. QED
      BY <2>1, <2>2
  <1>2. CountInv => AnchoredCountedOnce
    BY DEF CountInv
  <1>3. QED
    BY <1>1, <1>2, InitCountInv, Invariant, PTL DEF Spec

\* A batch the registry takes is a step of the promised registry.
LEMMA AnchorIsPromised ==
    ASSUME PipelineInv, NEW r \in Runner, Anchor(r)
    PROVE  Promised!AnchorBatch
  <1>1. /\ proc[r].pending \in Seq(AnchorEntry) /\ proc[r].ts \in Time
        /\ records \in Tables
    BY ProcessTypes DEF PipelineInv, Anchor, RecordBatch, Process, Consistent
  <1>2. Extends(records, records')
    BY <1>1, MergeExtends DEF Anchor
  <1>3. QED
    BY <1>2 DEF Extends, Promised!AnchorBatch, Promised!Registered, Registered

\* The pipeline implements the registry its clients rely on: every step is a
\* batch that leaves existing records alone, or leaves all of them alone.
THEOREM Refinement == Spec => ImplementsRegistry
  <1>1. Init => Promised!Init
    BY DEF Init, EmptyTable, Promised!Init, Promised!EmptyTable
  <1>2. PipelineInv /\ [Next]_vars => [Promised!Next]_records
    <2> SUFFICES ASSUME PipelineInv, Next PROVE [Promised!Next]_records
      BY DEF vars
    <2>1. PICK r \in Runner : Step(r) \/ Anchor(r) \/ AnchorErr(r)
      BY DEF Next
    <2>2. CASE Anchor(r)
      BY <2>2, AnchorIsPromised DEF Promised!Next
    <2>3. CASE Step(r) \/ AnchorErr(r)
      BY <2>3 DEF Step, AnchorErr
    <2>4. QED
      BY <2>1, <2>2, <2>3
  <1>3. QED
    BY <1>1, <1>2, Invariant, PTL DEF Spec, ImplementsRegistry, Promised!Spec

=============================================================================
