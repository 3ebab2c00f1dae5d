------------------------- MODULE LezPipelineProofs -------------------------
(***************************************************************************)
(* Theorems about RegistryProgram, for any clients: what they submit, with *)
(* which accounts and in which order, is arbitrary; and about LezPipeline, *)
(* for any runners, CIDs and hashes, with any number of failures, crashes  *)
(* and lost transactions: the invariants of the runners and of the         *)
(* program, and what ties them together although a runner has its receipt  *)
(* before the program has run.                                             *)
(***************************************************************************)
EXTENDS LezPipeline, BatchAnchorRunnerProofs

-----------------------------------------------------------------------------
(* The program, with any clients *)

\* anchor_one has one account and one entry.
Paired(tx) == tx.kind = "one" => Len(tx.records) = Len(tx.entries)

\* A transaction is queued once, and executed at most once.
ExecutedOnce ==
    /\ \A tx \in mempool \cup executed : tx.id < nextTx
    /\ mempool \cap executed = {}

\* The inductive invariant.
ProgramInv ==
    /\ ProgramTypeOK
    /\ \A tx \in mempool : Paired(tx)
    /\ ExecutedOnce
    /\ RecordAtItsPda
    /\ SequencedLands

\* The fields of a transaction.
LEMMA TransactionTypes ==
    ASSUME NEW tx \in Transaction
    PROVE  /\ tx.id \in Nat /\ tx.kind \in {"batch", "one"}
           /\ tx.records \in Seq(Address) /\ tx.entries \in Seq(AnchorEntry)
           /\ tx.ts \in Time
  BY DEF Transaction

\* A transaction that does not revert has one account for each entry, the PDA of
\* its CID.
LEMMA PairsMatch ==
    ASSUME NEW tx \in Transaction, Paired(tx), ~Reverts(tx)
    PROVE  /\ DOMAIN tx.records = DOMAIN tx.entries
           /\ \A i \in DOMAIN tx.records : /\ tx.entries[i] \in AnchorEntry
                                           /\ tx.records[i] = PdaOf[tx.entries[i].cid]
  <1>1. /\ tx.kind \in {"batch", "one"} /\ tx.records \in Seq(Address)
        /\ tx.entries \in Seq(AnchorEntry)
    BY TransactionTypes
  <1>2. Len(tx.records) = Len(tx.entries)
    BY <1>1 DEF Paired, Reverts
  <1>3. DOMAIN tx.records = DOMAIN tx.entries
    BY <1>1, <1>2
  <1>4. QED
    BY <1>1, <1>3 DEF Reverts

\* What it writes: records that were not there, each to the PDA of its own CID.
LEMMA WrittenRecords ==
    ASSUME accounts \in [Address -> Record \cup {NoRecord}],
           NEW tx \in Transaction, Paired(tx), ~Reverts(tx),
           NEW a \in Address, accounts[a] = NoRecord,
           NEW k \in DOMAIN tx.records, tx.records[k] = a
    PROVE  LET i == CHOOSE i \in DOMAIN tx.records : tx.records[i] = a
           IN  /\ i \in DOMAIN tx.entries /\ tx.entries[i] \in AnchorEntry
               /\ a = PdaOf[tx.entries[i].cid]
               /\ Written(tx)[a] = [cid |-> tx.entries[i].cid,
                                    hash |-> tx.entries[i].hash, ts |-> tx.ts]
               /\ Written(tx)[a] \in Record
               /\ Written(tx)[a] # NoRecord
  <1> DEFINE i == CHOOSE i \in DOMAIN tx.records : tx.records[i] = a
  <1>1. i \in DOMAIN tx.records /\ tx.records[i] = a
    OBVIOUS
  <1>2. Written(tx)[a] = [cid |-> tx.entries[i].cid, hash |-> tx.entries[i].hash,
                          ts |-> tx.ts]
    BY DEF Written
  <1> HIDE DEF i
  <1>3. i \in DOMAIN tx.entries /\ tx.entries[i] \in AnchorEntry /\ tx.ts \in Time
    BY <1>1, PairsMatch, TransactionTypes
  <1>4. Written(tx)[a] \in Record
    BY <1>2, <1>3 DEF Record, AnchorEntry
  <1>5. QED
    BY <1>1, <1>2, <1>3, <1>4, PairsMatch, NoRecordAssumption DEF i

\* An account with a record, or one that was not passed, stays as it is.
LEMMA WrittenElsewhere ==
    ASSUME NEW tx \in Transaction, NEW a \in Address,
           accounts[a] # NoRecord \/ ~\E i \in DOMAIN tx.records : tx.records[i] = a
    PROVE  Written(tx)[a] = accounts[a]
  BY DEF Written

\* Every account has its type after the transaction.
LEMMA WrittenType ==
    ASSUME accounts \in [Address -> Record \cup {NoRecord}],
           NEW tx \in Transaction, Paired(tx), ~Reverts(tx)
    PROVE  Written(tx) \in [Address -> Record \cup {NoRecord}]
  <1>1. ASSUME NEW a \in Address
        PROVE  Written(tx)[a] \in Record \cup {NoRecord}
    <2>1. CASE accounts[a] = NoRecord /\ \E i \in DOMAIN tx.records : tx.records[i] = a
      BY <2>1, WrittenRecords
    <2>2. CASE accounts[a] # NoRecord \/ ~\E i \in DOMAIN tx.records : tx.records[i] = a
      BY <2>2, WrittenElsewhere
    <2>3. QED
      BY <2>1, <2>2
  <1>2. Written(tx) = [a \in Address |-> Written(tx)[a]]
    BY DEF Written
  <1>3. QED
    BY <1>1, <1>2

\* A transaction that does not revert registers its CIDs and no others, and
\* leaves the records of all others alone.
LEMMA WrittenCids ==
    ASSUME accounts \in [Address -> Record \cup {NoRecord}],
           NEW tx \in Transaction, Paired(tx), ~Reverts(tx),
           accounts' = Written(tx)
    PROVE  /\ CidsOf(tx.entries) \subseteq Registered(Chain)'
           /\ Registered(Chain)' \ Registered(Chain) \subseteq CidsOf(tx.entries)
           /\ \A c \in Registered(Chain) : Chain'[c] = Chain[c]
  <1>1. ASSUME NEW c \in Cid
        PROVE  /\ PdaOf[c] \in Address /\ Chain[c] = accounts[PdaOf[c]]
               /\ Chain'[c] = Written(tx)[PdaOf[c]]
    BY ProgramAssumption DEF Chain
  <1>2. ASSUME NEW c \in CidsOf(tx.entries)
        PROVE  c \in Registered(Chain)'
    <2>1. PICK i \in DOMAIN tx.entries : c = tx.entries[i].cid
      BY DEF CidsOf
    <2>2. c \in Cid /\ i \in DOMAIN tx.records /\ tx.records[i] = PdaOf[c]
      BY <2>1, PairsMatch DEF AnchorEntry
    <2>3. Written(tx)[PdaOf[c]] # NoRecord
      <3>1. PdaOf[c] \in Address
        BY <1>1, <2>2
      <3>2. CASE accounts[PdaOf[c]] = NoRecord
        BY <2>2, <3>1, <3>2, WrittenRecords
      <3>3. CASE accounts[PdaOf[c]] # NoRecord
        BY <3>1, <3>3, WrittenElsewhere
      <3>4. QED
        BY <3>2, <3>3
    <2>4. QED
      BY <1>1, <2>2, <2>3 DEF Registered
  <1>3. ASSUME NEW c \in Cid, Chain[c] = NoRecord, Chain'[c] # NoRecord
        PROVE  c \in CidsOf(tx.entries)
    <2>1. PICK i \in DOMAIN tx.records : tx.records[i] = PdaOf[c]
      BY <1>1, <1>3, WrittenElsewhere
    <2>2. tx.entries[i] \in AnchorEntry /\ PdaOf[tx.entries[i].cid] = PdaOf[c]
      BY <2>1, PairsMatch
    <2>3. tx.entries[i].cid = c /\ i \in DOMAIN tx.entries
      BY <2>1, <2>2, PairsMatch, ProgramAssumption DEF AnchorEntry
    <2>4. QED
      BY <2>3 DEF CidsOf
  <1>4. ASSUME NEW c \in Cid, Chain[c] # NoRecord
        PROVE  Chain'[c] = Chain[c]
    BY <1>1, <1>4, WrittenElsewhere
  <1>5. QED
    BY <1>2, <1>3, <1>4 DEF Registered

\* A well-formed transaction without an oversized record does not revert.
LEMMA WellFormedRuns ==
    ASSUME NEW tx \in Transaction, WellFormed(tx),
           CidsOf(tx.entries) \cap Oversized = {}
    PROVE  ~Reverts(tx)
  <1>1. tx.records \in Seq(Address) /\ tx.entries \in Seq(AnchorEntry)
    BY TransactionTypes
  <1>2. /\ DOMAIN tx.records = DOMAIN tx.entries
        /\ \A i \in DOMAIN tx.entries : tx.records[i] = PdaOf[tx.entries[i].cid]
    BY DEF WellFormed, PdasOf
  <1>3. Len(tx.records) = Len(tx.entries)
    BY <1>1, <1>2
  <1>4. \A i \in DOMAIN tx.entries : tx.entries[i].cid \notin Oversized
    BY DEF CidsOf
  <1>5. QED
    BY <1>2, <1>3, <1>4 DEF Reverts

-----------------------------------------------------------------------------

\* The initial state satisfies the invariant.
LEMMA InitProgramInv == ProgramInit => ProgramInv
  BY DEF ProgramInit, ProgramInv, ProgramTypeOK, ExecutedOnce, RecordAtItsPda,
         SequencedLands

\* A client queues a transaction with a new identity.
LEMMA SubmitProgramInv ==
    ASSUME ProgramInv, NEW kind \in {"batch", "one"},
           NEW recs \in Seq(Address), NEW entries \in Seq(AnchorEntry),
           NEW ts \in Time, kind = "one" => Len(recs) = Len(entries),
           Submit(kind, recs, entries, ts)
    PROVE  ProgramInv'
  <1> DEFINE new == [id |-> nextTx, kind |-> kind, records |-> recs,
                     entries |-> entries, ts |-> ts]
  <1>1. /\ mempool' = mempool \cup {new} /\ nextTx' = nextTx + 1
        /\ accounts' = accounts /\ executed' = executed
    BY DEF Submit
  <1>2. new \in Transaction /\ new.id = nextTx /\ Paired(new)
    BY DEF Transaction, ProgramInv, ProgramTypeOK, Paired
  <1> HIDE DEF new
  <1>3. ProgramTypeOK' /\ \A tx \in mempool' : Paired(tx)
    BY <1>1, <1>2 DEF ProgramInv, ProgramTypeOK
  <1>4. ExecutedOnce'
    <2>1. \A tx \in mempool \cup executed : tx.id \in Nat /\ tx.id < nextTx
      BY TransactionTypes DEF ProgramInv, ProgramTypeOK, ExecutedOnce
    <2>2. nextTx \in Nat
      BY DEF ProgramInv, ProgramTypeOK
    <2>3. new \notin executed
      BY <1>2, <2>1, <2>2
    <2>4. \A tx \in mempool' \cup executed' : tx.id < nextTx'
      BY <1>1, <1>2, <2>1, <2>2
    <2>5. QED
      BY <1>1, <2>3, <2>4 DEF ExecutedOnce, ProgramInv
  <1>5. RecordAtItsPda' /\ SequencedLands'
    BY <1>1 DEF ProgramInv, RecordAtItsPda, SequencedLands, Registered, Chain
  <1>6. QED
    BY <1>3, <1>4, <1>5 DEF ProgramInv

\* The sequencer loses a transaction.
LEMMA DropProgramInv ==
    ASSUME ProgramInv, NEW tx, Drop(tx)
    PROVE  ProgramInv'
  <1>1. /\ mempool' \subseteq mempool /\ nextTx' = nextTx
        /\ accounts' = accounts /\ executed' = executed
    BY DEF Drop
  <1>2. RecordAtItsPda' /\ SequencedLands'
    BY <1>1 DEF ProgramInv, RecordAtItsPda, SequencedLands, Registered, Chain
  <1>3. QED
    BY <1>1, <1>2 DEF ProgramInv, ProgramTypeOK, ExecutedOnce

\* The program runs: whatever the transaction, records stay at the PDAs of their
\* CIDs, and what a well-formed one names is registered.
LEMMA ExecuteProgramInv ==
    ASSUME ProgramInv, NEW tx, Execute(tx)
    PROVE  ProgramInv'
  <1>1. /\ tx \in mempool /\ mempool' = mempool \ {tx}
        /\ executed' = executed \cup {tx} /\ nextTx' = nextTx
        /\ accounts' = IF Reverts(tx) THEN accounts ELSE Written(tx)
    BY DEF Execute
  <1>2. /\ tx \in Transaction /\ Paired(tx)
        /\ accounts \in [Address -> Record \cup {NoRecord}]
    BY <1>1 DEF ProgramInv, ProgramTypeOK
  <1>3. ProgramTypeOK'
    BY <1>1, <1>2, WrittenType DEF ProgramInv, ProgramTypeOK
  <1>4. (\A t \in mempool : Paired(t))' /\ ExecutedOnce'
    BY <1>1 DEF ProgramInv, ExecutedOnce
  <1>5. RecordAtItsPda'
    <2> SUFFICES ASSUME NEW a \in Address, accounts'[a] # NoRecord
                 PROVE  a = PdaOf[accounts'[a].cid]
      BY DEF RecordAtItsPda
    <2>1. CASE accounts'[a] = accounts[a]
      BY <2>1 DEF ProgramInv, RecordAtItsPda
    <2>2. CASE accounts'[a] # accounts[a]
      <3>1. ~Reverts(tx) /\ accounts' = Written(tx)
        BY <1>1, <2>2
      <3>2. PICK k \in DOMAIN tx.records : tx.records[k] = a /\ accounts[a] = NoRecord
        BY <1>2, <2>2, <3>1, WrittenElsewhere
      <3> DEFINE i == CHOOSE i \in DOMAIN tx.records : tx.records[i] = a
      <3>3. /\ a = PdaOf[tx.entries[i].cid]
            /\ Written(tx)[a] = [cid |-> tx.entries[i].cid,
                                 hash |-> tx.entries[i].hash, ts |-> tx.ts]
        BY <1>2, <3>1, <3>2, WrittenRecords
      <3> HIDE DEF i
      <3>4. QED
        BY <3>1, <3>3
    <2>3. QED
      BY <2>1, <2>2
  <1>6. SequencedLands'
    <2> SUFFICES ASSUME NEW t \in executed', WellFormed(t),
                        CidsOf(t.entries) \cap Oversized = {}
                 PROVE  CidsOf(t.entries) \subseteq Registered(Chain)'
      BY DEF SequencedLands, WellFormed, PdasOf
    <2>1. Registered(Chain) \subseteq Registered(Chain)'
      <3>1. CASE Reverts(tx)
        BY <1>1, <3>1 DEF Registered, Chain
      <3>2. CASE ~Reverts(tx)
        BY <1>1, <1>2, <3>2, WrittenCids DEF Registered
      <3>3. QED
        BY <3>1, <3>2
    <2>2. CASE t \in executed
      BY <2>1, <2>2 DEF ProgramInv, SequencedLands
    <2>3. CASE t = tx
      BY <1>1, <1>2, <2>3, WellFormedRuns, WrittenCids
    <2>4. QED
      BY <1>1, <2>2, <2>3
  <1>7. QED
    BY <1>3, <1>4, <1>5, <1>6 DEF ProgramInv

\* Every step preserves the invariant.
LEMMA NextProgramInv ==
    ProgramInv /\ [SubmitAny \/ Sequencer]_programVars => ProgramInv'
  <1> SUFFICES ASSUME ProgramInv, [SubmitAny \/ Sequencer]_programVars
               PROVE  ProgramInv'
    OBVIOUS
  <1>1. CASE SubmitAny
    BY <1>1, SubmitProgramInv DEF SubmitAny
  <1>2. CASE Sequencer
    BY <1>2, ExecuteProgramInv, DropProgramInv DEF Sequencer
  <1>3. CASE UNCHANGED programVars
    BY <1>3 DEF programVars, ProgramInv, ProgramTypeOK, ExecutedOnce,
                RecordAtItsPda, SequencedLands, Registered, Chain
  <1>4. QED
    BY <1>1, <1>2, <1>3

\* The inductive invariant holds in every reachable state.
THEOREM ProgramInvariant == ProgramSpec => []ProgramInv
  BY InitProgramInv, NextProgramInv, PTL DEF ProgramSpec

\* A record lies in the account derived from its own CID.
THEOREM RecordsAtTheirPdas == ProgramSpec => []RecordAtItsPda
  <1>1. ProgramInv => RecordAtItsPda
    BY DEF ProgramInv
  <1>2. QED
    BY <1>1, ProgramInvariant, PTL

\* What a well-formed transaction names is registered once it was sequenced.
THEOREM WellFormedLand == ProgramSpec => []SequencedLands
  <1>1. ProgramInv => SequencedLands
    BY DEF ProgramInv
  <1>2. QED
    BY <1>1, ProgramInvariant, PTL

-----------------------------------------------------------------------------

\* A transaction is all or nothing.
THEOREM AllOrNothing == ProgramSpec => NoPartialBatch
  <1> DEFINE Whole == accounts' # accounts =>
                 \E tx \in executed' \ executed :
                     /\ CidsOf(tx.entries) \subseteq Registered(Chain)'
                     /\ Registered(Chain)' \ Registered(Chain) \subseteq CidsOf(tx.entries)
  <1>1. ProgramInv /\ [SubmitAny \/ Sequencer]_programVars => [Whole]_programVars
    <2> SUFFICES ASSUME ProgramInv, SubmitAny \/ Sequencer, accounts' # accounts
                 PROVE  \E tx \in executed' \ executed :
                            /\ CidsOf(tx.entries) \subseteq Registered(Chain)'
                            /\ Registered(Chain)' \ Registered(Chain)
                                   \subseteq CidsOf(tx.entries)
      OBVIOUS
    <2>1. PICK tx \in mempool : Execute(tx)
      BY DEF SubmitAny, Submit, Sequencer, Drop
    <2>2. /\ tx \in Transaction /\ Paired(tx) /\ tx \in executed' \ executed
          /\ accounts \in [Address -> Record \cup {NoRecord}]
      BY <2>1 DEF Execute, ProgramInv, ProgramTypeOK, ExecutedOnce
    <2>3. ~Reverts(tx) /\ accounts' = Written(tx)
      BY <2>1 DEF Execute
    <2>4. QED
      BY <2>2, <2>3, WrittenCids
  <1>2. QED
    BY <1>1, ProgramInvariant, PTL DEF ProgramSpec, NoPartialBatch

\* A transaction that does not revert is a step of the promised registry.
LEMMA ExecuteIsPromised ==
    ASSUME ProgramInv, NEW tx, Execute(tx), ~Reverts(tx)
    PROVE  Promised!AnchorBatch
  <1> DEFINE Passed(a) == \E i \in DOMAIN tx.records : tx.records[i] = a
             At(a) == CHOOSE i \in DOMAIN tx.records : tx.records[i] = a
             S == {c \in Cid : Chain[c] = NoRecord /\ Passed(PdaOf[c])}
             h == [c \in S |-> tx.entries[At(PdaOf[c])].hash]
  <1>1. /\ tx \in Transaction /\ Paired(tx) /\ tx.ts \in Time
        /\ accounts \in [Address -> Record \cup {NoRecord}]
        /\ accounts' = Written(tx)
    BY TransactionTypes DEF Execute, ProgramInv, ProgramTypeOK
  <1>2. ASSUME NEW c \in Cid
        PROVE  /\ PdaOf[c] \in Address /\ Chain[c] = accounts[PdaOf[c]]
               /\ Chain'[c] = Written(tx)[PdaOf[c]]
    BY <1>1, ProgramAssumption DEF Chain
  <1>3. ASSUME NEW c \in S
        PROVE  /\ tx.entries[At(PdaOf[c])].hash \in Hash
               /\ Chain'[c] = [cid |-> c, hash |-> tx.entries[At(PdaOf[c])].hash,
                               ts |-> tx.ts]
    <2>1. PICK k \in DOMAIN tx.records : tx.records[k] = PdaOf[c]
      OBVIOUS
    <2>2. accounts[PdaOf[c]] = NoRecord /\ PdaOf[c] \in Address
      BY <1>2
    <2>3. /\ tx.entries[At(PdaOf[c])] \in AnchorEntry
          /\ PdaOf[c] = PdaOf[tx.entries[At(PdaOf[c])].cid]
          /\ Written(tx)[PdaOf[c]] = [cid |-> tx.entries[At(PdaOf[c])].cid,
                                      hash |-> tx.entries[At(PdaOf[c])].hash,
                                      ts |-> tx.ts]
      BY <1>1, <2>1, <2>2, WrittenRecords
    <2> HIDE DEF At
    <2>4. tx.entries[At(PdaOf[c])].cid = c
      BY <2>3, ProgramAssumption DEF AnchorEntry
    <2>5. QED
      BY <1>2, <2>3, <2>4 DEF AnchorEntry
  <1>4. ASSUME NEW c \in Cid, c \notin S
        PROVE  Chain'[c] = Chain[c]
    BY <1>1, <1>2, <1>4, WrittenElsewhere
  <1>5. S \in SUBSET (Cid \ Registered(Chain))
    BY DEF Registered
  <1>6. h \in [S -> Hash] /\ \A c \in S : h[c] = tx.entries[At(PdaOf[c])].hash
    BY <1>3
  <1>7. Chain' = [c \in Cid |-> Chain'[c]]
    BY DEF Chain
  <1> HIDE DEF S, h, At, Passed
  <1>8. Chain' = [c \in Cid |-> IF c \in S
                               THEN [cid |-> c, hash |-> h[c], ts |-> tx.ts]
                               ELSE Chain[c]]
    BY <1>3, <1>4, <1>6, <1>7
  <1>9. QED
    BY <1>1, <1>5, <1>6, <1>8
       DEF Promised!AnchorBatch, Promised!Registered, Registered

\* The program implements the registry its clients rely on.
THEOREM ProgramRefinement == ProgramSpec => ImplementsRegistry
  <1>1. ProgramInit => Promised!Init
    BY ProgramAssumption DEF ProgramInit, Chain, Promised!Init, Promised!EmptyTable
  <1>2. ProgramInv /\ [SubmitAny \/ Sequencer]_programVars => [Promised!Next]_Chain
    <2> SUFFICES ASSUME ProgramInv, [SubmitAny \/ Sequencer]_programVars, Chain' # Chain
                 PROVE  Promised!AnchorBatch
      BY DEF Promised!Next
    <2>1. accounts' # accounts
      BY DEF Chain
    <2>2. PICK tx \in mempool : Execute(tx)
      BY <2>1 DEF SubmitAny, Submit, Sequencer, Drop, programVars
    <2>3. ~Reverts(tx)
      BY <2>1, <2>2 DEF Execute
    <2>4. QED
      BY <2>2, <2>3, ExecuteIsPromised
  <1>3. QED
    BY <1>1, <1>2, ProgramInvariant, PTL
       DEF ProgramSpec, ImplementsRegistry, Promised!Spec

-----------------------------------------------------------------------------
(* The runners and the program *)

\* A transaction as a runner builds it.
Built(tx) ==
    /\ WellFormed(tx)
    /\ \A i, j \in DOMAIN tx.records : tx.records[i] = tx.records[j] => i = j

\* What became of the transactions that were ever queued.
Sent == mempool \cup executed \cup lost

\* A checkpoint names only CIDs of transactions that were queued.
CheckpointSent ==
    \A r \in Runner : /\ disk[r].anchored \subseteq CidsIn(Sent)
                      /\ proc[r].mem.anchored \subseteq CidsIn(Sent)

\* The inductive invariant.
LezInv ==
    /\ RunnerInv
    /\ ProgramInv
    /\ lost \subseteq Transaction
    /\ SubmittedWellFormed
    /\ CheckpointSent

\* A larger set of transactions names more CIDs.
LEMMA CidsInGrows ==
    ASSUME NEW S, NEW T, S \subseteq T
    PROVE  CidsIn(S) \subseteq CidsIn(T)
  BY DEF CidsIn

\* The initial state satisfies the invariant.
LEMMA InitLezInv == Init => LezInv
  <1> SUFFICES ASSUME Init PROVE LezInv
    OBVIOUS
  <1>1. RunnerInv /\ ProgramInv
    BY RunnerInitInv, InitProgramInv DEF Init
  <1>2. lost = {} /\ mempool = {} /\ executed = {}
    BY DEF Init, ProgramInit
  <1>3. CheckpointSent
    BY DEF Init, RunnerInit, CheckpointSent, Fresh, NoCheckpoint
  <1>4. QED
    BY <1>1, <1>2, <1>3 DEF LezInv, SubmittedWellFormed

\* What a runner has pending at a flush.
LEMMA PendingTypes ==
    ASSUME RunnerInv, NEW r \in Runner, proc[r].pc = "anchoring"
    PROVE  /\ proc[r].pending \in Seq(AnchorEntry) /\ proc[r].ts \in Time
           /\ Distinct(proc[r].pending)
  BY ProcessTypes DEF Process, Consistent

\* The accounts the adapter passes are those of the entries, in their order, and
\* no account twice: pending entries are for different CIDs.
LEMMA PdasOfDistinct ==
    ASSUME NEW b \in Seq(AnchorEntry), Distinct(b)
    PROVE  /\ PdasOf(b) \in Seq(Address)
           /\ \A i, j \in DOMAIN PdasOf(b) : PdasOf(b)[i] = PdasOf(b)[j] => i = j
  <1>1. \A i \in DOMAIN b : b[i].cid \in Cid
    <2>1. \A i \in DOMAIN b : b[i] \in AnchorEntry
      OBVIOUS
    <2>2. \A e \in AnchorEntry : e.cid \in Cid
      BY DEF AnchorEntry
    <2>3. QED
      BY <2>1, <2>2
  <1>2. DOMAIN b = 1..Len(b) /\ Len(b) \in Nat
    OBVIOUS
  <1>3. PdasOf(b) \in [1..Len(b) -> Address]
    BY <1>1, <1>2, ProgramAssumption DEF PdasOf
  <1>4. PdasOf(b) \in Seq(Address)
    BY <1>2, <1>3
  <1>5. \A i, j \in DOMAIN b : PdaOf[b[i].cid] = PdaOf[b[j].cid] => i = j
    BY <1>1, ProgramAssumption DEF Distinct
  <1>6. QED
    BY <1>4, <1>5 DEF PdasOf

\* A transaction is queued by a runner: the program's invariant holds, and the
\* transaction is well-formed and names what the runner has pending.
LEMMA SendInv ==
    ASSUME LezInv, NEW r \in Runner, proc[r].pc = "anchoring", SendBatch(r),
           lost' = lost
    PROVE  /\ ProgramInv'
           /\ SubmittedWellFormed'
           /\ Sent \subseteq Sent'
           /\ PendingCids(r) \subseteq CidsIn(Sent')
  <1> DEFINE b == proc[r].pending
             new == [id |-> nextTx, kind |-> "batch", records |-> PdasOf(b),
                     entries |-> b, ts |-> proc[r].ts]
  <1>1. b \in Seq(AnchorEntry) /\ proc[r].ts \in Time /\ Distinct(b)
    BY PendingTypes DEF LezInv
  <1>2. /\ PdasOf(b) \in Seq(Address)
        /\ \A i, j \in DOMAIN PdasOf(b) : PdasOf(b)[i] = PdasOf(b)[j] => i = j
    BY <1>1, PdasOfDistinct
  <1>3. Submit("batch", PdasOf(b), b, proc[r].ts)
    BY DEF SendBatch
  <1>4. ProgramInv'
    BY <1>1, <1>2, <1>3, SubmitProgramInv DEF LezInv
  <1>5. mempool' = mempool \cup {new} /\ executed' = executed
    BY <1>3 DEF Submit
  <1>6. new.records = PdasOf(b) /\ new.entries = b
    OBVIOUS
  <1> HIDE DEF new, b
  <1>7. WellFormed(new)
    BY <1>6 DEF WellFormed
  <1>8. \A i, j \in DOMAIN new.records : new.records[i] = new.records[j] => i = j
    BY <1>2, <1>6
  <1>9. SubmittedWellFormed'
    BY <1>5, <1>7, <1>8 DEF LezInv, SubmittedWellFormed, WellFormed, PdasOf
  <1>10. Sent \subseteq Sent' /\ new \in Sent'
    BY <1>5 DEF Sent
  <1>11. PendingCids(r) \subseteq CidsIn(Sent')
    BY <1>6, <1>10 DEF CidsIn, PendingCids, b
  <1>12. QED
    BY <1>4, <1>9, <1>10, <1>11

\* The sequencer takes the batch, and the runner records it.
LEMMA AnchorLezInv ==
    ASSUME LezInv, NEW r \in Runner, Anchor(r)
    PROVE  LezInv'
  <1>1. /\ SendBatch(r) /\ lost' = lost /\ proc[r].pc = "anchoring"
        /\ RecordBatch(r, nextTx, Cardinality(PendingCids(r)))
    BY DEF Anchor, RecordBatch, PendingCids
  <1>2. /\ ProgramInv' /\ SubmittedWellFormed'
        /\ Sent \subseteq Sent' /\ PendingCids(r) \subseteq CidsIn(Sent')
    BY <1>1, SendInv
  <1>3. nextTx \in Nat /\ Cardinality(PendingCids(r)) \in Nat
    BY <1>1, PendingTypes, CidsOfFinite, FS_CardinalityType
       DEF LezInv, ProgramInv, ProgramTypeOK, PendingCids
  <1>4. RunnerInv'
    BY <1>1, <1>3, RecordBatchInv DEF LezInv
  <1>5. CheckpointSent'
    <2> SUFFICES ASSUME NEW q \in Runner
                 PROVE  /\ disk'[q].anchored \subseteq CidsIn(Sent')
                        /\ proc'[q].mem.anchored \subseteq CidsIn(Sent')
      BY DEF CheckpointSent, CidsIn
    <2>1. /\ disk' = disk
          /\ proc'[q].mem.anchored \subseteq proc[q].mem.anchored \cup PendingCids(r)
      BY <1>1, RecordBatchSources DEF LezInv
    <2>2. CidsIn(Sent) \subseteq CidsIn(Sent')
      BY <1>2, CidsInGrows
    <2>3. QED
      BY <1>2, <2>1, <2>2 DEF LezInv, CheckpointSent
  <1>6. QED
    BY <1>1, <1>2, <1>4, <1>5 DEF LezInv

\* A runner does something else, or is told of an error, whether its transaction
\* was queued or not.
LEMMA RunnerLezInv ==
    ASSUME LezInv, NEW r \in Runner, Step(r) \/ AnchorErr(r)
    PROVE  LezInv'
  <1>1. RunnerInv' /\ (RunnerStep(r) \/ FlushErr(r)) /\ lost' = lost
    BY RunnerStepInv, FlushErrInv DEF LezInv, Step, AnchorErr, chainVars
  <1>2. ProgramInv' /\ SubmittedWellFormed' /\ Sent \subseteq Sent'
    <2>1. CASE UNCHANGED programVars
      BY <1>1, <2>1 DEF LezInv, programVars, ProgramInv, ProgramTypeOK, ExecutedOnce,
           RecordAtItsPda, SequencedLands, Registered, Chain, SubmittedWellFormed, Sent
    <2>2. CASE FlushErr(r) /\ SendBatch(r)
      BY <1>1, <2>2, SendInv DEF FlushErr
    <2>3. QED
      BY <2>1, <2>2 DEF Step, AnchorErr, chainVars, programVars
  <1>3. CidsIn(Sent) \subseteq CidsIn(Sent')
    BY <1>2, CidsInGrows
  <1>4. CheckpointSent'
    <2> SUFFICES ASSUME NEW q \in Runner
                 PROVE  /\ disk'[q].anchored \subseteq CidsIn(Sent')
                        /\ proc'[q].mem.anchored \subseteq CidsIn(Sent')
      BY DEF CheckpointSent, CidsIn
    <2>1. /\ disk'[q].anchored \in {disk[q].anchored, proc[q].mem.anchored}
          /\ proc'[q].mem.anchored \in {disk[q].anchored, proc[q].mem.anchored, {}}
      BY <1>1, CheckpointSources DEF LezInv
    <2>2. QED
      BY <1>3, <2>1 DEF LezInv, CheckpointSent
  <1>5. QED
    BY <1>1, <1>2, <1>4 DEF LezInv

\* The chain runs a transaction or loses it.
LEMMA ChainLezInv ==
    ASSUME LezInv, NEW tx \in mempool, Sequence(tx) \/ Lose(tx)
    PROVE  LezInv'
  <1>1. ProgramInv'
    BY ExecuteProgramInv, DropProgramInv DEF LezInv, Sequence, Lose
  <1>2. RunnerInv' /\ proc' = proc /\ disk' = disk
    BY DEF LezInv, Sequence, Lose, runnerVars, RunnerInv, RunnerTypeOK, Consistent
  <1>3. Sent' = Sent /\ lost' \subseteq lost \cup {tx} /\ tx \in Transaction
    BY DEF Sent, Sequence, Lose, Execute, Drop, LezInv, ProgramInv, ProgramTypeOK
  <1>4. SubmittedWellFormed'
    BY <1>3 DEF LezInv, SubmittedWellFormed, Sent, WellFormed, PdasOf
  <1>5. CheckpointSent'
    BY <1>2, <1>3 DEF LezInv, CheckpointSent, CidsIn
  <1>6. QED
    BY <1>1, <1>2, <1>3, <1>4, <1>5 DEF LezInv

\* Every step preserves the invariant.
LEMMA NextLezInv == LezInv /\ [Next]_vars => LezInv'
  <1> SUFFICES ASSUME LezInv, [Next]_vars PROVE LezInv'
    OBVIOUS
  <1>1. CASE Next
    BY <1>1, AnchorLezInv, RunnerLezInv, ChainLezInv DEF Next
  <1>2. CASE UNCHANGED vars
    <2>1. RunnerInv'
      BY <1>2 DEF vars, LezInv, RunnerInv, RunnerTypeOK, Consistent
    <2>2. ProgramInv'
      BY <1>2 DEF vars, LezInv, ProgramInv, ProgramTypeOK, ExecutedOnce,
           RecordAtItsPda, SequencedLands, Registered, Chain
    <2>3. (lost \subseteq Transaction)' /\ SubmittedWellFormed' /\ CheckpointSent'
      BY <1>2 DEF vars, LezInv, SubmittedWellFormed, CheckpointSent, Sent, CidsIn
    <2>4. QED
      BY <2>1, <2>2, <2>3 DEF LezInv
  <1>3. QED
    BY <1>1, <1>2

\* The inductive invariant holds in every reachable state.
THEOREM LezInvariant == Spec => []LezInv
  BY InitLezInv, NextLezInv, PTL DEF Spec

\* Every variable of the pipeline keeps its type.
THEOREM LezTypeCorrect == Spec => []TypeOK
  <1>1. LezInv => TypeOK
    BY DEF LezInv, RunnerInv, ProgramInv, TypeOK
  <1>2. QED
    BY <1>1, LezInvariant, PTL

\* A runner never builds a transaction that the program refuses for its shape.
THEOREM TransactionsWellFormed == Spec => []SubmittedWellFormed
  <1>1. LezInv => SubmittedWellFormed
    BY DEF LezInv
  <1>2. QED
    BY <1>1, LezInvariant, PTL

\* When no record is oversized, a checkpoint names only CIDs that are on-chain,
\* queued, or in a transaction that was lost: none was reverted.
THEOREM CheckpointsOnTheirWay ==
    ASSUME Oversized = {}
    PROVE  Spec => []CheckpointOnItsWay
  <1>1. LezInv => CheckpointOnItsWay
    <2> SUFFICES ASSUME LezInv, NEW r \in Runner, NEW c \in disk[r].anchored
                 PROVE  c \in Registered(Chain) \cup CidsIn(mempool \cup lost)
      BY DEF CheckpointOnItsWay
    <2>1. PICK tx \in Sent : c \in CidsOf(tx.entries)
      BY DEF LezInv, CheckpointSent, CidsIn
    <2>2. CASE tx \in executed
      <3>1. WellFormed(tx) /\ CidsOf(tx.entries) \cap Oversized = {}
        BY <2>2 DEF LezInv, SubmittedWellFormed
      <3>2. QED
        BY <2>1, <2>2, <3>1 DEF LezInv, ProgramInv, SequencedLands
    <2>3. CASE tx \in mempool \cup lost
      BY <2>1, <2>3 DEF CidsIn
    <2>4. QED
      BY <2>2, <2>3 DEF Sent
  <1>2. QED
    BY <1>1, LezInvariant, PTL

=============================================================================
