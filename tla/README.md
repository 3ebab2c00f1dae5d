# Whistleblower: specifications and proofs

TLA+ models of the upload, broadcast and anchor pipeline of this repository,
the TLC runs that check them, and TLAPS proofs of their main properties. Paths
below are relative to the repository, `wb-index` standing for
`crates/wb-index/src`.

## 1. The system

| Part | State it keeps | Operations | Talks to |
|---|---|---|---|
| Publisher (`wb-index/publisher.rs`, `retry.rs`) | the dedup set `seen`, behind an async mutex | `publish` = `upload` (retries with back-off), then `broadcast` (dedup by CID) | Storage node (HTTP), Delivery node (HTTP) |
| Batch-anchor runner (`wb-index/runner.rs`, `dedup.rs`) | `RunState`: dedup, pending entries, in-memory checkpoint, counters | `init`, `poll_once`, `flush`, `run` (a `select!` over shutdown, poll and flush ticks) | Delivery node, a registry, a checkpoint file |
| Checkpoint store (`wb-index/checkpoint.rs`) | one JSON file | `load`, `save` (temporary file, rename) | file system |
| CLI (`crates/wb-batch-anchor`) | none | `publish`, `run`, `anchor`, `query`, `status` | all of the above |
| Registry interface (`wb-index/registry.rs`) | `MockRegistry`: a table behind a mutex; `FileRegistry`: one JSON file, no lock | `anchor_batch`, `anchor_one`, `get_by_cid` | file system |
| LEZ adapter (`crates/wb-lez-registry`) | connection, program id | `anchor_batch` (build and send one transaction), `get_by_cid` (read one account) | sequencer (RPC) |
| Registry program (`crates/wb-registry-program`) | one program-derived account (PDA) per CID | `anchor_batch`, `anchor_one` | executed by the chain |
| Shared types (`crates/wb-types`) | none | envelope validation, canonical metadata hash | - |
| Basecamp app (`app/qml/Main.qml`, `app/src`) | the form, the current CID, what was last broadcast, flags, the list of documents | node start and subscription; upload, broadcast, anchor; all driven by callbacks and module events | Storage and Delivery modules, the anchoring backend |

What is hard about it:

- the runner's memory, its checkpoint file and the registry are three copies of
  "what is anchored", written at different times; calls fail and processes die
  between the writes;
- Delivery duplicates, delays and loses messages, carries anybody's messages,
  and a poll is destructive: what it drained exists in the runner's memory only;
- any number of anchorers race on the same CIDs, with different metadata;
- the LEZ adapter answers when a transaction is queued, not when it has run;
- concurrent publishes meet in one dedup set, locked only for the insertion;
- `FileRegistry` is a load, merge and replace by several processes without a
  lock, through one temporary path; the checkpoint file is written the same way,
  and the two files are not written together;
- a Delivery node may restart and forget a subscription made once;
- the app's handlers run at different times over one form that the user may edit
  between any two of them;
- the hash that is anchored is computed twice, in Rust and in C++, from an
  envelope that went through JSON.

The properties that make each part correct are the ones of section 4. The list
of hazards, with the line each one bites at, is in `PROJECT.json`.

## 2. Modules

```
RegistryClient            data of the registry interface: entries, tables, Merge
 |- Registry              abstract: a write-once registry (what the trait promises)
 |- BatchAnchorRunner     runners, checkpoint files, Delivery inboxes and nodes
 |   |- LocalPipeline     + MockRegistry: an atomic shared registry
 |   '- LezPipeline       + RegistryProgram: an asynchronous on-chain registry
 |- RegistryProgram       the guest program, accounts, mempool, sequencing
 '- FileRegistry          the JSON-file registry, step by step
     '- FilePipeline      + CheckpointStore: the two files of the CLI's processes
ReplacedFile              write a temporary file and rename it, by several
 |- FileRegistry          processes, inode by inode
 '- CheckpointStore       the checkpoint file under the runners that use it
DurableCheckpoint         abstract: what a runner relies on of its checkpoint
RetryPolicy               delay_for, with its saturating widths
 '- Publisher             concurrent publish calls
BasecampApp               upload, broadcast and anchor over one form
AppBootstrap              node start, subscription, list of documents
CanonicalHash             from envelope to JSON to digested bytes, Rust and C++
```

`MC*.tla` are instances for TLC; `*Proofs.tla` hold the proofs. `LocalPipeline`,
`RegistryProgram` and `FileRegistry` are each shown to implement `Registry`
(`ImplementsRegistry`), and `CheckpointStore` to implement `DurableCheckpoint`
(`ImplementsDurable`). The definitions named "Mutant of ..." are small bugs of
the code; substituting one for the definition it names makes the property that
`PROJECT.json` lists with it fail, which shows that the property constrains the
code. No specification uses them.

### BatchAnchorRunner

One record `proc[r]` per process holds `RunState` and the locals of the loops.
`pc` says where the process waits; a step is the code between two awaits, or
one turn of the loop over the drained messages.

| Action | Code |
|---|---|
| `Load`, `Subscribe`, `SubscribeErr` | `init` |
| `Poll`, `PollErr` | `delivery.poll` in `poll_once`: the node forgets what it returns. One payload that is not base64 fails the whole poll after the node has drained (`delivery.rs`) |
| `DropInvalid`, `DropDuplicate`, `Accept` | one turn of the loop of `poll_once` |
| `PollDone` | the poll branch of `run`, with the `batch_size` test |
| `RoundDone` | the loop and the flush of `anchor` (`anchor_once`) |
| `FlushTick`, `Shutdown` | the other two branches of `run`; a flush tick with nothing pending does nothing, and has no action |
| `RecordBatch`, `FlushErr` | the answer of `anchor_batch` in `flush`; conjoined by the pipelines with what the registry does |
| `Save`, `SaveErr` | `CheckpointStore::save`. The file is replaced by the rename, so a failed or interrupted save leaves the old one |
| `Deliver`, `Crash`, `NodeRestart` | environment. A node that restarts loses its buffer and the subscription, and a runner that is up never subscribes again |

A valid envelope is represented by its anchor entry (CID, metadata hash), the
only thing the runner takes from it; every other payload is `Junk` or
`BadPayload`. Counters live as long as a process, the checkpoint's counters over
all of its lifetimes. `last_delivery_timestamp_ns` is left out: nothing reads
it. A failed load of the checkpoint ends the process before it did anything and
is not modelled. Each runner has its own checkpoint file and its own node; a
crashed runner's node keeps buffering.

### LocalPipeline, LezPipeline, RegistryProgram

`LocalPipeline!Anchor` is the whole `MockRegistry::anchor_batch` with the receipt
it gives. `AnchorErr` is a call that fails without effect.

`RegistryProgram` has the accounts as a function from addresses to records and
executes one transaction of the mempool at a time. `Reverts` and `Written` are
the guest's `anchor_batch` and `anchor_one`: length test, PDA test, write and
claim of a default account, pass-through of any other, error for a record
beyond the account's data limit. The sequencer is not in the repository;
`Execute` and `Drop` are what the adapter and the guest rely on: accepted means
queued, a queued transaction may be lost, execution is all or nothing.
Transactions that repeat an account are not examined; `SubmittedWellFormed`
shows that the runner never builds one. An account without a record is taken to be
`Account::default()`: that nobody funds a PDA before its record is written is an
assumption. The guest would pass such an account through (`wb_registry.rs:100`), and its
CID would never get a record; `SequencedLands` and `CheckpointOnItsWay` rest on it.

`LezPipeline!Anchor` queues a transaction and gives the runner its receipt at
once, naming every CID as anchored, as `LezRegistry::anchor_batch` does. An error
may come before or after the sequencer took the transaction.

### ReplacedFile, FileRegistry, CheckpointStore, FilePipeline

`ReplacedFile` is what `FileRegistry::save` and `CheckpointStore::save` have in
common: processes share two paths, the document and its temporary file; paths
name inodes, and a process writes to the inode it opened, whatever was renamed
since. `OpenTmp`/`WriteTmp` are `tokio::fs::write` (truncate or create, then
write), `RenameTmp` publishes whatever the temporary path names. `Torn` is any
content that does not decode.

`FileRegistry!Call` is `load` and the merge, then come the steps of the save.
`Fail` is an I/O error at any of them, `Kill` the death of the process, which may
come after the rename and before the receipt. `CheckpointStore` has the load at
the start of a process, `Commit` (what `flush` does to the in-memory checkpoint),
the save, and failures and crashes at any step; `last_delivery_timestamp_ns` and
`last_batch_tx` are left out, as nothing reads them back.

`FilePipeline` puts both under the same processes: start, batches, each a call of
the registry and then a save of the checkpoint, end; a crash ends both. Its
runner is reduced to what touches the files: `Submit` hands over CIDs that are not
in the checkpoint, or any CIDs while a failed save has left the file behind the
memory (the retained batch). `LocalPipeline` has the runner in full and takes a
file operation as one step; `ImplementsRegistry` and `ImplementsDurable` are why it
may, as long as calls do not overlap. `raced` (calls of the registry) and
`overlapped` (processes on one checkpoint) are history variables that say when they
did.

### Publisher, RetryPolicy

One `pc` per call. `Broadcast` is the critical section of the mutex; the call of
Delivery comes after it. A caller's retry is another call. An upload or a
publish that reports an error may have taken effect, also when the error is permanent
(an answer of an upload that does not decode, or holds no CID). `slept` records the delays of
`delay_for`, in which the power saturates at `u32::MAX` and the product at
`Duration::MAX`; both widths are constants. `max_retries` is below `u32::MAX`, so that
the counter of attempts, a `u32` too, does not overflow. `retry_async` is the same
loop and has no caller.

### BasecampApp, AppBootstrap

A handler of `Main.qml` is one action: QML runs one at a time, and everything a
module does comes back later, as a callback or an event. `BasecampApp` has the form,
the upload button, the end of an upload (which builds the envelope of the form as
it is *then*, and sends it), the callback of `send`, and the anchor button (which
hashes the form as it is *then*, with the remembered timestamp and tags). A file
stands for its path, with `CidOf` and `TypeOf` for what the storage module and
`guessContentType` make of it; `sizeBytes` is never assigned, and left out. A hash
is represented by the envelope it is the hash of. The session id that an upload
event carries is not used by the app and not modelled.
`refused` and `edited` are history variables for two things the properties are
conditioned on: an upload that `uploadUrl` refuses (no event follows, and the app
stays busy), and a change of title or description under a shown CID.

`AppBootstrap` is the chain `createNode`, `start`, `subscribe`, and the queue of events
(`nodeStarted`, messages of our and other topics, junk). Whether `start` returns
before the node is up depends on the build, `async` here. The callbacks look at no answer
(`Main.qml:105-122`), and nothing calls again: that `createNode` and `start` succeed, and
`subscribe` on a node that is up, is assumed. Were `subscribe` refused there, the app would
set `nodeReady` all the same and stay unsubscribed.

### CanonicalHash

One envelope: composed, turned to JSON by the app (`buildEnvelopeJson`) or by
somebody else (any fields, any version), parsed with the serde defaults,
validated, and hashed by the anchorer (`canonical_metadata_bytes`) and by the app
(`metadataHash`). A hash is represented by the bytes it digests; strings are
sequences of bytes, and the numbers of values of a byte and of bytes of `u32` and
`u64` are constants. Each language sorts the tags by its own comparison (`StrLess`,
`TagLess`); `sort_unstable` and `std::sort` may return any permutation that their
comparison calls sorted, and `Dedup` is what both `dedup` and `unique` with the erase do
to it. Strings and lists that a `u32` cannot count are left out: there both codes truncate
the length. On its way from a text field through JSON to the anchorer a string keeps its
bytes; a `QString` with a lone surrogate, which has no UTF-8, is left out.

## 3. Runs

| Run | Bounds | What it shows |
|---|---|---|
| `local_two` | a daemon and a one-shot `anchor`; 2 CIDs, 2 hashes; batch size 2, 2 rounds; 3 messages, 2 faults | all safety properties of runners on an atomic registry, and that it implements `Registry` |
| `local_live` | the same with 1 hash, 2 messages, 1 fault; fairness | liveness of the loops |
| `program` | 3 CIDs (one oversized), 2 hashes, any batch and any accounts of length 1 and 2, with or without a leading signer; 2 transactions | the program with arbitrary clients |
| `lez_sound` | 2 runners; 2 CIDs, 1 hash; 2 messages, 1 fault, 1 lost transaction; nothing oversized; fairness | what runners submit is well-formed, checkpoints are right, and accepted CIDs land |
| `lez_oversized` | 1 daemon, 2 CIDs, one oversized | **violated**: see findings |
| `publish` | 3 calls of the same bytes, one of them invalid; 5 policies (no retry; one, with a delay above the cap; delays that reach the cap; a product and a power that saturate); 4-bit factors; fairness | publisher safety, back-off and termination |
| `publish_duplicate` | 2 calls of the same bytes | **violated**: see findings |
| `files` | 2 processes, 2 CIDs, batches of 1 and 2, 3 calls, 2 faults; fairness | each file under non-overlapping calls, the checkpoint never ahead of the registry, flushes end |
| `file_lost` | 2 processes, 2 calls | **violated**: see findings |
| `app_safe` | 2 files of different types, 3 titles, 2 tag lists, 2 timestamps; 2 uploads, 1 anchoring; fairness | one operation at a time; what is anchored was broadcast, unless the form was edited; the app does not stay busy, unless an upload was refused |
| `bootstrap` | 2 documents, junk, other topics; 3 messages; both kinds of build; fairness | the app ends up subscribed and lists what arrives |
| `hash` | 4 values of a byte, 1-byte `u32`, 2-byte `u64`; strings that are prefixes of each other or look like a length; up to 3 tags, ASCII or not | the digested bytes can be read back; the ports agree |

Why the bounds are enough. In `local_two`, three messages let one runner see a CID, a duplicate
of it and another CID, or two runners compete for one CID with two hashes; two
faults let a failed flush be followed by a crash or a failed save, the longest
chain a property relates. A batch size of 2 puts both sides of the boundary
within reach. Two processes are the smallest race; nothing a runner does
depends on how many others there are. In `files`, three calls
are one that is cut short, its retry, and a call of another process in between or
after; two faults cut short one save of each file. In `app_safe`, two uploads let
the second start from a form, a timestamp and tags that the first left behind, and
one anchoring is enough because anchoring changes nothing else. In `hash`, every
field takes values of different lengths, among them ones that could be split
differently if a length prefix were missing; wider bytes and integers add values
but no case of the code. The theorems of section 5 hold without these bounds.
`MaxDeliveries`, `MaxFaults`, `MaxTx`, `MaxLost`, `MaxCalls`, `MaxBatch`, `MaxUploads`,
`MaxAnchors` and `MaxMessages` only bound the environment; deadlock is checked except
where such a bound, or the end of a chain of callbacks, stops all activity
(`program`, `files`, `file_lost`, `bootstrap`, `hash`).

Fairness. A process that can go on does (weak fairness per step): tasks are
polled by the runtime, ticks recur. A flush tick is strongly fair: each poll
leaves the `select!`, but an elapsed interval stays ready and `tokio::select!`
draws at random among ready branches. File operations return, modules answer the
app's calls, and events are handed over. Nothing forces a message, a crash, a
shutdown, the start of a process, or anything of the user. Two things are assumed of nodes and not
guaranteed by the code: a request is answered or its connection breaks (the
HTTP clients set no timeout, so a node that hangs blocks the loop, its shutdown
branch included), and, for `lez_sound`, a queued transaction is sequenced or lost.
For `bootstrap`, a Delivery module that is running accepts a subscription.

## 4. Properties

Runners and checkpoints (`local_two`, `local_live`)

- `CheckpointSound`: a checkpoint, in memory or on disk, names only CIDs the
  registry holds.
- `NothingSwallowed`: dedup holds exactly what is pending or known anchored; a CID
  beyond that would be dropped for ever without being submitted.
- `NeverResubmitted`, `BatchesDistinct`: restarts and retained batches never make
  a CID of the checkpoint pending again, nor put one twice into a batch.
- `CheckpointGrows`, `PendingRetained`: the file never loses a CID; an entry leaves
  a live process only for the file.
- `AnchoredCountedOnce`: the counters of the live runners can be credited to disjoint
  sets of CIDs that the registry holds, so together they never exceed what it holds,
  under races and retries.
- `PendingAnchored`, `InboxDrained`, `AnchorTerminates`: liveness.

On-chain registry (`program`, `lez_*`)

- `RecordAtItsPda`, `NoPartialBatch`, `SequencedLands`, `SubmittedWellFormed`,
  `ImplementsRegistry`: records are written once, whole batches at a time, to the
  account of their CID, whatever clients pass; re-anchoring never fails.
- `CheckpointOnItsWay`, `AcceptedLands`: what a checkpoint is worth when receipts
  come before execution.

Publisher (`publish*`)

- `AtMostOnce`, `RelayedIsStored`: one relay per CID, after a complete upload.
- `RetriesUsed`, `BackoffGrows`: exactly the configured retries; the first delay is
  the base, each later one the multiplier times the one before, up to the cap,
  also where the arithmetic saturates.
- `PublishEnds`: every call returns.

Files (`files`, `file_lost`)

- `SerialKept`, `SerialReceipts`, `ImplementsRegistry`: as long as calls of
  `FileRegistry` do not overlap, the file always decodes, keeps what was
  acknowledged, and behaves as the registry, killed calls and retries included. They say
  nothing of calls that overlap; what happens then is the third finding.
- `CheckpointKept`, `ImplementsDurable`: the same for the checkpoint file under one
  process at a time.
- `CheckpointRegistered`: also when processes overwrite each other's checkpoint, it
  names only CIDs that the registry file holds, as long as calls of the registry do not
  overlap. That a checkpoint survives another process on its path is not claimed: it
  may be overwritten by an older one.
- `FlushEnds`: a flush ends, whatever others do to its temporary files.

Basecamp app (`app_safe`, `bootstrap`)

- `BusyExact`, `BusyEnds`: the app is busy while a module works for it, and no longer,
  unless an upload was refused: then no handler ever resets `busy`, and both buttons stay
  disabled. Nothing in the repository says what should happen.
- `AnchorsBroadcast`: what is anchored was broadcast, in CID, content type, timestamp and
  tags always, and in everything when nobody changes title or description under a
  shown CID. The condition is needed: the app hashes those two from the form at the
  time of the click, and the fields are not disabled meanwhile (see the end of the findings).
- `SubscribedOnceUp`, `ReceivedIsListed`: the app ends up subscribed whichever way the
  node starts, and lists exactly what arrives on its topic.

Canonical hash (`hash`)

- `HashBinds`: every field can be read back from the digested bytes, tags as a set, so
  no two different envelopes are digested alike.
- `PortsAgree`: the app and the anchorer digest the same bytes.

### Findings

1. `lez_oversized`: the runner records a batch as on-chain when the transaction
   is queued (`runner.rs:191-203`). If it reverts, which one record over the
   account's data limit is enough for (`wb_registry.rs:108-109`), or is lost, every
   CID of the batch stays in the checkpoint and in dedup, and is never submitted
   again. The comment at `runner.rs:191` and `checkpoint.rs:13` say the CIDs are
   on-chain.
2. `publish_duplicate`: `broadcast` marks a CID before it calls Delivery and does
   not unmark it when the call fails (`publisher.rs:129`); the retry answers
   `broadcast = false`, documented as "already broadcast", though nothing was.
3. `file_lost`: overlapping calls of `FileRegistry` lose acknowledged records or
   leave a file that does not decode (`registry.rs:172-221`), while `README.md:321`
   counts it among the safe concurrent anchorers. It is meant for local use;
   `files` shows that calls that do not overlap are safe, crashes included.

One more disagreement has no run of its own. The app hashes title and description from the
form at the time of the click (`Main.qml:504-505`); only timestamp and tags are remembered.
Who edits either after the broadcast anchors the hash of an envelope that was never
broadcast, while the comment at `Main.qml:496-497` says that the hash is computed "over the
SAME inputs that were broadcast", and `app/README.md:115-117` says so of the button.
`AnchoredWasBroadcast`, put as an invariant into `MCBasecampApp.cfg`, gives the trace: choose,
type, upload, broadcast, edit the title, anchor. `AnchorsBroadcast` shows that no other part
of the form and no other order of the handlers makes the two differ.

## 5. Proofs

All theorems hold for every value of the constants under the named assumptions
(`NoRecordAssumption`, `RunnerAssumption`, `ProgramAssumption`, `LostAssumption`,
`WidthAssumption`, `PublisherAssumption`, `AppAssumption`, `FileAssumption`,
`FileRegistryAssumption`, `PipelineAssumption`, `HashAssumption`). They give the constants
their types and keep special values apart. Three say more: different CIDs have different
addresses; whatever inode the document has and processes have open, there is one more (an
open that finds no room fails, which is the step `Abandon`); and a string has fewer bytes,
and a list of tags fewer tags, than a `u32` has values. TLC evaluates them in every run.

- `RegistryClientProofs`: lemmas about `CidsOf`, `Merge` and `NewlyAnchored`: a merge
  yields a table, registers exactly the CIDs of the batch besides the old ones,
  extends the old table (`Extends`), and its `FirstFor` picks an entry of the batch (the
  least-number principle).
- `BatchAnchorRunnerProofs`: `RunnerInv`, one lemma per action. `NothingSwallowed`,
  `NeverResubmitted` and `BatchesDistinct` are not inductive alone. A crash-free
  failed save leaves memory ahead of the file, so `Consistent` adds that the file
  is contained in the in-memory checkpoint, that a process at the save has
  recorded all it has pending, and that a process that does not run has nothing
  pending. Then `Accept` preserves distinctness because dedup covers pending, and
  `Load` re-establishes everything from the file alone.
- `LocalPipelineProofs`: `PipelineInv` adds the registry (`CheckpointSound`): only the
  registry's answer adds to a checkpoint, and what it adds was registered in the
  same step; on any other step memory and file come from each other
  (`CheckpointSources`). Theorems `TypeCorrect`, `CheckpointsSound`, `NoneSwallowed`,
  `CheckpointedNotResubmitted`, `BatchEntriesDistinct`, `CheckpointsGrow`, and
  `Refinement`: every `Anchor` is a step of `Registry`, every other step a stutter.
  `NothingDropped` goes through the steps of a runner (`PendingSources`): only a save
  that succeeds empties the pending list, and what it held is in the file by then.
  `CountedOnce` carries the credit along: an answer of the registry credits the runner
  with CIDs that nobody had registered, hence nobody had been credited with, and a step
  that resets a counter gives its credit back (`CountInv`).
- `PublisherProofs`: a call *claims* its CID when it leaves the critical section
  without having found it marked. Claims are unique because a claimed CID is
  marked and never unmarked, and only calls with a claim relay: `AtMostOnce`.
  `RelayedIsStored` and `RetriesUsed` follow from the same invariant, which counts
  the sleeps against the attempts; `DelayBounded` shows that a delay is a `Duration`
  and never above `max_delay`. `BackoffGrowing` needs the powers of the multiplier, a
  recursive function: they exist and are unique by the least-number principle
  (`PowersExist`, `PowersAgree`, `PowerStep`); one more factor and the product of a
  saturated number saturates where the product of the number does (`DelayStep`); and a
  call has slept, at each position, the delay of that number (`DelaysSlept`).
- `LezPipelineProofs`, first part: all of `ProgramSpec`, in which clients submit any sequences
  of accounts (without repetition) and entries. `ProgramInv` adds to the properties
  that a queued `anchor_one` has one account and one entry, and that what was executed
  keeps its effect. A transaction that does not revert has one account per entry,
  the PDA of its CID (`PairsMatch`, `WrittenRecords`), so what `Written` writes is
  exactly the entries whose CID has no record: `RecordsAtTheirPdas`,
  `WellFormedLand`, `AllOrNothing`, and `ProgramRefinement`, where an execution that
  writes is a step of `Registry` and any other step a stutter.
- `LezPipelineProofs`, second part: `LezInv` joins `RunnerInv` and `ProgramInv`, whose lemmas it cites for
  the two halves of a step. What is new is `CheckpointSent` (a CID of a checkpoint, in
  memory or on disk, is in a transaction that was sent) and `SubmittedWellFormed`,
  which needs `Distinct` of the runner's invariant: pending entries are for different
  CIDs, so their PDAs differ. `CheckpointsOnTheirWay` assumes `Oversized = {}`; without
  it the property fails (`lez_oversized`).
- `BasecampAppProofs`: `AppInv` adds that at most one upload or send is in flight, that a
  file was chosen once anything is, and `Remembered`: while a CID is shown, the envelope
  with the remembered timestamp and tags and the form's content type was built for
  some title, and for the form's own while nobody edited it. Then `AppTypeCorrect`,
  `BusyIsExact` and `AnchorsAreBroadcast`.
- `FilePipelineProofs`: the two files of the CLI and the processes on them, for any number
  of processes. First the steps of a replaced file, once for each file: a temporary file
  is never the document, a rename publishes what the renamed inode holds, a cut-short
  operation changes neither. Then three invariants, which TLC has checked on the states
  of `files` too.
  `RegistryInv`: while calls have not overlapped, at most one call is in progress
  (`Serial`), what it is about to write or has in the temporary file is the
  document's state one batch further (`InFlight`), and receipts lag behind the document (`ReceiptsBehind`);
  without the last two a rename says nothing about what is acknowledged, as the content
  was computed several steps before. `CheckpointInv` is the same for the checkpoint: the
  memory of the one process contains the file, and counts more flushes than the file
  while a save is under way (`Durable`, `Ahead`), so that a rename is a commit.
  `NamesRegistered` joins the files: no checkpoint *content* anywhere, in memory, in the
  document or in a stale temporary file, names a CID without its record, as long as calls
  have not overlapped. Saying it of the
  document alone is not inductive, as any process may rename another's temporary file.
  Theorems `TypeCorrect`, `RegistryFileKept`, `ReceiptsTellApart`, `CheckpointFileKept`,
  `CheckpointsRegistered`, and the refinements `RegistryRefinement` and
  `CheckpointRefinement`, under the conditions of section 4 (registry calls that do not
  overlap; for the checkpoint file, one process at a time): only a rename moves the abstract state, every other step of
  opening, writing, failing or being killed is a stutter.

- `CanonicalHashProofs`: strings, lists of tags and integers of any size. The library's
  induction takes an operator, which the provers cannot instantiate; `UpTo` is an induction
  for sets, from the least-number principle: a set that contains 0, and below n the
  successor of each of its members, contains what is up to n. With `Iteration`, that any
  step can be iterated, it shows that each recursion (`Power`, `Value`, `Dedup`, `Concat`,
  `ReadStrings`) has a solution and what its results are (`Powers`, `ReadNumber`,
  `Dedups`, `Concats`, `ReadMany`).
  The two orders on strings are one total order (`StrTrichotomy`, `StrAsymmetry`,
  `StrTransitivity`, `SameOrder`), so both ports sort and deduplicate to the same list:
  `SameBytes`. `EnvelopeInv`, which TLC has checked on the states of `hash`, follows
  the envelope: what the app sent is what was typed, and
  what is hashed is what was parsed. From the two, `PortsAlwaysAgree`.
  Reading back: an integer of w bytes is its value modulo the powers of the base,
  digit by digit (`OneMoreDigit`); a string is found behind its length (`ReadOne`); a list
  of strings by what remains after each (`ReadMany`, `Remainders`). A list has a sorted
  permutation, as each place in turn can be given the least of what is left
  (`Sortable`); what `Dedup` leaves of it is strictly ascending and has the same
  strings (`KeptStep`), and there is one such list of a set (`AscendingUnique`).
  Together `ReadBack`, `HashAlwaysBinds`, and `DigestedAlike`: two envelopes are digested
  alike exactly if they differ at most in tag order, repeated tags and schema version.

Type correctness is checked by `local_two`, `files` and `app_safe`, and proved besides
for the publisher, the registry program and `LezPipeline`.

Only model-checked:

- every liveness property (`PendingAnchored`, `InboxDrained`, `AnchorTerminates`,
  `AcceptedLands`, `PublishEnds`, `FlushEnds`, `BusyEnds`, `SubscribedOnceUp`,
  `ReceivedIsListed`): fairness and `ENABLED` are out of this prover's reach. With them
  all of `AppBootstrap`, whose two properties are both of this kind.

## 6. Not modelled, and the plan

Left out: HTTP, RPC, the JSON syntax and topic encoding, logging, `query`, `status` and
`batch-demo` (they only read or print), key and program-id parsing, the instruction
encoding of the guest, `retry_async` and `unsubscribe` (no callers), content-type
inference, the layout of the app, tests, scripts, CI and packaging. These are why the
storage client, the delivery client, the LEZ adapter and the CLI are listed as partly
modelled: what they do to the state of the system is an action, the rest is I/O.

Known and without a property, because nothing in the code or its documents promises
more: a batch that a registry refuses for ever is retained for ever; pending CIDs are
in memory only; a runner does not subscribe again after its node restarted; the app
announces a document whatever the answer of `send` was. A request that is never
answered is assumed away by the fairness of section 3.

Left to do: one composition from publish to record, in which a document that was
published and relayed gets the record of its own envelope. The parts are proved
(`RelayedIsStored`, `NothingDropped`, `HashAlwaysBinds`, `RecordsAtTheirPdas`), their
composition is not modelled.
