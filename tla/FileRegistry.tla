---------------------------- MODULE FileRegistry ----------------------------
(***************************************************************************)
(* FileRegistry of wb-index (registry.rs): the registry of the local demo, *)
(* one JSON file that every call loads, changes in memory and replaces by  *)
(* a rename.  Its callers are processes of their own (each CLI command is  *)
(* one), which share the file and the temporary file and no lock.          *)
(***************************************************************************)
EXTENDS RegistryClient, ReplacedFile

CONSTANTS MaxCalls,  \* bound: calls of anchor_batch
          MaxFaults  \* bound: failed or killed calls

FileState == [records : Tables, seq : Nat]

ASSUME FileRegistryAssumption ==
    /\ Torn \notin FileState
    /\ MaxCalls \in Nat
    /\ MaxFaults \in Nat

\* FileState::default(), what a missing file loads as.
NoState == [records |-> EmptyTable, seq |-> 0]

Receipt == [tx : Nat, anchored : SUBSET Cid, present : SUBSET Cid]

NoReceipt == [tx |-> 0, anchored |-> {}, present |-> {}]

VARIABLES st,       \* each writer's local FileState, the batch merged into it
          answer,   \* the receipt it will give
          receipts, \* receipts given
          raced,    \* history: whether two calls have ever overlapped
          calls,    \* calls so far, for MaxCalls
          faults    \* failures so far, for MaxFaults

callVars == <<st, answer, receipts, raced, calls, faults>>

Init ==
    /\ FileInit
    /\ st = [w \in Writer |-> NoState]
    /\ answer = [w \in Writer |-> NoReceipt]
    /\ receipts = {}
    /\ raced = FALSE
    /\ calls = 0
    /\ faults = 0

-----------------------------------------------------------------------------

\* load() of the current file.
Current == Content(NoState)

\* anchor_batch up to the save, on the file state it has loaded.
MergeInto(w, loaded, batch, ts) ==
    /\ Loaded(w)
    /\ calls < MaxCalls
    /\ calls' = calls + 1
    /\ raced' = (raced \/ \E v \in Writer : pc[v] # "idle")
    /\ st' = [st EXCEPT ![w] = [records |-> Merge(loaded.records, batch, ts),
                                seq |-> loaded.seq + 1]]
    /\ answer' = [answer EXCEPT ![w] =
                 [tx |-> loaded.seq + 1,
                  anchored |-> NewlyAnchored(loaded.records, batch),
                  present |-> CidsOf(batch) \cap Registered(loaded.records)]]
    /\ UNCHANGED <<path, tmp, data, fd, receipts, faults>>

\* Mutant of Call: the batch is merged into an empty table.
CallUnloaded(w, batch, ts) ==
    Current # Torn /\ MergeInto(w, [Current EXCEPT !.records = EmptyTable], batch, ts)

\* The load, then the merge in memory.
Call(w, batch, ts) == Current # Torn /\ MergeInto(w, Current, batch, ts)

\* The file does not decode: the call ends with an error.
CallErr(w) ==
    /\ pc[w] = "idle"
    /\ calls < MaxCalls
    /\ calls' = calls + 1
    /\ Current = Torn
    /\ UNCHANGED <<fileVars, st, answer, receipts, raced, faults>>

Open(w) == OpenTmp(w) /\ UNCHANGED callVars

\* Mutant of Write: the counter is written without the records.
WriteSeqOnly(w) == WriteTmp(w, [seq |-> st[w].seq]) /\ UNCHANGED callVars

Write(w) == WriteTmp(w, st[w]) /\ UNCHANGED callVars

\* The process no longer runs anchor_batch: its locals are gone.
Leave(w) ==
    /\ st' = [st EXCEPT ![w] = NoState]
    /\ answer' = [answer EXCEPT ![w] = NoReceipt]

Rename(w) ==
    /\ RenameTmp(w)
    /\ receipts' = receipts \cup {answer[w]}
    /\ Leave(w)
    /\ UNCHANGED <<raced, calls, faults>>

RenameErr(w) ==
    /\ RenameTmpErr(w)
    /\ Leave(w)
    /\ UNCHANGED <<receipts, raced, calls, faults>>

\* A step fails, and anchor_batch returns its error.
Fail(w) ==
    /\ pc[w] # "idle"
    /\ faults < MaxFaults
    /\ faults' = faults + 1
    /\ Abandon(w)
    /\ Leave(w)
    /\ UNCHANGED <<receipts, raced, calls>>

\* The process is killed; right after the rename only the receipt is lost.
Kill(w) ==
    /\ pc[w] # "idle"
    /\ faults < MaxFaults
    /\ faults' = faults + 1
    /\ Abandon(w) \/ RenameTmp(w)
    /\ Leave(w)
    /\ UNCHANGED <<receipts, raced, calls>>

-----------------------------------------------------------------------------

\* Every variable has its type.
TypeOK ==
    /\ FileTypeOK(FileState)
    /\ st \in [Writer -> FileState]
    /\ answer \in [Writer -> Receipt]
    /\ receipts \subseteq Receipt
    /\ raced \in BOOLEAN
    /\ calls \in 0..MaxCalls
    /\ faults \in 0..MaxFaults

\* What get_by_cid returns for every CID; nothing when the file does not decode.
Visible == IF Current = Torn THEN EmptyTable ELSE Current.records

\* Every CID a receipt names, as newly anchored or as already present, can be
\* queried when no call runs (README.md: "Idempotent anchoring (safe re-anchor /
\* concurrent anchorers)", for Mock/FileRegistry too).
AcknowledgedKept ==
    (\A w \in Writer : pc[w] = "idle") =>
        \A q \in receipts : q.anchored \cup q.present \subseteq Registered(Visible)

\* It can as long as calls have not overlapped, whoever made them and however
\* many were killed on the way; and a reader finds a complete document at any
\* time, also between the steps of a call: only a whole temporary file is ever
\* renamed.
SerialKept == raced \/ (Current # Torn /\ AcknowledgedKept)

\* As long as calls have not overlapped, receipts tell transactions apart, and
\* a CID is newly anchored by one of them only, also after a call was killed
\* with its batch already in the file.
SerialReceipts ==
    raced \/ \A q1, q2 \in receipts : q1 # q2 =>
                 /\ q1.tx # q2.tx
                 /\ q1.anchored \cap q2.anchored = {}

\* As long as calls have not overlapped, the file implements the registry its
\* clients rely on: a call that is cut short anywhere happened or did not.
Promised == INSTANCE Registry WITH records <- Visible
ImplementsRegistry == Promised!Init /\ [][raced' \/ Promised!Next]_Visible

=============================================================================
