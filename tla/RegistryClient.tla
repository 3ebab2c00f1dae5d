--------------------------- MODULE RegistryClient ---------------------------
(***************************************************************************)
(* The data the registry seam carries: anchor entries, registry records    *)
(* and the merge of one batch into a record table that both in-repository  *)
(* registries (MockRegistry, FileRegistry) perform.                        *)
(*                                                                         *)
(* A record table is total over Cid: a CID with no record maps to          *)
(* NoRecord.                                                               *)
(***************************************************************************)
EXTENDS Naturals, Sequences, FiniteSets

CONSTANTS Cid,       \* content identifiers
          Hash,      \* metadata hashes
          Time,      \* anchor timestamps a submitter's clock may read
          NoRecord   \* "get_by_cid returns None"

\* (cid, metadata_hash), the unit transported to the registry.
AnchorEntry == [cid : Cid, hash : Hash]

\* What the registry stores for a CID.
Record == [cid : Cid, hash : Hash, ts : Time]

ASSUME NoRecordAssumption == NoRecord \notin Record

Tables == [Cid -> Record \cup {NoRecord}]

EmptyTable == [c \in Cid |-> NoRecord]

\* The CIDs that have a record.
Registered(table) == {c \in Cid : table[c] # NoRecord}

\* The CIDs of a batch of entries.
CidsOf(batch) == {batch[i].cid : i \in DOMAIN batch}

\* The entry a batch offers for a CID it contains: the loop inserts the first
\* one and finds the key present for any later one.
FirstFor(batch, c) ==
    CHOOSE i \in DOMAIN batch :
        /\ batch[i].cid = c
        /\ \A j \in DOMAIN batch : batch[j].cid = c => i <= j

\* Mutant of Merge: insert() without the contains_key test.
MergeOverwrites(table, batch, ts) ==
    [c \in Cid |->
        IF c \in CidsOf(batch)
        THEN [cid |-> c, hash |-> batch[FirstFor(batch, c)].hash, ts |-> ts]
        ELSE table[c]]

\* The table after one batch: CIDs already present keep their record.
Merge(table, batch, ts) ==
    [c \in Cid |->
        IF table[c] = NoRecord /\ c \in CidsOf(batch)
        THEN [cid |-> c, hash |-> batch[FirstFor(batch, c)].hash, ts |-> ts]
        ELSE table[c]]

\* Mutant of NewlyAnchored: every submitted CID is reported as new.
AllAnchored(table, batch) == CidsOf(batch)

\* AnchorReceipt.anchored: the CIDs this batch writes.
NewlyAnchored(table, batch) == CidsOf(batch) \ Registered(table)

=============================================================================
