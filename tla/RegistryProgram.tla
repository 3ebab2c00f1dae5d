-------------------------- MODULE RegistryProgram --------------------------
(***************************************************************************)
(* The on-chain registry: the guest program (anchor_batch, anchor_one),    *)
(* one program-derived account per CID, and the sequencer around it, which *)
(* holds accepted transactions and executes each one whole or not at all.  *)
(*                                                                         *)
(* The sequencer is not in the repository.  It is modelled from what the   *)
(* adapter and the guest rely on: an accepted transaction has only been    *)
(* queued, it may be lost before it is sequenced, its execution is atomic, *)
(* and its accounts are distinct.                                          *)
(***************************************************************************)
EXTENDS RegistryClient

CONSTANTS Address,   \* account addresses, registry PDAs and others
          PdaOf,     \* the address derived from a CID
          Oversized  \* CIDs whose record exceeds the account data limit

\* The seed of a PDA is a hash of the CID: different CIDs, different addresses.
ASSUME ProgramAssumption ==
    /\ PdaOf \in [Cid -> Address]
    /\ \A c, d \in Cid : PdaOf[c] = PdaOf[d] => c = d
    /\ Oversized \subseteq Cid

\* records: the accounts handed to the program (any signers first); for
\* anchor_one both sequences have one element.
Transaction == [id : Nat, kind : {"batch", "one"}, records : Seq(Address),
                entries : Seq(AnchorEntry), ts : Time]

VARIABLES accounts,  \* data of every account; NoRecord is Account::default(),
                     \* assumed of every account that this program has not
                     \* written (nobody funds a PDA before its record exists)
          mempool,   \* transactions accepted and not yet sequenced
          executed,  \* transactions sequenced into a block
          nextTx     \* identity for the next transaction

programVars == <<accounts, mempool, executed, nextTx>>

ProgramInit ==
    /\ accounts = [a \in Address |-> NoRecord]
    /\ mempool = {}
    /\ executed = {}
    /\ nextTx = 1

-----------------------------------------------------------------------------
(* The guest *)

\* Mutant of Reverts: the account is not compared with the PDA of its CID.
RevertsNoPda(tx) ==
    \/ tx.kind = "batch" /\ Len(tx.records) # Len(tx.entries)
    \/ \E i \in DOMAIN tx.entries \cap DOMAIN tx.records :
          accounts[tx.records[i]] = NoRecord /\ tx.entries[i].cid \in Oversized

\* Mutant of Reverts: an account that is not default is an error.
RevertsKnown(tx) ==
    \/ tx.kind = "batch" /\ Len(tx.records) # Len(tx.entries)
    \/ \E i \in DOMAIN tx.entries \cap DOMAIN tx.records :
          \/ tx.records[i] # PdaOf[tx.entries[i].cid]
          \/ accounts[tx.records[i]] # NoRecord

\* Mutant of Reverts: < for != in the comparison of the two lengths.
RevertsOnlyMore(tx) ==
    \/ tx.kind = "batch" /\ Len(tx.entries) < Len(tx.records)
    \/ \E i \in DOMAIN tx.entries \cap DOMAIN tx.records :
          \/ tx.records[i] # PdaOf[tx.entries[i].cid]
          \/ /\ accounts[tx.records[i]] = NoRecord
             /\ tx.entries[i].cid \in Oversized

\* SpelError of either instruction: the transaction writes nothing.
Reverts(tx) ==
    \/ tx.kind = "batch" /\ Len(tx.records) # Len(tx.entries)
    \/ \E i \in DOMAIN tx.entries \cap DOMAIN tx.records :
          \/ tx.records[i] # PdaOf[tx.entries[i].cid]
          \/ /\ accounts[tx.records[i]] = NoRecord
             /\ tx.entries[i].cid \in Oversized

\* Mutant of Written: accounts are written whether default or not.
WrittenAlways(tx) ==
    [a \in Address |->
        IF \E i \in DOMAIN tx.records : tx.records[i] = a
        THEN LET i == CHOOSE i \in DOMAIN tx.records : tx.records[i] = a
             IN  [cid |-> tx.entries[i].cid, hash |-> tx.entries[i].hash,
                  ts |-> tx.ts]
        ELSE accounts[a]]

\* SpelOutput::execute_with_claims: default accounts are claimed and written,
\* the others passed through.
Written(tx) ==
    [a \in Address |->
        IF accounts[a] = NoRecord /\ \E i \in DOMAIN tx.records : tx.records[i] = a
        THEN LET i == CHOOSE i \in DOMAIN tx.records : tx.records[i] = a
             IN  [cid |-> tx.entries[i].cid, hash |-> tx.entries[i].hash,
                  ts |-> tx.ts]
        ELSE accounts[a]]

\* A transaction is sequenced into a block, reverted or not.
Execute(tx) ==
    /\ tx \in mempool
    /\ mempool' = mempool \ {tx}
    /\ executed' = executed \cup {tx}
    /\ accounts' = IF Reverts(tx) THEN accounts ELSE Written(tx)
    /\ UNCHANGED nextTx

\* A queued transaction is lost.
Drop(tx) ==
    /\ tx \in mempool
    /\ mempool' = mempool \ {tx}
    /\ UNCHANGED <<accounts, executed, nextTx>>

\* send_transaction is answered: the transaction is queued.
Submit(kind, recs, entries, ts) ==
    /\ mempool' = mempool \cup {[id |-> nextTx, kind |-> kind, records |-> recs,
                                 entries |-> entries, ts |-> ts]}
    /\ nextTx' = nextTx + 1
    /\ UNCHANGED <<accounts, executed>>

\* Any client: anchor_batch of any entries with any accounts, or anchor_one.
SubmitAny ==
    \E recs \in Seq(Address), entries \in Seq(AnchorEntry), ts \in Time :
        /\ \A i, j \in DOMAIN recs : recs[i] = recs[j] => i = j
        /\ \/ Submit("batch", recs, entries, ts)
           \/ Len(recs) = 1 /\ Len(entries) = 1 /\ Submit("one", recs, entries, ts)

Sequencer == \E tx \in mempool : Execute(tx) \/ Drop(tx)

ProgramSpec == ProgramInit /\ [][SubmitAny \/ Sequencer]_programVars

-----------------------------------------------------------------------------

ProgramTypeOK ==
    /\ accounts \in [Address -> Record \cup {NoRecord}]
    /\ mempool \subseteq Transaction
    /\ executed \subseteq Transaction
    /\ nextTx \in Nat \ {0}

\* get_by_cid for every CID: the record in the account at its PDA.
Chain == [c \in Cid |-> accounts[PdaOf[c]]]

\* What a client builds with pda_for_cid, in entry order and with no signer.
PdasOf(batch) == [i \in DOMAIN batch |-> PdaOf[batch[i].cid]]

WellFormed(tx) == tx.records = PdasOf(tx.entries)

-----------------------------------------------------------------------------
(* Safety *)

\* A record lies in the account of its own CID, whatever accounts the clients
\* of anchor_batch and anchor_one pass and in whatever order: a reader that
\* derives the PDA never gets another document's hash.
RecordAtItsPda ==
    \A a \in Address : accounts[a] # NoRecord => a = PdaOf[accounts[a].cid]

\* Re-anchoring a known CID, or two anchorers racing on one, never fails
\* (wb_registry.rs): after a well-formed transaction without an oversized
\* record was sequenced, each of its CIDs has a record, whoever wrote it.
SequencedLands ==
    \A tx \in executed :
        WellFormed(tx) /\ CidsOf(tx.entries) \cap Oversized = {}
            => CidsOf(tx.entries) \subseteq Registered(Chain)

\* A transaction is all or nothing: when a step writes any account, some
\* transaction it sequences finds all its CIDs registered afterwards.
NoPartialBatch ==
    [][accounts' # accounts =>
          \E tx \in executed' \ executed :
              /\ CidsOf(tx.entries) \subseteq Registered(Chain)'
              /\ Registered(Chain)' \ Registered(Chain) \subseteq CidsOf(tx.entries)
      ]_programVars

\* The program implements the registry its clients rely on.
Promised == INSTANCE Registry WITH records <- Chain
ImplementsRegistry == Promised!Spec

=============================================================================
