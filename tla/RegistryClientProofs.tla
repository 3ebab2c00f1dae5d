------------------------ MODULE RegistryClientProofs ------------------------
(***************************************************************************)
(* Lemmas about batches and the merge of a batch into a record table.      *)
(***************************************************************************)
EXTENDS RegistryClient, FiniteSetTheorems, WellFoundedInduction, TLAPS

\* An empty batch names no CID.
LEMMA CidsOfEmpty == CidsOf(<<>>) = {}
  BY DEF CidsOf

\* Appending an entry to a batch adds its CID and no other.
LEMMA CidsOfAppend ==
    ASSUME NEW s \in Seq(AnchorEntry), NEW e \in AnchorEntry
    PROVE  CidsOf(Append(s, e)) = CidsOf(s) \cup {e.cid}
  <1>1. DOMAIN Append(s, e) = DOMAIN s \cup {Len(s) + 1}
    OBVIOUS
  <1>2. \A i \in DOMAIN s : Append(s, e)[i] = s[i]
    OBVIOUS
  <1>3. Append(s, e)[Len(s) + 1] = e
    OBVIOUS
  <1>4. QED
    BY <1>1, <1>2, <1>3 DEF CidsOf

\* A batch names CIDs only.
LEMMA CidsOfType ==
    ASSUME NEW s \in Seq(AnchorEntry)
    PROVE  CidsOf(s) \subseteq Cid
  <1>1. \A i \in DOMAIN s : s[i] \in AnchorEntry
    OBVIOUS
  <1>2. QED
    BY <1>1 DEF CidsOf, AnchorEntry

\* A batch names finitely many CIDs.
LEMMA CidsOfFinite ==
    ASSUME NEW s \in Seq(AnchorEntry)
    PROVE  IsFiniteSet(CidsOf(s))
  <1> DEFINE f == [i \in DOMAIN s |-> s[i].cid]
  <1>1. IsFiniteSet(DOMAIN s)
    <2>1. DOMAIN s = 1..Len(s) /\ 1 \in Int /\ Len(s) \in Int
      OBVIOUS
    <2>2. QED
      BY <2>1, FS_Interval
  <1>2. f \in Surjection(DOMAIN s, CidsOf(s))
    BY DEF CidsOf, Surjection
  <1>3. QED
    BY <1>1, <1>2, FS_Surjection

\* The least-number principle, for sets of naturals.
LEMMA LeastElement ==
    ASSUME NEW S \in SUBSET Nat, S # {}
    PROVE  \E m \in S : \A k \in S : m <= k
  <1> DEFINE Less == {p \in Nat \X Nat : p[1] < p[2]}
  <1>1. Less = OpToRel(<, Nat)
    BY DEF OpToRel
  <1>2. IsWellFoundedOn(Less, Nat)
    BY <1>1, NatLessThanWellFounded
  <1>3. PICK m \in S : \A k \in S : <<k, m>> \notin Less
    BY <1>2, WFMin
  <1>4. ASSUME NEW k \in S
        PROVE  m <= k
    <2>1. m \in Nat /\ k \in Nat /\ ~(k < m)
      BY <1>3
    <2>2. QED
      BY <2>1
  <1>5. QED
    BY <1>4

\* The entry the merge takes for a CID of the batch is one of the batch, for
\* that CID.
LEMMA FirstForEntry ==
    ASSUME NEW s \in Seq(AnchorEntry), NEW c \in CidsOf(s)
    PROVE  /\ FirstFor(s, c) \in DOMAIN s
           /\ s[FirstFor(s, c)] \in AnchorEntry
           /\ s[FirstFor(s, c)].cid = c
  <1> DEFINE At == {i \in DOMAIN s : s[i].cid = c}
  <1>1. At # {} /\ At \in SUBSET Nat
    BY DEF CidsOf
  <1>2. \E i \in DOMAIN s :
            s[i].cid = c /\ \A j \in DOMAIN s : s[j].cid = c => i <= j
    BY <1>1, LeastElement
  <1>3. FirstFor(s, c) \in DOMAIN s /\ s[FirstFor(s, c)].cid = c
    BY <1>2 DEF FirstFor
  <1>4. QED
    BY <1>3

\* Merging a batch yields a table.
LEMMA MergeType ==
    ASSUME NEW t \in Tables, NEW s \in Seq(AnchorEntry), NEW ts \in Time
    PROVE  Merge(t, s, ts) \in Tables
  <1>1. ASSUME NEW c \in Cid, c \in CidsOf(s)
        PROVE  [cid |-> c, hash |-> s[FirstFor(s, c)].hash, ts |-> ts] \in Record
    BY <1>1, FirstForEntry DEF Record, AnchorEntry
  <1>2. QED
    BY <1>1 DEF Merge, Tables

\* After a batch exactly its CIDs have been added to the registered ones.
LEMMA MergeRegistered ==
    ASSUME NEW t \in Tables, NEW s \in Seq(AnchorEntry), NEW ts \in Time
    PROVE  Registered(Merge(t, s, ts)) = Registered(t) \cup CidsOf(s)
  <1>1. ASSUME NEW c \in Cid, c \in CidsOf(s)
        PROVE  [cid |-> c, hash |-> s[FirstFor(s, c)].hash, ts |-> ts] # NoRecord
    <2>1. [cid |-> c, hash |-> s[FirstFor(s, c)].hash, ts |-> ts] \in Record
      BY <1>1, FirstForEntry DEF Record, AnchorEntry
    <2>2. QED
      BY <2>1, NoRecordAssumption
  <1>2. QED
    BY <1>1, CidsOfType DEF Merge, Registered, Tables

\* The receipt of a batch counts a natural number of CIDs.
LEMMA NewlyAnchoredCount ==
    ASSUME NEW t \in Tables, NEW s \in Seq(AnchorEntry)
    PROVE  Cardinality(NewlyAnchored(t, s)) \in Nat
  <1>1. IsFiniteSet(NewlyAnchored(t, s))
    BY CidsOfFinite, FS_Subset DEF NewlyAnchored
  <1>2. QED
    BY <1>1, FS_CardinalityType

\* Disjoint finite sets count up.
LEMMA DisjointCount ==
    ASSUME NEW S, NEW T, IsFiniteSet(S), IsFiniteSet(T), S \cap T = {}
    PROVE  /\ IsFiniteSet(S \cup T)
           /\ Cardinality(S \cup T) = Cardinality(S) + Cardinality(T)
  <1>1. /\ IsFiniteSet(S \cup T)
        /\ Cardinality(S \cup T)
               = Cardinality(S) + Cardinality(T) - Cardinality(S \cap T)
    BY FS_Union
  <1>2. Cardinality(S \cap T) = 0
    BY FS_EmptySet
  <1>3. Cardinality(S) \in Int /\ Cardinality(T) \in Int
    BY FS_CardinalityType
  <1>4. QED
    BY <1>1, <1>2, <1>3

\* The table `new` is `old` after one batch (Registry!AnchorBatch).
Extends(old, new) ==
    \E S \in SUBSET (Cid \ Registered(old)), ts \in Time :
        \E h \in [S -> Hash] :
            new = [c \in Cid |-> IF c \in S
                                 THEN [cid |-> c, hash |-> h[c], ts |-> ts]
                                 ELSE old[c]]

\* Merging a batch is one.
LEMMA MergeExtends ==
    ASSUME NEW t \in Tables, NEW s \in Seq(AnchorEntry), NEW ts \in Time
    PROVE  Extends(t, Merge(t, s, ts))
  <1> DEFINE S == NewlyAnchored(t, s)
             h == [c \in S |-> s[FirstFor(s, c)].hash]
  <1>1. S \in SUBSET (Cid \ Registered(t))
    BY CidsOfType DEF NewlyAnchored
  <1>2. h \in [S -> Hash]
    BY FirstForEntry DEF NewlyAnchored, AnchorEntry
  <1>3. Merge(t, s, ts) = [c \in Cid |-> IF c \in S
                               THEN [cid |-> c, hash |-> h[c], ts |-> ts]
                               ELSE t[c]]
    <2>1. \A c \in Cid : c \in S <=> t[c] = NoRecord /\ c \in CidsOf(s)
      BY DEF NewlyAnchored, Registered
    <2>2. \A c \in S : h[c] = s[FirstFor(s, c)].hash
      OBVIOUS
    <2> HIDE DEF S, h
    <2>3. QED
      BY <2>1, <2>2 DEF Merge
  <1> HIDE DEF S, h
  <1>4. QED
    BY <1>1, <1>2, <1>3 DEF Extends

\* A batch yields a table and takes no record away.
LEMMA ExtendsRegistered ==
    ASSUME NEW t \in Tables, NEW u, Extends(t, u)
    PROVE  u \in Tables /\ Registered(t) \subseteq Registered(u)
  <1>1. PICK S \in SUBSET (Cid \ Registered(t)), ts \in Time :
            \E h \in [S -> Hash] :
                u = [c \in Cid |-> IF c \in S
                                   THEN [cid |-> c, hash |-> h[c], ts |-> ts]
                                   ELSE t[c]]
    BY DEF Extends
  <1>2. PICK h \in [S -> Hash] :
            u = [c \in Cid |-> IF c \in S
                               THEN [cid |-> c, hash |-> h[c], ts |-> ts]
                               ELSE t[c]]
    BY <1>1
  <1>3. \A c \in S : [cid |-> c, hash |-> h[c], ts |-> ts] \in Record
    BY DEF Record
  <1>4. u \in Tables
    BY <1>2, <1>3 DEF Tables
  <1>5. \A c \in Registered(t) : u[c] = t[c]
    BY <1>2 DEF Registered
  <1>6. QED
    BY <1>4, <1>5 DEF Registered

=============================================================================
