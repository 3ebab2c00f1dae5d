---------------------------- MODULE CanonicalHash ----------------------------
(***************************************************************************)
(* A metadata envelope on its way from who describes a document to who     *)
(* anchors it: built as JSON by the app (buildEnvelopeJson), by a          *)
(* publisher (MetadataEnvelope::new, to_json_bytes) or by a stranger,      *)
(* parsed and validated by the anchorer, and hashed there in Rust          *)
(* (wb-types hash.rs) and in the app in C++ (WhistleblowerBackend.cpp).    *)
(*                                                                         *)
(* Strings are sequences of bytes, bytes and integer widths are scaled     *)
(* down, and a hash is represented by the bytes it digests.                *)
(***************************************************************************)
EXTENDS Integers, Sequences, Functions

CONSTANTS Base,    \* values of a byte; the upper half is not ASCII
          W32,     \* bytes of a u32
          W64,     \* bytes of a u64
          Domain,  \* META_HASH_DOMAIN
          Blank,   \* bytes that trim() removes
          Cids, Titles, Descriptions, ContentTypes, Sizes, Times, TagLists,
          Versions

Byte == 0..(Base - 1)
SCHEMA_VERSION == 1

\* How many values n bytes have.
Power[n \in Nat] == IF n = 0 THEN 1 ELSE Base * Power[n - 1]

\* Strings, and lists of tags, are shorter than a u32 counts.
String == {s \in Seq(Byte) : Len(s) < Power[W32]}

ASSUME HashAssumption ==
    /\ Base \in Nat \ {0, 1} /\ W32 \in Nat \ {0} /\ W64 \in Nat \ {0}
    /\ Cids \cup Titles \cup Descriptions \cup ContentTypes \cup {Domain} \subseteq String
    /\ \A list \in TagLists : list \in Seq(String) /\ Len(list) < Power[W32]
    /\ Sizes \cup Times \subseteq 0..(Power[W64] - 1)
    /\ <<>> \in Descriptions /\ <<>> \in TagLists /\ SCHEMA_VERSION \in Versions

Envelope == [cid : Cids, title : Titles, description : Descriptions,
             content_type : ContentTypes, size_bytes : Sizes, timestamp : Times,
             tags : TagLists, schema_version : Versions]

Fields == {"cid", "title", "description", "content_type", "size_bytes",
           "timestamp", "tags", "schema_version"}

\* The fields with #[serde(default)], and their defaults.
Defaults == [description |-> <<>>, tags |-> <<>>, schema_version |-> SCHEMA_VERSION]

VARIABLES pc,     \* composing, sent, parsed, rejected, hashed
          form,   \* what the document is described with
          byApp,  \* whether the Basecamp app has built the JSON
          wire,   \* the JSON object: a function on the fields it has
          env,    \* the anchorer's MetadataEnvelope
          hashed  \* what the anchorer has digested

vars == <<pc, form, byApp, wire, env, hashed>>

Init ==
    /\ pc = "composing"
    /\ form \in {e \in Envelope : e.schema_version = SCHEMA_VERSION}
    /\ byApp = FALSE
    /\ wire = <<>>
    /\ env = <<>>
    /\ hashed = <<>>

-----------------------------------------------------------------------------
(* hash.rs *)

\* to_le_bytes() of an integer of w bytes.
LittleEndian(v, w) == [i \in 1..w |-> (v \div Power[i - 1]) % Base]

\* Mutant of put_lp: the string alone.
put_raw(s) == s

\* A length prefix and the string.
put_lp(s) == LittleEndian(Len(s), W32) \o s

\* str::cmp: a proper prefix is smaller, else the first difference decides.
StrLess(a, b) ==
    \E i \in 1..Len(b) :
        /\ \A j \in 1..(i - 1) : j \in DOMAIN a /\ a[j] = b[j]
        /\ i \in DOMAIN a => a[i] < b[i]

\* The lists that a sort may make of one.
Permuted(tags) == {[i \in DOMAIN tags |-> tags[p[i]]] :
                       p \in Bijection(DOMAIN tags, DOMAIN tags)}

\* Vec::dedup, and std::unique with the erase: of equal neighbours the first stays.
Dedup(s) ==
    LET kept[n \in 0..Len(s)] ==
            IF n = 0 THEN <<>>
            ELSE IF kept[n - 1] # <<>> /\ kept[n - 1][Len(kept[n - 1])] = s[n]
                 THEN kept[n - 1] ELSE Append(kept[n - 1], s[n])
    IN  kept[Len(s)]

\* One string after the other.
Concat(ss) ==
    LET upto[n \in 0..Len(ss)] == IF n = 0 THEN <<>> ELSE upto[n - 1] \o ss[n]
    IN  upto[Len(ss)]

\* sort_unstable and dedup of the tags.
RustTags(tags) ==
    Dedup(CHOOSE s \in Permuted(tags) :
              \A i, j \in DOMAIN tags : i < j => ~StrLess(s[j], s[i]))

\* The bytes that metadata_hash digests.
canonical_metadata_bytes(e) ==
    LET tags == RustTags(e.tags)
    IN  put_lp(Domain) \o put_lp(e.cid) \o put_lp(e.title) \o put_lp(e.description)
            \o put_lp(e.content_type)
            \o LittleEndian(e.size_bytes, W64) \o LittleEndian(e.timestamp, W64)
            \o LittleEndian(Len(tags), W32)
            \o Concat([i \in DOMAIN tags |-> put_lp(tags[i])])

-----------------------------------------------------------------------------
(* WhistleblowerBackend.cpp *)

\* Mutant of TagLess: the bytes are compared as signed chars.
TagLessSigned(a, b) ==
    LET n == IF Len(a) < Len(b) THEN Len(a) ELSE Len(b)
        signed(x) == IF x < Base \div 2 THEN x ELSE x - Base
        differs == {i \in 1..n : a[i] # b[i]}
    IN  IF differs = {} THEN Len(a) < Len(b)
        ELSE LET i == CHOOSE i \in differs : \A j \in differs : i <= j
             IN  signed(a[i]) < signed(b[i])

\* The comparator of normalizedTagBytes.
TagLess(a, b) ==
    LET n == IF Len(a) < Len(b) THEN Len(a) ELSE Len(b)
        differs == {i \in 1..n : a[i] # b[i]}
    IN  IF differs = {} THEN Len(a) < Len(b)
        ELSE LET i == CHOOSE i \in differs : \A j \in differs : i <= j
             IN  a[i] < b[i]

\* std::sort, then erase of what std::unique leaves behind.
normalizedTagBytes(tags) ==
    Dedup(CHOOSE s \in Permuted(tags) :
              \A i, j \in DOMAIN tags : i < j => ~TagLess(s[j], s[i]))

\* putU32Le and putU64Le: the i-th byte is what is left after a shift by i - 1.
putULe(v, w) == [i \in 1..w |-> (v \div Power[i - 1]) % Base]

putLengthPrefixed(s) == putULe(Len(s), W32) \o s

metadataHash(f) ==
    LET tags == normalizedTagBytes(f.tags)
    IN  putLengthPrefixed(Domain) \o putLengthPrefixed(f.cid)
            \o putLengthPrefixed(f.title) \o putLengthPrefixed(f.description)
            \o putLengthPrefixed(f.content_type)
            \o putULe(f.size_bytes, W64) \o putULe(f.timestamp, W64)
            \o putULe(Len(tags), W32)
            \o Concat([i \in DOMAIN tags |-> putLengthPrefixed(tags[i])])

-----------------------------------------------------------------------------

\* The app builds the JSON: every field, the tags as typed.
buildEnvelopeJson ==
    /\ pc = "composing"
    /\ pc' = "sent"
    /\ byApp' = TRUE
    /\ wire' = [k \in Fields |-> form[k]]
    /\ UNCHANGED <<form, env, hashed>>

\* Anyone else does: a publisher every field, a stranger those it likes and any
\* version.
SendJson(present, version) ==
    /\ pc = "composing"
    /\ pc' = "sent"
    /\ wire' = [k \in present |-> IF k = "schema_version" THEN version ELSE form[k]]
    /\ UNCHANGED <<form, byApp, env, hashed>>

\* The anchorer parses: absent fields take their defaults, or the payload is no
\* envelope.
from_json_bytes ==
    /\ pc = "sent"
    /\ IF Fields \ DOMAIN Defaults \subseteq DOMAIN wire
       THEN /\ pc' = "parsed"
            /\ env' = [k \in Fields |-> IF k \in DOMAIN wire THEN wire[k] ELSE Defaults[k]]
       ELSE pc' = "rejected" /\ UNCHANGED env
    /\ UNCHANGED <<form, byApp, wire, hashed>>

IsBlank(s) == \A i \in DOMAIN s : s[i] \in Blank

validate(e) ==
    /\ ~IsBlank(e.cid)
    /\ ~IsBlank(e.content_type)
    /\ e.schema_version = SCHEMA_VERSION

\* ... validates, and hashes for the anchor entry.
anchor_entry ==
    /\ pc = "parsed"
    /\ IF validate(env)
       THEN pc' = "hashed" /\ hashed' = canonical_metadata_bytes(env)
       ELSE pc' = "rejected" /\ UNCHANGED hashed
    /\ UNCHANGED <<form, byApp, wire, env>>

Next ==
    \/ buildEnvelopeJson
    \/ \E present \in SUBSET Fields, version \in Versions : SendJson(present, version)
    \/ from_json_bytes
    \/ anchor_entry

Spec == Init /\ [][Next]_vars

-----------------------------------------------------------------------------

\* Reading the digested bytes back, from the description at the top of hash.rs.
Value(digits) ==
    LET upto[n \in 0..Len(digits)] ==
            IF n = 0 THEN 0 ELSE upto[n - 1] + digits[n] * Power[n - 1]
    IN  upto[Len(digits)]

Take(s, n) == SubSeq(s, 1, IF n < Len(s) THEN n ELSE Len(s))
Drop(s, n) == SubSeq(s, n + 1, Len(s))

ReadString(s) ==
    LET n == Value(Take(s, W32)) IN <<Take(Drop(s, W32), n), Drop(s, W32 + n)>>

ReadStrings(s, n) ==
    LET read[i \in 0..n] ==
            IF i = 0 THEN << <<>>, s>>
            ELSE LET r == ReadString(read[i - 1][2])
                 IN  <<Append(read[i - 1][1], r[1]), r[2]>>
    IN  read[n]

\* The hash binds every field, the tags as a set, and the schema version through
\* its domain: they can be read back from the bytes, so no two envelopes that
\* differ in them are digested alike, whatever strings they are made of; and "two
\* envelopes that differ only in tag order or repeated tags hash identically"
\* (hash.rs).
HashBinds ==
    pc = "hashed" =>
        LET strings == ReadStrings(hashed, 5)
            numbers == strings[2]
            tags == ReadStrings(Drop(numbers, 2 * W64 + W32),
                                Value(Take(Drop(numbers, 2 * W64), W32)))
        IN  /\ strings[1] = <<Domain, env.cid, env.title, env.description,
                              env.content_type>>
            /\ Value(Take(numbers, W64)) = env.size_bytes
            /\ Value(Take(Drop(numbers, W64), W64)) = env.timestamp
            /\ Range(tags[1]) = Range(env.tags)
            /\ tags[2] = <<>>
            /\ env.schema_version = SCHEMA_VERSION
            /\ \A list \in TagLists : Range(list) = Range(env.tags) =>
                   canonical_metadata_bytes([env EXCEPT !.tags = list]) = hashed

\* The app, hashing in C++ what was typed, and the anchorer, hashing in Rust what
\* it parsed from the app's JSON, digest the same bytes ("MUST remain
\* byte-identical", WhistleblowerBackend.cpp).
PortsAgree == pc = "hashed" /\ byApp => hashed = metadataHash(form)

=============================================================================
