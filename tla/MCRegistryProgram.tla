------------------------- MODULE MCRegistryProgram -------------------------
(* The registry program with clients that submit any batch of one or two   *)
(* entries and any accounts, well-formed or not.                           *)
EXTENDS RegistryProgram, TLC

CONSTANTS c1, c2, c3, h1, h2, a1, a2, a3, w1, MaxTx

Pdas == c1 :> a1 @@ c2 :> a2 @@ c3 :> a3

\* Sequences of one to n distinct elements of S.
DistinctSeqs(S, n) ==
    {s \in UNION {[1..k -> S] : k \in 1..n} :
        \A i, j \in DOMAIN s : s[i] = s[j] => i = j}

Batches == {b \in DistinctSeqs(AnchorEntry, 2) :
               \A i, j \in DOMAIN b : b[i].cid = b[j].cid => i = j}

\* The accounts a client passes; the program sees the signer w1 before them.
AccountLists ==
    DistinctSeqs(Address, 2) \cup {<<w1>> \o s : s \in DistinctSeqs(Address \ {w1}, 2)}

\* SubmitAny over these.
SubmitSome ==
    /\ nextTx <= MaxTx
    /\ \E ts \in Time :
         \/ \E b \in Batches, recs \in AccountLists :
                Submit("batch", recs, b, ts)
         \/ \E e \in AnchorEntry, a \in Address : Submit("one", <<a>>, <<e>>, ts)

Spec == ProgramInit /\ [][SubmitSome \/ Sequencer]_programVars

Symmetry == Permutations({h1, h2})

=============================================================================
