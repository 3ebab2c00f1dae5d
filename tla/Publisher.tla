----------------------------- MODULE Publisher -----------------------------
(***************************************************************************)
(* The publish half of wb-index (publisher.rs, retry.rs): upload with      *)
(* retries, then a broadcast deduplicated by CID.  A Publisher is shared   *)
(* by reference, so its calls of publish run concurrently and meet in      *)
(* `seen` alone; a caller retries a failed publish with another call.      *)
(*                                                                         *)
(* Storage is content-addressed and not in the repository: the CID of a    *)
(* call depends on its bytes only.                                         *)
(***************************************************************************)
EXTENDS RetryPolicy, Sequences

CONSTANTS Call,     \* calls of publish
          Cid,      \* content identifiers
          Content,  \* the CID of the bytes of each call
          Invalid,  \* calls whose envelope does not validate
          Policies  \* the policies a Publisher may be given

ASSUME PublisherAssumption ==
    /\ Content \in [Call -> Cid]
    /\ Invalid \subseteq Call
    /\ Policies \subseteq Policy

\* new: not called yet.  uploading: in storage.upload.  backoff: asleep before
\* a retry.  broadcasting: before the lock of seen.  publishing: in
\* delivery.publish.  Then the outcome: sent and duplicate are broadcast = true
\* and false, the others the errors of publish.
PC == {"new", "uploading", "backoff", "broadcasting", "publishing",
       "sent", "duplicate", "upload failed", "invalid", "delivery failed"}

Outcome == PC \ {"new", "uploading", "backoff", "broadcasting", "publishing"}

VARIABLES policy,    \* the retry policy, which never changes
          pc,        \* where each call is
          attempt,   \* upload()'s counter of failures
          slept,     \* history: the delays each call has slept between uploads
          permanent, \* calls whose last upload error was not transient
          seen,      \* the CIDs of the dedup set
          stored,    \* the CIDs Storage holds
          relayed    \* the calls whose envelope Delivery has relayed

vars == <<policy, pc, attempt, slept, permanent, seen, stored, relayed>>

Init ==
    /\ policy \in Policies
    /\ pc = [c \in Call |-> "new"]
    /\ attempt = [c \in Call |-> 0]
    /\ slept = [c \in Call |-> <<>>]
    /\ permanent = {}
    /\ seen = {}
    /\ stored = {}
    /\ relayed = {}

Begin(c) ==
    /\ pc[c] = "new"
    /\ pc' = [pc EXCEPT ![c] = "uploading"]
    /\ UNCHANGED <<policy, attempt, slept, permanent, seen, stored, relayed>>

UploadOk(c) ==
    /\ pc[c] = "uploading"
    /\ pc' = [pc EXCEPT ![c] = "broadcasting"]
    /\ stored' = stored \cup {Content[c]}
    /\ UNCHANGED <<policy, attempt, slept, permanent, seen, relayed>>

\* Mutant of UploadErr: one retry too few.
UploadErrEarly(c) ==
    /\ pc[c] = "uploading"
    /\ attempt' = [attempt EXCEPT ![c] = @ + 1]
    /\ pc' = [pc EXCEPT ![c] = IF attempt'[c] >= policy.max_retries
                               THEN "upload failed" ELSE "backoff"]
    /\ UNCHANGED <<policy, slept, permanent, stored, seen, relayed>>

\* Mutant of UploadErr: the error of the last attempt is dropped.
UploadErrDropped(c) ==
    /\ pc[c] = "uploading"
    /\ attempt' = [attempt EXCEPT ![c] = @ + 1]
    /\ pc' = [pc EXCEPT ![c] = IF attempt'[c] > policy.max_retries
                               THEN "broadcasting" ELSE "backoff"]
    /\ UNCHANGED <<policy, slept, permanent, stored, seen, relayed>>

\* storage.upload fails.  A transient error is retried, a permanent one is not;
\* either may follow an upload that did store the content: an answer that is
\* lost, or one that does not decode or has no CID in it.
UploadErr(c) ==
    /\ pc[c] = "uploading"
    /\ attempt' = [attempt EXCEPT ![c] = @ + 1]
    /\ \/ /\ pc' = [pc EXCEPT ![c] = IF attempt'[c] > policy.max_retries
                                      THEN "upload failed" ELSE "backoff"]
          /\ UNCHANGED permanent
       \/ /\ pc' = [pc EXCEPT ![c] = "upload failed"]
          /\ permanent' = permanent \cup {c}
    /\ stored' \in {stored, stored \cup {Content[c]}}
    /\ UNCHANGED <<policy, slept, seen, relayed>>

\* The sleep before the next attempt ends.
Retry(c) ==
    /\ pc[c] = "backoff"
    /\ pc' = [pc EXCEPT ![c] = "uploading"]
    /\ slept' = [slept EXCEPT ![c] = Append(@, delay_for(policy, attempt[c]))]
    /\ UNCHANGED <<policy, attempt, permanent, seen, stored, relayed>>

\* Mutant of Broadcast: seen is tested and not marked under the lock.
BroadcastUnmarked(c) ==
    /\ pc[c] = "broadcasting"
    /\ pc' = [pc EXCEPT ![c] = IF c \in Invalid THEN "invalid"
                               ELSE IF Content[c] \in seen THEN "duplicate"
                               ELSE "publishing"]
    /\ UNCHANGED <<policy, attempt, slept, permanent, seen, stored, relayed>>

\* Mutant of Broadcast: a call whose CID is marked and not relayed starts over.
BroadcastStartsOver(c) ==
    /\ pc[c] = "broadcasting"
    /\ pc' = [pc EXCEPT ![c] = IF c \in Invalid THEN "invalid"
                               ELSE IF Content[c] \notin seen THEN "publishing"
                               ELSE IF \E d \in relayed : Content[d] = Content[c]
                                    THEN "duplicate" ELSE "uploading"]
    /\ seen' = IF c \in Invalid THEN seen ELSE seen \cup {Content[c]}
    /\ UNCHANGED <<policy, attempt, slept, permanent, stored, relayed>>

\* broadcast() up to the call of Delivery: the CID is marked under the lock.
Broadcast(c) ==
    /\ pc[c] = "broadcasting"
    /\ pc' = [pc EXCEPT ![c] = IF c \in Invalid THEN "invalid"
                               ELSE IF Content[c] \in seen THEN "duplicate"
                               ELSE "publishing"]
    /\ seen' = IF c \in Invalid THEN seen ELSE seen \cup {Content[c]}
    /\ UNCHANGED <<policy, attempt, slept, permanent, stored, relayed>>

PublishOk(c) ==
    /\ pc[c] = "publishing"
    /\ pc' = [pc EXCEPT ![c] = "sent"]
    /\ relayed' = relayed \cup {c}
    /\ UNCHANGED <<policy, attempt, slept, permanent, seen, stored>>

\* delivery.publish fails; the node may have relayed the envelope all the same.
PublishErr(c) ==
    /\ pc[c] = "publishing"
    /\ pc' = [pc EXCEPT ![c] = "delivery failed"]
    /\ relayed' \in {relayed, relayed \cup {c}}
    /\ UNCHANGED <<policy, attempt, slept, permanent, seen, stored>>

Step(c) ==
    \/ UploadOk(c) \/ UploadErr(c) \/ Retry(c)
    \/ Broadcast(c) \/ PublishOk(c) \/ PublishErr(c)

\* Every call has returned.
Done == /\ \A c \in Call : pc[c] \in Outcome
        /\ UNCHANGED vars

Next == (\E c \in Call : Begin(c) \/ Step(c)) \/ Done

Spec == Init /\ [][Next]_vars

\* Assumed of the nodes: a request is answered or its connection breaks (the
\* clients set no timeout).  Sleeps elapse.
FairSpec == Spec /\ \A c \in Call : WF_vars(Step(c))

-----------------------------------------------------------------------------

\* Every variable has its type.
TypeOK ==
    /\ policy \in Policies
    /\ pc \in [Call -> PC]
    /\ attempt \in [Call -> 0..(policy.max_retries + 1)]
    /\ slept \in [Call -> Seq(0..DurationMax)]
    /\ permanent \subseteq Call
    /\ seen \subseteq Cid
    /\ stored \subseteq Cid
    /\ relayed \subseteq Call

\* One Publisher relays an envelope for a CID at most once, however its calls
\* interleave and however often callers retry ("deduplicated by CID").
AtMostOnce ==
    \A c, d \in relayed : Content[c] = Content[d] => c = d

\* Nobody is told of a CID whose content Storage does not hold.
RelayedIsStored == \A c \in relayed : Content[c] \in stored

\* publish gives up on an upload only for a permanent error or after the
\* configured retries ("total attempts = 1 + max_retries"), with a sleep between
\* each two attempts, and no call that gave up has marked its CID or relayed an
\* envelope.
RetriesUsed ==
    \A c \in Call :
        pc[c] = "upload failed" =>
            /\ c \notin permanent => attempt[c] = policy.max_retries + 1
            /\ Len(slept[c]) + 1 = attempt[c]
            /\ c \notin relayed

\* The first delay is base_delay and each later one multiplier times the one
\* before it, up to the cap: max_delay, or what the largest factor gives.  Delays
\* never shrink, also where the power or the product saturates.
BackoffGrows ==
    LET cap == Saturate(Saturate(policy.base * U32Max, DurationMax), policy.max)
    IN  \A c \in Call :
            /\ slept[c] # <<>> => slept[c][1] = Saturate(policy.base, policy.max)
            /\ \A i \in 2..Len(slept[c]) :
                   /\ slept[c][i - 1] <= slept[c][i]
                   /\ slept[c][i] = Saturate(policy.multiplier * slept[c][i - 1], cap)

\* Every call returns.
PublishEnds == \A c \in Call : pc[c] # "new" ~> pc[c] \in Outcome

-----------------------------------------------------------------------------

\* broadcast = false means that the CID "had already been broadcast"
\* (publisher.rs): some call has relayed it, or is at least about to.
DuplicateWasBroadcast ==
    \A c \in Call : pc[c] = "duplicate" =>
        \E d \in Call : /\ Content[d] = Content[c]
                        /\ d \in relayed \/ pc[d] = "publishing"

=============================================================================
