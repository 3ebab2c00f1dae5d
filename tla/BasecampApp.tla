----------------------------- MODULE BasecampApp -----------------------------
(***************************************************************************)
(* The Basecamp app (app/qml/Main.qml): one window whose fields, the form, *)
(* feed three handlers that run at different times: the upload button, the *)
(* event that ends an upload and broadcasts its envelope, and the anchor   *)
(* button.  Handlers are atomic; the user may edit the form between any    *)
(* two of them, and no field is disabled while the app is busy.            *)
(*                                                                         *)
(* A hash is represented by the envelope it is the hash of: CanonicalHash  *)
(* shows that the encoding tells envelopes apart.                          *)
(***************************************************************************)
EXTENDS Naturals, FiniteSets

CONSTANTS File,         \* paths the file dialog may return
          Cid,          \* content identifiers
          ContentType,  \* MIME types
          CidOf,        \* what storage_module names the bytes of a file
          TypeOf,       \* guessContentType of a path
          Meta,         \* title and description together
          Untitled,     \* those with a blank title
          Tags,         \* lists parsedTags may return
          NoTags,       \* the empty one
          Time,         \* values of nowMs()
          None,         \* an empty string property
          MaxUploads,   \* bound: clicks on the upload button
          MaxAnchors    \* bound: clicks on the anchor button

ASSUME AppAssumption ==
    /\ CidOf \in [File -> Cid]
    /\ TypeOf \in [File -> ContentType]
    /\ Untitled \in Meta
    /\ NoTags \in Tags
    /\ Time \subseteq Nat \ {0}
    /\ None \notin File \cup Cid \cup ContentType
    /\ MaxUploads \in Nat
    /\ MaxAnchors \in Nat

\* What buildEnvelopeJson is given, and what metadataHash hashes, but for
\* sizeBytes, which nothing assigns.
Envelope == [cid : Cid, type : ContentType, meta : Meta, ts : Time, tags : Tags]

Form == [file : File \cup {None}, type : ContentType \cup {None},
         meta : Meta, tags : Tags]

VARIABLES form,      \* filePath, contentType and the text fields
          cid,       \* root.cid
          busy,
          lastTs,    \* _lastTimestamp
          lastTags,  \* _lastTags
          uploads,   \* files storage_module is uploading
          sends,     \* envelopes handed to delivery_module, not answered
          built,     \* history: all envelopes handed to it
          anchored,  \* hashes handed to anchorBatch
          refused,   \* history: whether uploadUrl was ever refused
          edited,    \* history: whether title or description were ever changed
                     \* under a CID that is shown
          clicks,    \* clicks on the upload button, for MaxUploads
          anchors    \* clicks on the anchor button, for MaxAnchors

vars == <<form, cid, busy, lastTs, lastTags, uploads, sends, built,
          anchored, refused, edited, clicks, anchors>>

\* Set by none of the handlers of the form.
sent == <<sends, built, lastTs, lastTags>>

Init ==
    /\ form = [file |-> None, type |-> None, meta |-> Untitled, tags |-> NoTags]
    /\ cid = None
    /\ busy = FALSE
    /\ lastTs = 0
    /\ lastTags = NoTags
    /\ uploads = {}
    /\ sends = {}
    /\ built = {}
    /\ anchored = {}
    /\ refused = FALSE
    /\ edited = FALSE
    /\ clicks = 0
    /\ anchors = 0

-----------------------------------------------------------------------------
(* The user *)

\* Mutant of ChooseFile: the CID of the previous file stays.
ChooseFileKeepsCid(f) ==
    /\ form' = [form EXCEPT !.file = f, !.type = TypeOf[f]]
    /\ UNCHANGED <<cid, busy, uploads, sent, anchored, refused, edited, clicks, anchors>>

\* The file dialog's onAccepted; the dialog opens also while the app is busy.
ChooseFile(f) ==
    /\ form' = [form EXCEPT !.file = f, !.type = TypeOf[f]]
    /\ cid' = None
    /\ UNCHANGED <<busy, uploads, sent, anchored, refused, edited, clicks, anchors>>

\* The user types into the text fields.
Edit(m, t) ==
    /\ form' = [form EXCEPT !.meta = m, !.tags = t]
    /\ edited' = (edited \/ (cid # None /\ m # form.meta))
    /\ UNCHANGED <<cid, busy, uploads, sent, anchored, refused, clicks, anchors>>

\* Mutant of doUploadAndBroadcast: the button is not disabled while busy.
doUploadWhileBusy ==
    /\ form.file # None /\ form.meta # Untitled
    /\ clicks < MaxUploads
    /\ clicks' = clicks + 1
    /\ busy' = TRUE
    /\ uploads' = uploads \cup {form.file}
    /\ UNCHANGED <<form, cid, sent, anchored, refused, edited, anchors>>

\* The upload button, enabled as `enabled` says.
doUploadAndBroadcast ==
    /\ ~busy /\ form.file # None /\ form.meta # Untitled
    /\ clicks < MaxUploads
    /\ clicks' = clicks + 1
    /\ busy' = TRUE
    /\ uploads' = uploads \cup {form.file}
    /\ UNCHANGED <<form, cid, sent, anchored, refused, edited, anchors>>

\* The envelope of the form as it is, with a timestamp and a tag list.
EnvelopeOf(c, ts, tags) ==
    [cid |-> c, type |-> form.type, meta |-> form.meta, ts |-> ts, tags |-> tags]

\* What the anchor button would hash now; `now` is nowMs().
HashInput(now) == EnvelopeOf(cid, IF lastTs > 0 THEN lastTs ELSE now, lastTags)

\* The anchor button.  The answer of anchorBatch is only logged.
doAnchor(now) ==
    /\ ~busy /\ cid # None
    /\ anchors < MaxAnchors
    /\ anchors' = anchors + 1
    /\ anchored' = anchored \cup {HashInput(now)}
    /\ UNCHANGED <<form, cid, busy, uploads, sent, refused, edited, clicks>>

-----------------------------------------------------------------------------
(* The modules *)

\* uploadUrl answers with an error: the callback logs it, and no event follows.
UploadRefused(f) ==
    /\ f \in uploads
    /\ uploads' = uploads \ {f}
    /\ refused' = TRUE
    /\ UNCHANGED <<form, cid, busy, sent, anchored, edited, clicks, anchors>>

\* Mutant of handleUploadDone: the file is taken for its CID.
UploadDoneNamesFile(f, now) ==
    /\ f \in uploads
    /\ uploads' = uploads \ {f}
    /\ cid' = f
    /\ lastTs' = now
    /\ lastTags' = form.tags
    /\ sends' = sends \cup {EnvelopeOf(CidOf[f], now, form.tags)}
    /\ built' = built \cup {EnvelopeOf(CidOf[f], now, form.tags)}
    /\ UNCHANGED <<form, busy, anchored, refused, edited, clicks, anchors>>

\* storageUploadDone with success: the envelope of the form as it is now is
\* built and sent; timestamp and tags are remembered.
handleUploadDone(f, now) ==
    /\ f \in uploads
    /\ uploads' = uploads \ {f}
    /\ cid' = CidOf[f]
    /\ lastTs' = now
    /\ lastTags' = form.tags
    /\ sends' = sends \cup {EnvelopeOf(CidOf[f], now, form.tags)}
    /\ built' = built \cup {EnvelopeOf(CidOf[f], now, form.tags)}
    /\ UNCHANGED <<form, busy, anchored, refused, edited, clicks, anchors>>

\* Mutant of UploadFailed: the handler returns before it resets busy.
UploadFailedStaysBusy(f) ==
    /\ f \in uploads
    /\ uploads' = uploads \ {f}
    /\ UNCHANGED <<form, cid, busy, sent, anchored, refused, edited, clicks, anchors>>

\* storageUploadDone without success, or with JSON that does not parse.
UploadFailed(f) ==
    /\ f \in uploads
    /\ uploads' = uploads \ {f}
    /\ busy' = FALSE
    /\ UNCHANGED <<form, cid, sent, anchored, refused, edited, clicks, anchors>>

\* The callback of send, whatever the answer: Delivery has taken the envelope,
\* or the node is down or the call timed out.
SendAnswered(e) ==
    /\ e \in sends
    /\ sends' = sends \ {e}
    /\ busy' = FALSE
    /\ UNCHANGED <<form, cid, uploads, built, lastTs, lastTags, anchored, refused,
                   edited, clicks, anchors>>

UploadEnds(f) ==
    UploadRefused(f) \/ UploadFailed(f) \/ \E now \in Time : handleUploadDone(f, now)

Next ==
    \/ \E f \in File : ChooseFile(f) \/ UploadEnds(f)
    \/ \E m \in Meta, t \in Tags : Edit(m, t)
    \/ doUploadAndBroadcast
    \/ \E now \in Time : doAnchor(now)
    \/ \E e \in sends : SendAnswered(e)

Spec == Init /\ [][Next]_vars

\* The modules end what they have begun; the user need do nothing.
FairSpec ==
    /\ Spec
    /\ \A f \in File : WF_vars(UploadEnds(f))
    /\ WF_vars(\E e \in sends : SendAnswered(e))

-----------------------------------------------------------------------------

\* Every variable has its type.
TypeOK ==
    /\ form \in Form
    /\ cid \in Cid \cup {None}
    /\ busy \in BOOLEAN
    /\ lastTs \in Time \cup {0}
    /\ lastTags \in Tags
    /\ uploads \subseteq File
    /\ built \subseteq Envelope
    /\ sends \subseteq built
    /\ anchored \subseteq Envelope
    /\ refused \in BOOLEAN
    /\ edited \in BOOLEAN
    /\ clicks \in 0..MaxUploads
    /\ anchors \in 0..MaxAnchors

InFlight == uploads # {} \/ sends # {}

\* The app is busy as long as a module works for it, so that no second upload
\* can start and no answer ends the wrong one's wait; and, unless an upload was
\* refused, for no longer.
BusyExact ==
    /\ InFlight => busy
    /\ busy /\ ~refused => InFlight

\* Every hash that was anchored is that of an envelope that was broadcast.
AnchoredWasBroadcast == anchored \subseteq built

\* What is anchored is what was broadcast ("Compute the canonical hash over the
\* SAME inputs that were broadcast so it matches what the batch-anchor tool would
\* derive from the envelope", Main.qml), whatever was chosen, typed or uploaded
\* in between: in CID, content type, timestamp and tags, which the app remembers
\* or resets, always; and in everything as long as nobody changes the title or
\* the description, which it does not remember, of a document that has its CID.
\* The comment knows no such condition.
AnchorsBroadcast ==
    /\ \A a \in anchored : \E e \in built : a = [e EXCEPT !.meta = a.meta]
    /\ edited \/ AnchoredWasBroadcast

\* The app does not stay busy, unless an upload was refused.
BusyEnds == busy ~> ~busy \/ refused

=============================================================================
