-------------------------- MODULE BasecampAppProofs --------------------------
(***************************************************************************)
(* Theorems about BasecampApp, for any files, texts, clock and number of   *)
(* clicks.                                                                 *)
(***************************************************************************)
EXTENDS BasecampApp, TLAPS

\* At most one module call is in flight, and only while the app is busy.
OneInFlight ==
    /\ \A f, g \in uploads : f = g
    /\ \A d, e \in sends : d = e
    /\ uploads = {} \/ sends = {}

\* A file whose upload is under way was chosen, and a chosen file has a type.
FileChosen ==
    /\ uploads # {} => form.file # None
    /\ form.file # None => form.type \in ContentType

\* A CID is shown as long as all that was broadcast with it is still what the app
\* remembers or, but for edited texts, what the form holds.
Remembered ==
    cid # None => \E e \in built : /\ e.cid = cid
                                   /\ e.type = form.type
                                   /\ e.ts = lastTs
                                   /\ e.tags = lastTags
                                   /\ edited \/ e.meta = form.meta

\* The inductive invariant.
AppInv ==
    /\ TypeOK
    /\ BusyExact
    /\ AnchorsBroadcast
    /\ OneInFlight
    /\ FileChosen
    /\ Remembered

\* The initial state satisfies it.
LEMMA InitAppInv == Init => AppInv
  <1> SUFFICES ASSUME Init PROVE AppInv
    OBVIOUS
  <1>1. form \in Form /\ form.file = None
    BY AppAssumption DEF Init, Form
  <1>2. cid = None /\ lastTs = 0 /\ lastTags \in Tags
    BY AppAssumption DEF Init
  <1>3. /\ uploads = {} /\ sends = {} /\ built = {} /\ anchored = {}
        /\ busy \in BOOLEAN /\ refused \in BOOLEAN /\ edited \in BOOLEAN
    BY DEF Init
  <1>4. clicks \in 0..MaxUploads /\ anchors \in 0..MaxAnchors
    BY AppAssumption DEF Init
  <1>5. TypeOK
    BY <1>1, <1>2, <1>3, <1>4, Zenon DEF TypeOK
  <1>6. BusyExact /\ OneInFlight
    BY DEF Init, BusyExact, InFlight, OneInFlight
  <1>7. FileChosen
    BY <1>1 DEF Init, FileChosen
  <1>8. AnchorsBroadcast /\ Remembered
    BY DEF Init, AnchorsBroadcast, AnchoredWasBroadcast, Remembered
  <1>9. QED
    BY <1>5, <1>6, <1>7, <1>8 DEF AppInv

\* Choosing a file resets the CID, so that nothing need be remembered of it.
LEMMA ChooseFileInv ==
    ASSUME AppInv, NEW f \in File, ChooseFile(f) PROVE AppInv'
  <1> DEFINE new == [form EXCEPT !.file = f, !.type = TypeOf[f]]
  <1>1. /\ f # None /\ TypeOf[f] \in ContentType
        /\ form \in Form
    BY AppAssumption DEF AppInv, TypeOK
  <1>2. new \in Form /\ new.file = f /\ new.type = TypeOf[f]
    BY <1>1 DEF Form
  <1>3. form' = new /\ cid' = None
    BY DEF ChooseFile
  <1> HIDE DEF new
  <1>4. TypeOK'
    BY <1>2, <1>3 DEF AppInv, TypeOK, ChooseFile, sent
  <1>5. BusyExact' /\ OneInFlight' /\ AnchorsBroadcast'
    BY DEF AppInv, ChooseFile, sent, BusyExact, InFlight, OneInFlight,
           AnchorsBroadcast, AnchoredWasBroadcast
  <1>6. FileChosen' /\ Remembered'
    BY <1>1, <1>2, <1>3 DEF FileChosen, Remembered
  <1>7. QED
    BY <1>4, <1>5, <1>6 DEF AppInv

\* The texts and the tags field are not remembered.
LEMMA EditInv ==
    ASSUME AppInv, NEW m \in Meta, NEW t \in Tags, Edit(m, t) PROVE AppInv'
  <1> DEFINE new == [form EXCEPT !.meta = m, !.tags = t]
  <1>1. form \in Form
    BY DEF AppInv, TypeOK
  <1>2. /\ new \in Form /\ new.file = form.file /\ new.type = form.type
        /\ new.meta = m
    BY <1>1 DEF Form
  <1>3. form' = new
    BY DEF Edit
  <1> HIDE DEF new
  <1>4. TypeOK'
    BY <1>2, <1>3 DEF AppInv, TypeOK, Edit, sent
  <1>5. BusyExact' /\ OneInFlight' /\ AnchorsBroadcast'
    BY DEF AppInv, Edit, sent, BusyExact, InFlight, OneInFlight,
           AnchorsBroadcast, AnchoredWasBroadcast
  <1>6. FileChosen'
    BY <1>2, <1>3 DEF AppInv, Edit, sent, FileChosen
  <1>7. cid # None /\ m # form.meta => edited'
    BY DEF Edit
  <1>8. Remembered'
    BY <1>2, <1>3, <1>7 DEF AppInv, Edit, sent, Remembered
  <1>9. QED
    BY <1>4, <1>5, <1>6, <1>8 DEF AppInv

\* An upload starts only when nothing is in flight.
LEMMA UploadInv ==
    ASSUME AppInv, doUploadAndBroadcast PROVE AppInv'
  <1>1. uploads = {} /\ sends = {}
    BY DEF AppInv, BusyExact, InFlight, doUploadAndBroadcast
  <1>2. uploads' = {form.file} /\ sends' = {}
    BY <1>1 DEF doUploadAndBroadcast, sent
  <1>3. form.file \in File
    BY DEF AppInv, TypeOK, Form, doUploadAndBroadcast
  <1>4. clicks' \in 0..MaxUploads
    BY AppAssumption DEF AppInv, TypeOK, doUploadAndBroadcast
  <1>5. TypeOK'
    BY <1>2, <1>3, <1>4 DEF AppInv, TypeOK, doUploadAndBroadcast, sent
  <1>6. BusyExact' /\ OneInFlight'
    BY <1>2 DEF BusyExact, InFlight, OneInFlight, doUploadAndBroadcast
  <1>7. AnchorsBroadcast' /\ FileChosen' /\ Remembered'
    BY DEF AppInv, doUploadAndBroadcast, sent, AnchorsBroadcast, AnchoredWasBroadcast,
           FileChosen, Remembered
  <1>8. QED
    BY <1>5, <1>6, <1>7 DEF AppInv

\* What is hashed when a CID is shown is a broadcast envelope but for edited texts.
LEMMA HashInputKnown ==
    ASSUME AppInv, NEW now \in Time, cid # None
    PROVE  /\ HashInput(now) \in Envelope
           /\ \E e \in built : HashInput(now) = [e EXCEPT !.meta = HashInput(now).meta]
           /\ edited \/ HashInput(now) \in built
  <1>1. PICK e \in built : /\ e.cid = cid /\ e.type = form.type
                           /\ e.ts = lastTs /\ e.tags = lastTags
                           /\ edited \/ e.meta = form.meta
    BY DEF AppInv, Remembered
  <1>2. e \in Envelope /\ form.meta \in Meta
    BY <1>1 DEF AppInv, TypeOK, Form
  <1>3. lastTs \in Time
    BY <1>1, <1>2 DEF Envelope
  <1>4. lastTs > 0
    BY <1>3, AppAssumption
  <1>5. HashInput(now) = [cid |-> e.cid, type |-> e.type, meta |-> form.meta,
                          ts |-> e.ts, tags |-> e.tags]
    BY <1>1, <1>4 DEF HashInput, EnvelopeOf
  <1>6. HashInput(now) \in Envelope
    BY <1>2, <1>5 DEF Envelope
  <1>7. HashInput(now) = [e EXCEPT !.meta = form.meta] /\ HashInput(now).meta = form.meta
    BY <1>2, <1>5 DEF Envelope
  <1>8. e.meta = form.meta => HashInput(now) = e
    BY <1>2, <1>7 DEF Envelope
  <1>9. QED
    BY <1>1, <1>6, <1>7, <1>8

\* The anchor button.
LEMMA AnchorInv ==
    ASSUME AppInv, NEW now \in Time, doAnchor(now) PROVE AppInv'
  <1>1. /\ HashInput(now) \in Envelope
        /\ \E e \in built : HashInput(now) = [e EXCEPT !.meta = HashInput(now).meta]
        /\ edited \/ HashInput(now) \in built
    BY HashInputKnown DEF doAnchor
  <1>2. anchored' = anchored \cup {HashInput(now)}
    BY DEF doAnchor
  <1>3. built' = built /\ edited' = edited
    BY DEF doAnchor, sent
  <1>4. anchors' \in 0..MaxAnchors
    BY AppAssumption DEF AppInv, TypeOK, doAnchor
  <1>5. TypeOK'
    BY <1>1, <1>2, <1>4 DEF AppInv, TypeOK, doAnchor, sent
  <1>6. AnchorsBroadcast'
    BY <1>1, <1>2, <1>3 DEF AppInv, AnchorsBroadcast, AnchoredWasBroadcast
  <1>7. BusyExact' /\ OneInFlight' /\ FileChosen' /\ Remembered'
    BY DEF AppInv, doAnchor, sent, BusyExact, InFlight, OneInFlight, FileChosen,
           Remembered
  <1>8. QED
    BY <1>5, <1>6, <1>7 DEF AppInv

\* The only upload ends, with or without an event.
LEMMA UploadEndsInv ==
    ASSUME AppInv, NEW f \in File, UploadRefused(f) \/ UploadFailed(f)
    PROVE  AppInv'
  <1>1. f \in uploads /\ uploads' = uploads \ {f} /\ sends' = sends
    BY DEF UploadRefused, UploadFailed, sent
  <1>2. uploads' = {} /\ sends' = {}
    BY <1>1 DEF AppInv, OneInFlight
  <1>3. TypeOK'
    BY <1>2 DEF AppInv, TypeOK, UploadRefused, UploadFailed, sent
  <1>4. BusyExact' /\ OneInFlight'
    BY <1>2 DEF BusyExact, InFlight, OneInFlight, UploadRefused, UploadFailed
  <1>5. AnchorsBroadcast' /\ FileChosen' /\ Remembered'
    BY <1>2 DEF AppInv, UploadRefused, UploadFailed, sent, AnchorsBroadcast,
           AnchoredWasBroadcast, FileChosen, Remembered
  <1>6. QED
    BY <1>3, <1>4, <1>5 DEF AppInv

\* The upload becomes a broadcast, which the app remembers.
LEMMA UploadDoneInv ==
    ASSUME AppInv, NEW f \in File, NEW now \in Time, handleUploadDone(f, now)
    PROVE  AppInv'
  <1> DEFINE e == EnvelopeOf(CidOf[f], now, form.tags)
  <1>1. uploads = {f} /\ sends = {}
    BY DEF AppInv, OneInFlight, handleUploadDone
  <1>2. /\ form.type \in ContentType /\ form.meta \in Meta /\ form.tags \in Tags
        /\ CidOf[f] \in Cid
    BY <1>1, AppAssumption DEF AppInv, FileChosen, TypeOK, Form
  <1>3. /\ e \in Envelope
        /\ e.cid = CidOf[f] /\ e.type = form.type /\ e.meta = form.meta
        /\ e.ts = now /\ e.tags = form.tags
    BY <1>2 DEF EnvelopeOf, Envelope
  <1>4. uploads' = {} /\ sends' = {e} /\ built' = built \cup {e}
    BY <1>1 DEF handleUploadDone
  <1> HIDE DEF e
  <1>5. TypeOK'
    BY <1>2, <1>3, <1>4 DEF AppInv, TypeOK, handleUploadDone
  <1>6. BusyExact'
    BY <1>1, <1>4 DEF AppInv, BusyExact, InFlight, handleUploadDone
  <1>7. OneInFlight' /\ FileChosen'
    BY <1>4 DEF AppInv, OneInFlight, FileChosen, handleUploadDone
  <1>8. AnchorsBroadcast'
    BY <1>4 DEF AppInv, AnchorsBroadcast, AnchoredWasBroadcast, handleUploadDone
  <1>9. Remembered'
    BY <1>3, <1>4 DEF Remembered, handleUploadDone
  <1>10. QED
    BY <1>5, <1>6, <1>7, <1>8, <1>9 DEF AppInv

\* The only send is answered.
LEMMA SendAnsweredInv ==
    ASSUME AppInv, NEW e \in sends, SendAnswered(e) PROVE AppInv'
  <1>1. uploads' = {} /\ sends' = {}
    BY DEF AppInv, OneInFlight, SendAnswered
  <1>2. e \in built /\ e.cid \in Cid
    BY DEF AppInv, TypeOK, Envelope
  <1>3. TypeOK'
    BY <1>1, <1>2 DEF AppInv, TypeOK, SendAnswered
  <1>4. BusyExact' /\ OneInFlight'
    BY <1>1 DEF BusyExact, InFlight, OneInFlight, SendAnswered
  <1>5. AnchorsBroadcast' /\ FileChosen' /\ Remembered'
    BY <1>1 DEF AppInv, SendAnswered, AnchorsBroadcast, AnchoredWasBroadcast,
                FileChosen, Remembered
  <1>6. QED
    BY <1>3, <1>4, <1>5 DEF AppInv

\* Every step preserves it.
LEMMA NextAppInv == AppInv /\ [Next]_vars => AppInv'
  <1> SUFFICES ASSUME AppInv, [Next]_vars PROVE AppInv'
    OBVIOUS
  <1>1. CASE Next
    BY <1>1, ChooseFileInv, EditInv, UploadInv, AnchorInv, UploadEndsInv,
       UploadDoneInv, SendAnsweredInv DEF Next, UploadEnds
  <1>2. CASE UNCHANGED vars
    BY <1>2 DEF vars, AppInv, TypeOK, BusyExact, InFlight, AnchorsBroadcast,
           AnchoredWasBroadcast, OneInFlight, FileChosen, Remembered
  <1>3. QED
    BY <1>1, <1>2

\* The inductive invariant holds in every reachable state.
THEOREM Invariant == Spec => []AppInv
  BY InitAppInv, NextAppInv, PTL DEF Spec

\* Every variable of the app keeps its type.
THEOREM AppTypeCorrect == Spec => []TypeOK
  <1>1. AppInv => TypeOK
    BY DEF AppInv
  <1>2. QED
    BY <1>1, Invariant, PTL

\* busy is set exactly while a module works for the app, unless an upload was
\* refused.
THEOREM BusyIsExact == Spec => []BusyExact
  <1>1. AppInv => BusyExact
    BY DEF AppInv
  <1>2. QED
    BY <1>1, Invariant, PTL

\* What is anchored is a broadcast envelope in all but title and description, and
\* altogether as long as nobody edits those of a document that has its CID.
THEOREM AnchorsAreBroadcast == Spec => []AnchorsBroadcast
  <1>1. AppInv => AnchorsBroadcast
    BY DEF AppInv
  <1>2. QED
    BY <1>1, Invariant, PTL

=============================================================================
