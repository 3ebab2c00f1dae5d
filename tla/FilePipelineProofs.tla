-------------------------- MODULE FilePipelineProofs --------------------------
(***************************************************************************)
(* Theorems about FilePipeline, and with it about FileRegistry and         *)
(* CheckpointStore, for any sets of processes, CIDs and hashes, any size   *)
(* of a batch and any bounds.                                              *)
(***************************************************************************)
EXTENDS FilePipeline, RegistryClientProofs

-----------------------------------------------------------------------------
(* The registry file *)

\* A new file is there when it is needed, and it is not the document.
LEMMA TmpInode ==
    ASSUME FileTypeOK(FileState), Apart
    PROVE  LET i == IF tmp = NoFile THEN CHOOSE j \in Unused : TRUE ELSE tmp
           IN  i \in Inode /\ i # path /\ i # NoFile
  <1>1. /\ path \in Inode \cup {NoFile} /\ tmp \in Inode \cup {NoFile}
        /\ fd \in [Writer -> Inode \cup {NoFile}]
    BY DEF FileTypeOK
  <1>2. ASSUME tmp = NoFile PROVE \E j \in Inode : j \in Unused
    <2>1. PICK j \in Inode : j # path /\ \A w \in Writer : fd[w] # j
      BY <1>1, FileAssumption
    <2>2. j # tmp
      BY <1>2, FileAssumption
    <2>3. QED
      BY <2>1, <2>2 DEF Unused
  <1>3. Unused \subseteq Inode /\ \A j \in Unused : j # path
    BY DEF Unused
  <1>4. QED
    BY <1>1, <1>2, <1>3, FileAssumption DEF Apart

\* The open leaves the document as it is.
LEMMA OpenFile ==
    ASSUME FileTypeOK(FileState), Apart, NEW w \in Writer, OpenTmp(w)
    PROVE  /\ FileTypeOK(FileState)' /\ Apart'
           /\ path' = path /\ (path # NoFile => data'[path] = data[path])
           /\ Serial(st) /\ st' = st => Serial(st)'
  <1> DEFINE i == IF tmp = NoFile THEN CHOOSE j \in Unused : TRUE ELSE tmp
  <1>1. i \in Inode /\ i # path /\ i # NoFile
    BY TmpInode
  <1> HIDE DEF i
  <1>2. /\ pc[w] = "loaded" /\ pc' = [pc EXCEPT ![w] = "opened"]
        /\ tmp' = i /\ fd' = [fd EXCEPT ![w] = i]
        /\ data' = [data EXCEPT ![i] = Torn] /\ path' = path
    BY DEF OpenTmp, i
  <1>3. FileTypeOK(FileState)'
    BY <1>1, <1>2 DEF FileTypeOK, PC
  <1>4. Apart' /\ (path # NoFile => data'[path] = data[path])
    BY <1>1, <1>2 DEF Apart, FileTypeOK
  <1>5. ASSUME Serial(st), st' = st PROVE Serial(st)'
    <2>1. /\ pc \in [Writer -> PC] /\ fd \in [Writer -> Inode \cup {NoFile}]
          /\ data \in [Inode -> FileState \cup {Torn}]
      BY DEF FileTypeOK
    <2>2. /\ pc'[w] = "opened" /\ fd'[w] = tmp' /\ data'[tmp'] = Torn
          /\ tmp' # NoFile
      BY <1>1, <1>2, <2>1
    <2>3. \A v \in Writer \ {w} : pc'[v] = pc[v] /\ pc[v] = "idle"
      BY <1>2, <1>5, <2>1 DEF Serial
    <2>4. path' # NoFile => data'[path'] # Torn
      BY <1>2, <1>4, <1>5 DEF Serial
    <2>5. QED
      BY <2>2, <2>3, <2>4 DEF Serial
  <1>6. QED
    BY <1>2, <1>3, <1>4, <1>5

\* So does the write, as long as one writer at a time saves.
LEMMA WriteFile ==
    ASSUME FileTypeOK(FileState), Apart, st \in [Writer -> FileState],
           NEW w \in Writer, WriteTmp(w, st[w])
    PROVE  /\ FileTypeOK(FileState)' /\ Apart' /\ path' = path
           /\ Serial(st) /\ st' = st =>
                  /\ Serial(st)'
                  /\ path # NoFile => data'[path] = data[path]
  <1>1. /\ pc \in [Writer -> PC] /\ fd \in [Writer -> Inode \cup {NoFile}]
        /\ data \in [Inode -> FileState \cup {Torn}]
        /\ tmp \in Inode \cup {NoFile} /\ path \in Inode \cup {NoFile}
    BY DEF FileTypeOK
  <1>2. /\ pc[w] = "opened" /\ pc' = [pc EXCEPT ![w] = "written"]
        /\ path' = path /\ tmp' = tmp /\ fd' = fd
    BY DEF WriteTmp
  <1>3. PICK content \in {st[w]} \cup (IF data[fd[w]] = Torn THEN {} ELSE {Torn}) :
            data' = [data EXCEPT ![fd[w]] = content]
    BY DEF WriteTmp
  <1>4. content \in FileState \cup {Torn}
    BY <1>3
  <1>5. FileTypeOK(FileState)'
    BY <1>1, <1>2, <1>3, <1>4 DEF FileTypeOK, PC
  <1>6. Apart'
    BY <1>2 DEF Apart
  <1>7. ASSUME Serial(st), st' = st
        PROVE  /\ Serial(st)'
               /\ path # NoFile => data'[path] = data[path]
    <2>1. tmp # NoFile /\ fd[w] = tmp /\ data[tmp] = Torn
      BY <1>2, <1>7 DEF Serial
    <2>2. content = st[w]
      BY <1>3, <2>1
    <2>3. /\ pc'[w] = "written" /\ fd'[w] = tmp' /\ tmp' # NoFile
          /\ data'[tmp'] = st[w]
      BY <1>1, <1>2, <1>3, <2>1, <2>2
    <2>4. path # NoFile => data'[path] = data[path]
      BY <1>1, <1>3, <2>1 DEF Apart
    <2>5. \A v \in Writer \ {w} : pc'[v] = pc[v] /\ pc[v] = "idle"
      BY <1>1, <1>2, <1>7 DEF Serial
    <2>6. path' # NoFile => data'[path'] # Torn
      BY <1>2, <1>7, <2>4 DEF Serial
    <2>7. QED
      BY <1>7, <2>3, <2>4, <2>5, <2>6 DEF Serial
  <1>8. QED
    BY <1>2, <1>5, <1>6, <1>7

\* The rename publishes what the writer has written, as long as one writer at a
\* time saves.
LEMMA RenameFile ==
    ASSUME FileTypeOK(FileState), Apart, st \in [Writer -> FileState],
           NEW w \in Writer, RenameTmp(w)
    PROVE  /\ FileTypeOK(FileState)' /\ Apart'
           /\ pc'[w] = "idle"
           /\ Serial(st) => /\ Serial(st)'
                            /\ path' # NoFile /\ data'[path'] = st[w]
  <1>1. /\ pc \in [Writer -> PC] /\ fd \in [Writer -> Inode \cup {NoFile}]
        /\ data \in [Inode -> FileState \cup {Torn}]
        /\ tmp \in Inode \cup {NoFile} /\ path \in Inode \cup {NoFile}
    BY DEF FileTypeOK
  <1>2. /\ pc[w] = "written" /\ pc' = [pc EXCEPT ![w] = "idle"]
        /\ fd' = [fd EXCEPT ![w] = NoFile]
        /\ tmp # NoFile /\ path' = tmp /\ tmp' = NoFile
        /\ data' = [i \in Inode |-> IF i = path THEN Torn ELSE data[i]]
    BY DEF RenameTmp, Close
  <1>3. FileTypeOK(FileState)'
    BY <1>1, <1>2 DEF FileTypeOK, PC
  <1>4. Apart'
    BY <1>2 DEF Apart
  <1>5. ASSUME Serial(st)
        PROVE  Serial(st)' /\ path' # NoFile /\ data'[path'] = st[w]
    <2>1. data[tmp] = st[w] /\ tmp \in Inode /\ tmp # path
      BY <1>1, <1>2, <1>5 DEF Serial, Apart
    <2>2. data'[path'] = st[w] /\ path' # NoFile
      BY <1>2, <2>1
    <2>3. data'[path'] # Torn
      BY <2>2, FileRegistryAssumption
    <2>4. \A v \in Writer : pc'[v] = "idle"
      BY <1>1, <1>2, <1>5 DEF Serial
    <2>5. QED
      BY <2>2, <2>3, <2>4 DEF Serial
  <1>6. QED
    BY <1>1, <1>2, <1>3, <1>4, <1>5

\* A save that is given up leaves both files as they are.
LEMMA AbandonFile ==
    ASSUME FileTypeOK(FileState), Apart, NEW w \in Writer,
           Abandon(w) \/ RenameTmpErr(w)
    PROVE  /\ FileTypeOK(FileState)' /\ Apart'
           /\ path' = path /\ data' = data
           /\ pc'[w] = "idle"
           /\ Serial(st) /\ (\A v \in Writer \ {w} : st'[v] = st[v])
                  => Serial(st)'
  <1>1. /\ pc \in [Writer -> PC] /\ fd \in [Writer -> Inode \cup {NoFile}]
    BY DEF FileTypeOK
  <1>2. /\ pc' = [pc EXCEPT ![w] = "idle"] /\ fd' = [fd EXCEPT ![w] = NoFile]
        /\ UNCHANGED <<path, tmp, data>>
    BY DEF Abandon, RenameTmpErr, Close
  <1>3. FileTypeOK(FileState)'
    BY <1>1, <1>2 DEF FileTypeOK, PC
  <1>4. Apart'
    BY <1>2 DEF Apart
  <1>5. ASSUME Serial(st), \A v \in Writer \ {w} : st'[v] = st[v]
        PROVE  Serial(st)'
    <2>1. /\ pc'[w] = "idle"
          /\ \A v \in Writer \ {w} : pc'[v] = pc[v] /\ fd'[v] = fd[v]
      BY <1>1, <1>2
    <2>2. QED
      BY <1>2, <1>5, <2>1 DEF Serial
  <1>6. QED
    BY <1>1, <1>2, <1>3, <1>4, <1>5

\* A call on its way: what it has merged is one batch ahead of the file.
InFlight(w) ==
    /\ st[w].seq = Current.seq + 1
    /\ answer[w].tx = Current.seq + 1
    /\ Extends(Current.records, st[w].records)
    /\ answer[w].anchored \cap Registered(Current.records) = {}
    /\ answer[w].anchored \cup answer[w].present \subseteq Registered(st[w].records)

\* The receipts given are about transactions that the file contains.
ReceiptsBehind ==
    \A q \in receipts :
        /\ q.tx <= Current.seq
        /\ q.anchored \cup q.present \subseteq Registered(Current.records)

\* The inductive invariant of the registry file.
RegistryInv ==
    /\ TypeOK
    /\ Apart
    /\ raced \/ /\ Serial(st)
                /\ \A w \in Writer : pc[w] # "idle" => InFlight(w)
                /\ ReceiptsBehind
                /\ SerialReceipts

\* What a reader finds is a state of the registry or a torn document, and as
\* long as calls have not overlapped it is a state.
LEMMA CurrentType ==
    ASSUME RegistryInv
    PROVE  /\ Current \in FileState \cup {Torn}
           /\ ~raced => Current \in FileState /\ Visible = Current.records
  <1>1. NoState \in FileState
    BY DEF NoState, FileState, EmptyTable, Tables
  <1>2. /\ path \in Inode \cup {NoFile}
        /\ data \in [Inode -> FileState \cup {Torn}]
    BY DEF RegistryInv, TypeOK, FileTypeOK
  <1>3. Current \in FileState \cup {Torn}
    BY <1>1, <1>2 DEF Current, Content
  <1>4. ASSUME ~raced PROVE Current # Torn
    BY <1>1, <1>4, FileRegistryAssumption
       DEF RegistryInv, Serial, Current, Content
  <1>5. QED
    BY <1>3, <1>4 DEF Visible

\* A batch is a sequence of entries.
LEMMA BatchType == ASSUME NEW b \in Batches PROVE b \in Seq(AnchorEntry)
  <1>1. PICK n \in 1..MaxBatch : b \in [1..n -> AnchorEntry]
    BY DEF Batches
  <1>2. n \in Nat
    BY <1>1, PipelineAssumption
  <1>3. QED
    BY <1>1, <1>2

\* The file is not there yet, and nobody has called.
LEMMA InitRegistryInv == Init => RegistryInv
  <1> SUFFICES ASSUME Init PROVE RegistryInv
    OBVIOUS
  <1>1. NoState \in FileState /\ NoReceipt \in Receipt
    BY DEF NoState, FileState, EmptyTable, Tables, NoReceipt, Receipt
  <1>2. FileTypeOK(FileState)
    BY DEF Init, FileInit, FileTypeOK, PC
  <1>3. TypeOK
    <2>1. calls \in 0..MaxCalls /\ faults \in 0..MaxFaults
      BY FileRegistryAssumption DEF Init
    <2>2. raced \in BOOLEAN
      BY DEF Init
    <2>3. /\ st \in [Writer -> FileState] /\ answer \in [Writer -> Receipt]
          /\ receipts \subseteq Receipt
      BY <1>1 DEF Init
    <2>4. QED
      BY <1>2, <2>1, <2>2, <2>3 DEF TypeOK
  <1>4. Apart /\ Serial(st)
    BY DEF Init, FileInit, Apart, Serial
  <1>5. /\ \A w \in Writer : pc[w] = "idle"
        /\ receipts = {}
    BY DEF Init, FileInit
  <1>6. QED
    BY <1>3, <1>4, <1>5 DEF RegistryInv, ReceiptsBehind, SerialReceipts

\* Steps of other parts of the process.
LEMMA OtherRegistryInv ==
    ASSUME RegistryInv, UNCHANGED registryVars, faults' \in 0..MaxFaults
    PROVE  RegistryInv' /\ Visible' = Visible
  <1>1. TypeOK'
    <2>1. FileTypeOK(FileState)' /\ raced' = raced
      BY DEF RegistryInv, TypeOK, FileTypeOK, registryVars, fileVars
    <2>2. /\ st' \in [Writer -> FileState] /\ answer' \in [Writer -> Receipt]
          /\ receipts' \subseteq Receipt /\ calls' \in 0..MaxCalls
      BY DEF RegistryInv, TypeOK, registryVars
    <2>3. raced' \in BOOLEAN
      BY <2>1 DEF RegistryInv, TypeOK
    <2>4. QED
      BY <2>1, <2>2, <2>3 DEF TypeOK
  <1>2. Apart' /\ (Serial(st) => Serial(st)') /\ Current' = Current
    <2>1. UNCHANGED <<path, tmp, data, pc, fd, st>>
      BY DEF registryVars, fileVars
    <2>2. Apart' /\ Current' = Current
      BY <2>1 DEF RegistryInv, Apart, Current, Content
    <2>3. Serial(st) => Serial(st)'
      BY <2>1 DEF Serial
    <2>4. QED
      BY <2>2, <2>3
  <1>3. /\ \A w \in Writer : InFlight(w) => InFlight(w)'
        /\ ReceiptsBehind => ReceiptsBehind'
        /\ SerialReceipts => SerialReceipts'
        /\ raced' = raced /\ pc' = pc
    BY <1>2 DEF InFlight, ReceiptsBehind, SerialReceipts, registryVars, fileVars
  <1>4. QED
    BY <1>1, <1>2, <1>3 DEF RegistryInv, Visible

\* The load and the merge: one call is on its way, unless they overlap.
LEMMA CallRegistryInv ==
    ASSUME RegistryInv, NEW w \in Writer, NEW b \in Batches, NEW ts \in Time,
           Call(w, b, ts)
    PROVE  RegistryInv' /\ Visible' = Visible
  <1> DEFINE r == Current.records
             new == [records |-> Merge(r, b, ts), seq |-> Current.seq + 1]
             ans == [tx |-> Current.seq + 1, anchored |-> NewlyAnchored(r, b),
                     present |-> CidsOf(b) \cap Registered(r)]
  <1>1. /\ Current \in FileState /\ r \in Tables /\ Current.seq \in Nat
        /\ b \in Seq(AnchorEntry) /\ CidsOf(b) \subseteq Cid
    BY CurrentType, BatchType, CidsOfType DEF Call, FileState
  <1>2. /\ pc[w] = "idle" /\ pc' = [pc EXCEPT ![w] = "loaded"]
        /\ calls < MaxCalls /\ calls' = calls + 1
        /\ raced' = (raced \/ \E v \in Writer : pc[v] # "idle")
        /\ st' = [st EXCEPT ![w] = new] /\ answer' = [answer EXCEPT ![w] = ans]
        /\ UNCHANGED <<path, tmp, data, fd, receipts, faults>>
    BY DEF Call, MergeInto, Loaded
  <1>3. new \in FileState /\ ans \in Receipt
    BY <1>1, MergeType DEF FileState, Receipt, NewlyAnchored
  <1>4. /\ new.seq = Current.seq + 1 /\ ans.tx = Current.seq + 1
        /\ Extends(r, new.records)
        /\ ans.anchored \cap Registered(r) = {}
        /\ ans.anchored \cup ans.present \subseteq Registered(new.records)
    BY <1>1, MergeExtends, MergeRegistered DEF NewlyAnchored
  <1> HIDE DEF new, ans
  <1>5. TypeOK'
    <2>1. FileTypeOK(FileState)'
      BY <1>2 DEF RegistryInv, TypeOK, FileTypeOK, PC
    <2>2. /\ st' \in [Writer -> FileState] /\ answer' \in [Writer -> Receipt]
          /\ receipts' \subseteq Receipt /\ faults' \in 0..MaxFaults
      BY <1>2, <1>3 DEF RegistryInv, TypeOK
    <2>3. calls' \in 0..MaxCalls
      BY <1>2, FileRegistryAssumption DEF RegistryInv, TypeOK
    <2>4. raced' \in BOOLEAN
      BY <1>2
    <2>5. QED
      BY <2>1, <2>2, <2>3, <2>4 DEF TypeOK
  <1>6. Apart' /\ Current' = Current /\ Visible' = Visible
    BY <1>2 DEF RegistryInv, Apart, Current, Content, Visible
  <1>7. ASSUME ~raced'
        PROVE  /\ Serial(st)'
               /\ \A v \in Writer : pc'[v] # "idle" => InFlight(v)'
               /\ ReceiptsBehind' /\ SerialReceipts'
    <2>1. /\ pc \in [Writer -> PC] /\ st \in [Writer -> FileState]
          /\ answer \in [Writer -> Receipt]
      BY DEF RegistryInv, TypeOK, FileTypeOK
    <2>2. ~raced /\ \A v \in Writer : pc[v] = "idle"
      BY <1>2, <1>7
    <2>3. pc'[w] = "loaded" /\ \A v \in Writer \ {w} : pc'[v] = "idle"
      BY <1>2, <2>1, <2>2
    <2>4. Serial(st)'
      BY <1>2, <2>2, <2>3 DEF RegistryInv, Serial
    <2>5. st'[w] = new /\ answer'[w] = ans
      BY <1>2, <2>1
    <2>6. InFlight(w)'
      BY <1>4, <1>6, <2>5 DEF InFlight
    <2>7. ReceiptsBehind' /\ SerialReceipts'
      BY <1>2, <1>6, <1>7, <2>2
         DEF RegistryInv, ReceiptsBehind, SerialReceipts
    <2>8. QED
      BY <2>3, <2>4, <2>6, <2>7
  <1>8. QED
    BY <1>5, <1>6, <1>7 DEF RegistryInv

\* A call that finds a torn document changes nothing but the count of calls.
LEMMA CallErrRegistryInv ==
    ASSUME RegistryInv, NEW w \in Writer, CallErr(w)
    PROVE  RegistryInv' /\ Visible' = Visible
  <1>1. Current = Torn /\ raced
    BY CurrentType, FileRegistryAssumption DEF CallErr
  <1>2. /\ calls < MaxCalls /\ calls' = calls + 1
        /\ UNCHANGED <<fileVars, st, answer, receipts, raced, faults>>
    BY DEF CallErr
  <1>3. calls' \in 0..MaxCalls
    BY <1>2, FileRegistryAssumption DEF RegistryInv, TypeOK
  <1>4. TypeOK'
    BY <1>2, <1>3 DEF RegistryInv, TypeOK, FileTypeOK, fileVars
  <1>5. Apart' /\ Visible' = Visible
    BY <1>2 DEF RegistryInv, Apart, Visible, Current, Content, fileVars
  <1>6. QED
    BY <1>1, <1>2, <1>4, <1>5 DEF RegistryInv

\* The open and the write of the temporary file.
LEMMA SavingRegistryInv ==
    ASSUME RegistryInv, NEW w \in Writer, Open(w) \/ Write(w)
    PROVE  RegistryInv' /\ (~raced' => Visible' = Visible)
  <1>1. /\ OpenTmp(w) \/ WriteTmp(w, st[w])
        /\ UNCHANGED <<st, answer, receipts, raced, calls, faults>>
    BY DEF Open, Write, callVars
  <1>2. /\ FileTypeOK(FileState) /\ st \in [Writer -> FileState] /\ Apart
        /\ pc \in [Writer -> PC]
    BY DEF RegistryInv, TypeOK, FileTypeOK
  <1>3. /\ FileTypeOK(FileState)' /\ Apart' /\ path' = path
        /\ Serial(st) => /\ Serial(st)'
                         /\ path # NoFile => data'[path] = data[path]
    BY <1>1, <1>2, OpenFile, WriteFile
  <1>4. TypeOK'
    <2>1. raced' \in BOOLEAN
      BY <1>1 DEF RegistryInv, TypeOK
    <2>2. /\ st' \in [Writer -> FileState] /\ answer' \in [Writer -> Receipt]
          /\ receipts' \subseteq Receipt /\ calls' \in 0..MaxCalls
          /\ faults' \in 0..MaxFaults
      BY <1>1 DEF RegistryInv, TypeOK
    <2>3. QED
      BY <1>3, <2>1, <2>2 DEF TypeOK
  <1>5. ASSUME ~raced'
        PROVE  /\ Serial(st)' /\ Visible' = Visible
               /\ \A v \in Writer : pc'[v] # "idle" => InFlight(v)'
               /\ ReceiptsBehind' /\ SerialReceipts'
    <2>1. /\ Serial(st) /\ ReceiptsBehind /\ SerialReceipts
          /\ \A v \in Writer : pc[v] # "idle" => InFlight(v)
      BY <1>1, <1>5 DEF RegistryInv
    <2>2. Current' = Current
      BY <1>3, <2>1 DEF Current, Content
    <2>3. \A v \in Writer : pc'[v] # "idle" => pc[v] # "idle"
      BY <1>1, <1>2 DEF OpenTmp, WriteTmp
    <2>4. \A v \in Writer : InFlight(v) => InFlight(v)'
      BY <1>1, <2>2 DEF InFlight
    <2>5. ReceiptsBehind' /\ SerialReceipts'
      BY <1>1, <1>5, <2>1, <2>2 DEF ReceiptsBehind, SerialReceipts
    <2>6. QED
      BY <1>3, <2>1, <2>2, <2>3, <2>4, <2>5 DEF Visible
  <1>6. QED
    BY <1>3, <1>4, <1>5 DEF RegistryInv

\* The rename makes the batch of the one call visible; its receipt is about a
\* transaction and CIDs of which no receipt has been given.
LEMMA RenameRegistryInv ==
    ASSUME RegistryInv, NEW w \in Writer, RenameTmp(w), Leave(w),
           receipts' \in {receipts, receipts \cup {answer[w]}},
           UNCHANGED <<raced, calls>>, faults' \in 0..MaxFaults
    PROVE  /\ RegistryInv'
           /\ ~raced' =>
                  /\ Extends(Visible, Visible')
                  /\ answer[w].anchored \cup answer[w].present
                         \subseteq Registered(Visible')
  <1>1. /\ FileTypeOK(FileState) /\ st \in [Writer -> FileState] /\ Apart
        /\ pc \in [Writer -> PC] /\ answer \in [Writer -> Receipt]
        /\ receipts \subseteq Receipt /\ pc[w] # "idle"
    BY DEF RegistryInv, TypeOK, FileTypeOK, RenameTmp
  <1>2. /\ FileTypeOK(FileState)' /\ Apart' /\ pc'[w] = "idle"
        /\ Serial(st) => /\ Serial(st)'
                         /\ path' # NoFile /\ data'[path'] = st[w]
    BY <1>1, RenameFile
  <1>3. TypeOK'
    <2>1. NoState \in FileState /\ NoReceipt \in Receipt
      BY DEF NoState, FileState, EmptyTable, Tables, NoReceipt, Receipt
    <2>2. /\ st' \in [Writer -> FileState] /\ answer' \in [Writer -> Receipt]
      BY <1>1, <2>1 DEF Leave
    <2>3. receipts' \subseteq Receipt
      BY <1>1
    <2>4. raced' \in BOOLEAN /\ calls' \in 0..MaxCalls
      BY DEF RegistryInv, TypeOK
    <2>5. QED
      BY <1>2, <2>2, <2>3, <2>4 DEF TypeOK
  <1>4. ASSUME ~raced'
        PROVE  /\ Serial(st)'
               /\ \A v \in Writer : pc'[v] # "idle" => InFlight(v)'
               /\ ReceiptsBehind' /\ SerialReceipts'
               /\ Extends(Visible, Visible')
               /\ answer[w].anchored \cup answer[w].present
                      \subseteq Registered(Visible')
    <2>1. /\ Serial(st) /\ ReceiptsBehind /\ SerialReceipts /\ InFlight(w)
          /\ \A v \in Writer \ {w} : pc[v] = "idle"
          /\ ~raced
      BY <1>1, <1>4 DEF RegistryInv, Serial
    <2>2. /\ Current \in FileState /\ Visible = Current.records
          /\ Current.records \in Tables /\ Current.seq \in Nat
      BY <2>1, CurrentType DEF FileState
    <2>3. Current' = st[w] /\ st[w] \in FileState
      BY <1>1, <1>2, <2>1 DEF Current, Content
    <2>4. Visible' = st[w].records
      BY <2>3, FileRegistryAssumption DEF Visible
    <2>5. /\ Extends(Visible, Visible') /\ Registered(Visible) \subseteq Registered(Visible')
          /\ answer[w].anchored \cup answer[w].present \subseteq Registered(Visible')
      BY <2>1, <2>2, <2>4, ExtendsRegistered DEF InFlight
    <2>6. ASSUME NEW q \in receipts'
          PROVE  /\ q.tx <= Current'.seq
                 /\ q.anchored \cup q.present \subseteq Registered(Current'.records)
      <3>1. CASE q \in receipts
        <4>1. q.tx <= Current.seq /\ q.tx \in Nat
          BY <1>1, <2>1, <3>1 DEF ReceiptsBehind, Receipt
        <4>2. q.tx <= Current.seq + 1
          BY <2>2, <4>1
        <4>3. QED
          BY <2>1, <2>2, <2>3, <2>4, <2>5, <3>1, <4>2
             DEF ReceiptsBehind, InFlight
      <3>2. CASE q = answer[w]
        BY <2>1, <2>2, <2>3, <2>4, <2>5, <3>2 DEF InFlight
      <3>3. QED
        BY <3>1, <3>2
    <2>7. ASSUME NEW q \in receipts
          PROVE  /\ q.tx # answer[w].tx
                 /\ q.anchored \cap answer[w].anchored = {}
      <3>1. q.tx <= Current.seq /\ q.tx \in Nat
        BY <1>1, <2>1 DEF ReceiptsBehind, Receipt
      <3>2. q.tx # Current.seq + 1
        BY <2>2, <3>1
      <3>3. QED
        BY <2>1, <3>2 DEF ReceiptsBehind, InFlight
    <2>8. SerialReceipts'
      BY <2>1, <2>7 DEF SerialReceipts
    <2>9. ReceiptsBehind'
      BY <2>6 DEF ReceiptsBehind
    <2>10. \A v \in Writer : pc'[v] = "idle"
      BY <1>1, <1>2, <2>1 DEF RenameTmp, Close
    <2>11. QED
      BY <1>2, <2>1, <2>5, <2>8, <2>9, <2>10
  <1>5. QED
    BY <1>2, <1>3, <1>4 DEF RegistryInv

\* A call that ends without the rename leaves the document as it is.
LEMMA AbandonRegistryInv ==
    ASSUME RegistryInv, NEW w \in Writer, Abandon(w) \/ RenameTmpErr(w),
           Leave(w), UNCHANGED <<receipts, raced, calls>>,
           faults' \in 0..MaxFaults
    PROVE  RegistryInv' /\ Visible' = Visible
  <1>1. /\ FileTypeOK(FileState) /\ st \in [Writer -> FileState] /\ Apart
        /\ pc \in [Writer -> PC] /\ answer \in [Writer -> Receipt]
    BY DEF RegistryInv, TypeOK, FileTypeOK
  <1>2. /\ \A v \in Writer \ {w} : st'[v] = st[v] /\ answer'[v] = answer[v]
        /\ \A v \in Writer \ {w} : pc'[v] = pc[v]
    BY <1>1 DEF Leave, Abandon, RenameTmpErr, Close
  <1>3. /\ FileTypeOK(FileState)' /\ Apart' /\ pc'[w] = "idle"
        /\ path' = path /\ data' = data
        /\ Serial(st) => Serial(st)'
    BY <1>1, <1>2, AbandonFile
  <1>4. Current' = Current /\ Visible' = Visible
    BY <1>3 DEF Current, Content, Visible
  <1>5. TypeOK'
    <2>1. NoState \in FileState /\ NoReceipt \in Receipt
      BY DEF NoState, FileState, EmptyTable, Tables, NoReceipt, Receipt
    <2>2. st' \in [Writer -> FileState] /\ answer' \in [Writer -> Receipt]
      BY <1>1, <2>1 DEF Leave
    <2>3. /\ raced' \in BOOLEAN /\ calls' \in 0..MaxCalls
          /\ receipts' \subseteq Receipt
      BY DEF RegistryInv, TypeOK
    <2>4. QED
      BY <1>3, <2>2, <2>3 DEF TypeOK
  <1>6. ASSUME ~raced'
        PROVE  /\ Serial(st)'
               /\ \A v \in Writer : pc'[v] # "idle" => InFlight(v)'
               /\ ReceiptsBehind' /\ SerialReceipts'
    <2>1. /\ Serial(st) /\ ReceiptsBehind /\ SerialReceipts
          /\ \A v \in Writer : pc[v] # "idle" => InFlight(v)
      BY <1>6 DEF RegistryInv
    <2>2. \A v \in Writer \ {w} : InFlight(v) => InFlight(v)'
      BY <1>2, <1>4 DEF InFlight
    <2>3. ReceiptsBehind' /\ SerialReceipts'
      BY <1>4, <1>6, <2>1 DEF ReceiptsBehind, SerialReceipts
    <2>4. QED
      BY <1>2, <1>3, <2>1, <2>2, <2>3
  <1>7. QED
    BY <1>3, <1>4, <1>5, <1>6 DEF RegistryInv

-----------------------------------------------------------------------------
(* The checkpoint file: the same facts about the other ReplacedFile *)

\* A new file is there when it is needed, and it is not the document.
LEMMA CheckpointTmp ==
    ASSUME Store!FileTypeOK(Store!Checkpoint), Store!Apart
    PROVE  LET i == IF cpTmp = NoFile
                    THEN CHOOSE j \in Store!Unused : TRUE ELSE cpTmp
           IN  i \in Inode /\ i # cpPath /\ i # NoFile
  <1>1. /\ cpPath \in Inode \cup {NoFile} /\ cpTmp \in Inode \cup {NoFile}
        /\ cpFd \in [Writer -> Inode \cup {NoFile}]
    BY DEF Store!FileTypeOK
  <1>2. ASSUME cpTmp = NoFile PROVE \E j \in Inode : j \in Store!Unused
    <2>1. PICK j \in Inode : j # cpPath /\ \A w \in Writer : cpFd[w] # j
      BY <1>1, FileAssumption
    <2>2. j # cpTmp
      BY <1>2, FileAssumption
    <2>3. QED
      BY <2>1, <2>2 DEF Store!Unused
  <1>3. Store!Unused \subseteq Inode /\ \A j \in Store!Unused : j # cpPath
    BY DEF Store!Unused
  <1>4. QED
    BY <1>1, <1>2, <1>3, FileAssumption DEF Store!Apart

\* The open leaves the document as it is.
LEMMA OpenCheckpoint ==
    ASSUME Store!FileTypeOK(Store!Checkpoint), Store!Apart, NEW w \in Writer,
           Store!OpenTmp(w)
    PROVE  /\ Store!FileTypeOK(Store!Checkpoint)' /\ Store!Apart'
           /\ cpPath' = cpPath
           /\ cpPath # NoFile => cpData'[cpPath] = cpData[cpPath]
           /\ Store!Serial(mem) /\ mem' = mem => Store!Serial(mem)'
  <1> DEFINE i == IF cpTmp = NoFile
                  THEN CHOOSE j \in Store!Unused : TRUE ELSE cpTmp
  <1>1. i \in Inode /\ i # cpPath /\ i # NoFile
    BY CheckpointTmp
  <1> HIDE DEF i
  <1>2. /\ cpPc[w] = "loaded" /\ cpPc' = [cpPc EXCEPT ![w] = "opened"]
        /\ cpTmp' = i /\ cpFd' = [cpFd EXCEPT ![w] = i]
        /\ cpData' = [cpData EXCEPT ![i] = Torn] /\ cpPath' = cpPath
    BY DEF Store!OpenTmp, i
  <1>3. Store!FileTypeOK(Store!Checkpoint)'
    BY <1>1, <1>2 DEF Store!FileTypeOK, Store!PC
  <1>4. Store!Apart' /\ (cpPath # NoFile => cpData'[cpPath] = cpData[cpPath])
    BY <1>1, <1>2 DEF Store!Apart, Store!FileTypeOK
  <1>5. ASSUME Store!Serial(mem), mem' = mem PROVE Store!Serial(mem)'
    <2>1. /\ cpPc \in [Writer -> Store!PC]
          /\ cpFd \in [Writer -> Inode \cup {NoFile}]
          /\ cpData \in [Inode -> Store!Checkpoint \cup {Torn}]
      BY DEF Store!FileTypeOK
    <2>2. /\ cpPc'[w] = "opened" /\ cpFd'[w] = cpTmp' /\ cpData'[cpTmp'] = Torn
          /\ cpTmp' # NoFile
      BY <1>1, <1>2, <2>1
    <2>3. \A v \in Writer \ {w} : cpPc'[v] = cpPc[v] /\ cpPc[v] = "idle"
      BY <1>2, <1>5, <2>1 DEF Store!Serial
    <2>4. cpPath' # NoFile => cpData'[cpPath'] # Torn
      BY <1>2, <1>4, <1>5 DEF Store!Serial
    <2>5. QED
      BY <2>2, <2>3, <2>4 DEF Store!Serial
  <1>6. QED
    BY <1>2, <1>3, <1>4, <1>5

\* So does the write, as long as one writer at a time saves.
LEMMA WriteCheckpoint ==
    ASSUME Store!FileTypeOK(Store!Checkpoint), Store!Apart,
           mem \in [Writer -> Store!Checkpoint], NEW w \in Writer, Store!WriteTmp(w, mem[w])
    PROVE  /\ Store!FileTypeOK(Store!Checkpoint)' /\ Store!Apart' /\ cpPath' = cpPath
           /\ Store!Serial(mem) /\ mem' = mem =>
                  /\ Store!Serial(mem)'
                  /\ cpPath # NoFile => cpData'[cpPath] = cpData[cpPath]
  <1>1. /\ cpPc \in [Writer -> Store!PC]
        /\ cpFd \in [Writer -> Inode \cup {NoFile}]
        /\ cpData \in [Inode -> Store!Checkpoint \cup {Torn}]
        /\ cpTmp \in Inode \cup {NoFile} /\ cpPath \in Inode \cup {NoFile}
    BY DEF Store!FileTypeOK
  <1>2. /\ cpPc[w] = "opened" /\ cpPc' = [cpPc EXCEPT ![w] = "written"]
        /\ cpPath' = cpPath /\ cpTmp' = cpTmp /\ cpFd' = cpFd
    BY DEF Store!WriteTmp
  <1>3. PICK content \in {mem[w]}
                 \cup (IF cpData[cpFd[w]] = Torn THEN {} ELSE {Torn}) :
            cpData' = [cpData EXCEPT ![cpFd[w]] = content]
    BY DEF Store!WriteTmp
  <1>4. content \in Store!Checkpoint \cup {Torn}
    BY <1>3
  <1>5. Store!FileTypeOK(Store!Checkpoint)'
    BY <1>1, <1>2, <1>3, <1>4 DEF Store!FileTypeOK, Store!PC
  <1>6. Store!Apart'
    BY <1>2 DEF Store!Apart
  <1>7. ASSUME Store!Serial(mem), mem' = mem
        PROVE  /\ Store!Serial(mem)'
               /\ cpPath # NoFile => cpData'[cpPath] = cpData[cpPath]
    <2>1. cpTmp # NoFile /\ cpFd[w] = cpTmp /\ cpData[cpTmp] = Torn
      BY <1>2, <1>7 DEF Store!Serial
    <2>2. content = mem[w]
      BY <1>3, <2>1
    <2>3. /\ cpPc'[w] = "written" /\ cpFd'[w] = cpTmp' /\ cpTmp' # NoFile
          /\ cpData'[cpTmp'] = mem[w]
      BY <1>1, <1>2, <1>3, <2>1, <2>2
    <2>4. cpPath # NoFile => cpData'[cpPath] = cpData[cpPath]
      BY <1>1, <1>3, <2>1 DEF Store!Apart
    <2>5. \A v \in Writer \ {w} : cpPc'[v] = cpPc[v] /\ cpPc[v] = "idle"
      BY <1>1, <1>2, <1>7 DEF Store!Serial
    <2>6. cpPath' # NoFile => cpData'[cpPath'] # Torn
      BY <1>2, <1>7, <2>4 DEF Store!Serial
    <2>7. QED
      BY <1>7, <2>3, <2>4, <2>5, <2>6 DEF Store!Serial
  <1>8. QED
    BY <1>2, <1>5, <1>6, <1>7

\* The rename publishes what the writer has written, as long as one writer at a
\* time saves.
LEMMA RenameCheckpoint ==
    ASSUME Store!FileTypeOK(Store!Checkpoint), Store!Apart,
           mem \in [Writer -> Store!Checkpoint], NEW w \in Writer, Store!RenameTmp(w)
    PROVE  /\ Store!FileTypeOK(Store!Checkpoint)' /\ Store!Apart'
           /\ cpPc'[w] = "idle"
           /\ Store!Serial(mem) => /\ Store!Serial(mem)'
                            /\ cpPath' # NoFile /\ cpData'[cpPath'] = mem[w]
  <1>1. /\ cpPc \in [Writer -> Store!PC]
        /\ cpFd \in [Writer -> Inode \cup {NoFile}]
        /\ cpData \in [Inode -> Store!Checkpoint \cup {Torn}]
        /\ cpTmp \in Inode \cup {NoFile} /\ cpPath \in Inode \cup {NoFile}
    BY DEF Store!FileTypeOK
  <1>2. /\ cpPc[w] = "written" /\ cpPc' = [cpPc EXCEPT ![w] = "idle"]
        /\ cpFd' = [cpFd EXCEPT ![w] = NoFile]
        /\ cpTmp # NoFile /\ cpPath' = cpTmp /\ cpTmp' = NoFile
        /\ cpData' = [i \in Inode |-> IF i = cpPath THEN Torn ELSE cpData[i]]
    BY DEF Store!RenameTmp, Store!Close
  <1>3. Store!FileTypeOK(Store!Checkpoint)'
    BY <1>1, <1>2 DEF Store!FileTypeOK, Store!PC
  <1>4. Store!Apart'
    BY <1>2 DEF Store!Apart
  <1>5. ASSUME Store!Serial(mem)
        PROVE  Store!Serial(mem)' /\ cpPath' # NoFile /\ cpData'[cpPath'] = mem[w]
    <2>1. cpData[cpTmp] = mem[w] /\ cpTmp \in Inode /\ cpTmp # cpPath
      BY <1>1, <1>2, <1>5 DEF Store!Serial, Store!Apart
    <2>2. cpData'[cpPath'] = mem[w] /\ cpPath' # NoFile
      BY <1>2, <2>1
    <2>3. cpData'[cpPath'] # Torn
      BY <2>2, PipelineAssumption
    <2>4. \A v \in Writer : cpPc'[v] = "idle"
      BY <1>1, <1>2, <1>5 DEF Store!Serial
    <2>5. QED
      BY <2>2, <2>3, <2>4 DEF Store!Serial
  <1>6. QED
    BY <1>1, <1>2, <1>3, <1>4, <1>5

\* A save that is given up leaves both files as they are.
LEMMA AbandonCheckpoint ==
    ASSUME Store!FileTypeOK(Store!Checkpoint), Store!Apart, NEW w \in Writer,
           Store!Abandon(w) \/ Store!RenameTmpErr(w)
    PROVE  /\ Store!FileTypeOK(Store!Checkpoint)' /\ Store!Apart'
           /\ cpPath' = cpPath /\ cpData' = cpData
           /\ cpPc'[w] = "idle"
           /\ Store!Serial(mem) /\ (\A v \in Writer \ {w} : mem'[v] = mem[v])
                  => Store!Serial(mem)'
  <1>1. /\ cpPc \in [Writer -> Store!PC]
        /\ cpFd \in [Writer -> Inode \cup {NoFile}]
    BY DEF Store!FileTypeOK
  <1>2. /\ cpPc' = [cpPc EXCEPT ![w] = "idle"]
        /\ cpFd' = [cpFd EXCEPT ![w] = NoFile]
        /\ UNCHANGED <<cpPath, cpTmp, cpData>>
    BY DEF Store!Abandon, Store!RenameTmpErr, Store!Close
  <1>3. Store!FileTypeOK(Store!Checkpoint)'
    BY <1>1, <1>2 DEF Store!FileTypeOK, Store!PC
  <1>4. Store!Apart'
    BY <1>2 DEF Store!Apart
  <1>5. ASSUME Store!Serial(mem), \A v \in Writer \ {w} : mem'[v] = mem[v]
        PROVE  Store!Serial(mem)'
    <2>1. /\ cpPc'[w] = "idle"
          /\ \A v \in Writer \ {w} : cpPc'[v] = cpPc[v] /\ cpFd'[v] = cpFd[v]
      BY <1>1, <1>2
    <2>2. QED
      BY <1>2, <1>5, <2>1 DEF Store!Serial
  <1>6. QED
    BY <1>1, <1>2, <1>3, <1>4, <1>5

\* The memory of a process has what its file has, and a batch more while it
\* saves.
Ahead(w) ==
    /\ Store!OnDisk.anchored \subseteq mem[w].anchored
    /\ Store!OnDisk.committed <= mem[w].committed
    /\ cpPc[w] # "idle" => Store!OnDisk.committed < mem[w].committed

\* The checkpoint file under one process at a time.
Durable ==
    /\ \A v, w \in running : v = w
    /\ Store!Serial(mem)
    /\ saved \subseteq Store!OnDisk.anchored
    /\ \A w \in running : Ahead(w)

\* A process is in one of the two saves at most, and only while it runs.
Sequential ==
    \A w \in Writer :
        /\ cpPc[w] # "idle" => w \in running
        /\ pc[w] # "idle" => w \in running /\ cpPc[w] = "idle"

\* The inductive invariant of the checkpoint file.
CheckpointInv ==
    /\ Store!TypeOK
    /\ Store!Apart
    /\ Sequential
    /\ overlapped \/ Durable

\* What a step may do to the checkpoint that a restart would load.
CheckpointStep ==
    overlapped' \/ Store!OnDisk' = Store!OnDisk \/ Store!Promised!Commit

\* A restart loads a checkpoint, unless processes have overlapped and left a
\* torn document.
LEMMA LoadType ==
    ASSUME CheckpointInv
    PROVE  /\ Store!NoCheckpoint \in Store!Checkpoint
           /\ Store!Load \in Store!Checkpoint \cup {Torn}
           /\ Store!OnDisk \in Store!Checkpoint
           /\ ~overlapped => Store!Load # Torn /\ Store!OnDisk = Store!Load
  <1>1. Store!NoCheckpoint \in Store!Checkpoint
    BY DEF Store!NoCheckpoint, Store!Checkpoint
  <1>2. /\ cpPath \in Inode \cup {NoFile}
        /\ cpData \in [Inode -> Store!Checkpoint \cup {Torn}]
    BY DEF CheckpointInv, Store!TypeOK, Store!FileTypeOK
  <1>3. Store!Load \in Store!Checkpoint \cup {Torn}
    BY <1>1, <1>2 DEF Store!Load, Store!Content
  <1>4. ASSUME ~overlapped PROVE Store!Load # Torn
    BY <1>1, <1>4, PipelineAssumption
       DEF CheckpointInv, Durable, Store!Serial, Store!Load, Store!Content
  <1>5. QED
    BY <1>1, <1>3, <1>4 DEF Store!OnDisk

\* While the document stays as it is, so does what a restart would load.
LEMMA SameCheckpoint ==
    ASSUME cpPath' = cpPath, cpPath # NoFile => cpData'[cpPath] = cpData[cpPath]
    PROVE  Store!Load' = Store!Load /\ Store!OnDisk' = Store!OnDisk
  BY DEF Store!Load, Store!OnDisk, Store!Content

\* The file is not there yet, and nobody runs.
LEMMA InitCheckpointInv == PipelineInit => CheckpointInv
  <1> SUFFICES ASSUME PipelineInit PROVE CheckpointInv
    OBVIOUS
  <1>1. Store!NoCheckpoint \in Store!Checkpoint
    BY DEF Store!NoCheckpoint, Store!Checkpoint
  <1>2. Store!FileTypeOK(Store!Checkpoint)
    BY DEF PipelineInit, Store!Init, Store!FileInit, Store!FileTypeOK, Store!PC
  <1>3. Store!TypeOK
    <2>1. overlapped \in BOOLEAN
      BY DEF PipelineInit, Store!Init
    <2>2. /\ running \subseteq Writer /\ mem \in [Writer -> Store!Checkpoint]
          /\ saved \subseteq Cid /\ faults \in 0..MaxFaults
      BY <1>1, FileRegistryAssumption DEF PipelineInit, Store!Init
    <2>3. QED
      BY <1>2, <2>1, <2>2 DEF Store!TypeOK
  <1>4. /\ Store!Apart /\ Store!Serial(mem)
    BY DEF PipelineInit, Store!Init, Store!FileInit, Store!Apart, Store!Serial
  <1>5. Sequential
    BY DEF PipelineInit, Store!Init, Store!FileInit, Init, FileInit, Sequential
  <1>6. Durable
    BY <1>4 DEF Durable, PipelineInit, Store!Init
  <1>7. QED
    BY <1>3, <1>4, <1>5, <1>6 DEF CheckpointInv

\* Steps of the registry file.
LEMMA OtherCheckpointInv ==
    ASSUME CheckpointInv, UNCHANGED cpVars, faults' \in 0..MaxFaults,
           \A w \in Writer : pc'[w] # "idle" => pc[w] # "idle" \/ Ready(w)
    PROVE  CheckpointInv' /\ CheckpointStep
  <1>1. UNCHANGED <<cpPath, cpTmp, cpData, cpPc, cpFd, running, mem, saved, overlapped>>
    BY DEF cpVars
  <1>2. Store!TypeOK'
    <2>1. Store!FileTypeOK(Store!Checkpoint)'
      BY <1>1 DEF CheckpointInv, Store!TypeOK, Store!FileTypeOK
    <2>2. overlapped' \in BOOLEAN
      BY <1>1 DEF CheckpointInv, Store!TypeOK
    <2>3. /\ running' \subseteq Writer /\ mem' \in [Writer -> Store!Checkpoint]
          /\ saved' \subseteq Cid
      BY <1>1 DEF CheckpointInv, Store!TypeOK
    <2>4. QED
      BY <2>1, <2>2, <2>3 DEF Store!TypeOK
  <1>3. Store!Apart' /\ (Store!Serial(mem) => Store!Serial(mem)')
    <2>1. Store!Apart'
      BY <1>1 DEF CheckpointInv, Store!Apart
    <2>2. Store!Serial(mem) => Store!Serial(mem)'
      BY <1>1 DEF Store!Serial
    <2>3. QED
      BY <2>1, <2>2
  <1>4. Store!OnDisk' = Store!OnDisk
    BY <1>1, SameCheckpoint
  <1>5. Sequential'
    BY <1>1 DEF CheckpointInv, Sequential, Ready
  <1>6. Durable => Durable'
    BY <1>1, <1>3, <1>4 DEF Durable, Ahead
  <1>7. QED
    BY <1>1, <1>2, <1>3, <1>4, <1>5, <1>6 DEF CheckpointInv, CheckpointStep

\* A process starts: with what is on disk.
LEMMA StartCheckpointInv ==
    ASSUME CheckpointInv, NEW w \in Writer, Store!Start(w), pc' = pc
    PROVE  CheckpointInv' /\ CheckpointStep
  <1>1. /\ w \notin running /\ Store!Load # Torn
        /\ running' = running \cup {w}
        /\ overlapped' = (overlapped \/ running # {})
        /\ mem' = [mem EXCEPT ![w] = Store!Load]
        /\ UNCHANGED <<cpPath, cpTmp, cpData, cpPc, cpFd, saved, faults>>
    BY DEF Store!Start, Store!fileVars
  <1>2. Store!Load \in Store!Checkpoint /\ Store!OnDisk = Store!Load
    BY <1>1, LoadType DEF Store!OnDisk
  <1>3. Store!TypeOK'
    <2>1. Store!FileTypeOK(Store!Checkpoint)'
      BY <1>1 DEF CheckpointInv, Store!TypeOK, Store!FileTypeOK
    <2>2. overlapped' \in BOOLEAN
      BY <1>1
    <2>3. /\ running' \subseteq Writer /\ mem' \in [Writer -> Store!Checkpoint]
          /\ saved' \subseteq Cid /\ faults' \in 0..MaxFaults
      BY <1>1, <1>2 DEF CheckpointInv, Store!TypeOK
    <2>4. QED
      BY <2>1, <2>2, <2>3 DEF Store!TypeOK
  <1>4. Store!Apart' /\ Store!OnDisk' = Store!OnDisk
    BY <1>1, SameCheckpoint DEF CheckpointInv, Store!Apart
  <1>5. Sequential'
    BY <1>1 DEF CheckpointInv, Sequential
  <1>6. ASSUME ~overlapped' PROVE Durable'
    <2>1. running = {} /\ Durable
      BY <1>1, <1>6 DEF CheckpointInv
    <2>2. \A v \in Writer : cpPc[v] = "idle"
      BY <2>1 DEF CheckpointInv, Sequential
    <2>3. Store!Serial(mem)'
      BY <1>1, <2>1, <2>2 DEF Durable, Store!Serial
    <2>4. mem'[w] = Store!OnDisk
      BY <1>1, <1>2 DEF CheckpointInv, Store!TypeOK
    <2>5. Store!OnDisk.committed <= Store!OnDisk.committed
      BY LoadType DEF Store!Checkpoint
    <2>6. Ahead(w)'
      BY <1>1, <1>4, <2>2, <2>4, <2>5 DEF Ahead
    <2>7. QED
      BY <1>1, <1>4, <2>1, <2>3, <2>6 DEF Durable
  <1>7. QED
    BY <1>3, <1>4, <1>5, <1>6 DEF CheckpointInv, CheckpointStep

\* A process is gone, and its memory with it.
LEMMA ExitCheckpointInv ==
    ASSUME CheckpointInv, NEW w \in Writer, Store!Exit(w),
           UNCHANGED <<cpPath, cpTmp, cpData, cpPc, cpFd, saved, overlapped>>,
           cpPc[w] = "idle", faults' \in 0..MaxFaults, pc'[w] = "idle",
           \A v \in Writer \ {w} : pc'[v] = pc[v]
    PROVE  CheckpointInv' /\ CheckpointStep
  <1>1. /\ running' = running \ {w} /\ w \in running
        /\ mem' = [mem EXCEPT ![w] = Store!NoCheckpoint]
        /\ mem \in [Writer -> Store!Checkpoint]
    BY DEF Store!Exit, CheckpointInv, Store!TypeOK
  <1>2. Store!TypeOK'
    <2>1. Store!FileTypeOK(Store!Checkpoint)'
      BY DEF CheckpointInv, Store!TypeOK, Store!FileTypeOK
    <2>2. overlapped' \in BOOLEAN
      BY DEF CheckpointInv, Store!TypeOK
    <2>3. /\ running' \subseteq Writer /\ mem' \in [Writer -> Store!Checkpoint]
          /\ saved' \subseteq Cid
      BY <1>1, LoadType DEF CheckpointInv, Store!TypeOK
    <2>4. QED
      BY <2>1, <2>2, <2>3 DEF Store!TypeOK
  <1>3. Store!Apart' /\ Store!OnDisk' = Store!OnDisk
    BY SameCheckpoint DEF CheckpointInv, Store!Apart
  <1>4. Sequential'
    BY <1>1 DEF CheckpointInv, Sequential
  <1>5. ASSUME Durable PROVE Durable'
    <2>1. \A v \in Writer \ {w} : mem'[v] = mem[v]
      BY <1>1
    <2>2. Store!Serial(mem)'
      BY <1>5, <2>1 DEF Durable, Store!Serial
    <2>3. \A v \in running' : Ahead(v)'
      BY <1>1, <1>3, <1>5, <2>1 DEF Durable, Ahead, CheckpointInv, Store!TypeOK
    <2>4. QED
      BY <1>1, <1>3, <1>5, <2>2, <2>3 DEF Durable
  <1>6. QED
    BY <1>2, <1>3, <1>4, <1>5 DEF CheckpointInv, CheckpointStep

\* A batch is recorded in memory, which gets ahead of the file.
LEMMA CommitCheckpointInv ==
    ASSUME CheckpointInv, NEW w \in Writer, NEW batch \in SUBSET Cid,
           Store!Commit(w, batch), pc'[w] = "idle",
           \A v \in Writer \ {w} : pc'[v] = pc[v]
    PROVE  CheckpointInv' /\ CheckpointStep
  <1> DEFINE new == [anchored |-> mem[w].anchored \cup batch,
                     committed |-> mem[w].committed + 1]
  <1>1. /\ w \in running /\ cpPc[w] = "idle"
        /\ cpPc' = [cpPc EXCEPT ![w] = "loaded"]
        /\ mem' = [mem EXCEPT ![w] = new]
        /\ UNCHANGED <<cpPath, cpTmp, cpData, cpFd, running, saved, overlapped, faults>>
    BY DEF Store!Commit, Store!Loaded
  <1>2. /\ mem \in [Writer -> Store!Checkpoint] /\ cpPc \in [Writer -> Store!PC]
        /\ mem[w].anchored \subseteq Cid /\ mem[w].committed \in Nat
    BY DEF CheckpointInv, Store!TypeOK, Store!FileTypeOK, Store!Checkpoint
  <1>3. /\ new \in Store!Checkpoint
        /\ mem[w].anchored \subseteq new.anchored
        /\ new.committed = mem[w].committed + 1
    BY <1>2 DEF Store!Checkpoint
  <1> HIDE DEF new
  <1>4. Store!TypeOK'
    <2>1. Store!FileTypeOK(Store!Checkpoint)'
      BY <1>1 DEF CheckpointInv, Store!TypeOK, Store!FileTypeOK, Store!PC
    <2>2. overlapped' \in BOOLEAN
      BY <1>1 DEF CheckpointInv, Store!TypeOK
    <2>3. /\ running' \subseteq Writer /\ mem' \in [Writer -> Store!Checkpoint]
          /\ saved' \subseteq Cid /\ faults' \in 0..MaxFaults
      BY <1>1, <1>3 DEF CheckpointInv, Store!TypeOK
    <2>4. QED
      BY <2>1, <2>2, <2>3 DEF Store!TypeOK
  <1>5. Store!Apart' /\ Store!OnDisk' = Store!OnDisk
    BY <1>1, SameCheckpoint DEF CheckpointInv, Store!Apart
  <1>6. Sequential'
    BY <1>1, <1>2 DEF CheckpointInv, Sequential
  <1>7. ASSUME Durable PROVE Durable'
    <2>1. \A v \in Writer \ {w} : v \notin running /\ cpPc[v] = "idle"
      BY <1>1, <1>7 DEF Durable, CheckpointInv, Sequential
    <2>2. cpPc'[w] = "loaded" /\ \A v \in Writer \ {w} : cpPc'[v] = "idle"
      BY <1>1, <1>2, <2>1
    <2>3. Store!Serial(mem)'
      BY <1>1, <1>7, <2>2 DEF Durable, Store!Serial
    <2>4. /\ Store!OnDisk.anchored \subseteq mem[w].anchored
          /\ Store!OnDisk.committed <= mem[w].committed
          /\ Store!OnDisk.committed \in Nat
      BY <1>1, <1>7, LoadType DEF Durable, Ahead, Store!Checkpoint
    <2>5. mem'[w] = new
      BY <1>1, <1>2
    <2>6. /\ Store!OnDisk.committed < new.committed
          /\ Store!OnDisk.committed <= new.committed
      BY <1>2, <1>3, <2>4
    <2>7. Ahead(w)'
      BY <1>3, <1>5, <2>4, <2>5, <2>6 DEF Ahead
    <2>8. QED
      BY <1>1, <1>5, <1>7, <2>1, <2>3, <2>7
         DEF Durable, CheckpointInv, Store!TypeOK
  <1>8. QED
    BY <1>1, <1>4, <1>5, <1>6, <1>7 DEF CheckpointInv, CheckpointStep

\* The open and the write of the temporary file.
LEMMA SavingCheckpointInv ==
    ASSUME CheckpointInv, NEW w \in Writer, Store!Open(w) \/ Store!Write(w),
           pc' = pc
    PROVE  CheckpointInv' /\ CheckpointStep
  <1>1. /\ Store!OpenTmp(w) \/ Store!WriteTmp(w, mem[w])
        /\ UNCHANGED <<running, mem, saved, overlapped, faults>>
    BY DEF Store!Open, Store!Write
  <1>2. /\ Store!FileTypeOK(Store!Checkpoint) /\ Store!Apart
        /\ mem \in [Writer -> Store!Checkpoint] /\ cpPc \in [Writer -> Store!PC]
    BY DEF CheckpointInv, Store!TypeOK, Store!FileTypeOK
  <1>3. /\ Store!FileTypeOK(Store!Checkpoint)' /\ Store!Apart' /\ cpPath' = cpPath
        /\ Store!Serial(mem) =>
               /\ Store!Serial(mem)'
               /\ cpPath # NoFile => cpData'[cpPath] = cpData[cpPath]
    BY <1>1, <1>2, OpenCheckpoint, WriteCheckpoint
  <1>4. Store!TypeOK'
    <2>1. overlapped' \in BOOLEAN
      BY <1>1 DEF CheckpointInv, Store!TypeOK
    <2>2. /\ running' \subseteq Writer /\ mem' \in [Writer -> Store!Checkpoint]
          /\ saved' \subseteq Cid /\ faults' \in 0..MaxFaults
      BY <1>1 DEF CheckpointInv, Store!TypeOK
    <2>3. QED
      BY <1>3, <2>1, <2>2 DEF Store!TypeOK
  <1>5. /\ cpPc[w] # "idle"
        /\ \A v \in Writer : cpPc'[v] # "idle" => cpPc[v] # "idle"
    BY <1>1, <1>2 DEF Store!OpenTmp, Store!WriteTmp
  <1>6. Sequential'
    <2>1. \A v \in Writer : pc[v] # "idle" => v # w /\ cpPc'[v] = cpPc[v]
      BY <1>1, <1>2, <1>5
         DEF CheckpointInv, Sequential, Store!OpenTmp, Store!WriteTmp
    <2>2. QED
      BY <1>1, <1>5, <2>1 DEF CheckpointInv, Sequential
  <1>7. ASSUME Durable PROVE Durable' /\ Store!OnDisk' = Store!OnDisk
    <2>1. Store!Serial(mem)' /\ Store!OnDisk' = Store!OnDisk
      BY <1>3, <1>7, SameCheckpoint DEF Durable
    <2>2. \A v \in running : Ahead(v) => Ahead(v)'
      BY <1>1, <1>5, <2>1 DEF Ahead, CheckpointInv, Store!TypeOK
    <2>3. QED
      BY <1>1, <1>7, <2>1, <2>2 DEF Durable
  <1>8. QED
    BY <1>1, <1>3, <1>4, <1>6, <1>7 DEF CheckpointInv, CheckpointStep

\* The rename brings the file what the memory of the process has.
LEMMA RenameCheckpointInv ==
    ASSUME CheckpointInv, NEW w \in Writer, Store!RenameTmp(w), pc' = pc,
           saved' \in {saved, saved \cup mem[w].anchored},
           UNCHANGED overlapped, faults' \in 0..MaxFaults,
           UNCHANGED <<running, mem>> \/ Store!Exit(w)
    PROVE  CheckpointInv' /\ CheckpointStep
  <1>1. /\ Store!FileTypeOK(Store!Checkpoint) /\ Store!Apart
        /\ mem \in [Writer -> Store!Checkpoint] /\ cpPc \in [Writer -> Store!PC]
        /\ cpPc[w] # "idle" /\ cpPc' = [cpPc EXCEPT ![w] = "idle"]
    BY DEF CheckpointInv, Store!TypeOK, Store!FileTypeOK, Store!RenameTmp,
           Store!Close
  <1>2. /\ Store!FileTypeOK(Store!Checkpoint)' /\ Store!Apart'
        /\ Store!Serial(mem) => /\ cpPath' # NoFile /\ cpData'[cpPath'] = mem[w]
    BY <1>1, RenameCheckpoint
  <1>3. /\ mem' \in [Writer -> Store!Checkpoint] /\ running' \subseteq running
        /\ \A v \in Writer \ {w} : v \in running' <=> v \in running
        /\ \A v \in running' : mem'[v] = mem[v]
    BY <1>1, LoadType DEF Store!Exit, CheckpointInv, Store!TypeOK
  <1>4. Store!TypeOK'
    <2>1. overlapped' \in BOOLEAN
      BY DEF CheckpointInv, Store!TypeOK
    <2>2. mem[w].anchored \subseteq Cid
      BY <1>1 DEF Store!Checkpoint
    <2>3. running' \subseteq Writer /\ saved' \subseteq Cid
      BY <1>3, <2>2 DEF CheckpointInv, Store!TypeOK
    <2>4. QED
      BY <1>2, <1>3, <2>1, <2>3 DEF Store!TypeOK
  <1>5. Sequential'
    BY <1>1, <1>3 DEF CheckpointInv, Sequential
  <1>6. ASSUME Durable PROVE Durable' /\ Store!Promised!Commit
    <2>1. /\ w \in running /\ \A v \in Writer \ {w} : cpPc[v] = "idle"
      BY <1>1, <1>6 DEF Durable, CheckpointInv, Sequential
    <2>2. /\ Store!OnDisk.anchored \subseteq mem[w].anchored
          /\ Store!OnDisk.committed < mem[w].committed
      BY <1>1, <1>6, <2>1 DEF Durable, Ahead
    <2>3. /\ Store!OnDisk' = mem[w] /\ mem[w] \in Store!Checkpoint
          /\ cpData'[cpPath'] # Torn
      BY <1>1, <1>2, <1>6, PipelineAssumption
         DEF Durable, Store!OnDisk, Store!Load, Store!Content
    <2>4. \A v \in Writer : cpPc'[v] = "idle"
      BY <1>1, <2>1
    <2>5. Store!Serial(mem)'
      BY <2>3, <2>4 DEF Store!Serial
    <2>6. mem[w].committed <= mem[w].committed
      BY <1>1 DEF Store!Checkpoint
    <2>7. \A v \in running' : v = w /\ v \in Writer
      BY <1>3, <1>6, <2>1 DEF Durable, CheckpointInv, Store!TypeOK
    <2>8. \A v \in running' : Ahead(v)'
      BY <1>3, <2>3, <2>4, <2>6, <2>7 DEF Ahead
    <2>9. saved' \subseteq Store!OnDisk'.anchored
      BY <1>6, <2>2, <2>3 DEF Durable
    <2>10. Durable'
      BY <2>5, <2>7, <2>8, <2>9 DEF Durable
    <2>11. Store!Promised!Commit
      BY <2>2, <2>3
         DEF Store!Promised!Commit, Store!Promised!Checkpoint, Store!Checkpoint
    <2>12. QED
      BY <2>10, <2>11
  <1>7. QED
    BY <1>2, <1>4, <1>5, <1>6 DEF CheckpointInv, CheckpointStep

\* A save that is given up leaves the file as it is.
LEMMA AbandonCheckpointInv ==
    ASSUME CheckpointInv, NEW w \in Writer, cpPc[w] # "idle",
           Store!Abandon(w) \/ Store!RenameTmpErr(w), pc' = pc,
           UNCHANGED <<saved, overlapped>>, faults' \in 0..MaxFaults,
           UNCHANGED <<running, mem>> \/ Store!Exit(w)
    PROVE  CheckpointInv' /\ CheckpointStep
  <1>1. /\ Store!FileTypeOK(Store!Checkpoint) /\ Store!Apart
        /\ mem \in [Writer -> Store!Checkpoint] /\ cpPc \in [Writer -> Store!PC]
        /\ cpPc' = [cpPc EXCEPT ![w] = "idle"]
    BY DEF CheckpointInv, Store!TypeOK, Store!FileTypeOK, Store!Abandon,
           Store!RenameTmpErr, Store!Close
  <1>2. /\ mem' \in [Writer -> Store!Checkpoint] /\ running' \subseteq running
        /\ \A v \in Writer \ {w} : v \in running' <=> v \in running
        /\ \A v \in Writer \ {w} : mem'[v] = mem[v]
        /\ \A v \in running' : mem'[v] = mem[v]
    BY <1>1, LoadType DEF Store!Exit, CheckpointInv, Store!TypeOK
  <1>3. /\ Store!FileTypeOK(Store!Checkpoint)' /\ Store!Apart'
        /\ cpPath' = cpPath /\ cpData' = cpData
        /\ Store!Serial(mem) => Store!Serial(mem)'
    BY <1>1, <1>2, AbandonCheckpoint
  <1>4. Store!TypeOK'
    <2>1. overlapped' \in BOOLEAN
      BY DEF CheckpointInv, Store!TypeOK
    <2>2. running' \subseteq Writer /\ saved' \subseteq Cid
      BY <1>2 DEF CheckpointInv, Store!TypeOK
    <2>3. QED
      BY <1>2, <1>3, <2>1, <2>2 DEF Store!TypeOK
  <1>5. Sequential'
    BY <1>1, <1>2 DEF CheckpointInv, Sequential
  <1>6. Store!OnDisk' = Store!OnDisk
    BY <1>3, SameCheckpoint
  <1>7. ASSUME Durable PROVE Durable'
    <2>1. \A v \in running' : Ahead(v)'
      BY <1>1, <1>2, <1>6, <1>7 DEF Durable, Ahead, CheckpointInv, Store!TypeOK
    <2>2. QED
      BY <1>2, <1>3, <1>6, <1>7, <2>1 DEF Durable
  <1>8. QED
    BY <1>3, <1>4, <1>5, <1>6, <1>7 DEF CheckpointInv, CheckpointStep

-----------------------------------------------------------------------------
(* The two files together *)

\* What any process may do next.
ProcessStep(w) ==
    \/ Start(w) \/ StartErr(w) \/ Stop(w)
    \/ \E b \in Batches, ts \in Time : Submit(w, b, ts)
    \/ SubmitErr(w)
    \/ Flush(w)
    \/ Crash(w) \/ CrashSaving(w)

\* What a step may do to the table that a reader finds.
RegistryStep == raced' \/ Visible' = Visible \/ Extends(Visible, Visible')

\* The bound of the faults is kept.
LEMMA FaultsBounded ==
    ASSUME faults \in 0..MaxFaults,
           faults' = faults \/ (faults < MaxFaults /\ faults' = faults + 1)
    PROVE  faults' \in 0..MaxFaults
  BY FileRegistryAssumption

\* Every step keeps the invariant of the registry file, and changes what a
\* reader finds by a batch or not at all.
LEMMA RegistrySteps ==
    ASSUME RegistryInv, NEW w \in Writer, ProcessStep(w)
    PROVE  RegistryInv' /\ RegistryStep
  <1>1. faults \in 0..MaxFaults
    BY DEF RegistryInv, TypeOK
  <1>2. CASE Start(w) \/ StartErr(w) \/ Stop(w) \/ Checkpointing(w) \/ CrashSaving(w)
    <2>1. UNCHANGED registryVars
      BY <1>2 DEF Start, StartErr, Stop, Checkpointing, CrashSaving
    <2>2. faults' = faults \/ (faults < MaxFaults /\ faults' = faults + 1)
      BY <1>2 DEF Start, StartErr, Stop, Checkpointing, CrashSaving,
           Store!Start, Store!StartErr, Store!Stop, Store!Open, Store!Write,
           Store!Rename, Store!SaveErr, Store!Crash, Store!vars
    <2>3. QED
      BY <1>1, <2>1, <2>2, FaultsBounded, OtherRegistryInv DEF RegistryStep
  <1>3. ASSUME NEW b \in Batches, NEW ts \in Time, Submit(w, b, ts)
        PROVE  RegistryInv' /\ RegistryStep
    BY <1>3, CallRegistryInv DEF Submit, RegistryStep
  <1>4. CASE SubmitErr(w)
    BY <1>4, CallErrRegistryInv DEF SubmitErr, RegistryStep
  <1>5. CASE Saving(w)
    BY <1>5, SavingRegistryInv DEF Saving, RegistryStep
  <1>6. CASE Accepted(w)
    <2>1. /\ RenameTmp(w) /\ Leave(w) /\ receipts' = receipts \cup {answer[w]}
          /\ UNCHANGED <<raced, calls, faults>>
      BY <1>6 DEF Accepted, Rename
    <2>2. QED
      BY <1>1, <2>1, RenameRegistryInv DEF RegistryStep
  <1>7. CASE Refused(w)
    <2>1. /\ Abandon(w) \/ RenameTmpErr(w)
          /\ Leave(w) /\ UNCHANGED <<receipts, raced, calls>>
          /\ faults' = faults \/ (faults < MaxFaults /\ faults' = faults + 1)
      BY <1>7 DEF Refused, RenameErr, Fail
    <2>2. faults' \in 0..MaxFaults
      BY <1>1, <2>1, FaultsBounded
    <2>3. QED
      BY <2>1, <2>2, AbandonRegistryInv DEF RegistryStep
  <1>8. CASE Crash(w)
    <2>1. /\ Abandon(w) \/ RenameTmp(w)
          /\ Leave(w) /\ UNCHANGED <<receipts, raced, calls>>
          /\ faults < MaxFaults /\ faults' = faults + 1
      BY <1>8 DEF Crash, Kill
    <2>2. faults' \in 0..MaxFaults
      BY <1>1, <2>1, FaultsBounded
    <2>3. CASE Abandon(w)
      BY <2>1, <2>2, <2>3, AbandonRegistryInv DEF RegistryStep
    <2>4. CASE RenameTmp(w)
      BY <2>1, <2>2, <2>4, RenameRegistryInv DEF RegistryStep
    <2>5. QED
      BY <2>1, <2>3, <2>4
  <1>9. QED
    BY <1>2, <1>3, <1>4, <1>5, <1>6, <1>7, <1>8 DEF ProcessStep, Flush

\* Every step keeps the invariant of the checkpoint file, and changes what a
\* restart would load by a commit or not at all.
LEMMA CheckpointSteps ==
    ASSUME RegistryInv, CheckpointInv, NEW w \in Writer, ProcessStep(w)
    PROVE  CheckpointInv' /\ CheckpointStep
  <1>1. /\ faults \in 0..MaxFaults /\ pc \in [Writer -> PC]
        /\ answer \in [Writer -> Receipt]
    BY DEF RegistryInv, TypeOK, FileTypeOK
  <1>2. CASE Start(w)
    BY <1>2, StartCheckpointInv DEF Start, registryVars, fileVars
  <1>3. CASE StartErr(w)
    <2>1. /\ UNCHANGED cpVars /\ pc' = pc /\ faults' = faults
      BY <1>3 DEF StartErr, Store!StartErr, Store!vars, Store!fileVars, cpVars,
           registryVars, fileVars
    <2>2. QED
      BY <1>1, <2>1, OtherCheckpointInv
  <1>4. CASE Stop(w)
    <2>1. /\ pc[w] = "idle" /\ pc' = pc /\ cpPc[w] = "idle" /\ Store!Exit(w)
          /\ UNCHANGED <<cpPath, cpTmp, cpData, cpPc, cpFd, saved, overlapped, faults>>
      BY <1>4 DEF Stop, Store!Stop, Store!fileVars, registryVars, fileVars
    <2>2. QED
      BY <1>1, <2>1, ExitCheckpointInv
  <1>5. CASE (\E b \in Batches, ts \in Time : Submit(w, b, ts)) \/ SubmitErr(w)
    <2>1. UNCHANGED cpVars /\ Ready(w) /\ faults' = faults
      BY <1>5 DEF Submit, SubmitErr, Call, MergeInto, CallErr
    <2>2. \A v \in Writer \ {w} : pc'[v] = pc[v]
      BY <1>1, <1>5 DEF Submit, SubmitErr, Call, MergeInto, Loaded, CallErr, fileVars
    <2>3. QED
      BY <1>1, <2>1, <2>2, OtherCheckpointInv
  <1>6. CASE Saving(w) \/ Refused(w)
    <2>1. /\ UNCHANGED cpVars
          /\ faults' = faults \/ (faults < MaxFaults /\ faults' = faults + 1)
      BY <1>6 DEF Saving, Open, Write, callVars, Refused, RenameErr, Fail
    <2>2. \A v \in Writer : pc'[v] # "idle" => pc[v] # "idle"
      BY <1>1, <1>6 DEF Saving, Open, Write, OpenTmp, WriteTmp, Refused,
           RenameErr, RenameTmpErr, Fail, Abandon, Close
    <2>3. QED
      BY <1>1, <2>1, <2>2, FaultsBounded, OtherCheckpointInv
  <1>7. CASE Accepted(w)
    <2>1. answer[w].anchored \cup answer[w].present \in SUBSET Cid
      BY <1>1 DEF Receipt
    <2>2. pc'[w] = "idle" /\ \A v \in Writer \ {w} : pc'[v] = pc[v]
      BY <1>1, <1>7 DEF Accepted, Rename, RenameTmp, Close
    <2>3. QED
      BY <1>7, <2>1, <2>2, CommitCheckpointInv DEF Accepted
  <1>8. CASE Checkpointing(w)
    <2>1. pc' = pc
      BY <1>8 DEF Checkpointing, registryVars, fileVars
    <2>2. CASE Store!Open(w) \/ Store!Write(w)
      BY <2>1, <2>2, SavingCheckpointInv
    <2>3. CASE Store!Rename(w)
      BY <1>1, <2>1, <2>3, RenameCheckpointInv DEF Store!Rename
    <2>4. CASE Store!SaveErr(w)
      <3>1. /\ cpPc[w] # "idle"
            /\ Store!Abandon(w) \/ Store!RenameTmpErr(w)
            /\ UNCHANGED <<running, mem, saved, overlapped>>
            /\ faults' = faults \/ (faults < MaxFaults /\ faults' = faults + 1)
        BY <2>4 DEF Store!SaveErr, Store!RenameTmpErr
      <3>2. faults' \in 0..MaxFaults
        BY <1>1, <3>1, FaultsBounded
      <3>3. QED
        BY <2>1, <2>4, <3>1, <3>2, AbandonCheckpointInv DEF Store!SaveErr
    <2>5. QED
      BY <1>8, <2>2, <2>3, <2>4 DEF Checkpointing
  <1>9. CASE Crash(w)
    <2>1. /\ pc[w] # "idle"
          /\ Abandon(w) \/ RenameTmp(w)
          /\ faults < MaxFaults /\ faults' = faults + 1
          /\ Store!Exit(w)
          /\ UNCHANGED <<cpPath, cpTmp, cpData, cpPc, cpFd, saved, overlapped>>
      BY <1>9 DEF Crash, Kill
    <2>2. faults' \in 0..MaxFaults
      BY <1>1, <2>1, FaultsBounded
    <2>3. pc'[w] = "idle" /\ \A v \in Writer \ {w} : pc'[v] = pc[v]
      BY <1>1, <2>1 DEF Abandon, RenameTmp, Close
    <2>4. cpPc[w] = "idle"
      BY <2>1 DEF CheckpointInv, Sequential
    <2>5. QED
      BY <2>1, <2>2, <2>3, <2>4, ExitCheckpointInv
  <1>10. CASE CrashSaving(w)
    <2>1. /\ cpPc[w] # "idle"
          /\ Store!Abandon(w) \/ Store!RenameTmp(w)
          /\ faults < MaxFaults /\ faults' = faults + 1
          /\ Store!Exit(w) /\ UNCHANGED <<saved, overlapped>> /\ pc' = pc
      BY <1>10 DEF CrashSaving, Store!Crash, registryVars, fileVars
    <2>2. faults' \in 0..MaxFaults
      BY <1>1, <2>1, FaultsBounded
    <2>3. CASE Store!Abandon(w)
      BY <2>1, <2>2, <2>3, AbandonCheckpointInv
    <2>4. CASE Store!RenameTmp(w)
      BY <2>1, <2>2, <2>4, RenameCheckpointInv
    <2>5. QED
      BY <2>1, <2>3, <2>4
  <1>11. QED
    BY <1>2, <1>3, <1>4, <1>5, <1>6, <1>7, <1>8, <1>9, <1>10
       DEF ProcessStep, Flush

\* Every checkpoint, in a file of any name or in memory, names registered CIDs.
\* This needs no turns in the use of the checkpoint file.
NamesRegistered ==
    /\ \A i \in Inode : cpData[i] # Torn =>
           cpData[i].anchored \subseteq Registered(Visible)
    /\ \A w \in Writer : mem[w].anchored \subseteq Registered(Visible)

\* The inductive invariant of the pipeline.
PipelineInv ==
    /\ RegistryInv
    /\ CheckpointInv
    /\ raced \/ NamesRegistered

\* A file holds what it held or what some process had in memory.
LEMMA CheckpointContents ==
    ASSUME CheckpointInv, NEW w \in Writer, ProcessStep(w), NEW i \in Inode
    PROVE  cpData'[i] \in {cpData[i], mem[w], Torn}
  <1>1. cpData \in [Inode -> Store!Checkpoint \cup {Torn}]
    BY DEF CheckpointInv, Store!TypeOK, Store!FileTypeOK
  <1>2. CASE UNCHANGED cpData
    BY <1>2
  <1>3. CASE Store!OpenTmp(w)
    BY <1>1, <1>3 DEF Store!OpenTmp
  <1>4. CASE Store!WriteTmp(w, mem[w])
    <2>1. PICK content \in {mem[w], Torn} :
              cpData' = [cpData EXCEPT ![cpFd[w]] = content]
      BY <1>4 DEF Store!WriteTmp
    <2>2. QED
      BY <1>1, <2>1
  <1>5. CASE Store!RenameTmp(w)
    BY <1>1, <1>5 DEF Store!RenameTmp
  <1>6. \/ UNCHANGED cpData \/ Store!OpenTmp(w)
        \/ Store!WriteTmp(w, mem[w]) \/ Store!RenameTmp(w)
    <2>1. CASE Checkpointing(w)
      BY <2>1 DEF Checkpointing, Store!Open, Store!Write, Store!Rename,
           Store!SaveErr, Store!RenameTmpErr, Store!Abandon
    <2>2. CASE CrashSaving(w)
      BY <2>2 DEF CrashSaving, Store!Crash, Store!Abandon
    <2>3. CASE Start(w) \/ StartErr(w) \/ Stop(w)
      BY <2>3 DEF Start, StartErr, Stop, Store!Start, Store!StartErr,
           Store!Stop, Store!vars, Store!fileVars
    <2>4. CASE \/ \E b \in Batches, ts \in Time : Submit(w, b, ts)
               \/ SubmitErr(w) \/ Saving(w) \/ Refused(w) \/ Accepted(w) \/ Crash(w)
      BY <2>4 DEF Submit, SubmitErr, Saving, Refused, Accepted, Crash,
           Store!Commit, cpVars
    <2>5. QED
      BY <2>1, <2>2, <2>3, <2>4 DEF ProcessStep, Flush
  <1>7. QED
    BY <1>2, <1>3, <1>4, <1>5, <1>6

\* A process has in memory what it had, what it has just loaded, or in addition
\* the batch that the registry has just acknowledged.
LEMMA MemoryContents ==
    ASSUME RegistryInv, CheckpointInv, NEW w \in Writer, ProcessStep(w),
           ~raced', NEW v \in Writer
    PROVE  mem'[v].anchored
               \subseteq mem[v].anchored \cup Store!OnDisk.anchored
                             \cup Registered(Visible')
  <1> DEFINE Goal == mem'[v].anchored \subseteq
                 mem[v].anchored \cup Store!OnDisk.anchored \cup Registered(Visible')
  <1>1. /\ mem \in [Writer -> Store!Checkpoint] /\ faults \in 0..MaxFaults
        /\ Store!NoCheckpoint.anchored = {}
    BY DEF CheckpointInv, Store!TypeOK, Store!NoCheckpoint
  <1>2. CASE UNCHANGED mem
    BY <1>2
  <1>3. CASE Store!Exit(w)
    BY <1>1, <1>3 DEF Store!Exit
  <1>4. CASE Start(w)
    <2>1. mem' = [mem EXCEPT ![w] = Store!OnDisk]
      BY <1>4 DEF Start, Store!Start, Store!OnDisk
    <2>2. QED
      BY <1>1, <2>1
  <1>5. CASE Accepted(w)
    <2> DEFINE acked == answer[w].anchored \cup answer[w].present
    <2>1. /\ RenameTmp(w) /\ Leave(w) /\ receipts' = receipts \cup {answer[w]}
          /\ UNCHANGED <<raced, calls, faults>>
      BY <1>5 DEF Accepted, Rename
    <2>2. acked \subseteq Registered(Visible')
      BY <1>1, <2>1, RenameRegistryInv
    <2>3. mem' = [mem EXCEPT ![w] = [anchored |-> mem[w].anchored \cup acked,
                                     committed |-> mem[w].committed + 1]]
      BY <1>5 DEF Accepted, Store!Commit
    <2> HIDE DEF acked
    <2>4. QED
      BY <1>1, <2>2, <2>3
  <1>6. UNCHANGED mem \/ Store!Exit(w) \/ Start(w) \/ Accepted(w)
    <2>1. CASE Checkpointing(w)
      BY <2>1 DEF Checkpointing, Store!Open, Store!Write, Store!Rename,
           Store!SaveErr
    <2>2. CASE CrashSaving(w) \/ Crash(w) \/ Stop(w)
      BY <2>2 DEF CrashSaving, Store!Crash, Crash, Stop, Store!Stop
    <2>3. CASE StartErr(w)
      BY <2>3 DEF StartErr, Store!StartErr, Store!vars
    <2>4. CASE \/ \E b \in Batches, ts \in Time : Submit(w, b, ts)
               \/ SubmitErr(w) \/ Saving(w) \/ Refused(w)
      BY <2>4 DEF Submit, SubmitErr, Saving, Refused, cpVars
    <2>5. QED
      BY <2>1, <2>2, <2>3, <2>4 DEF ProcessStep, Flush
  <1>7. QED
    BY <1>2, <1>3, <1>4, <1>5, <1>6

\* What a restart would load is in the memory or in the file of some process.
LEMMA OnDiskRegistered ==
    ASSUME CheckpointInv, NamesRegistered
    PROVE  Store!OnDisk.anchored \subseteq Registered(Visible)
  <1>1. cpPath \in Inode \cup {NoFile}
    BY DEF CheckpointInv, Store!TypeOK, Store!FileTypeOK
  <1>2. QED
    BY <1>1 DEF NamesRegistered, Store!OnDisk, Store!Load, Store!Content,
         Store!NoCheckpoint

\* A batch takes nothing out of the table, so what is named stays registered.
LEMMA NamesSteps ==
    ASSUME PipelineInv, NEW w \in Writer, ProcessStep(w), ~raced'
    PROVE  NamesRegistered'
  <1>1. ~raced
    BY DEF ProcessStep, Flush, Start, StartErr, Stop, Submit, SubmitErr, Call,
           MergeInto, CallErr, Saving, Open, Write, callVars, Refused,
           RenameErr, Fail, Accepted, Rename, Checkpointing, Crash, Kill,
           CrashSaving, registryVars
  <1>2. RegistryStep /\ NamesRegistered
    BY <1>1, RegistrySteps DEF PipelineInv
  <1>3. Visible \in Tables
    BY <1>1, CurrentType DEF PipelineInv, FileState
  <1>4. Registered(Visible) \subseteq Registered(Visible')
    BY <1>2, <1>3, ExtendsRegistered DEF RegistryStep
  <1>5. ASSUME NEW i \in Inode, cpData'[i] # Torn
        PROVE  cpData'[i].anchored \subseteq Registered(Visible')
    BY <1>2, <1>4, <1>5, CheckpointContents DEF PipelineInv, NamesRegistered
  <1>6. ASSUME NEW v \in Writer
        PROVE  mem'[v].anchored \subseteq Registered(Visible')
    BY <1>2, <1>4, MemoryContents, OnDiskRegistered
       DEF PipelineInv, NamesRegistered
  <1>7. QED
    BY <1>5, <1>6 DEF NamesRegistered

\* Nothing is checkpointed at the start.
LEMMA InitPipelineInv == PipelineInit => PipelineInv
  <1> SUFFICES ASSUME PipelineInit PROVE PipelineInv
    OBVIOUS
  <1>1. RegistryInv /\ CheckpointInv
    BY InitRegistryInv, InitCheckpointInv DEF PipelineInit
  <1>2. NamesRegistered
    BY DEF PipelineInit, Store!Init, Store!FileInit, Store!NoCheckpoint,
           NamesRegistered
  <1>3. QED
    BY <1>1, <1>2 DEF PipelineInv

\* Every step preserves the invariant, and does to either file what the
\* abstract specification of that file allows.
LEMMA NextPipelineInv ==
    PipelineInv /\ [Next]_allVars => PipelineInv' /\ RegistryStep /\ CheckpointStep
  <1> SUFFICES ASSUME PipelineInv, [Next]_allVars
               PROVE  PipelineInv' /\ RegistryStep /\ CheckpointStep
    OBVIOUS
  <1>1. CASE Next
    <2>1. PICK w \in Writer : ProcessStep(w)
      BY <1>1 DEF Next, ProcessStep
    <2>2. QED
      BY <2>1, RegistrySteps, CheckpointSteps, NamesSteps DEF PipelineInv
  <1>2. CASE UNCHANGED allVars
    <2>1. UNCHANGED registryVars /\ UNCHANGED cpVars /\ faults' = faults
      BY <1>2 DEF allVars
    <2>2. faults' \in 0..MaxFaults /\ pc' = pc
      BY <2>1 DEF PipelineInv, RegistryInv, TypeOK, registryVars, fileVars
    <2>3. RegistryInv' /\ Visible' = Visible
      BY <2>1, <2>2, OtherRegistryInv DEF PipelineInv
    <2>4. CheckpointInv' /\ CheckpointStep
      BY <2>1, <2>2, OtherCheckpointInv DEF PipelineInv
    <2>5. NamesRegistered => NamesRegistered'
      BY <2>1, <2>3 DEF NamesRegistered, cpVars
    <2>6. raced' = raced
      BY <2>1 DEF registryVars
    <2>7. QED
      BY <2>3, <2>4, <2>5, <2>6 DEF PipelineInv, RegistryStep
  <1>3. QED
    BY <1>1, <1>2

\* The inductive invariant holds in every reachable state.
THEOREM Invariant == Spec => []PipelineInv
  BY InitPipelineInv, NextPipelineInv, PTL DEF Spec

\* Every variable of both files and of the processes keeps its type.
THEOREM TypeCorrect == Spec => []PipelineTypeOK
  <1>1. PipelineInv => PipelineTypeOK
    BY DEF PipelineInv, RegistryInv, CheckpointInv, PipelineTypeOK
  <1>2. QED
    BY <1>1, Invariant, PTL

\* As long as calls have not overlapped, a reader of the registry file finds a
\* whole document with everything that receipts acknowledged.
THEOREM RegistryFileKept == Spec => []SerialKept
  <1>1. PipelineInv => SerialKept
    <2> SUFFICES ASSUME PipelineInv, ~raced PROVE Current # Torn /\ AcknowledgedKept
      BY DEF SerialKept
    <2>1. Current # Torn /\ Visible = Current.records
      BY CurrentType, FileRegistryAssumption DEF PipelineInv
    <2>2. QED
      BY <2>1 DEF PipelineInv, RegistryInv, ReceiptsBehind, AcknowledgedKept
  <1>2. QED
    BY <1>1, Invariant, PTL

\* As long as calls have not overlapped, no two receipts share a transaction or
\* a newly anchored CID.
THEOREM ReceiptsTellApart == Spec => []SerialReceipts
  <1>1. PipelineInv => SerialReceipts
    BY DEF PipelineInv, RegistryInv, SerialReceipts
  <1>2. QED
    BY <1>1, Invariant, PTL

\* As long as one process at a time uses it, a restart finds a whole checkpoint
\* with everything that a save has returned for.
THEOREM CheckpointFileKept == Spec => []CheckpointKept
  <1>1. PipelineInv => CheckpointKept
    <2> SUFFICES ASSUME PipelineInv, ~overlapped
                 PROVE  Store!Load # Torn /\ Store!SavedKept
      BY DEF CheckpointKept, Store!SerialKept
    <2>1. QED
      BY LoadType DEF PipelineInv, CheckpointInv, Durable, Store!SavedKept
  <1>2. QED
    BY <1>1, Invariant, PTL

\* As long as calls have not overlapped, no checkpoint is ahead of the registry
\* file, also when processes overwrite each other's checkpoint.
THEOREM CheckpointsRegistered == Spec => []CheckpointRegistered
  <1>1. PipelineInv => CheckpointRegistered
    BY OnDiskRegistered DEF PipelineInv, NamesRegistered, CheckpointRegistered
  <1>2. QED
    BY <1>1, Invariant, PTL

\* As long as calls have not overlapped, the registry file implements the
\* registry: each step registers a whole batch or leaves all records alone.
THEOREM RegistryRefinement == Spec => ImplementsRegistry
  <1>1. PipelineInit => Promised!Init
    <2> SUFFICES ASSUME PipelineInit PROVE Visible = EmptyTable
      BY DEF Promised!Init, Promised!EmptyTable, EmptyTable
    <2>1. Current = NoState
      BY DEF PipelineInit, Init, FileInit, Current, Content
    <2>2. QED
      BY <2>1 DEF Visible, NoState
  <1>2. PipelineInv /\ [Next]_allVars => [raced' \/ Promised!Next]_Visible
    <2> SUFFICES ASSUME RegistryStep PROVE [raced' \/ Promised!Next]_Visible
      BY NextPipelineInv
    <2>1. Extends(Visible, Visible') => Promised!AnchorBatch
      BY DEF Extends, Promised!AnchorBatch, Promised!Registered, Registered
    <2>2. QED
      BY <2>1 DEF RegistryStep, Promised!Next
  <1>3. QED
    BY <1>1, <1>2, Invariant, PTL DEF Spec, ImplementsRegistry

\* As long as one process at a time uses it, the checkpoint file implements the
\* checkpoint the runner relies on: a save happened whole or did not.
THEOREM CheckpointRefinement == Spec => ImplementsDurable
  <1>1. PipelineInit => Store!Promised!Init
    BY DEF PipelineInit, Store!Init, Store!FileInit, Store!Promised!Init,
       Store!OnDisk, Store!Load, Store!Content, Store!NoCheckpoint,
       Store!Promised!NoCheckpoint
  <1>2. PipelineInv /\ [Next]_allVars
            => [overlapped' \/ Store!Promised!Commit]_(Store!OnDisk)
    BY NextPipelineInv DEF CheckpointStep
  <1>3. QED
    BY <1>1, <1>2, Invariant, PTL
       DEF Spec, ImplementsDurable, Store!ImplementsDurable

=============================================================================
