---------------------------- MODULE ReplacedFile ----------------------------
(***************************************************************************)
(* A JSON document that is replaced as a whole: written to a temporary     *)
(* file, which is then renamed onto it (CheckpointStore::save,             *)
(* FileRegistry::save).  Any number of processes do so, on the same two    *)
(* paths and without a lock.                                               *)
(*                                                                         *)
(* A write goes to the file that was opened, whatever has been renamed     *)
(* since: files are inodes, and the two paths are names for them.          *)
(***************************************************************************)
CONSTANTS Writer,  \* processes that save
          Inode,   \* files that may exist at once
          NoFile,  \* a path that names no file
          Torn     \* content that is no complete JSON document

\* There is room for a new file, whatever the document is and the writers have
\* open: an open that finds none fails, as a step of Abandon.
ASSUME FileAssumption ==
    /\ NoFile \notin Inode
    /\ \A i \in Inode \cup {NoFile}, open \in [Writer -> Inode \cup {NoFile}] :
           \E j \in Inode : j # i /\ \A w \in Writer : open[w] # j

VARIABLES path,  \* the inode of the document
          tmp,   \* the inode of the temporary file
          data,  \* content of every inode
          pc,    \* where each writer is
          fd     \* the inode it has open

fileVars == <<path, tmp, data, pc, fd>>

\* idle: not saving.  loaded: it has a document to save in memory.  opened,
\* written: after the open and the write of the temporary file.
PC == {"idle", "loaded", "opened", "written"}

FileInit ==
    /\ path = NoFile
    /\ tmp = NoFile
    /\ data = [i \in Inode |-> Torn]
    /\ pc = [w \in Writer |-> "idle"]
    /\ fd = [w \in Writer |-> NoFile]

\* What a reader finds; `missing` is the default of a file that is not there.
Content(missing) == IF path = NoFile THEN missing ELSE data[path]

\* The writer has a document to save.
Loaded(w) == pc[w] = "idle" /\ pc' = [pc EXCEPT ![w] = "loaded"]

Unused == {i \in Inode : i # path /\ i # tmp /\ \A w \in Writer : fd[w] # i}

\* Mutant of OpenTmp: the document itself is opened and truncated.
OpenInPlace(w) ==
    /\ pc[w] = "loaded"
    /\ pc' = [pc EXCEPT ![w] = "opened"]
    /\ LET i == IF path = NoFile THEN CHOOSE j \in Unused : TRUE ELSE path
       IN  /\ tmp' = i
           /\ fd' = [fd EXCEPT ![w] = i]
           /\ data' = [data EXCEPT ![i] = Torn]
    /\ UNCHANGED path

\* tokio::fs::write truncates the temporary file or creates it.
OpenTmp(w) ==
    /\ pc[w] = "loaded"
    /\ pc' = [pc EXCEPT ![w] = "opened"]
    /\ LET i == IF tmp = NoFile THEN CHOOSE j \in Unused : TRUE ELSE tmp
       IN  /\ tmp' = i
           /\ fd' = [fd EXCEPT ![w] = i]
           /\ data' = [data EXCEPT ![i] = Torn]
    /\ UNCHANGED path

\* ... and writes it.  Bytes that another writer put there since the truncation
\* may remain behind a shorter document.
WriteTmp(w, doc) ==
    /\ pc[w] = "opened"
    /\ pc' = [pc EXCEPT ![w] = "written"]
    /\ \E content \in {doc} \cup (IF data[fd[w]] = Torn THEN {} ELSE {Torn}) :
           data' = [data EXCEPT ![fd[w]] = content]
    /\ UNCHANGED <<path, tmp, fd>>

\* Nothing of the save remains in the process.
Close(w) ==
    /\ pc' = [pc EXCEPT ![w] = "idle"]
    /\ fd' = [fd EXCEPT ![w] = NoFile]

\* tokio::fs::rename publishes whatever the temporary path names.  What the file
\* it replaces held is gone: no reader opens that inode again.
RenameTmp(w) ==
    /\ pc[w] = "written"
    /\ tmp # NoFile
    /\ path' = tmp
    /\ tmp' = NoFile
    /\ Close(w)
    /\ data' = [i \in Inode |-> IF i = path THEN Torn ELSE data[i]]

\* Mutant of RenameTmpErr: the save waits for the temporary file to be there.
RenameTmpWaits(w) == pc[w] = "written" /\ tmp = NoFile /\ UNCHANGED fileVars

\* Another process has renamed it away.
RenameTmpErr(w) ==
    /\ pc[w] = "written"
    /\ tmp = NoFile
    /\ Close(w)
    /\ UNCHANGED <<path, tmp, data>>

\* A step fails (the disk is full) or the process is killed: the temporary file
\* stays as it is.
Abandon(w) == Close(w) /\ UNCHANGED <<path, tmp, data>>

FileTypeOK(Doc) ==
    /\ path \in Inode \cup {NoFile}
    /\ tmp \in Inode \cup {NoFile}
    /\ data \in [Inode -> Doc \cup {Torn}]
    /\ pc \in [Writer -> PC]
    /\ fd \in [Writer -> Inode \cup {NoFile}]

-----------------------------------------------------------------------------
(* What the invariants of its users rest on *)

\* The two paths never name one file.
Apart == path = NoFile \/ path # tmp

\* While one writer at a time saves, w its doc[w], the document is complete, and
\* the temporary path names the file that the writer has open.
Serial(doc) ==
    /\ \A v, w \in Writer : pc[v] # "idle" /\ pc[w] # "idle" => v = w
    /\ path # NoFile => data[path] # Torn
    /\ \A w \in Writer :
           /\ pc[w] \in {"opened", "written"} => tmp # NoFile /\ fd[w] = tmp
           /\ pc[w] = "opened" => data[tmp] = Torn
           /\ pc[w] = "written" => data[tmp] = doc[w]

=============================================================================
