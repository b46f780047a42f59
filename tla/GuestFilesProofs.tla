-------------------------- MODULE GuestFilesProofs --------------------------
(***************************************************************************)
(* A guest's files are whole, for any number of uploads, downloads,        *)
(* frames, deletes and faults. FilesWhole is not inductive: that a rename  *)
(* publishes a whole file rests on what the stream said when it ended, and *)
(* that it stays whole on nobody writing to a file once it is published.   *)
(***************************************************************************)
EXTENDS GuestFiles, TLAPS

UpRecords == [pc : {"idle", "recv", "sync", "rename", "done"}, stream : {"open", "eof", "broken"},
              sent : Nat, answer : {"none", "ok", "failed"}]
DownRecords == [pc : {"idle", "read", "ok", "done"}, file : Uploads \cup {NoTarget}, read : Nat]

FilesType ==
    /\ entries \subseteq Uploads /\ target \in Uploads \cup {NoTarget}
    /\ size \in [Uploads -> Nat] /\ uploading \in [Uploads -> UpRecords]
    /\ downloading \in [Downloads -> DownRecords]

\* What the agent has written is what it received, the stream is only ended as a whole at
\* its last frame, and the temporary file is there at most while its call runs.
UploadOK(u) ==
    /\ uploading[u].sent = size[u]
    /\ uploading[u].stream = "eof" => size[u] = FileFrames
    /\ uploading[u].pc \in {"sync", "rename"} => uploading[u].stream = "eof"
    /\ uploading[u].answer = "ok" => uploading[u].pc = "done" /\ size[u] = FileFrames
    /\ u \in entries => uploading[u].pc \in {"recv", "sync", "rename"}

\* A file somebody may read: the call that wrote it is over, and wrote all of it.
Published(f) == f \in Uploads /\ uploading[f].pc = "done" /\ size[f] = FileFrames

DownloadOK(d) ==
    /\ downloading[d].pc \in {"read", "ok"} => Published(downloading[d].file)
    /\ downloading[d].pc = "ok" => downloading[d].read = FileFrames

FilesInv ==
    /\ FilesType
    /\ \A u \in Uploads : UploadOK(u)
    /\ target # NoTarget => Published(target)
    /\ \A d \in Downloads : DownloadOK(d)
    /\ (entries # {} \/ target # NoTarget) => dir

LEMMA FilesInvInit == FilesInit => FilesInv
  BY FilesAssumption DEF FilesInit, FilesInv, FilesType, UpRecords, DownRecords, UploadOK, DownloadOK

\* A step of one upload that neither publishes nor finishes a whole file: what is published
\* stays published as long as its record is left alone.
LEMMA UploadStep ==
    ASSUME FilesInv, NEW u \in Uploads, NEW new \in UpRecords, NEW n \in Nat,
           uploading' = [uploading EXCEPT ![u] = new], size' = [size EXCEPT ![u] = n],
           uploading[u].pc # "done", UNCHANGED downloading,
           entries' \subseteq entries \cup {u}, target' \in {target, u},
           UploadOK(u)', target' = u => Published(u)',
           (entries' # {} \/ target' # NoTarget) => dir'
    PROVE  FilesInv'
<1>1. FilesType'
  BY FilesAssumption DEF FilesInv, FilesType
<1>2. \A f \in Uploads \ {u} : uploading'[f] = uploading[f] /\ size'[f] = size[f] /\ (f \in entries' => f \in entries)
  BY DEF FilesInv, FilesType
<1>3. \A f : Published(f) => f # u /\ Published(f)'
  BY <1>2 DEF Published
<1>4. \A f \in Uploads : UploadOK(f)'
  BY <1>2 DEF FilesInv, UploadOK
<1>5. \A d \in Downloads : DownloadOK(d)'
  BY <1>3 DEF FilesInv, DownloadOK
<1> QED
  BY <1>1, <1>3, <1>4, <1>5 DEF FilesInv

\* A step of an upload that writes nothing and publishes nothing.
LEMMA QuietUpload ==
    ASSUME FilesInv, NEW u \in Uploads, NEW new \in UpRecords, uploading' = [uploading EXCEPT ![u] = new],
           UNCHANGED <<size, target, downloading>>, uploading[u].pc # "done",
           entries' \subseteq entries \cup {u}, (entries' # {} \/ target' # NoTarget) => dir', UploadOK(u)'
    PROVE  FilesInv'
<1>1. target # u
  BY FilesAssumption DEF FilesInv, Published, FilesType
<1>2. size[u] \in Nat /\ size' = [size EXCEPT ![u] = size[u]]
  BY DEF FilesInv, FilesType
<1> QED
  BY <1>1, <1>2, UploadStep, ZenonT(30)

LEMMA UploadsKeepInv ==
    ASSUME FilesInv, NEW u \in Uploads,
           OpenTemp(u) \/ RelayEnds(u) \/ WriteFrame(u) \/ RecvEnds(u) \/ SyncTemp(u) \/ RenameTemp(u)
    PROVE  FilesInv'
<1> DEFINE r == uploading[u]
<1>0. /\ r \in UpRecords /\ size[u] \in Nat /\ UploadOK(u)
      /\ uploading \in [Uploads -> UpRecords] /\ size \in [Uploads -> Nat]
      /\ size = [size EXCEPT ![u] = size[u]]
      /\ entries \subseteq Uploads
      /\ (entries # {} \/ target # NoTarget) => dir
  BY DEF FilesInv, FilesType
<1>f. ASSUME Abandon(u), size' = size, r.pc # "done", UNCHANGED <<dir, target, downloading>>
      PROVE  FilesInv'
  <2> DEFINE new == [r EXCEPT !.pc = "done", !.answer = "failed"]
  <2>1. new \in UpRecords /\ uploading' = [uploading EXCEPT ![u] = new]
    BY <1>0, <1>f, ZenonT(30) DEF Abandon, UpRecords
  <2>2. UploadOK(u)'
    BY <1>0, <1>f, <2>1 DEF Abandon, UploadOK, UpRecords
  <2>4. entries' \subseteq entries \cup {u} /\ ((entries' # {} \/ target' # NoTarget) => dir')
    BY <1>0, <1>f DEF Abandon
  <2> HIDE DEF new
  <2> QED
    BY <1>f, <2>1, <2>2, <2>4, QuietUpload, ZenonT(30)
<1>1. CASE OpenTemp(u)
  <2>1. PICK mkdirs \in BOOLEAN :
          IF dir \/ mkdirs
          THEN /\ dir' = TRUE /\ entries' = entries \cup {u}
               /\ uploading' = [uploading EXCEPT ![u].pc = "recv"]
          ELSE /\ uploading' = [uploading EXCEPT ![u].pc = "done", ![u].answer = "failed"]
               /\ UNCHANGED <<dir, entries>>
    BY <1>1 DEF OpenTemp
  <2>2. CASE dir \/ mkdirs
    <3> DEFINE new == [r EXCEPT !.pc = "recv"]
    <3>1. new \in UpRecords /\ uploading' = [uploading EXCEPT ![u] = new] /\ UNCHANGED <<size, target, downloading>>
      BY <1>0, <1>1, <2>1, <2>2 DEF OpenTemp, UpRecords
    <3>2. UploadOK(u)'
      BY <1>0, <1>1, <2>1, <2>2, <3>1 DEF OpenTemp, UploadOK, UpRecords
    <3> QED
      BY <1>0, <1>1, <2>1, <2>2, <3>1, <3>2, QuietUpload, ZenonT(30) DEF OpenTemp
  <2>3. CASE ~(dir \/ mkdirs)
    <3> DEFINE new == [r EXCEPT !.pc = "done", !.answer = "failed"]
    <3>1. new \in UpRecords /\ uploading' = [uploading EXCEPT ![u] = new] /\ UNCHANGED <<size, target, downloading, dir, entries>>
      BY <1>0, <1>1, <2>1, <2>3, ZenonT(30) DEF OpenTemp, UpRecords
    <3>2. UploadOK(u)'
      BY <1>0, <1>1, <2>1, <2>3, <3>1 DEF OpenTemp, UploadOK, UpRecords
    <3> QED
      BY <1>0, <1>1, <2>1, <2>3, <3>1, <3>2, QuietUpload, ZenonT(30) DEF OpenTemp
  <2> QED
    BY <2>1, <2>2, <2>3
<1>2. CASE RelayEnds(u)
  <2>1. PICK to \in {"eof", "broken"} : /\ uploading' = [uploading EXCEPT ![u].stream = to]
                                        /\ to = "eof" => r.sent = FileFrames
    BY <1>2 DEF RelayEnds
  <2> DEFINE new == [r EXCEPT !.stream = to]
  <2>2. new \in UpRecords /\ uploading' = [uploading EXCEPT ![u] = new] /\ UNCHANGED <<size, target, downloading, dir, entries>>
    BY <1>0, <1>2, <2>1 DEF RelayEnds, UpRecords
  <2>3. UploadOK(u)'
    BY <1>0, <1>2, <2>1, <2>2 DEF RelayEnds, UploadOK, UpRecords
  <2>4. r.pc # "done" /\ entries' \subseteq entries \cup {u} /\ ((entries' # {} \/ target' # NoTarget) => dir')
    BY <1>0, <1>2, <2>2 DEF RelayEnds
  <2> HIDE DEF new
  <2> QED
    BY <2>2, <2>3, <2>4, QuietUpload, ZenonT(30)
<1>3. CASE WriteFrame(u)
  <2>1. CASE Abandon(u) /\ UNCHANGED size
    BY <1>3, <1>f, <2>1 DEF WriteFrame
  <2>2. CASE uploading' = [uploading EXCEPT ![u].sent = @ + 1] /\ size' = [size EXCEPT ![u] = @ + 1] /\ UNCHANGED entries
    <3> DEFINE new == [r EXCEPT !.sent = @ + 1]
               n == size[u] + 1
    <3>1. new \in UpRecords /\ n \in Nat /\ uploading' = [uploading EXCEPT ![u] = new] /\ size' = [size EXCEPT ![u] = n]
      BY <1>0, <2>2 DEF UpRecords
    <3>2. UNCHANGED <<dir, target, downloading>> /\ r.pc = "recv" /\ r.stream = "open"
      BY <1>3 DEF WriteFrame
    <3>3. UploadOK(u)'
      BY <1>0, <2>2, <3>1, <3>2 DEF UploadOK, UpRecords
    <3>4. target # u
      BY <3>2, FilesAssumption DEF FilesInv, Published, FilesType
    <3> QED
      BY <1>0, <2>2, <3>1, <3>2, <3>3, <3>4, UploadStep, ZenonT(30)
  <2> QED
    BY <1>3, <2>1, <2>2 DEF WriteFrame
<1>4. CASE RecvEnds(u)
  <2>1. CASE Abandon(u)
    BY <1>4, <1>f, <2>1 DEF RecvEnds
  <2>2. CASE r.stream = "eof" /\ UpGo(u, "sync") /\ UNCHANGED entries
    <3> DEFINE new == [r EXCEPT !.pc = "sync"]
    <3>1. new \in UpRecords /\ uploading' = [uploading EXCEPT ![u] = new] /\ UNCHANGED <<size, target, downloading, dir, entries>>
      BY <1>0, <1>4, <2>2 DEF RecvEnds, UpGo, UpRecords
    <3>2. UploadOK(u)'
      BY <1>0, <1>4, <2>2, <3>1 DEF RecvEnds, UploadOK, UpRecords
    <3>3. r.pc # "done" /\ entries' \subseteq entries \cup {u} /\ ((entries' # {} \/ target' # NoTarget) => dir')
      BY <1>0, <1>4, <3>1 DEF RecvEnds
    <3> HIDE DEF new
    <3> QED
      BY <3>1, <3>2, <3>3, QuietUpload, ZenonT(30)
  <2> QED
    BY <1>4, <2>1, <2>2 DEF RecvEnds
<1>5. CASE SyncTemp(u)
  <2>1. CASE Abandon(u)
    BY <1>5, <1>f, <2>1 DEF SyncTemp
  <2>2. CASE UpGo(u, "rename") /\ UNCHANGED entries
    <3> DEFINE new == [r EXCEPT !.pc = "rename"]
    <3>1. new \in UpRecords /\ uploading' = [uploading EXCEPT ![u] = new] /\ UNCHANGED <<size, target, downloading, dir, entries>>
      BY <1>0, <1>5, <2>2 DEF SyncTemp, UpGo, UpRecords
    <3>2. UploadOK(u)'
      BY <1>0, <1>5, <2>2, <3>1 DEF SyncTemp, UploadOK, UpRecords
    <3>3. r.pc # "done" /\ entries' \subseteq entries \cup {u} /\ ((entries' # {} \/ target' # NoTarget) => dir')
      BY <1>0, <1>5, <3>1 DEF SyncTemp
    <3> HIDE DEF new
    <3> QED
      BY <3>1, <3>2, <3>3, QuietUpload, ZenonT(30)
  <2> QED
    BY <1>5, <2>1, <2>2 DEF SyncTemp
<1>6. CASE RenameTemp(u)
  <2>1. CASE Abandon(u) /\ UNCHANGED target
    BY <1>6, <1>f, <2>1 DEF RenameTemp
  <2>2. CASE /\ u \in entries /\ entries' = entries \ {u} /\ target' = u
             /\ uploading' = [uploading EXCEPT ![u].pc = "done", ![u].answer = "ok"]
    <3> DEFINE new == [r EXCEPT !.pc = "done", !.answer = "ok"]
    <3>1. new \in UpRecords /\ uploading' = [uploading EXCEPT ![u] = new] /\ UNCHANGED <<size, downloading, dir>>
      BY <1>0, <1>6, <2>2, ZenonT(30) DEF RenameTemp, UpRecords
    <3>2. UploadOK(u)' /\ Published(u)'
      BY <1>0, <1>6, <2>2, <3>1 DEF RenameTemp, UploadOK, UpRecords, Published
    <3>3. dir
      BY <1>0, <2>2
    <3> QED
      BY <1>0, <1>6, <2>2, <3>1, <3>2, <3>3, UploadStep, ZenonT(30) DEF RenameTemp
  <2> QED
    BY <1>6, <2>1, <2>2 DEF RenameTemp
<1> QED
  BY <1>1, <1>2, <1>3, <1>4, <1>5, <1>6

LEMMA DownloadsKeepInv ==
    ASSUME FilesInv, NEW d \in Downloads, OpenFile(d) \/ ReadChunk(d)
    PROVE  FilesInv'
<1>0. downloading \in [Downloads -> DownRecords] /\ downloading[d] \in DownRecords /\ DownloadOK(d)
  BY DEF FilesInv, FilesType
<1>1. UNCHANGED <<dir, entries, target, size, uploading>>
  BY DEF OpenFile, ReadChunk
<1>2. ASSUME NEW new \in DownRecords, downloading' = [downloading EXCEPT ![d] = new], DownloadOK(d)'
      PROVE  FilesInv'
  <2>1. \A e \in Downloads : DownloadOK(e)'
    BY <1>0, <1>1, <1>2 DEF FilesInv, DownloadOK, Published
  <2>2. FilesType'
    BY <1>0, <1>1, <1>2 DEF FilesInv, FilesType
  <2>3. (target # NoTarget => Published(target))'
    BY <1>1 DEF FilesInv, Published
  <2>4. \A u \in Uploads : UploadOK(u)'
    BY <1>1 DEF FilesInv, UploadOK
  <2> QED
    BY <1>1, <2>1, <2>2, <2>3, <2>4 DEF FilesInv
<1>3. CASE OpenFile(d)
  <2> DEFINE new == IF target = NoTarget THEN [downloading[d] EXCEPT !.pc = "done"]
                    ELSE [downloading[d] EXCEPT !.pc = "read", !.file = target]
  <2>1. new \in DownRecords /\ downloading' = [downloading EXCEPT ![d] = new]
    BY <1>0, <1>3, ZenonT(30) DEF OpenFile, DownRecords, FilesInv, FilesType
  <2>2. DownloadOK(d)'
    BY <1>0, <1>1, <2>1 DEF DownloadOK, Published, DownRecords, FilesInv
  <2> QED
    BY <1>2, <2>1, <2>2, ZenonT(30)
<1>4. CASE ReadChunk(d)
  <2>1. PICK new \in DownRecords : /\ downloading' = [downloading EXCEPT ![d] = new]
                                   /\ new.pc \in {"read", "ok"} => new.file = downloading[d].file
                                   /\ new.pc = "ok" => new.read = size[new.file]
    <3>0. downloading[d].pc = "read" /\ downloading[d].read \in Nat
      BY <1>0, <1>4 DEF ReadChunk, DownRecords
    <3>1. CASE downloading' = [downloading EXCEPT ![d].read = @ + 1]
      <4> DEFINE new == [downloading[d] EXCEPT !.read = @ + 1]
      <4>1. new \in DownRecords /\ downloading' = [downloading EXCEPT ![d] = new] /\ new.pc = "read"
            /\ new.file = downloading[d].file
        BY <1>0, <3>0, <3>1 DEF DownRecords
      <4> QED
        BY <4>1, ZenonT(30)
    <3>2. CASE downloading[d].read = size[downloading[d].file] /\ downloading' = [downloading EXCEPT ![d].pc = "ok"]
      <4> DEFINE new == [downloading[d] EXCEPT !.pc = "ok"]
      <4>1. new \in DownRecords /\ downloading' = [downloading EXCEPT ![d] = new]
            /\ new.file = downloading[d].file /\ new.read = downloading[d].read
        BY <1>0, <3>2 DEF DownRecords
      <4> QED
        BY <3>2, <4>1, ZenonT(30)
    <3>3. CASE downloading' = [downloading EXCEPT ![d].pc = "done"]
      <4> DEFINE new == [downloading[d] EXCEPT !.pc = "done"]
      <4>1. new \in DownRecords /\ downloading' = [downloading EXCEPT ![d] = new] /\ new.pc = "done"
        BY <1>0, <3>3 DEF DownRecords
      <4> QED
        BY <4>1, ZenonT(30)
    <3> QED
      BY <1>4, <3>1, <3>2, <3>3 DEF ReadChunk
  <2>2. Published(downloading[d].file)
    BY <1>0, <1>4 DEF DownloadOK, ReadChunk
  <2>3. DownloadOK(d)'
    BY <1>0, <1>1, <2>1, <2>2 DEF DownloadOK, Published
  <2> QED
    BY <1>2, <2>1, <2>3, ZenonT(30)
<1> QED
  BY <1>3, <1>4

LEMMA RemovalsKeepInv ==
    ASSUME FilesInv, RemoveEntries \/ RemoveDir
    PROVE  FilesInv'
<1>1. UNCHANGED <<size, uploading, downloading>>
  BY DEF RemoveEntries, RemoveDir
<1>2. FilesType' /\ entries' \subseteq entries /\ target' \in {target, NoTarget} /\ ((entries' # {} \/ target' # NoTarget) => dir')
  BY <1>1, ZenonT(30) DEF RemoveEntries, RemoveDir, FilesInv, FilesType
<1>3. \A u \in Uploads : UploadOK(u)'
  BY <1>1, <1>2 DEF FilesInv, UploadOK
<1>4. \A d \in Downloads : DownloadOK(d)'
  BY <1>1 DEF FilesInv, DownloadOK, Published
<1>5. (target # NoTarget => Published(target))'
  BY <1>1, <1>2 DEF FilesInv, Published
<1> QED
  BY <1>2, <1>3, <1>4, <1>5 DEF FilesInv

LEMMA FilesInvStutter == FilesInv /\ UNCHANGED fileVars => FilesInv'
  BY DEF FilesInv, FilesType, UploadOK, DownloadOK, Published, fileVars

LEMMA FilesInvStep == FilesInv /\ [FilesNext]_fileVars => FilesInv'
  BY UploadsKeepInv, DownloadsKeepInv, RemovalsKeepInv, FilesInvStutter DEF FilesNext

LEMMA FilesInvWhole == FilesInv => FilesWhole
  BY DEF FilesInv, FilesType, UploadOK, DownloadOK, Published, FilesWhole, UpRecords

\* Whoever deletes the directory, whatever fails and wherever a stream breaks: what is at
\* the target, what a download was given to its end and what an upload was acknowledged for
\* is one whole upload, and a call that is over left nothing beside its target
\* (writeFileFrom, ReadFile, DeleteFile).
THEOREM FilesAreWhole == FilesSpec => []FilesWhole
<1>1. FilesInit => FilesInv
  BY FilesInvInit
<1>2. FilesInv /\ [FilesNext]_fileVars => FilesInv'
  BY FilesInvStep
<1>3. FilesInv => FilesWhole
  BY FilesInvWhole
<1> QED
  BY <1>1, <1>2, <1>3, PTL DEF FilesSpec
=============================================================================
