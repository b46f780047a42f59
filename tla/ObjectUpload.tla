---------------------------- MODULE ObjectUpload ----------------------------
(***************************************************************************)
(* The object stores artifacts are kept in (internal/control/s3 and        *)
(* internal/control/snapshot): a writer streams an object of unknown size  *)
(* to a key, as the parts of a multipart upload (multipart.go) or into a   *)
(* temporary file (dirstore.go, store.go), and Close publishes it. Every   *)
(* request may be refused, or be carried out with its answer lost; the     *)
(* process of a writer may die; writers may share a key.                   *)
(***************************************************************************)
EXTENDS Integers, Sequences, FiniteSets, SequencesExt

CONSTANTS
    BucketWriters,      \* writers of a BucketStore
    DirWriters,         \* writers of a DirStore or of DirBlobs
    Getters,            \* readers of the object
    PartUnits,          \* Uploader.partSize
    MaxUnits,           \* what one writer is given at most
    MaxDeletes, MaxStoreFaults

VARIABLES
    writer,       \* of each writer, the Uploader, dirWriter or atomicFile it has
    upload,       \* of each writer, the multipart upload the store holds for it: its parts
    temp,         \* of each writer, its .partial-* file
    history,      \* what the key held, oldest first
    getter,       \* of each reader, the object it was given
    storeFaults

objVars == <<writer, upload, temp, history, getter, storeFaults>>

Writers == BucketWriters \cup DirWriters
NoUpload == [open |-> FALSE, parts |-> <<>>]
NoFile == -1
NoObject == [by |-> "nobody", units |-> 0]
Object == IF history = <<>> THEN NoObject ELSE Last(history)
Sum(s) == FoldLeft(LAMBDA x, y : x + y, 0, s)

ObjInit ==
    /\ writer = [w \in Writers |-> [pc |-> "idle", given |-> 0, buf |-> 0, parts |-> <<>>, failed |-> FALSE, result |-> "none"]]
    /\ upload = [w \in Writers |-> NoUpload] /\ temp = [w \in Writers |-> NoFile]
    /\ history = <<>> /\ getter = [g \in Getters |-> NoObject] /\ storeFaults = 0

SetW(w, new) == writer' = [writer EXCEPT ![w] = new]
SetU(w, new) == upload' = [upload EXCEPT ![w] = new]
SetT(w, new) == temp' = [temp EXCEPT ![w] = new]
Publish(w, units) == history' = Append(history, [by |-> w, units |-> units])
Return(w, result) == SetW(w, [writer[w] EXCEPT !.pc = "done", !.result = result])

\* A request to the store: it is carried out and answered, refused, or carried out with
\* the answer lost; the caller cannot tell the last two apart (Client.send).
Answer == {"ok", "refused", "lost"}
Request(a) == IF a = "ok" THEN UNCHANGED storeFaults ELSE storeFaults < MaxStoreFaults /\ storeFaults' = storeFaults + 1
\* What a request leaves behind it when it is carried out.
Takes(a) == a # "refused"

-----------------------------------------------------------------------------
\* ObjectStore.Writer

NewUploader(w) ==
    /\ w \in BucketWriters /\ writer[w].pc = "idle"
    /\ \E a \in Answer :
          /\ Request(a)
          /\ SetU(w, IF Takes(a) THEN [NoUpload EXCEPT !.open = TRUE] ELSE NoUpload)
          /\ IF a = "ok" THEN SetW(w, [writer[w] EXCEPT !.pc = "open"]) ELSE Return(w, "error")
    /\ UNCHANGED <<temp, history, getter>>
CreateTemp(w) ==
    /\ w \in DirWriters /\ writer[w].pc = "idle"
    /\ \E a \in {"ok", "refused"} :
          /\ Request(a)
          /\ SetT(w, IF Takes(a) THEN 0 ELSE NoFile)
          /\ IF a = "ok" THEN SetW(w, [writer[w] EXCEPT !.pc = "open"]) ELSE Return(w, "error")
    /\ UNCHANGED <<upload, history, getter>>

\* Mutant of Flushed: a part that failed is dropped and the writer goes on.
FlushedSwallowed(w, units, a) ==
    IF a = "ok" THEN [writer[w] EXCEPT !.buf = 0, !.parts = Append(@, units)] ELSE [writer[w] EXCEPT !.buf = 0]
\* flushLocked and uploadPart: the buffer becomes the next part, unless it is empty; of a
\* part that was refused, or whose answer was lost, the writer keeps the buffer.
Flushed(w, units, a) ==
    IF a = "ok" THEN [writer[w] EXCEPT !.buf = 0, !.parts = Append(@, units)]
    ELSE [writer[w] EXCEPT !.buf = units, !.failed = TRUE]
FlushPart(w, units, a) ==
    SetU(w, IF Takes(a) THEN [upload[w] EXCEPT !.parts = Append(SubSeq(@, 1, Len(writer[w].parts)), units)] ELSE upload[w])

\* Uploader.Write: whole parts go out as they fill; after a failure nothing is taken.
WriteParts(w) ==
    /\ w \in BucketWriters /\ writer[w].pc = "open" /\ ~writer[w].failed
    /\ \E n \in 1..PartUnits :
          LET full == writer[w].buf + n >= PartUnits
              given == writer[w].given + n
              rest == writer[w].buf + n - PartUnits
          IN /\ given <= MaxUnits
             /\ \/ ~full /\ SetW(w, [writer[w] EXCEPT !.given = given, !.buf = @ + n]) /\ UNCHANGED <<upload, storeFaults>>
                \/ /\ full
                   /\ \E a \in Answer :
                         /\ Request(a) /\ FlushPart(w, PartUnits, a)
                         /\ LET f == Flushed(w, PartUnits, a)
                            IN SetW(w, [f EXCEPT !.given = given, !.buf = IF f.failed THEN @ ELSE rest])
    /\ UNCHANGED <<temp, history, getter>>
\* dirWriter.Write, atomicFile.Write
WriteFile(w) ==
    /\ w \in DirWriters /\ writer[w].pc = "open" /\ ~writer[w].failed /\ writer[w].given < MaxUnits
    /\ \E a \in {"ok", "refused"} :
          /\ Request(a)
          /\ SetT(w, IF Takes(a) THEN temp[w] + 1 ELSE temp[w])
          /\ SetW(w, [writer[w] EXCEPT !.given = @ + 1, !.failed = ~Takes(a)])
    /\ UNCHANGED <<upload, history, getter>>

-----------------------------------------------------------------------------
\* Close and Abort

\* abortLocked: best effort, and its answer is not looked at.
AbortUpload(w) ==
    \E a \in Answer : Request(a) /\ SetU(w, IF Takes(a) THEN NoUpload ELSE upload[w])

\* Uploader.Close up to the last part; with no data there is nothing to complete.
CloseUpload(w) ==
    /\ w \in BucketWriters /\ writer[w].pc = "open"
    /\ \/ writer[w].failed /\ AbortUpload(w) /\ Return(w, "error")
       \/ /\ ~writer[w].failed /\ writer[w].buf > 0
          /\ \E a \in Answer :
                /\ Request(a) /\ FlushPart(w, writer[w].buf, a)
                /\ LET f == Flushed(w, writer[w].buf, a)
                   IN SetW(w, [f EXCEPT !.pc = IF f.failed THEN "abort" ELSE "complete"])
       \/ /\ ~writer[w].failed /\ writer[w].buf = 0 /\ writer[w].parts # <<>>
          /\ SetW(w, [writer[w] EXCEPT !.pc = "complete"]) /\ UNCHANGED <<upload, storeFaults>>
       \/ /\ ~writer[w].failed /\ writer[w].buf = 0 /\ writer[w].parts = <<>>
          /\ AbortUpload(w) /\ SetW(w, [writer[w] EXCEPT !.pc = "put"])
    /\ UNCHANGED <<temp, history, getter>>
AbortAfterFlush(w) ==
    /\ writer[w].pc = "abort" /\ AbortUpload(w) /\ Return(w, "error")
    /\ UNCHANGED <<temp, history, getter>>
\* completeLocked: the store assembles the parts it is told of; a failure inside a 200 is a
\* refusal, and a completion that fails is not aborted.
CompleteUpload(w) ==
    /\ writer[w].pc = "complete"
    /\ \E a \in Answer :
          /\ Request(a) /\ Return(w, IF a = "ok" THEN "nil" ELSE "error")
          /\ IF Takes(a) THEN Publish(w, Sum(SubSeq(upload[w].parts, 1, Len(writer[w].parts)))) /\ SetU(w, NoUpload)
             ELSE UNCHANGED <<history, upload>>
    /\ UNCHANGED <<temp, getter>>
\* PutObject of an empty object
PutEmpty(w) ==
    /\ writer[w].pc = "put"
    /\ \E a \in Answer :
          /\ Request(a) /\ Return(w, IF a = "ok" THEN "nil" ELSE "error")
          /\ IF Takes(a) THEN Publish(w, 0) ELSE UNCHANGED history
    /\ UNCHANGED <<upload, temp, getter>>
\* dirWriter.Close and atomicFile.Close: synced and renamed into place, or removed. The
\* callers abort a writer whose Write failed (Put, snapshots.go); a file writer does not
\* remember that it did.
CloseFile(w) ==
    /\ w \in DirWriters /\ writer[w].pc = "open" /\ ~writer[w].failed
    /\ \E a \in {"ok", "refused"} :
          /\ Request(a) /\ Return(w, IF a = "ok" THEN "nil" ELSE "error")
          /\ IF Takes(a) THEN Publish(w, temp[w]) ELSE UNCHANGED history
    /\ SetT(w, NoFile) /\ UNCHANGED <<upload, getter>>

\* AbortWriter and AbortWrite: the copy failed, or the caller gave up.
AbortWriter(w) ==
    /\ writer[w].pc = "open" /\ Return(w, "aborted")
    /\ \/ w \in BucketWriters /\ AbortUpload(w) /\ UNCHANGED temp
       \/ w \in DirWriters /\ SetT(w, NoFile) /\ UNCHANGED <<upload, storeFaults>>
    /\ UNCHANGED <<history, getter>>
\* The process dies.
WriterDies(w) ==
    /\ writer[w].pc \notin {"idle", "done"} /\ storeFaults < MaxStoreFaults /\ storeFaults' = storeFaults + 1
    /\ Return(w, "died") /\ UNCHANGED <<upload, temp, history, getter>>

-----------------------------------------------------------------------------
\* DeleteObject, DirStore.Delete: a missing object is not an error.
DeleteKey ==
    /\ Len(SelectSeq(history, LAMBDA v : v = NoObject)) < MaxDeletes /\ history' = Append(history, NoObject)
    /\ UNCHANGED <<writer, upload, temp, getter, storeFaults>>
\* Get, GetRange and Head answer from the object the key holds when they are asked.
GetObject(g) == getter' = [getter EXCEPT ![g] = Object] /\ UNCHANGED <<writer, upload, temp, history, storeFaults>>

ObjNext ==
    \/ \E w \in Writers :
          \/ NewUploader(w) \/ CreateTemp(w) \/ WriteParts(w) \/ WriteFile(w) \/ CloseUpload(w) \/ AbortAfterFlush(w)
          \/ CompleteUpload(w) \/ PutEmpty(w) \/ CloseFile(w) \/ AbortWriter(w) \/ WriterDies(w)
    \/ DeleteKey \/ \E g \in Getters : GetObject(g)
ObjSpec == ObjInit /\ [][ObjNext]_objVars

-----------------------------------------------------------------------------
\* Whatever fails and whoever else writes the key: what a reader is given is all that one
\* writer was given, of a writer that closed and neither failed a write nor was aborted;
\* a Close that returned nil did publish; and a store no request to which failed is left
\* with no parts and no temporary file (Uploader.Close, dirWriter.Close, AbortWriter).
UploadsWhole ==
    /\ \A g \in Getters : getter[g] = NoObject \/ getter[g] \in Range(history)
    /\ \A i \in 1..Len(history) : history[i] # NoObject =>
          LET w == writer[history[i].by]
          IN history[i].units = w.given /\ ~w.failed /\ w.result \in {"nil", "error"}
    /\ \A w \in Writers : writer[w].result = "nil" => \E i \in 1..Len(history) : history[i].by = w
    /\ \A w \in Writers : storeFaults = 0 /\ writer[w].pc = "done" => upload[w] = NoUpload /\ temp[w] = NoFile

\* Nothing is readable at the key until Close returns nil (ObjectStore.Writer, objectstore.go).
ReadableOnceClosed ==
    \A i \in 1..Len(history) : history[i] # NoObject => writer[history[i].by].result = "nil"
=============================================================================
