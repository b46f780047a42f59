----------------------------- MODULE GuestFiles -----------------------------
(***************************************************************************)
(* Files of a guest (beand/server.go and its Connect adapters) and the     *)
(* node's relay of them (internal/node/grpc.go). A write streams into a    *)
(* temporary file beside its target and renames it; reads hold the file    *)
(* they opened; a delete may take the whole directory while both run. One  *)
(* target file in one directory is modelled.                               *)
(***************************************************************************)
EXTENDS Integers, FiniteSets, Sequences

CONSTANTS
    Uploads,       \* WriteFile calls
    Downloads,     \* ReadFile calls
    FileFrames,    \* data frames of an upload
    MaxRemovals,   \* bound: DeleteFile calls on the directory
    MaxFileFaults, \* bound: file operations of the guest that fail
    NoTarget         \* the target does not exist

\* A missing target is no upload's.
ASSUME FilesAssumption == FileFrames \in Nat /\ NoTarget \notin Uploads

VARIABLES
    dir,       \* the directory exists
    entries,   \* the uploads whose temporary file is in it
    target,    \* the upload whose file is at the target, or NoTarget
    size,      \* upload -> frames in the file it wrote
    uploading,        \* upload -> [pc: the agent's step, stream: of the caller, sent, answer]
    downloading,      \* download -> [pc, file, read]
    removal,   \* the DeleteFile in progress: "no", "rmdir"
    removals, fileFaults

fileVars == <<dir, entries, target, size, uploading, downloading, removal, removals, fileFaults>>

FilesInit ==
    /\ dir \in BOOLEAN /\ entries = {} /\ target = NoTarget /\ size = [u \in Uploads |-> 0]
    /\ uploading = [u \in Uploads |-> [pc |-> "idle", stream |-> "open", sent |-> 0, answer |-> "none"]]
    /\ downloading = [d \in Downloads |-> [pc |-> "idle", file |-> NoTarget, read |-> 0]]
    /\ removal = "no" /\ removals = 0 /\ fileFaults = 0

GuestFault == fileFaults < MaxFileFaults /\ fileFaults' = fileFaults + 1
UpGo(u, pc) == uploading' = [uploading EXCEPT ![u].pc = pc]

-----------------------------------------------------------------------------
\* WriteFile

\* The meta frame, through the relay: mkdirAllRoot, then the temporary file.
OpenTemp(u) ==
    /\ uploading[u].pc = "idle"
    /\ \E mkdirs \in BOOLEAN :
          IF dir \/ mkdirs
          THEN /\ dir' = TRUE /\ entries' = entries \cup {u}
               /\ uploading' = [uploading EXCEPT ![u].pc = "recv"]
          ELSE /\ uploading' = [uploading EXCEPT ![u].pc = "done", ![u].answer = "failed"]
               /\ UNCHANGED <<dir, entries>>
    /\ UNCHANGED <<target, size, downloading, removal, removals, fileFaults>>

\* Mutant of RelayEnds: the relay takes every end of its caller's stream for a half-close.
RelayEndsClosed(u) ==
    /\ uploading[u].pc = "recv" /\ uploading[u].stream = "open"
    /\ uploading' = [uploading EXCEPT ![u].stream = "eof"]
    /\ UNCHANGED <<dir, entries, target, size, downloading, removal, removals, fileFaults>>
\* The caller's stream ends: a half-close after the last frame is passed on as one, a break
\* before or after it cancels the agent's stream.
RelayEnds(u) ==
    /\ uploading[u].pc = "recv" /\ uploading[u].stream = "open"
    /\ \/ uploading[u].sent = FileFrames /\ uploading' = [uploading EXCEPT ![u].stream = "eof"]
       \/ uploading' = [uploading EXCEPT ![u].stream = "broken"]
    /\ UNCHANGED <<dir, entries, target, size, downloading, removal, removals, fileFaults>>

\* The deferred clean-up of writeFileFrom: the temporary file goes, if its directory is
\* still there, and the caller is told.
Abandon(u) ==
    /\ entries' = entries \ {u}
    /\ uploading' = [uploading EXCEPT ![u].pc = "done", ![u].answer = "failed"]

\* A frame is written; a file that was unlinked meanwhile takes it as well.
WriteFrame(u) ==
    /\ uploading[u].pc = "recv" /\ uploading[u].stream = "open" /\ uploading[u].sent < FileFrames
    /\ \/ /\ uploading' = [uploading EXCEPT ![u].sent = @ + 1] /\ size' = [size EXCEPT ![u] = @ + 1]
          /\ UNCHANGED <<entries, fileFaults>>
       \/ Abandon(u) /\ GuestFault /\ UNCHANGED size
    /\ UNCHANGED <<dir, target, downloading, removal, removals>>
RecvEnds(u) ==
    /\ uploading[u].pc = "recv"
    /\ \/ uploading[u].stream = "eof" /\ UpGo(u, "sync") /\ UNCHANGED entries
       \/ uploading[u].stream = "broken" /\ Abandon(u)
    /\ UNCHANGED <<dir, target, size, downloading, removal, removals, fileFaults>>
\* Sync and Close.
SyncTemp(u) ==
    /\ uploading[u].pc = "sync"
    /\ \/ UpGo(u, "rename") /\ UNCHANGED <<entries, fileFaults>>
       \/ Abandon(u) /\ GuestFault
    /\ UNCHANGED <<dir, target, size, downloading, removal, removals>>

\* The rename publishes the file; one that a delete took is not found.
RenameTemp(u) ==
    /\ uploading[u].pc = "rename"
    /\ \/ /\ u \in entries /\ entries' = entries \ {u} /\ target' = u
          /\ uploading' = [uploading EXCEPT ![u].pc = "done", ![u].answer = "ok"] /\ UNCHANGED fileFaults
       \/ u \notin entries /\ Abandon(u) /\ UNCHANGED <<target, fileFaults>>
       \/ u \in entries /\ Abandon(u) /\ GuestFault /\ UNCHANGED target
    /\ UNCHANGED <<dir, size, downloading, removal, removals>>

-----------------------------------------------------------------------------
\* ReadFile, DeleteFile

OpenFile(d) ==
    /\ downloading[d].pc = "idle"
    /\ downloading' = [downloading EXCEPT ![d] = IF target = NoTarget THEN [@ EXCEPT !.pc = "done"]
                                   ELSE [@ EXCEPT !.pc = "read", !.file = target]]
    /\ UNCHANGED <<dir, entries, target, size, uploading, removal, removals, fileFaults>>
\* The file that was opened is read to its end, whatever the target is by now; a send may fail.
ReadChunk(d) ==
    LET f == downloading[d].file
    IN  /\ downloading[d].pc = "read"
        /\ \/ downloading[d].read < size[f] /\ downloading' = [downloading EXCEPT ![d].read = @ + 1] /\ UNCHANGED fileFaults
           \/ downloading[d].read = size[f] /\ downloading' = [downloading EXCEPT ![d].pc = "ok"] /\ UNCHANGED fileFaults
           \/ downloading' = [downloading EXCEPT ![d].pc = "done"] /\ GuestFault
        /\ UNCHANGED <<dir, entries, target, size, uploading, removal, removals>>

\* RemoveAll on the directory: its entries first, then the directory, which stays if
\* something was created in it meanwhile.
RemoveEntries ==
    /\ removal = "no" /\ removals < MaxRemovals /\ removals' = removals + 1 /\ dir
    /\ entries' = {} /\ target' = NoTarget /\ removal' = "rmdir"
    /\ UNCHANGED <<dir, size, uploading, downloading, fileFaults>>
RemoveDir ==
    /\ removal = "rmdir" /\ removal' = "no"
    /\ dir' = (entries # {} \/ target # NoTarget)
    /\ UNCHANGED <<entries, target, size, uploading, downloading, removals, fileFaults>>

FilesNext ==
    \/ \E u \in Uploads :
          \/ OpenTemp(u) \/ RelayEnds(u) \/ WriteFrame(u) \/ RecvEnds(u) \/ SyncTemp(u) \/ RenameTemp(u)
    \/ \E d \in Downloads : OpenFile(d) \/ ReadChunk(d)
    \/ RemoveEntries \/ RemoveDir
FilesSpec == FilesInit /\ [][FilesNext]_fileVars

-----------------------------------------------------------------------------
\* writeFileFrom: "a mid-stream failure never leaves a truncated target behind". What is at
\* the target, what a download was given to its end, and what an upload was acknowledged
\* for is all that one upload sent; and an upload that is over leaves nothing beside its
\* target, whoever deleted the directory meanwhile.
FilesWhole ==
    /\ target # NoTarget => size[target] = FileFrames
    /\ \A d \in Downloads : downloading[d].pc = "ok" => downloading[d].read = FileFrames
    /\ \A u \in Uploads : /\ uploading[u].answer = "ok" => size[u] = FileFrames /\ u \notin entries
                          /\ uploading[u].pc = "done" => u \notin entries
    /\ (entries # {} \/ target # NoTarget) => dir
=============================================================================
