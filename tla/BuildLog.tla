------------------------------ MODULE BuildLog ------------------------------
(***************************************************************************)
(* A build's log in the object store (internal/control/s3/buildlog.go): the *)
(* node's chunk writer, flushed by the build's own writes and by a timer,  *)
(* and a follower in the gateway (handleBuildLogs) that reads the chunks   *)
(* back by offset until the manifest says the build is over.               *)
(*                                                                         *)
(* Output is a sequence of units, numbered as they are produced. A flush   *)
(* takes the buffer under the writer's mutex and uploads it outside, so    *)
(* two of them can be in progress.                                         *)
(***************************************************************************)
EXTENDS Naturals, Sequences, FiniteSets, SequencesExt, Functions

CONSTANTS
    FlushBytes,   \* BuildLogFlushBytes, in units
    MaxOutput,    \* bound: units a build produces
    MaxPutFails,  \* bound: uploads that fail
    LateFails     \* may an upload fail while another is in progress?

ASSUME LogAssumption ==
    /\ FlushBytes \in Nat \ {0} /\ MaxOutput \in Nat
    /\ MaxPutFails \in Nat /\ LateFails \in BOOLEAN

VARIABLES
    produced,     \* units the build has written
    buf, seq,     \* the writer's buffer and next sequence number
    closed,       \* Finish has been called
    flush,        \* flushes in progress, of the build goroutine and the timer
    chunks,       \* the chunk objects: sequence number -> content
    manifest,     \* the manifest object, once there is one
    reader,       \* the follower
    putFails      \* uploads that failed

writerVars == <<produced, buf, seq, closed, flush, chunks, manifest, putFails>>
logVars == <<writerVars, reader>>

Flushers == {"build", "timer"}
NoFlush == [pc |-> "idle"]

LogInit ==
    /\ produced = 0 /\ buf = <<>> /\ seq = 0 /\ closed = FALSE
    /\ flush = [w \in Flushers |-> NoFlush]
    /\ chunks = <<>> /\ manifest = <<>> /\ putFails = 0
    /\ reader = [pc |-> "read", seq |-> 0, pos |-> 0, off |-> 0, sizes |-> <<>>, out |-> <<>>]

(* The writer *)

\* flush's first half, under the mutex.
TakeBuffer(w, b, final) ==
    LET data == b # <<>>
    IN  /\ buf' = <<>> /\ seq' = IF data THEN seq + 1 ELSE seq
        /\ flush' = [flush EXCEPT ![w] =
                        IF ~data /\ ~final THEN NoFlush
                        ELSE [pc |-> IF data THEN "put" ELSE "manifest",
                              chunk |-> b, seq |-> seq, final |-> final]]

\* Write: the build's output is copied by one goroutine, which flushes a full
\* buffer itself.
Write ==
    /\ ~closed /\ flush["build"] = NoFlush /\ produced < MaxOutput
    /\ produced' = produced + 1
    /\ LET b == Append(buf, produced + 1)
       IN  IF Len(b) >= FlushBytes THEN TakeBuffer("build", b, FALSE)
           ELSE buf' = b /\ UNCHANGED <<seq, flush>>
    /\ UNCHANGED <<closed, chunks, manifest, putFails, reader>>

\* A tick of timerLoop.
TimerLoop ==
    /\ ~closed /\ flush["timer"] = NoFlush /\ buf # <<>>
    /\ TakeBuffer("timer", buf, FALSE)
    /\ UNCHANGED <<produced, closed, chunks, manifest, putFails, reader>>

\* Finish: the timer is stopped and waited for, then a last flush.
Finish ==
    /\ ~closed /\ flush["build"] = NoFlush
    /\ closed' = TRUE
    /\ UNCHANGED <<produced, buf, seq, flush, chunks, manifest, putFails, reader>>

FinalFlush ==
    /\ closed /\ flush["timer"] = NoFlush /\ flush["build"] = NoFlush
    /\ TakeBuffer("build", buf, TRUE)
    /\ UNCHANGED <<produced, closed, chunks, manifest, putFails, reader>>


\* What could not be uploaded goes back before the buffer, to be retried under
\* the same key.
PutBack(f) == buf' = f.chunk \o buf /\ seq' = f.seq

\* flush's upload.
PutChunk(w) ==
    LET f == flush[w]
    IN  /\ f.pc = "put"
        /\ \/ /\ chunks' = [k \in DOMAIN chunks \cup {f.seq} |->
                              IF k = f.seq THEN f.chunk ELSE chunks[k]]
              /\ flush' = [flush EXCEPT ![w].pc = "manifest"]
              /\ UNCHANGED <<buf, seq, putFails>>
           \/ /\ putFails < MaxPutFails /\ putFails' = putFails + 1
              /\ LateFails \/ (\A v \in Flushers \ {w} : flush[v].pc # "put" /\ seq = f.seq + 1)
              /\ PutBack(f)
              /\ flush' = [flush EXCEPT ![w] = IF f.final THEN [pc |-> "failed"] ELSE NoFlush]
              /\ UNCHANGED chunks
        /\ UNCHANGED <<produced, closed, manifest, reader>>

Manifest(final) == [chunks |-> seq, done |-> final]

\* writeManifest. The last one ends the writer.
WriteManifest(w) ==
    /\ flush[w].pc = "manifest"
    /\ manifest' = <<Manifest(flush[w].final)>>
    /\ flush' = [flush EXCEPT ![w] = IF flush[w].final THEN [pc |-> "done"] ELSE NoFlush]
    /\ UNCHANGED <<produced, buf, seq, closed, chunks, putFails, reader>>

(* The follower *)

\* chunkSize: a size is asked for once.
ChunkSize(k) == IF k < Len(reader.sizes) THEN reader.sizes[k + 1] ELSE Len(chunks[k])
Sized(k) == IF k < Len(reader.sizes) THEN reader.sizes ELSE Append(reader.sizes, ChunkSize(k))

\* ReadFrom, one chunk: skipped when it lies before the offset.
ReadChunk ==
    LET k == reader.seq
        size == ChunkSize(k)
        start == reader.off - reader.pos
        got == IF reader.off >= reader.pos + size THEN <<>>
               ELSE SubSeq(chunks[k], start + 1, size)
    IN  /\ reader.pc = "read" /\ k \in DOMAIN chunks
        /\ reader' = [reader EXCEPT !.seq = k + 1, !.pos = @ + size, !.sizes = Sized(k),
                                    !.off = @ + Len(got), !.out = @ \o got]
        /\ UNCHANGED writerVars

\* ReadFrom reaches a chunk that does not exist; handleBuildLogs goes on to
\* the manifest, and stops when it says the build is over.
ReadEnds ==
    /\ reader.pc = "read" /\ reader.seq \notin DOMAIN chunks
    /\ reader' = [reader EXCEPT !.pc = "manifest"]
    /\ UNCHANGED writerVars

PollManifest ==
    /\ reader.pc = "manifest"
    /\ LET over == manifest # <<>> /\ manifest[1].done
       IN  reader' = [reader EXCEPT !.pc = IF over THEN "done" ELSE "read", !.seq = 0, !.pos = 0]
    /\ UNCHANGED writerVars

LogNext ==
    \/ Write \/ TimerLoop \/ Finish \/ FinalFlush
    \/ \E w \in Flushers : PutChunk(w) \/ WriteManifest(w)
    \/ ReadChunk \/ ReadEnds \/ PollManifest

\* The goroutines of the writer and of the follower keep running, and a build
\* ends.
LogFairness ==
    /\ WF_logVars(Finish) /\ WF_logVars(FinalFlush)
    /\ \A w \in Flushers : WF_logVars(PutChunk(w) \/ WriteManifest(w))
    /\ WF_logVars(ReadChunk) /\ WF_logVars(ReadEnds) /\ WF_logVars(PollManifest)

LogSpec == LogInit /\ [][LogNext]_logVars /\ LogFairness

(* Properties *)

Output == [i \in 1..produced |-> i]

\* What a follower has been sent is a prefix of what the build wrote: flushes
\* that overlap, and uploads that are retried, neither reorder nor lose any.
LogPrefix == IsPrefix(reader.out, Output)

\* Once the manifest says the build is over, the chunks it counts hold all of
\* the output.
LogWhole ==
    manifest # <<>> /\ manifest[1].done =>
        /\ DOMAIN chunks = 0..manifest[1].chunks - 1
        /\ FlattenSeq([k \in 1..manifest[1].chunks |-> chunks[k - 1]]) = Output

\* A follower comes to the end of the log when the last flush succeeded.
FollowerEnds ==
    <>(reader.pc = "done" \/ flush["build"].pc = "failed")

\* A follower that has come to the end has been sent the whole log.
FollowerComplete == reader.pc = "done" => reader.out = Output
=============================================================================
