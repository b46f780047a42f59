--------------------------- MODULE RestoreStream ---------------------------
(***************************************************************************)
(* RestoreSandbox's stream (internal/node/grpc.go): the frames of a        *)
(* checkpoint chain are dealt to one unbuffered pipe per declared layer by *)
(* a goroutine, while the runtime reads the layers in order. The stream    *)
(* may end or break anywhere, carry too many layers, and the runtime may   *)
(* fail before it has read them.                                           *)
(***************************************************************************)
EXTENDS Integers, Sequences, FiniteSets, SequencesExt

CONSTANTS
    Layers,             \* how many layers the specification declares, at least one
    LayerUnits          \* frames of data in each layer

VARIABLES
    frames,       \* what the sender still has to send
    layerAt,           \* the goroutine's layer
    holding,      \* the frame it is writing to a pipe, or <<>>
    receiver,     \* "recv", "write" or "done"
    pipe,         \* of each layer's writer, "open", or how it was first closed: "eof", "error"
    got,          \* of each layer, what its reader was given
    cached,       \* the node holds the merged image: the layers are only drained
    reading,      \* the layer the runtime reads; Layers + 1 once it has read them all
    rpc           \* "fork", then "close" with the runtime's answer, then "returned"

rsVars == <<frames, layerAt, holding, receiver, pipe, got, cached, reading, rpc>>

Data(i) == [u \in 1..LayerUnits |-> <<i, u>>]
End == <<0, 0>>
\* Boundaries follow every layer but the last; some senders end the last one as well, and a
\* wrong one sends a layer too many.
Chain(n) == FoldLeft(LAMBDA s, i : s \o (IF i > 1 THEN <<End>> ELSE <<>>) \o Data(i), <<>>, [i \in 1..n |-> i])

RsInit ==
    /\ frames \in {Chain(Layers), Append(Chain(Layers), End), Chain(Layers + 1), Chain(Layers - 1)}
    /\ layerAt = 1 /\ holding = <<>> /\ receiver = "recv" /\ pipe = [i \in 1..Layers |-> "open"]
    /\ got = [i \in 1..Layers |-> <<>>] /\ reading = 1 /\ rpc = "fork"
    /\ cached \in BOOLEAN

\* Mutant of CloseAll: only the current layer's writer is closed.
CloseAllCurrent(how) == pipe' = [i \in 1..Layers |-> IF pipe[i] = "open" /\ i = layerAt THEN how ELSE pipe[i]]
\* closeAll: a pipe keeps the way it was first closed.
CloseAll(how) == pipe' = [i \in 1..Layers |-> IF pipe[i] = "open" THEN how ELSE pipe[i]]

-----------------------------------------------------------------------------
\* The goroutine of recvLayers

RecvData ==
    /\ receiver = "recv" /\ frames # <<>> /\ Head(frames) # End
    /\ holding' = Head(frames) /\ frames' = Tail(frames) /\ receiver' = "write"
    /\ UNCHANGED <<layerAt, pipe, got, cached, reading, rpc>>
\* A boundary closes the layer; one too many closes them all.
RecvLayerEnd ==
    /\ receiver = "recv" /\ frames # <<>> /\ Head(frames) = End /\ frames' = Tail(frames)
    /\ IF layerAt < Layers
       THEN layerAt' = layerAt + 1 /\ pipe' = [pipe EXCEPT ![layerAt] = IF @ = "open" THEN "eof" ELSE @] /\ UNCHANGED receiver
       ELSE /\ pipe' = [i \in 1..Layers |-> IF pipe[i] # "open" THEN pipe[i] ELSE IF i = layerAt THEN "eof" ELSE "error"]
            /\ receiver' = "done" /\ UNCHANGED layerAt
    /\ UNCHANGED <<holding, got, cached, reading, rpc>>
\* The sender half-closes, at the end of what it has or before it; or the stream breaks, as
\* it does once the call has returned.
RecvEnd ==
    /\ receiver = "recv" /\ receiver' = "done"
    /\ \E how \in IF rpc = "returned" THEN {"error"} ELSE {"eof", "error"} : CloseAll(how)
    /\ UNCHANGED <<frames, layerAt, holding, got, cached, reading, rpc>>
\* The write ends when the reader takes the frame, or when the pipe is closed under it.
WriteClosed ==
    /\ receiver = "write" /\ pipe[layerAt] # "open" /\ CloseAll("error") /\ receiver' = "done" /\ holding' = <<>>
    /\ UNCHANGED <<frames, layerAt, got, cached, reading, rpc>>

-----------------------------------------------------------------------------
\* The runtime: mergeChain reads base first, each layer to its end.
ReadData ==
    /\ rpc = "fork" /\ reading = layerAt /\ receiver = "write" /\ pipe[layerAt] = "open"
    /\ got' = [got EXCEPT ![layerAt] = Append(@, holding)] /\ holding' = <<>> /\ receiver' = "recv"
    /\ UNCHANGED <<frames, layerAt, pipe, cached, reading, rpc>>
\* readSnapshotBundle reads a layer until its pipe ends, however it ends. A merge needs the
\* whole archive, a cached restore only its header.
Enough(i) == IF cached THEN got[i] # <<>> ELSE Len(got[i]) = LayerUnits
ReadEnd ==
    /\ rpc = "fork" /\ reading <= Layers /\ pipe[reading] # "open"
    /\ IF Enough(reading) THEN reading' = reading + 1 /\ UNCHANGED rpc
       ELSE rpc' = "failed" /\ UNCHANGED reading
    /\ UNCHANGED <<frames, layerAt, holding, receiver, pipe, got, cached>>
\* The runtime boots what it merged or had cached, or fails at some point.
ForkEnds ==
    /\ rpc = "fork"
    /\ \/ reading > Layers /\ rpc' = "forked"
       \/ rpc' = "failed"
    /\ UNCHANGED <<frames, layerAt, holding, receiver, pipe, got, cached, reading>>
\* RestoreSandbox closes every pipe, with or without an error, and returns.
CloseLayers ==
    /\ rpc \in {"forked", "failed"} /\ rpc' = "returned"
    /\ CloseAll(IF rpc = "failed" THEN "error" ELSE "eof")
    /\ UNCHANGED <<frames, layerAt, holding, receiver, got, cached, reading>>

RsNext == RecvData \/ RecvLayerEnd \/ RecvEnd \/ WriteClosed \/ ReadData \/ ReadEnd \/ ForkEnds \/ CloseLayers
RsSpec == RsInit /\ [][RsNext]_rsVars

-----------------------------------------------------------------------------
\* What a layer's reader was given is a beginning of that layer and of no other, and all of it
\* where a merge went on to the next; and nobody is left waiting: when nothing can move
\* any more, the call has returned and its goroutine is gone (recvLayers, RestoreSandbox).
LayersDealt ==
    /\ \A i \in 1..Layers : IsPrefix(got[i], Data(i)) /\ (i < reading /\ ~cached => got[i] = Data(i))
    /\ (receiver = "write" /\ rpc = "returned" => pipe[layerAt] # "open")
    /\ (rpc = "fork" /\ reading <= Layers /\ receiver = "done" => pipe[reading] # "open")
=============================================================================
