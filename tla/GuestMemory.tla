---------------------------- MODULE GuestMemory ----------------------------
(***************************************************************************)
(* What a checkpoint holds of a guest's memory, and what restoring it      *)
(* gives: captureSnapshot with its base (snapshots.go), the capture by     *)
(* Firecracker and the bundle (fc_lifecycle_linux.go, sparse_linux.go),    *)
(* the chain a restore replays (store.SnapshotChain) and its merge         *)
(* (snapmerge_linux.go).                                                   *)
(*                                                                         *)
(* Firecracker is external: a diff holds the pages written since its dirty *)
(* bitmap was cleared; a diff clears it, a full capture may.               *)
(***************************************************************************)
EXTENDS Naturals, Sequences, FiniteSets, SequencesExt, Functions

CONSTANTS
    Guests,        \* sandboxes of one image
    NPages,        \* pages of a guest
    MaxDiffChain,  \* maxDiffChain
    AnyBase,       \* whether callers name any READY checkpoint as the base
    MaxSnaps,      \* bound: checkpoints
    MaxWrites,     \* bound: writes to guest memory
    MaxLost        \* bound: captures whose bundle is lost on the way

ASSUME GuestMemoryAssumption ==
    /\ NPages \in Nat \ {0} /\ MaxDiffChain \in Nat /\ AnyBase \in BOOLEAN
    /\ MaxSnaps \in Nat /\ MaxWrites \in Nat /\ MaxLost \in Nat

Pages == 1..NPages

VARIABLES
    mem,      \* guest -> page -> the write it holds, 0 at boot; <<>> if not running
    dirty,    \* guest -> pages written since Firecracker cleared its bitmap
    since,    \* guest -> the checkpoint that cleared the bitmap, or was restored
    snaps,    \* checkpoints: the record and the bundle of each
    writes    \* writes so far

memVars == <<mem, dirty, since, snaps, writes>>

Down == <<>>
Ready(k) == snaps[k].state = "READY"
Lost == Cardinality({k \in DOMAIN snaps : ~Ready(k)})

MemInit ==
    /\ mem = [g \in Guests |-> Down] /\ dirty = [g \in Guests |-> {}]
    /\ since = [g \in Guests |-> 0] /\ snaps = <<>> /\ writes = 0

\* configureAndBoot with dirty tracking on.
BootGuest(g) ==
    /\ mem[g] = Down
    /\ mem' = [mem EXCEPT ![g] = [p \in Pages |-> 0]]
    /\ dirty' = [dirty EXCEPT ![g] = {}] /\ since' = [since EXCEPT ![g] = 0]
    /\ UNCHANGED <<snaps, writes>>

Write(g, p) ==
    /\ mem[g] # Down /\ writes < MaxWrites
    /\ writes' = writes + 1
    /\ mem' = [mem EXCEPT ![g][p] = writes + 1]
    /\ dirty' = [dirty EXCEPT ![g] = @ \cup {p}]
    /\ UNCHANGED <<since, snaps>>

StopGuest(g) ==
    /\ mem[g] # Down /\ mem' = [mem EXCEPT ![g] = Down]
    /\ dirty' = [dirty EXCEPT ![g] = {}] /\ since' = [since EXCEPT ![g] = 0]
    /\ UNCHANGED <<snaps, writes>>

----------------------------------------------------------------------------
(* A bundle *)

\* findExtents and writeSparse: the maximal runs of allocated pages, in order.
Extents(d) ==
    LET runs == {e \in [offset : Pages, length : Pages] :
                   /\ e.offset .. (e.offset + e.length - 1) \subseteq d
                   /\ e.offset - 1 \notin d /\ e.offset + e.length \notin d}
    IN  SetToSortSeq(runs, LAMBDA a, b : a.offset < b.offset)
WriteSparse(m, d) ==
    [i \in DOMAIN Extents(d) |->
        [offset |-> Extents(d)[i].offset,
         data |-> SubSeq(m, Extents(d)[i].offset, Extents(d)[i].offset + Extents(d)[i].length - 1)]]


\* readSparse onto the image that is there (applyMemDiff): the recorded ranges
\* are written, the rest stays.
ReadSparse(extents, image) ==
    FoldLeft(LAMBDA m, e : [p \in Pages |-> IF p \in e.offset .. (e.offset + Len(e.data) - 1)
                                            THEN e.data[p - e.offset + 1] ELSE m[p]],
             image, extents)

\* writeSnapshotBundle: the memory whole, or as the extents of a sparse file.
WriteSnapshotBundle(m, d, diff) ==
    IF diff THEN [kind |-> "memory.diff", data |-> WriteSparse(m, d)] ELSE [kind |-> "memory", data |-> m]

\* readSnapshotBundle: a full image replaces what there was, a diff is laid
\* over it.
ReadSnapshotBundle(bundle, m) ==
    IF bundle.kind = "memory" THEN bundle.data ELSE ReadSparse(bundle.data, m)

\* SnapshotChain, root first.
Chain[k \in Nat] == IF k = 0 THEN <<>> ELSE Append(Chain[snaps[k].base], k)

\* mergeChain, from the root to the leaf.
MergeChain(chain) ==
    FoldLeft(LAMBDA m, k : ReadSnapshotBundle(snaps[k].bundle, m), [p \in Pages |-> 0], chain)

----------------------------------------------------------------------------
(* Checkpoint and restore *)

\* The base a caller names: any that is READY, or with care the one Firecracker
\* measures from.
MayName(g, b) == b # 0 => Ready(b) /\ (AnyBase \/ b = since[g])

\* captureSnapshot past the depth limit captures in full, and the record says so.
EffectiveBase(b) == IF b # 0 /\ snaps[b].depth + 1 <= MaxDiffChain THEN b ELSE 0

\* Checkpoint: the guest is paused, Firecracker writes the image, which may
\* clear the bitmap of a full capture and does clear that of a diff, and the
\* bundle is streamed.
Checkpoint(g, base, record) ==
    /\ snaps' = Append(snaps, [record EXCEPT !.bundle = WriteSnapshotBundle(mem[g], dirty[g], base # 0)])
    /\ \/ dirty' = [dirty EXCEPT ![g] = {}]
       \/ (base = 0 \/ record.state = "FAILED") /\ dirty' = dirty

\* Checkpoint with memory, from the pause to the record: the bundle reaches the
\* blob store and the record is READY, or it is lost and the record is FAILED.
CaptureSnapshot(g, b, state) ==
    LET base == EffectiveBase(b)
    IN  /\ mem[g] # Down /\ Len(snaps) < MaxSnaps /\ MayName(g, b)
        /\ state = "FAILED" => Lost < MaxLost
        /\ Checkpoint(g, base,
             [state |-> state, base |-> base, depth |-> IF base = 0 THEN 0 ELSE snaps[base].depth + 1,
              bundle |-> <<>>, taken |-> mem[g]])
        /\ since' = [since EXCEPT ![g] = Len(snaps) + 1]
        /\ UNCHANGED <<mem, writes>>

\* loadSnapshot: the merged image is the guest's memory; the load clears the
\* bitmap.
Restore(g, k) ==
    /\ mem[g] = Down /\ Ready(k)
    /\ mem' = [mem EXCEPT ![g] = MergeChain(Chain[k])]
    /\ dirty' = [dirty EXCEPT ![g] = {}]
    /\ since' = [since EXCEPT ![g] = k]
    /\ UNCHANGED <<snaps, writes>>

MemNext ==
    \E g \in Guests :
        \/ BootGuest(g) \/ StopGuest(g) \/ \E p \in Pages : Write(g, p)
        \/ \E b \in {0} \cup DOMAIN snaps, state \in {"READY", "FAILED"} : CaptureSnapshot(g, b, state)
        \/ \E k \in DOMAIN snaps : Restore(g, k)
MemSpec == MemInit /\ [][MemNext]_memVars

----------------------------------------------------------------------------
(* Properties *)

\* captureSnapshot and mergeChain: whatever was captured in between, from
\* whichever guest and of whichever kind, and however long its chain, a
\* checkpoint restores to the memory its guest had when it was taken, if
\* callers name the checkpoint Firecracker measures from.
RestoresCaptured ==
    \A k \in DOMAIN snaps : Ready(k) => MergeChain(Chain[k]) = snaps[k].taken

\* maxDiffChain: a chain is rooted in a full capture and its length is bounded;
\* a link other than the first is a diff of a checkpoint that is READY.
ChainBounded ==
    \A k \in DOMAIN snaps :
        /\ Len(Chain[k]) <= MaxDiffChain + 1
        /\ \A i \in DOMAIN Chain[k] :
              snaps[Chain[k][i]].bundle.kind = (IF i = 1 THEN "memory" ELSE "memory.diff")
              /\ (i < Len(Chain[k]) => Ready(Chain[k][i]))

\* Both: what a chain is and what it restores to.
ChainSound == ChainBounded /\ RestoresCaptured
=============================================================================
