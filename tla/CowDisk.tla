------------------------------- MODULE CowDisk -------------------------------
(***************************************************************************)
(* A sandbox's writable disk over its layers (internal/node/image,         *)
(* lsmtBackend and fileBackend): reads and writes by the workers of a ublk *)
(* queue, block by block, over an overlay and a map of the blocks it owns; *)
(* and the seal of the overlay into a layer that goes on top of the chain  *)
(* the next sandbox starts from.                                           *)
(***************************************************************************)
EXTENDS BlockLayers

CONSTANTS
    DiskUnits,          \* the size of the device, larger than the image's
    BlockUnits,         \* fileBackendBlockSize
    Workers,            \* the workers of the queue
    BaseChain,          \* the layers of the image
    Writes, Reads,      \* the requests: <<offset, length>> in units
    MaxDiskOps, MaxSeals, MaxDiskFaults

VARIABLES
    backend,      \* "layers": lsmtBackend, shared by workers; "file": fileBackend, served inline
    chain,        \* the layers, oldest first
    overlay,      \* the overlay file: the units allocated in it, and what they hold
    owned,        \* the blocks it holds
    work,         \* of each worker: its request, how far it got, and what it has read
    cowLock,      \* the holder of lsmtBackend.mu
    written,      \* what the disk holds: the last write that was answered, per unit
    stable,       \* per unit, what it may hold, with the writes that are out or failed
    ops, seals, diskFaults

cowVars == <<backend, chain, overlay, owned, work, cowLock, written, stable, ops, seals, diskFaults>>

Units == 0..(DiskUnits - 1)
Range2(off, n) == off..(off + n - 1)
IdleWork == [pc |-> "idle"]
BlockOf(u) == u \div BlockUnits
BlockSpan(b) == (b * BlockUnits)..((b + 1) * BlockUnits - 1)

CowInit ==
    /\ backend \in {"layers", "file"} /\ chain = BaseChain /\ overlay = <<>> /\ owned = {}
    /\ work = [w \in Workers |-> IdleWork] /\ cowLock = {}
    /\ written = [u \in Units |-> ChainUnit(BaseChain, u)]
    /\ stable = [u \in Units |-> {ChainUnit(BaseChain, u)}]
    /\ ops = 0 /\ seals = 0 /\ diskFaults = 0

OFault == diskFaults < MaxDiskFaults /\ diskFaults' = diskFaults + 1
ONoFault == UNCHANGED diskFaults
Work(w, new) == work' = [work EXCEPT ![w] = new]
\* A block of the layers, read when the stack was opened; past its end there are zeros.
Layers == OpenStack(chain)
FromLayers(u) == IF u >= Layers.virtualSize THEN Zero ELSE StackRead(Layers, u, 1)[0]
\* The part of a request that lies in the block its next unit is in.
Here(op) == {u \in Range2(op.off + op.done, op.n - op.done) : BlockOf(u) = BlockOf(op.off + op.done)}

\* A guest orders its writes to the same units; a read may race a write, and is then
\* entitled to what the unit held at any time it was out.
SubmitWrite(w) ==
    \E r \in Writes :
        LET units == Range2(r[1], r[2]) value == <<"write", ops>>
            With(sets) == [u \in Units |-> IF u \in units THEN sets[u] \cup {value} ELSE sets[u]] IN
        /\ \A v \in Workers \ {w} : work[v].pc \in {"lock", "fill", "write"} => units \cap Range2(work[v].off, work[v].n) = {}
        /\ stable' = With(stable)
        /\ work' = [v \in Workers |->
               IF v = w THEN [pc |-> "lock", off |-> r[1], n |-> r[2], done |-> 0, value |-> value]
               ELSE IF work[v].pc \in {"look", "read"} THEN [work[v] EXCEPT !.may = With(@)]
               ELSE work[v]]
SubmitRead(w) ==
    \E r \in Reads :
        /\ Work(w, [pc |-> "look", off |-> r[1], n |-> r[2], done |-> 0, got |-> <<>>, own |-> FALSE, may |-> stable])
        /\ UNCHANGED stable
Submit(w) ==
    /\ backend = "layers" /\ work[w].pc = "idle" /\ ops < MaxDiskOps /\ ops' = ops + 1
    /\ SubmitWrite(w) \/ SubmitRead(w)
    /\ UNCHANGED <<backend, chain, overlay, owned, cowLock, written, seals, diskFaults>>

Put(file, units, f(_)) == [u \in DOMAIN file \cup units |-> IF u \in units THEN f(u) ELSE file[u]]
Lock(w) == cowLock = {} /\ cowLock' = {w}

NeedsFill(op) == LET b == BlockOf(op.off + op.done) IN b \notin owned /\ Here(op) # BlockSpan(b)

\* Mutant of WriteLock: the block is looked up, and read, without the lock.
WriteUnlocked(w) ==
    /\ work[w].pc = "lock" /\ Work(w, [work[w] EXCEPT !.pc = IF NeedsFill(work[w]) THEN "fill" ELSE "write"])
    /\ UNCHANGED <<backend, chain, overlay, owned, cowLock, written, stable, ops, seals, diskFaults>>
\* WriteAt, one block: under the lock, a block that is not owned and will not be written
\* whole is read from the layers and first filled with that.
WriteLock(w) ==
    /\ work[w].pc = "lock" /\ Lock(w)
    /\ Work(w, [work[w] EXCEPT !.pc = IF NeedsFill(work[w]) THEN "fill" ELSE "write"])
    /\ UNCHANGED <<backend, chain, overlay, owned, written, stable, ops, seals, diskFaults>>
WriteFill(w) ==
    /\ work[w].pc = "fill"
    /\ overlay' = Put(overlay, BlockSpan(BlockOf(work[w].off + work[w].done)), FromLayers)
    /\ Work(w, [work[w] EXCEPT !.pc = "write"])
    /\ UNCHANGED <<backend, chain, owned, cowLock, written, stable, ops, seals, diskFaults>>

\* ... then written and marked; the last block answers the request. A write of the
\* overlay that fails ends the request with an error, and its units hold either.
WriteBlock(w) ==
    LET op == work[w] here == Here(op) last == op.done + Cardinality(here) = op.n IN
    /\ op.pc = "write" /\ cowLock' = cowLock \ {w}
    /\ \/ /\ ONoFault
          /\ overlay' = Put(overlay, here, LAMBDA u : op.value)
          /\ owned' = owned \cup {BlockOf(op.off + op.done)}
          /\ Work(w, IF last THEN IdleWork ELSE [op EXCEPT !.pc = "lock", !.done = @ + Cardinality(here)])
          /\ IF last
             THEN /\ written' = [u \in Units |-> IF u \in Range2(op.off, op.n) THEN op.value ELSE written[u]]
                  /\ stable' = [u \in Units |-> IF u \in Range2(op.off, op.n) THEN {op.value} ELSE stable[u]]
             ELSE UNCHANGED <<written, stable>>
       \/ OFault /\ Work(w, IdleWork) /\ UNCHANGED <<overlay, owned, written, stable>>
    /\ UNCHANGED <<backend, chain, ops, seals>>

\* ReadAt, one block: who owns it is looked up under the lock, the read comes after it.
ReadLook(w) ==
    LET op == work[w] IN
    /\ op.pc = "look" /\ cowLock = {}
    /\ Work(w, [op EXCEPT !.pc = "read", !.own = BlockOf(op.off + op.done) \in owned])
    /\ UNCHANGED <<backend, chain, overlay, owned, cowLock, written, stable, ops, seals, diskFaults>>
Hole(u) == IF u \in DOMAIN overlay THEN overlay[u] ELSE Zero
ReadBlock(w) ==
    LET op == work[w] here == Here(op) last == op.done + Cardinality(here) = op.n
        got == Put(op.got, here, LAMBDA u : IF op.own THEN Hole(u) ELSE FromLayers(u)) IN
    /\ op.pc = "read"
    /\ Work(w, [op EXCEPT !.pc = IF last THEN "answer" ELSE "look", !.done = @ + Cardinality(here), !.got = got])
    /\ UNCHANGED <<backend, chain, overlay, owned, cowLock, written, stable, ops, seals, diskFaults>>
Answer(w) ==
    /\ work[w].pc = "answer" /\ Work(w, IdleWork)
    /\ UNCHANGED <<backend, chain, overlay, owned, cowLock, written, stable, ops, seals, diskFaults>>

\* fileBackend: the queue's own thread serves a request whole, with no lock. The blocks
\* a write only touches in part, and the overlay does not hold, are filled from the base.
FileWrite(w) ==
    \E r \in Writes :
        LET units == Range2(r[1], r[2]) blocks == {BlockOf(u) : u \in units}
            partial == {b \in blocks \ owned : ~(BlockSpan(b) \subseteq units)} IN
        /\ overlay' = Put(Put(overlay, UNION {BlockSpan(b) : b \in partial}, FromLayers), units, LAMBDA u : <<"write", ops>>)
        /\ owned' = owned \cup blocks
        /\ written' = [u \in Units |-> IF u \in units THEN <<"write", ops>> ELSE written[u]]
        /\ stable' = [u \in Units |-> IF u \in units THEN {<<"write", ops>>} ELSE stable[u]]
        /\ UNCHANGED work
FileRead(w) ==
    \E r \in Reads :
        /\ Work(w, [pc |-> "answer", may |-> stable,
                    got |-> [u \in Range2(r[1], r[2]) |-> IF BlockOf(u) \in owned THEN Hole(u) ELSE FromLayers(u)]])
        /\ UNCHANGED <<overlay, owned, written, stable>>
Inline(w) ==
    /\ backend = "file" /\ \A v \in Workers : work[v].pc = "idle"
    /\ ops < MaxDiskOps /\ ops' = ops + 1
    /\ FileWrite(w) \/ FileRead(w)
    /\ UNCHANGED <<backend, chain, cowLock, seals, diskFaults>>

(***************************************************************************)
(* The seal.                                                               *)
(***************************************************************************)
\* allocatedExtents: what the file has allocated, rounded out to blocks.
AllocatedBlocks(alloc) == {BlockOf(u) : u \in alloc}
\* OwnedExtents: the runs of those blocks, joined where they meet; the bitmap when the file can tell of none.
OwnedExtents(alloc, own) ==
    LET blocks == IF alloc # {} THEN AllocatedBlocks(alloc) ELSE own
        starts == {b \in blocks : b - 1 \notin blocks}
        Stop(s) == CHOOSE e \in s..(DiskUnits \div BlockUnits) : e \notin blocks /\ \A b \in s..(e - 1) : b \in blocks
        per == BlockUnits \div SectorUnits
    IN {[offset |-> s * per, length |-> (Stop(s) - s) * per] : s \in starts}

\* The guest is paused: the overlay's extents, read through the backend, become a layer
\* on top of the chain, and the next sandbox starts over it with an overlay of its own.
\* With no extent at all there is nothing to seal.
Seal ==
    /\ backend = "layers" /\ seals < MaxSeals /\ \A w \in Workers : work[w].pc = "idle"
    /\ LET extents == SetToSeq(OwnedExtents(DOMAIN overlay, owned))
           content == [u \in Units |-> IF BlockOf(u) \in owned THEN Hole(u) ELSE FromLayers(u)]
       IN /\ extents # <<>>
          /\ chain' = Append(chain, WriteSealed(extents, content, DiskUnits))
    /\ overlay' = <<>> /\ owned' = {} /\ seals' = seals + 1
    /\ UNCHANGED <<backend, work, cowLock, written, stable, ops, diskFaults>>

CowNext ==
    \/ Seal
    \/ \E w \in Workers : Inline(w) \/ Submit(w) \/ WriteLock(w) \/ WriteFill(w) \/ WriteBlock(w) \/ ReadLook(w) \/ ReadBlock(w) \/ Answer(w)
CowSpec == CowInit /\ [][CowNext]_cowVars

(***************************************************************************)
(* What holds.                                                             *)
(***************************************************************************)
\* With no request out, the disk holds at every unit what was last written there, or
\* what the image had: neither a write to the other half of a block, nor a seal and the
\* restore over it, loses a byte (WriteAt, OwnedExtents, writeSealedLSMT, the merge); a
\* write that failed may have left either. And a read returns for each unit a value the
\* unit had while the read was out (ReadAt).
DiskSound ==
    /\ (\A w \in Workers : work[w].pc = "idle") =>
           \A u \in Units : LET v == IF BlockOf(u) \in owned THEN Hole(u) ELSE FromLayers(u) IN
               v \in stable[u] /\ (diskFaults = 0 => v = written[u])
    /\ \A w \in Workers : work[w].pc = "answer" =>
           \A u \in DOMAIN work[w].got : work[w].got[u] \in work[w].may[u]
=============================================================================
