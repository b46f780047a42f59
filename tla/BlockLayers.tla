----------------------------- MODULE BlockLayers -----------------------------
(***************************************************************************)
(* The read-only half of a sandbox's disk (internal/node/image): the index *)
(* of a sealed LSMT layer, how it is packed, written and checked, the      *)
(* merge of a chain of layers into one index, and the read of a range      *)
(* through it; and the containers around a layer, the tar and the ZFile.   *)
(* All of it is algorithm: operators over chains of layers, checked here   *)
(* against what a chain means, newest layer first, sector by sector.       *)
(*                                                                         *)
(* Addresses inside an index are sectors, as in the code; those of a read  *)
(* are units, SectorUnits to the sector, standing for bytes. The content   *)
(* of a unit is whatever the layer's file holds there.                     *)
(***************************************************************************)
EXTENDS Integers, Sequences, FiniteSets, SequencesExt, FiniteSetsExt

CONSTANTS
    SectorUnits,        \* lsmtAlignment, in units
    OffsetBits,         \* 50
    LengthBits          \* 14

Zero == <<"zero", 0>>

(***************************************************************************)
(* One layer: an index, the content of its file, and the disk's size.      *)
(***************************************************************************)
Mapping(offset, length, moffset, zeroed) ==
    [offset |-> offset, length |-> length, moffset |-> moffset, zeroed |-> zeroed]
End(m) == m.offset + m.length

LengthMask == 2^LengthBits - 1
InvalidOffset == 2^OffsetBits - 1
\* The low word of an index entry, packed and parsed; the high word keeps its fields.
EncodeMapping(m) ==
    [low |-> (m.offset % 2^OffsetBits) + (m.length % 2^LengthBits) * 2^OffsetBits,
     moffset |-> m.moffset, zeroed |-> m.zeroed]
ParseMapping(e) ==
    Mapping(e.low % 2^OffsetBits, (e.low \div 2^OffsetBits) % 2^LengthBits, e.moffset, e.zeroed)

ByOffset(ms) == SortSeq(ms, LAMBDA a, b : a.offset < b.offset)
\* loadLSMTIndex: padding dropped, sorted.
LoadIndex(entries) ==
    LET ms == [i \in 1..Len(entries) |-> ParseMapping(entries[i])]
    IN ByOffset(SelectSeq(ms, LAMBDA m : m.length # 0 /\ m.offset # InvalidOffset))

\* openLSMTLayer: a header in front, behind it a trailer of a data file that is sealed,
\* with an index that maps something.
Opens(f) ==
    /\ "header" \in f.head
    /\ "header" \notin f.tail /\ "data" \in f.tail /\ "sealed" \in f.tail
    /\ f.index # <<>> /\ LoadIndex(f.index) # <<>>

\* The longest piece of a run that fits the length field.
Chunk(remaining) == IF remaining > LengthMask THEN LengthMask ELSE remaining

\* One extent of writeSealedLSMT, cut into pieces, each after the data before it.
RECURSIVE CutFrom(_, _, _)
CutFrom(acc, virt, remaining) ==
    IF remaining = 0 THEN acc
    ELSE LET c == Chunk(remaining) IN
         CutFrom([index |-> Append(acc.index, Mapping(virt, c, acc.phys, FALSE)), phys |-> acc.phys + c],
                 virt + c, remaining - c)

HeaderSectors == 1          \* lsmtHeaderSpace
\* writeSealedLSMT: the extents in order, each piece's data after the one before it, an
\* index packed into entries, and flags that say it is sealed. "content" reads the disk.
WriteSealed(extents, content, virtualSize) ==
    LET cut == FoldLeft(LAMBDA acc, e : CutFrom(acc, e.offset, e.length),
                        [index |-> <<>>, phys |-> HeaderSectors], ByOffset(extents))
        \* The sector of the disk that physical sector p of the file holds.
        Held(p) == CHOOSE v \in 0..virtualSize :
                       \E i \in 1..Len(cut.index) : LET m == cut.index[i] IN
                           v \in m.offset..(End(m) - 1) /\ p = m.moffset + (v - m.offset)
    IN [head |-> {"header", "data", "sealed"}, tail |-> {"data", "sealed"},
        index |-> [i \in 1..Len(cut.index) |-> EncodeMapping(cut.index[i])],
        data |-> [u \in (HeaderSectors * SectorUnits)..(cut.phys * SectorUnits - 1) |->
                     content[(Held(u \div SectorUnits) * SectorUnits) + (u % SectorUnits)]],
        virtualSize |-> virtualSize]

(***************************************************************************)
(* A chain of layers, oldest first, flattened into one index.              *)
(***************************************************************************)
\* sliceMapping: the physical offset moves by what was cut off in front.
Slice(m, from, to, layer) ==
    [offset |-> from, length |-> to - from, layer |-> layer, zeroed |-> m.zeroed,
     moffset |-> IF m.zeroed THEN m.moffset ELSE m.moffset + (from - m.offset)]

Interval(m) == [start |-> m.offset, end |-> End(m)]
\* unionIntervals: two sorted lists of intervals, merged.
UnionIntervals(a, b) ==
    LET Absorb(merged, next) ==
            IF merged # <<>> /\ next.start <= Last(merged).end
            THEN [merged EXCEPT ![Len(merged)].end = IF next.end > @ THEN next.end ELSE @]
            ELSE Append(merged, next)
    IN FoldLeft(Absorb, <<>>, SortSeq(a \o b, LAMBDA x, y : x.start < y.start))

\* The gaps the claimed intervals leave in m, walking them from the j-th on.
RECURSIVE Gaps(_, _, _, _, _)
Gaps(m, layer, claimed, pos, j) ==
    IF pos >= End(m) THEN <<>>
    ELSE IF j > Len(claimed) \/ claimed[j].start >= End(m) THEN <<Slice(m, pos, End(m), layer)>>
    ELSE (IF claimed[j].start > pos THEN <<Slice(m, pos, claimed[j].start, layer)>> ELSE <<>>)
         \o Gaps(m, layer, claimed, IF claimed[j].end > pos THEN claimed[j].end ELSE pos, j + 1)

\* The cursor into the claimed intervals past those that end before pos.
RECURSIVE SkipTo(_, _, _)
SkipTo(claimed, ci, pos) ==
    IF ci <= Len(claimed) /\ claimed[ci].end <= pos THEN SkipTo(claimed, ci + 1, pos) ELSE ci

\* Mutant of Emit: the cursor moves on with the gaps, past an interval the next mapping
\* of the layer reaches into as well.
EmitRunsAhead(acc, m, layer, claimed) ==
    LET ci == SkipTo(claimed, acc.ci, m.offset) IN
    [ci |-> SkipTo(claimed, ci, End(m) + 1),
     out |-> acc.out \o Gaps(m, layer, claimed, m.offset, ci)]
\* What one mapping of a layer adds to the merged index.
Emit(acc, m, layer, claimed) ==
    LET ci == SkipTo(claimed, acc.ci, m.offset) IN
    [ci |-> ci, out |-> acc.out \o Gaps(m, layer, claimed, m.offset, ci)]

\* mergeLSMTLayers, from layer i down: newer layers have claimed their ranges.
RECURSIVE MergeFrom(_, _, _)
MergeFrom(indexes, i, claimed) ==
    IF i = 0 THEN <<>>
    ELSE LET ms == indexes[i] IN
         FoldLeft(LAMBDA acc, m : Emit(acc, m, i, claimed), [ci |-> 1, out |-> <<>>], ms).out
         \o MergeFrom(indexes, i - 1, UnionIntervals(claimed, [k \in 1..Len(ms) |-> Interval(ms[k])]))

\* openLSMTStackFrom: every layer opens, the merge maps something, the largest size wins.
StackOpens(chain) == chain # <<>> /\ \A i \in 1..Len(chain) : Opens(chain[i])
OpenStack(chain) ==
    LET indexes == [i \in 1..Len(chain) |-> LoadIndex(chain[i].index)] IN
    [mappings |-> ByOffset(MergeFrom(indexes, Len(chain), <<>>)),
     data |-> [i \in 1..Len(chain) |-> chain[i].data],
     virtualSize |-> Max({chain[i].virtualSize : i \in 1..Len(chain)})]

\* lsmtStack.ReadAt of n units at off, both within the disk: zeros, and over them each
\* mapped run, clipped to the sectors of the request and then to its units.
StackRead(stack, off, n) ==
    LET startSector == off \div SectorUnits
        endSector == (off + n + SectorUnits - 1) \div SectorUnits
        Place(p, m) ==
            LET from == Max({m.offset, startSector})
                to == Min({End(m), endSector})
                moff == m.moffset + (from - m.offset)
                dst == from * SectorUnits - off        \* negative: widened to a sector
                start == Max({dst, 0})
                length == Min({(to - from) * SectorUnits - (start - dst), n - start})
                phys == moff * SectorUnits + (start - dst)
            IN [k \in 0..(n - 1) |->
                   IF ~m.zeroed /\ from < to /\ k >= start /\ k < start + length
                   THEN LET a == phys + (k - start) IN
                        IF a \in DOMAIN stack.data[m.layer] THEN stack.data[m.layer][a] ELSE Zero
                   ELSE p[k]]
    IN FoldLeft(Place, [k \in 0..(n - 1) |-> Zero], stack.mappings)

\* What the chain holds at a unit: the newest layer whose index covers its sector.
ChainUnit(chain, u) ==
    LET s == u \div SectorUnits
        Covering(i) == {k \in 1..Len(chain[i].index) :
                          LET m == ParseMapping(chain[i].index[k]) IN s >= m.offset /\ s < End(m)}
        holders == {i \in 1..Len(chain) : Covering(i) # {}}
    IN IF holders = {} THEN Zero
       ELSE LET i == Max(holders)
                m == ParseMapping(chain[i].index[CHOOSE k \in Covering(i) : TRUE])
            IN IF m.zeroed THEN Zero
               ELSE chain[i].data[((m.moffset + s - m.offset) * SectorUnits) + (u % SectorUnits)]

\* A layer that opens has an index that maps something, and a chain of them reads, from
\* any unit on and for any length, as the newest layer to cover each sector.
ReadsAsChain(c) ==
    StackOpens(c) =>
        LET stack == OpenStack(c) size == stack.virtualSize IN
        /\ stack.mappings # <<>>
        /\ \A off \in 0..(size - 1) : \A n \in 1..(size - off) :
               StackRead(stack, off, n) = [k \in 0..(n - 1) |-> ChainUnit(c, off + k)]

(***************************************************************************)
(* The containers of a layer: a tar member holding a ZFile.                *)
(***************************************************************************)
\* findSealedPayload: members are [name, at, size], at the place their body starts. A
\* payload declared empty runs to the end of the file; a file that is no tar is bare.
FindPayload(f) ==
    IF ~f.tar THEN [base |-> 0, size |-> f.fileSize]
    ELSE LET i == CHOOSE k \in 1..Len(f.members) :
                      /\ f.members[k].name = "payload"
                      /\ \A l \in 1..(k - 1) : f.members[l].name # "payload"
             m == f.members[i]
         IN [base |-> m.at, size |-> IF m.size = 0 THEN f.fileSize - m.at ELSE m.size]

\* openZFile: the index is located by the trailer of a sealed data file, or by a header
\* that was overwritten after sealing; LZ4 without a dictionary, and no empty block.
ZOpens(z) ==
    /\ "header" \in z.head
    /\ "overwrite" \in z.head \/ ({"data"} \subseteq z.head /\ {"data", "sealed"} \subseteq z.tail /\ "header" \notin z.tail)
    /\ z.algo = "lz4" /\ z.lens # <<>> /\ \A i \in 1..Len(z.lens) : z.lens[i] # 0
\* loadZFileIndex: absolute offsets from the compressed lengths, after the header.
ZHeader == 1
ZOffsets(lens) == [i \in 1..(Len(lens) + 1) |-> ZHeader + FoldLeft(LAMBDA x, y : x + y, 0, SubSeq(lens, 1, i - 1))]
\* zfileReader.ReadAt of one unit: the block it is in, where that lies, and the place in it.
ZPlace(z, off) ==
    LET idx == off \div z.blockSize IN
    [start |-> ZOffsets(z.lens)[idx + 1], end |-> ZOffsets(z.lens)[idx + 2], inBlock |-> off % z.blockSize]

\* The file of a layer as overlaybd-commit writes it: the payload after the headers of
\* the tar, each block compressed to its own length after the ZFile's header.
Held(f, a) ==
    LET p == a - f.payloadAt - ZHeader
        before == {i \in 0..Len(f.z.lens) : FoldLeft(LAMBDA x, y : x + y, 0, SubSeq(f.z.lens, 1, i)) <= p}
    IN IF p < 0 THEN -1 ELSE Max(before)      \* the block address a belongs to
\* Every unit of the layer is found in the block it was compressed into, and nowhere else.
Unwraps(f) ==
    ZOpens(f.z) => \A off \in 0..(Len(f.z.lens) * f.z.blockSize - 1) :
        LET at == ZPlace(f.z, off) base == FindPayload(f).base IN
        /\ {a \in 0..(f.fileSize - 1) : Held(f, a) = off \div f.z.blockSize} = (base + at.start)..(base + at.end - 1)
        /\ base + FindPayload(f).size <= f.fileSize
=============================================================================
