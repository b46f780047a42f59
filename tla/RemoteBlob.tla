----------------------------- MODULE RemoteBlob -----------------------------
(***************************************************************************)
(* Layers read over the network (internal/node/image/blobreader.go and     *)
(* blobfetch.go): remoteBlobReader serves a range chunk by chunk, out of   *)
(* the node's one chunk cache or with a range request, while the workers   *)
(* of every queue do the same.                                             *)
(***************************************************************************)
EXTENDS Integers, Sequences, FiniteSets, TLC, SequencesExt, FiniteSetsExt

CONSTANTS
    Fetchers,           \* of each reader, the blob its layer is
    Nameless,           \* blobs whose fetcher has no CacheKey
    BlobUnits,          \* of each blob, its size
    ChunkUnits,         \* chunkSize
    CacheUnits,         \* chunkCache.maxSize
    BlobReads,          \* the ranges asked for: <<offset, length>>
    MaxBlobReads, MaxBlobFaults

VARIABLES
    reader,       \* of each reader, the ReadAt it is in
    entries,      \* chunkCache.entries: chunk contents by <<blob, index>>
    order,        \* chunkCache.order
    cacheSize,    \* chunkCache.size
    blobReads, blobFaults

blobVars == <<reader, entries, order, cacheSize, blobReads, blobFaults>>

Readers == DOMAIN Fetchers
IdleReader == [pc |-> "idle"]

BlobInit ==
    /\ reader = [r \in Readers |-> IdleReader]
    /\ entries = <<>> /\ order = <<>> /\ cacheSize = 0 /\ blobReads = 0 /\ blobFaults = 0

BFault == blobFaults < MaxBlobFaults /\ blobFaults' = blobFaults + 1
BNoFault == UNCHANGED blobFaults
SetReader(r, new) == reader' = [reader EXCEPT ![r] = new]
Blob(r) == Fetchers[r]
\* The bytes of a blob from unit "from" on.
Bytes(b, from, n) == [k \in 1..n |-> <<b, from + k - 1>>]

\* The request is clipped to the blob; past its end there is nothing to read.
ReadBlob(r) ==
    /\ reader[r].pc = "idle" /\ blobReads < MaxBlobReads /\ blobReads' = blobReads + 1
    /\ \E q \in BlobReads :
          /\ q[1] < BlobUnits[Blob(r)]
          /\ SetReader(r, [pc |-> "get", off |-> q[1], n |-> Min({q[2], BlobUnits[Blob(r)] - q[1]}), got |-> <<>>])
    /\ UNCHANGED <<entries, order, cacheSize, blobFaults>>

Pos(op) == op.off + Len(op.got)
Index(op) == Pos(op) \div ChunkUnits
Key(r) == <<Blob(r), Index(reader[r])>>
\* The part of a chunk this read wants, and the read after it.
Copy(op, chunk) ==
    LET rest == SubSeq(chunk, Pos(op) - Index(op) * ChunkUnits + 1, Len(chunk))
        got == op.got \o SubSeq(rest, 1, Min({Len(rest), op.n - Len(op.got)}))
    IN [op EXCEPT !.got = got, !.pc = IF Len(got) = op.n THEN "answer" ELSE "get"]

\* chunkCache.get
GetChunk(r) ==
    /\ reader[r].pc = "get"
    /\ IF Blob(r) \notin Nameless /\ Key(r) \in DOMAIN entries
       THEN SetReader(r, Copy(reader[r], entries[Key(r)]))
       ELSE SetReader(r, [reader[r] EXCEPT !.pc = "fetch"])
    /\ UNCHANGED <<entries, order, cacheSize, blobReads, blobFaults>>

\* The server's answer to a range: the range, all of the blob because it ignores the
\* header, fewer bytes than asked for, or no answer.
Answers(b, from, n) ==
    {[status |-> 206, body |-> Bytes(b, from, n)], [status |-> 200, body |-> Bytes(b, 0, BlobUnits[b])],
     [status |-> 206, body |-> Bytes(b, from, n - 1)], [status |-> 500, body |-> <<>>]}
\* FetchRange takes a partial answer, and all of it.
Accepts(answer, n) == answer.status = 206 /\ Len(answer.body) >= n

\* The oldest chunks go until the new one fits.
RECURSIVE Evict(_)
Evict(c) ==
    IF c.order # <<>> /\ c.size + c.adding > CacheUnits
    THEN Evict([c EXCEPT !.order = Tail(@), !.size = @ - Len(c.entries[Head(c.order)]),
                         !.entries = [k \in DOMAIN @ \ {Head(c.order)} |-> @[k]]])
    ELSE c
\* chunkCache.put: not twice, and not a chunk larger than the whole cache.
PutChunk(key, chunk) ==
    IF key[1] \in Nameless \/ key \in DOMAIN entries
    THEN UNCHANGED <<entries, order, cacheSize>>
    ELSE LET c == Evict([entries |-> entries, order |-> order, size |-> cacheSize, adding |-> Len(chunk)]) IN
         IF Len(chunk) > CacheUnits
         THEN entries' = c.entries /\ order' = c.order /\ cacheSize' = c.size
         ELSE /\ entries' = (key :> chunk) @@ c.entries
              /\ order' = Append(c.order, key) /\ cacheSize' = c.size + Len(chunk)

\* The chunk is asked for, to its end or the blob's, and cached when it came whole.
Fetch(r) ==
    LET b == Blob(r) op == reader[r] from == Index(op) * ChunkUnits
        n == Min({from + ChunkUnits, BlobUnits[b]}) - from IN
    /\ op.pc = "fetch"
    /\ \E answer \in Answers(b, from, n) :
          /\ IF answer = [status |-> 206, body |-> Bytes(b, from, n)] THEN BNoFault ELSE BFault
          /\ IF Accepts(answer, n)
             THEN /\ SetReader(r, Copy(op, SubSeq(answer.body, 1, n)))
                  /\ PutChunk(Key(r), SubSeq(answer.body, 1, n))
             ELSE SetReader(r, [op EXCEPT !.pc = "error"]) /\ UNCHANGED <<entries, order, cacheSize>>
    /\ UNCHANGED blobReads

Done(r) ==
    /\ reader[r].pc \in {"answer", "error"} /\ SetReader(r, IdleReader)
    /\ UNCHANGED <<entries, order, cacheSize, blobReads, blobFaults>>

BlobNext == \E r \in Readers : ReadBlob(r) \/ GetChunk(r) \/ Fetch(r) \/ Done(r)
BlobSpec == BlobInit /\ [][BlobNext]_blobVars

\* A read of a remote layer returns that layer's own bytes from that place, or an error
\* (FetchRange, ReadAt, cacheKey), and the cache's books are right: it holds what its
\* order lists, counts what it holds, and never more than its bound (put).
RemoteSound ==
    /\ \A r \in Readers : reader[r].pc = "answer" =>
           reader[r].got = Bytes(Blob(r), reader[r].off, reader[r].n)
    /\ ToSet(order) = DOMAIN entries /\ Len(order) = Cardinality(DOMAIN entries)
    /\ cacheSize = FoldLeft(LAMBDA x, k : x + Len(entries[k]), 0, order)
    /\ cacheSize <= CacheUnits
=============================================================================
