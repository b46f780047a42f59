----------------------------- MODULE SnapCache -----------------------------
(***************************************************************************)
(* A node's cache of unpacked snapshots: concurrent restores that share an *)
(* entry (snapcache_linux.go), the sweep that evicts cold ones             *)
(* (snapevict_linux.go), and the restore path that pins, fills, sweeps and *)
(* opens (snapstage_linux.go, snapshotState, loadSnapshot).                *)
(*                                                                         *)
(* The mutex covers the pins and the unpacks in flight. The entries are    *)
(* directories: a rename publishes one, a rename takes one away, and       *)
(* neither happens under the mutex.                                        *)
(***************************************************************************)
EXTENDS Naturals, Sequences, FiniteSets, SequencesExt

CONSTANTS
    Restores,      \* goroutines restoring a snapshot
    SnapIds,       \* snapshot ids; every entry has size 1
    HighMark,      \* EvictionPolicy.HighBytes
    LowMark,       \* EvictionPolicy.LowBytes
    MaxBadStreams, \* bound: restores whose stream breaks
    MaxRestores,   \* bound: restores in all
    MaxCrashes,    \* bound: times noded dies
    NoUnpack       \* nobody unpacks, nothing is doomed

ASSUME SnapCacheAssumption ==
    /\ LowMark \in Nat /\ HighMark \in Nat /\ LowMark < HighMark
    /\ MaxBadStreams \in Nat /\ MaxRestores \in Nat /\ MaxCrashes \in Nat
    /\ NoUnpack \notin Restores \cup SnapIds \cup {"ok", "failed"}

VARIABLES
    lru,        \* published entries, least recently used first
    pins,       \* id -> restores that pinned it
    pending,    \* id -> the restore that unpacks it, or NoUnpack
    rst,        \* restore -> where it is
    begun,      \* restores begun
    broken,     \* streams broken so far
    crashes     \* crashes so far

cacheVars == <<lru, pins, pending, rst, begun, broken, crashes>>

\* late marks a restore that pinned an entry some sweep had already found
\* unused.
Resting == [pc |-> "idle", id |-> NoUnpack, late |-> FALSE, todo |-> <<>>, over |-> 0]

CacheInit ==
    /\ lru = <<>> /\ pins = [i \in SnapIds |-> 0] /\ pending = [i \in SnapIds |-> NoUnpack]
    /\ rst = [r \in Restores |-> Resting] /\ begun = 0
    /\ broken = 0 /\ crashes = 0

Cached == ToSet(lru)
Lookup(id) == id \in Cached
Touched(id) == IF Lookup(id) THEN Append(Remove(lru, id), id) ELSE lru

RstAt(r, pc) == rst[r].pc = pc
RstGo(r, pc) == rst' = [rst EXCEPT ![r].pc = pc]

\* The request's stream of layers breaks: the restore fails and unpins.
StreamBreaks == broken < MaxBadStreams /\ broken' = broken + 1
StreamHolds == broken' = broken

----------------------------------------------------------------------------
(* A restore *)

\* Pin, at the start of stageSnapshot.
Pin(id) == pins' = [pins EXCEPT ![id] = @ + 1]
Unpin(id) == pins' = [pins EXCEPT ![id] = @ - 1]

StageSnapshot(r, id) ==
    /\ RstAt(r, "idle") /\ begun < MaxRestores
    /\ begun' = begun + 1
    /\ Pin(id)
    /\ rst' = [rst EXCEPT ![r] =
                 [Resting EXCEPT !.pc = "lookup", !.id = id,
                    !.late = \E s \in Restores : rst[s].pc = "remove" /\ Head(rst[s].todo) = id]]
    /\ UNCHANGED <<lru, pending, broken, crashes>>

\* snapshotState on a hit: the entry is touched and the stream drained.
SnapshotStateHit(r) ==
    /\ RstAt(r, "lookup") /\ Lookup(rst[r].id)
    /\ lru' = Touched(rst[r].id)
    /\ \/ RstGo(r, "open") /\ StreamHolds
       \/ RstGo(r, "close") /\ StreamBreaks
    /\ UNCHANGED <<pins, pending, begun, crashes>>

\* A restore that finds another at work unpacks into no directory at all,
\* to drain its stream. That is mergeChain as well, which then finds no
\* memory image in the first layer and fails, whatever the stream holds: no
\* restore gets as far as waiting for the other's entry.
UnpackNowhere(r) ==
    \/ RstGo(r, "close") /\ StreamHolds
    \/ RstGo(r, "close") /\ StreamBreaks

\* snapshotState on a miss, and Fill's own Lookup, repeated after a hit
\* under the mutex.
FillLookup(r) ==
    /\ \/ RstAt(r, "lookup") /\ ~Lookup(rst[r].id) /\ RstGo(r, "fill") /\ StreamHolds
       \/ RstAt(r, "fill") /\ ~Lookup(rst[r].id) /\ RstGo(r, "lock") /\ StreamHolds
       \/ RstAt(r, "fill") /\ Lookup(rst[r].id) /\ UnpackNowhere(r)
    /\ UNCHANGED <<lru, pins, pending, begun, crashes>>

\* Mutant of FillLocked: the entry is not looked up again under the mutex.
FillUnchecked(r) ==
    LET id == rst[r].id
    IN  /\ RstAt(r, "lock")
        /\ IF pending[id] # NoUnpack THEN RstGo(r, "drain") /\ UNCHANGED pending
           ELSE RstGo(r, "unpack") /\ pending' = [pending EXCEPT ![id] = r]
        /\ UNCHANGED <<lru, pins, begun, broken, crashes>>

\* Fill under the mutex: the entry appeared, somebody unpacks it, or this
\* restore will.
FillLocked(r) ==
    LET id == rst[r].id
    IN  /\ RstAt(r, "lock")
        /\ \/ Lookup(id) /\ RstGo(r, "fill") /\ UNCHANGED pending
           \/ ~Lookup(id) /\ pending[id] # NoUnpack /\ RstGo(r, "drain") /\ UNCHANGED pending
           \/ /\ ~Lookup(id) /\ pending[id] = NoUnpack
              /\ pending' = [pending EXCEPT ![id] = r] /\ RstGo(r, "unpack")
        /\ UNCHANGED <<lru, pins, begun, broken, crashes>>

\* Another restore unpacks: this one drains its stream first.
AwaitFlight(r) ==
    /\ RstAt(r, "drain") /\ UnpackNowhere(r)
    /\ UNCHANGED <<lru, pins, pending, begun, crashes>>

\* unpackInto: the chain is merged in a directory of its own, then renamed.
UnpackInto(r) ==
    /\ RstAt(r, "unpack")
    /\ \/ lru' = Append(Remove(lru, rst[r].id), rst[r].id) /\ RstGo(r, "publish") /\ StreamHolds
       \/ lru' = lru /\ RstGo(r, "unpublish") /\ StreamBreaks
    /\ UNCHANGED <<pins, pending, begun, crashes>>

\* The rest of Fill: the flight is over.
FillDone(r) ==
    /\ \/ RstAt(r, "publish") /\ RstGo(r, "sweep")
       \/ RstAt(r, "unpublish") /\ RstGo(r, "close")
    /\ pending' = [pending EXCEPT ![rst[r].id] = NoUnpack]
    /\ UNCHANGED <<lru, pins, begun, broken, crashes>>

\* newUffdHandler opens the memory image, then the load opens the machine state.
OpenImage(r) ==
    /\ RstAt(r, "open")
    /\ RstGo(r, IF Lookup(rst[r].id) THEN "load" ELSE "close")
    /\ UNCHANGED <<lru, pins, pending, begun, broken, crashes>>

LoadState(r) ==
    /\ RstAt(r, "load") /\ RstGo(r, "close")
    /\ UNCHANGED <<lru, pins, pending, begun, broken, crashes>>

\* The stage is closed when create returns: the entry is unpinned.
CloseStage(r) ==
    /\ RstAt(r, "close") /\ Unpin(rst[r].id)
    /\ rst' = [rst EXCEPT ![r] = Resting]
    /\ UNCHANGED <<lru, pending, begun, broken, crashes>>

----------------------------------------------------------------------------
(* Evict, after every Fill *)

InUse(id) == pins[id] > 0 \/ pending[id] # NoUnpack

\* The scan, and the sizes it adds up.
EvictScan(r) ==
    /\ RstAt(r, "sweep")
    /\ IF Len(lru) < HighMark THEN RstGo(r, "open")
       ELSE rst' = [rst EXCEPT ![r].pc = "evict", ![r].todo = lru, ![r].over = Len(lru)]
    /\ UNCHANGED <<lru, pins, pending, begun, broken, crashes>>

\* The next candidate, coldest first: enough is freed, it is in use, or it goes.
EvictNext(r) ==
    /\ RstAt(r, "evict")
    /\ IF rst[r].todo = <<>> \/ rst[r].over <= LowMark
       THEN rst' = [rst EXCEPT ![r].pc = "open", ![r].todo = <<>>, ![r].over = 0]
       ELSE IF InUse(Head(rst[r].todo)) THEN rst' = [rst EXCEPT ![r].todo = Tail(@)]
            ELSE RstGo(r, "remove")
    /\ UNCHANGED <<lru, pins, pending, begun, broken, crashes>>

\* remove renames the entry away; one that is gone already counts for nothing.
EvictRemove(r) ==
    LET id == Head(rst[r].todo)
    IN  /\ RstAt(r, "remove")
        /\ lru' = Remove(lru, id)
        /\ rst' = [rst EXCEPT ![r].pc = "evict", ![r].todo = Tail(@),
                              ![r].over = IF Lookup(id) THEN @ - 1 ELSE @]
        /\ UNCHANGED <<pins, pending, begun, broken, crashes>>

\* noded dies. Entries are files and stay; pins and flights are memory.
CacheCrash ==
    /\ crashes < MaxCrashes /\ crashes' = crashes + 1
    /\ pins' = [i \in SnapIds |-> 0] /\ pending' = [i \in SnapIds |-> NoUnpack]
    /\ rst' = [r \in Restores |-> Resting]
    /\ UNCHANGED <<lru, begun, broken>>

RestoreStep(r) ==
    \/ SnapshotStateHit(r) \/ FillLookup(r) \/ FillLocked(r) \/ AwaitFlight(r) \/ UnpackInto(r) \/ FillDone(r)
    \/ EvictScan(r) \/ EvictNext(r) \/ EvictRemove(r)
    \/ OpenImage(r) \/ LoadState(r) \/ CloseStage(r)

CacheNext ==
    \/ \E r \in Restores : RestoreStep(r) \/ \E id \in SnapIds : StageSnapshot(r, id)
    \/ CacheCrash

\* Every goroutine is scheduled.
CacheFairness == \A r \in Restores : WF_cacheVars(RestoreStep(r))
CacheSpec == CacheInit /\ [][CacheNext]_cacheVars /\ CacheFairness

----------------------------------------------------------------------------
(* Properties *)

Holding(r) == rst[r].pc \in {"open", "load"}

\* Pin: from the moment a restore knows its entry exists until it has opened
\* it, no sweep takes the entry away, unless that sweep had found the entry
\* unused before the restore pinned it.
PinnedStays == \A r \in Restores : Holding(r) /\ ~rst[r].late => Lookup(rst[r].id)

\* Fill: no snapshot is unpacked by two restores at once, and nobody unpacks
\* one that is published.
UnpackedOnce ==
    \A r, s \in Restores :
        /\ rst[r].pc = "unpack" => ~Lookup(rst[r].id) /\ pending[rst[r].id] = r
        /\ rst[r].pc = "unpack" /\ rst[s].pc = "unpack" /\ r # s => rst[r].id # rst[s].id

\* The cache gives a restore what it asked for, once.
CacheSound == PinnedStays /\ UnpackedOnce

\* A restore ends, whoever it waits for and whatever fails.
RestoreEnds == \A r \in Restores : rst[r].pc # "idle" ~> rst[r].pc = "idle"

\* Fill's comment: of the concurrent restores of a snapshot "only the first
\* builds the shared entry and the rest wait for it". A restore that finds
\* the entry built, or being built, gives up only when its stream is broken.
RestWaitForIt ==
    [][\A r \in Restores : RstAt(r, "fill") \/ RstAt(r, "drain") =>
           (rst'[r].pc = "close" => broken' = broken + 1)]_cacheVars
=============================================================================
