----------------------------- MODULE Snapshots -----------------------------
(***************************************************************************)
(* Snapshots: their records (internal/control/store/store.go), their       *)
(* bundles in the blob store (internal/control/snapshot), and the handlers *)
(* that capture, delete, restore and fork (api/snapshots.go, api/fork.go). *)
(* A restore places a sandbox, so the ledger is part of the state.         *)
(*                                                                         *)
(* Each store call is one statement and one step, and so is each call to a *)
(* node or to the blob store; other handlers run in between. A snapshot    *)
(* taken against a base holds what changed since, and is worth nothing     *)
(* without it.                                                             *)
(***************************************************************************)
EXTENDS Ledger, Sequences

CONSTANTS
    Snaps,        \* snapshot ids
    Sources,      \* sandboxes that run at the start
    Kept,         \* a chain of snapshots that exists at the start, base first
    Gateways,     \* request goroutines of the gateway
    Requests,     \* the kinds of request clients make
    Patient,      \* clients leave a snapshot alone that is in the making
    MaxDiffChain, \* maxDiffChain
    MaxChildren,  \* bound: children of one fork (maxForkCount)
    Faults,       \* the kinds of fault the environment may inject
    MaxFaults,    \* bound: how many kinds happen in one behaviour, each once
    NoBase        \* the empty base id

ASSUME SnapshotAssumption ==
    /\ Sources \subseteq Ids /\ NoBase \notin Snaps
    /\ Kept \in Seq(Snaps) /\ Len(Kept) \in 1..(MaxDiffChain + 1)
    /\ IsFiniteSet(Gateways) /\ Patient \in BOOLEAN
    /\ MaxDiffChain \in Nat /\ MaxChildren \in Nat \ {0} /\ MaxFaults \in Nat

VARIABLES
    snaps,        \* snapshots: id -> record, with its ref_count column
    blobs,        \* bundles that can be read
    row,          \* sandboxes: id -> node and state
    box,          \* sandboxes the nodes run
    gw,           \* the request each gateway goroutine serves
    minted,       \* snapshot and sandbox ids handed out so far
    faults        \* the kinds of fault that have happened

apiVars == <<snaps, blobs, row, box, gw, minted, faults>>
vars == <<ledgerVars, apiVars>>

SnapStates == {"CREATING", "READY", "FAILED"}
Rest == [op |-> "none"]

Has(f, x) == x \in DOMAIN f
Put(f, x, v) == [y \in DOMAIN f \cup {x} |-> IF y = x THEN v ELSE f[y]]
Drop(f, x) == [y \in DOMAIN f \ {x} |-> f[y]]

\* Where s is in the chain at the start.
Place(s) == CHOOSE i \in DOMAIN Kept : Kept[i] = s
KeptSnaps == {Kept[i] : i \in DOMAIN Kept}

Init ==
    /\ alloc \in [Nodes -> Allocs]
    /\ resv \in [Sources -> Nodes]
    /\ committed = [n \in Nodes |-> Cardinality(ReservedOn(n))]
    /\ \A n \in Nodes : committed[n] <= alloc[n]
    /\ inFlight = [n \in Nodes |-> 0]
    /\ nodeState = [n \in Nodes |-> "READY"]
    /\ tx = [c \in Conns |-> NoTx]
    /\ row = [id \in Sources |-> [node |-> resv[id], state |-> "RUNNING"]]
    /\ box = Sources
    /\ snaps = [s \in KeptSnaps |->
                  [state |-> "READY", mem |-> TRUE, refs |-> 0, depth |-> Place(s) - 1,
                   base |-> IF Place(s) = 1 THEN NoBase ELSE Kept[Place(s) - 1]]]
    /\ blobs = KeptSnaps
    /\ gw = [g \in Gateways |-> Rest]
    /\ minted = Sources \cup KeptSnaps /\ faults = {}

Fault(kind) ==
    /\ kind \in Faults \ faults /\ Cardinality(faults) < MaxFaults
    /\ faults' = faults \cup {kind}
NoFault == faults' = faults

On(g, op, pc) == gw[g].op \in op /\ gw[g].pc = pc
Step(g, pc) == gw' = [gw EXCEPT ![g].pc = pc]
Done(g) == gw' = [gw EXCEPT ![g] = Rest]
Free(g, op) == op \in Requests /\ gw[g] = Rest

Captures == {"snapshot", "fork"}
Restores == {"restore", "fork"}

\* A handler that is making s, or is about to record s as a base. Patient
\* clients name a snapshot as a base or delete it once the request that makes
\* it has answered, and delete it when they have no capture on top of it.
Making(s) == \E g \in Gateways : gw[g].op \in Captures /\ gw[g].sid = s
Needing(s) == \E g \in Gateways : gw[g].op \in Captures /\ gw[g].base = s

----------------------------------------------------------------------------
(* The snapshots table *)

Ready(s) == Has(snaps, s) /\ snaps[s].state = "READY"

\* An upsert of the handler's copy; the count of a row that exists stays.
PutSnapshot(s, state, c) ==
    snaps' = Put(snaps, s, [state |-> state, base |-> c.base, depth |-> c.depth, mem |-> c.mem,
                            refs |-> IF Has(snaps, s) THEN snaps[s].refs ELSE 0])

AcquireSnapshot(s) == Ready(s) /\ snaps' = [snaps EXCEPT ![s].refs = @ + 1]

ReleaseSnapshot(s) ==
    snaps' = IF Has(snaps, s) /\ snaps[s].refs > 0
             THEN [snaps EXCEPT ![s].refs = @ - 1] ELSE snaps

Based(s) == \E d \in DOMAIN snaps : snaps[d].base = s

\* Mutant of Deletable: references are not asked about.
DeletableHeld(s) == Has(snaps, s) /\ ~Based(s)

\* The conditions of the one DELETE statement.
Deletable(s) == Has(snaps, s) /\ snaps[s].refs = 0 /\ ~Based(s)

----------------------------------------------------------------------------
(* captureSnapshot, for a snapshot or a fork *)

\* What a handler has in its hands.
Hand(op, pc, src, s) ==
    [op |-> op, pc |-> pc, src |-> src, keep |-> TRUE, sid |-> s, base |-> NoBase,
     depth |-> 0, mem |-> TRUE, left |-> 1, id |-> src, node |-> NoBase,
     next |-> NoBase, chain |-> <<>>]

Usable(b, mem) == mem /\ Ready(b) /\ snaps[b].mem

\* A base at the limit is dropped: the checkpoint is taken in full.
Stacks(b) == b # NoBase /\ snaps[b].depth + 1 <= MaxDiffChain

\* handleCreateSnapshot: the sandbox and the base are read and judged.
SnapshotLoad(g, src, b) ==
    /\ Free(g, "snapshot") /\ Has(row, src)
    /\ \E mem, keep \in BOOLEAN :
         /\ b # NoBase => Usable(b, mem) /\ (Patient => ~Making(b))
         /\ gw' = [gw EXCEPT ![g] =
                [Hand("snapshot", "create", src, NoBase) EXCEPT
                    !.keep = keep, !.mem = mem,
                    !.base = IF Stacks(b) THEN b ELSE NoBase,
                    !.depth = IF Stacks(b) THEN snaps[b].depth + 1 ELSE 0]]
    /\ UNCHANGED <<ledgerVars, snaps, blobs, row, box, minted, faults>>

\* handleFork: memory always, a base never, and only of a live sandbox.
ForkLoad(g, src) ==
    /\ Free(g, "fork") /\ Has(row, src) /\ row[src].state = "RUNNING"
    /\ \E n \in 1..MaxChildren :
         gw' = [gw EXCEPT ![g] = [Hand("fork", "create", src, NoBase) EXCEPT !.left = n]]
    /\ UNCHANGED <<ledgerVars, snaps, blobs, row, box, minted, faults>>

\* The id and the CREATING record.
CaptureCreate(g) ==
    /\ On(g, Captures, "create")
    /\ \/ \E s \in Snaps \ minted :
            /\ PutSnapshot(s, "CREATING", gw[g])
            /\ minted' = minted \cup {s}
            /\ gw' = [gw EXCEPT ![g].pc = "stream", ![g].sid = s]
            /\ NoFault
       \/ Done(g) /\ Fault("store") /\ UNCHANGED <<snaps, minted>>
    /\ UNCHANGED <<ledgerVars, blobs, row, box>>

\* The node streams the checkpoint and the blob is closed, which publishes it.
\* On any error the partial blob is aborted.
CaptureStream(g) ==
    LET c == gw[g] IN
    /\ On(g, Captures, "stream")
    /\ \/ c.src \in box /\ blobs' = blobs \cup {c.sid} /\ Step(g, "ready") /\ NoFault
       \/ c.src \notin box /\ Step(g, "spoilt") /\ UNCHANGED blobs /\ NoFault
       \/ Step(g, "spoilt") /\ UNCHANGED blobs /\ Fault("node")
    /\ UNCHANGED <<ledgerVars, snaps, row, box, minted>>

\* failSnapshot.
CaptureSpoilt(g) ==
    /\ On(g, Captures, "spoilt")
    /\ \/ PutSnapshot(gw[g].sid, "FAILED", gw[g]) /\ NoFault
       \/ snaps' = snaps /\ Fault("store")
    /\ Done(g)
    /\ UNCHANGED <<ledgerVars, blobs, row, box, minted>>

\* The READY record, and what the handler does next.
CaptureReady(g) ==
    LET c == gw[g] IN
    /\ On(g, Captures, "ready")
    /\ \/ /\ PutSnapshot(c.sid, "READY", c) /\ NoFault
          /\ gw' = [gw EXCEPT ![g] =
                IF c.op = "fork" THEN [c EXCEPT !.pc = "acquire"]
                ELSE IF c.keep THEN Rest
                ELSE Hand("snapshot", "stop", c.src, c.sid)]
       \/ snaps' = snaps /\ Done(g) /\ Fault("store")
    /\ UNCHANGED <<ledgerVars, blobs, row, box, minted>>

\* keepRunning = false: the node destroys the source, or the error is logged.
SourceDestroy(g) ==
    /\ On(g, {"snapshot"}, "stop")
    /\ \/ box' = box \ {gw[g].src} /\ Step(g, "stopped") /\ NoFault
       \/ box' = box /\ Done(g) /\ Fault("node")
    /\ UNCHANGED <<ledgerVars, snaps, blobs, row, minted>>

PutSandbox(id, n, state) ==
    \/ row' = Put(row, id, [node |-> n, state |-> state]) /\ NoFault
    \/ row' = row /\ Fault("store")

SourceStopped(g) ==
    /\ On(g, {"snapshot"}, "stopped")
    /\ PutSandbox(gw[g].src, row[gw[g].src].node, "STOPPED")
    /\ Step(g, "freed")
    /\ UNCHANGED <<ledgerVars, snaps, blobs, box, minted>>

TryRelease(id) ==
    \/ Release(id) /\ NoFault
    \/ UNCHANGED ledgerVars /\ Fault("store")

TryFinish(n) ==
    \/ FinishCreate(n) /\ NoFault
    \/ UNCHANGED ledgerVars /\ Fault("store")

SourceFreed(g) ==
    /\ On(g, {"snapshot"}, "freed")
    /\ TryRelease(gw[g].src)
    /\ Done(g)
    /\ UNCHANGED <<snaps, blobs, row, box, minted>>

----------------------------------------------------------------------------
(* createFromSnapshot and handleFork: launchFromSnapshot under a reference *)

\* One reference for one restore. The row is read again once it is counted;
\* when that fails the request ends, and the count stays.
RestoreAcquire(g, s) ==
    /\ Free(g, "restore") /\ AcquireSnapshot(s)
    /\ \/ /\ gw' = [gw EXCEPT ![g] =
                [Hand("restore", "place", NoBase, s) EXCEPT !.mem = snaps[s].mem]]
          /\ NoFault
       \/ gw' = gw /\ Fault("store")
    /\ UNCHANGED <<ledgerVars, blobs, row, box, minted>>

\* One reference for the whole batch. The checkpoint may have been deleted
\* since it was captured, and the statement or the read after it may fail.
ForkAcquire(g) ==
    LET s == gw[g].sid IN
    /\ On(g, {"fork"}, "acquire")
    /\ \/ AcquireSnapshot(s) /\ Step(g, "place") /\ NoFault
       \/ AcquireSnapshot(s) /\ Step(g, "discard") /\ Fault("store")
       \/ snaps' = snaps /\ Step(g, "discard") /\ Fault("store")
       \/ ~Ready(s) /\ snaps' = snaps /\ Step(g, "discard") /\ NoFault
    /\ UNCHANGED <<ledgerVars, blobs, row, box, minted>>

\* The next child of a fork, or the end of the batch.
NextChild(g) ==
    LET c == gw[g] IN
    gw' = [gw EXCEPT ![g] = [Hand(c.op, IF c.left > 1 THEN "place" ELSE "deref", c.src, c.sid)
                               EXCEPT !.mem = c.mem, !.left = IF c.left > 1 THEN c.left - 1 ELSE 1]]

\* Schedule: a reservation on a node with room, or none to be had.
LaunchPlace(g) ==
    /\ On(g, Restores, "place")
    /\ \/ \E id \in Ids \ minted, n \in Nodes :
            /\ Reserve(id, n)
            /\ minted' = minted \cup {id}
            /\ gw' = [gw EXCEPT ![g].pc = "put", ![g].id = id, ![g].node = n]
       \/ /\ Ids \subseteq minted \/ \A n \in Nodes : ~Fits(n)
          /\ NextChild(g) /\ UNCHANGED <<ledgerVars, minted>>
    /\ UNCHANGED <<snaps, blobs, row, box, faults>>

LaunchPut(g) ==
    LET c == gw[g] IN
    /\ On(g, Restores, "put")
    /\ \/ /\ row' = Put(row, c.id, [node |-> c.node, state |-> "PENDING"])
          /\ Step(g, "connect") /\ NoFault
       \/ row' = row /\ Step(g, "unplace") /\ Fault("store")
    /\ UNCHANGED <<ledgerVars, snaps, blobs, box, minted>>

LaunchUnplace(g) ==
    /\ On(g, Restores, "unplace")
    /\ TryFinish(gw[g].node)
    /\ Step(g, "release")
    /\ UNCHANGED <<snaps, blobs, row, box, minted>>

\* nodeClientFor. Only a snapshot with memory has a chain to replay.
LaunchConnect(g) ==
    /\ On(g, Restores, "connect")
    /\ \/ /\ NoFault
          /\ gw' = [gw EXCEPT ![g].pc = IF gw[g].mem THEN "walk" ELSE "send",
                              ![g].next = gw[g].sid, ![g].chain = <<>>]
       \/ Step(g, "failed") /\ Fault("node")
    /\ UNCHANGED <<ledgerVars, snaps, blobs, row, box, minted>>

InChain(g, s) == \E i \in DOMAIN gw[g].chain : gw[g].chain[i] = s


\* SnapshotChain, one row at a time: leaf to root, prepending.
WalkChain(g) ==
    LET s == gw[g].next IN
    /\ On(g, Restores, "walk")
    /\ \/ /\ NoFault
          /\ gw' = IF ~Has(snaps, s) \/ InChain(g, s)
                   THEN [gw EXCEPT ![g].pc = "failed"]
                   ELSE [gw EXCEPT ![g].pc = IF snaps[s].base = NoBase THEN "send" ELSE "walk",
                                   ![g].chain = <<s>> \o @, ![g].next = snaps[s].base]
       \/ Step(g, "failed") /\ Fault("store")
    /\ UNCHANGED <<ledgerVars, snaps, blobs, row, box, minted>>

\* sendSnapshotBlob, for each link.
LaunchSend(g) ==
    /\ On(g, Restores, "send") /\ gw[g].chain # <<>>
    /\ \/ /\ NoFault
          /\ gw' = IF Head(gw[g].chain) \in blobs
                   THEN [gw EXCEPT ![g].chain = Tail(@)]
                   ELSE [gw EXCEPT ![g].pc = "failed"]
       \/ Step(g, "failed") /\ Fault("node")
    /\ UNCHANGED <<ledgerVars, snaps, blobs, row, box, minted>>

\* CloseAndRecv, then FinishCreate whatever it answered.
LaunchFinish(g) ==
    /\ On(g, Restores, "send") /\ gw[g].chain = <<>>
    /\ \/ box' = box \cup {gw[g].id} /\ Step(g, "running") /\ TryFinish(gw[g].node)
       \/ box' = box /\ Step(g, "failed") /\ FinishCreate(gw[g].node) /\ Fault("node")
    /\ UNCHANGED <<snaps, blobs, row, minted>>

LaunchRunning(g) ==
    /\ On(g, Restores, "running")
    /\ PutSandbox(gw[g].id, gw[g].node, "RUNNING")
    /\ NextChild(g)
    /\ UNCHANGED <<ledgerVars, snaps, blobs, box, minted>>

\* Mutant of LaunchFailed: a failure keeps its reservation.
LaunchFailedKeeps(g) ==
    /\ On(g, Restores, "failed")
    /\ PutSandbox(gw[g].id, gw[g].node, "FAILED")
    /\ NextChild(g)
    /\ UNCHANGED <<ledgerVars, snaps, blobs, box, minted>>

\* failCreate: the record, then the reservation.
LaunchFailed(g) ==
    /\ On(g, Restores, "failed")
    /\ PutSandbox(gw[g].id, gw[g].node, "FAILED")
    /\ Step(g, "release")
    /\ UNCHANGED <<ledgerVars, snaps, blobs, box, minted>>

LaunchRelease(g) ==
    /\ On(g, Restores, "release")
    /\ TryRelease(gw[g].id)
    /\ NextChild(g)
    /\ UNCHANGED <<snaps, blobs, row, box, minted>>

\* The deferred ReleaseSnapshot; a fork goes on to discard its checkpoint.
Dereference(g) ==
    /\ On(g, Restores, "deref")
    /\ \/ ReleaseSnapshot(gw[g].sid) /\ NoFault
       \/ snaps' = snaps /\ Fault("store")
    /\ IF gw[g].op = "fork" THEN Step(g, "discard") ELSE Done(g)
    /\ UNCHANGED <<ledgerVars, blobs, row, box, minted>>

----------------------------------------------------------------------------
(* handleDeleteSnapshot and discardForkSnapshot: the record, then the blob *)

DeleteSnapshot(g, s) ==
    /\ Free(g, "delete") /\ Deletable(s) /\ (Patient => ~Making(s) /\ ~Needing(s))
    /\ snaps' = Drop(snaps, s)
    /\ gw' = [gw EXCEPT ![g] = Hand("delete", "unlink", NoBase, s)]
    /\ UNCHANGED <<ledgerVars, blobs, row, box, minted, faults>>

DiscardFork(g) ==
    LET s == gw[g].sid IN
    /\ On(g, {"fork"}, "discard")
    /\ \/ /\ Deletable(s) /\ NoFault
          /\ snaps' = Drop(snaps, s) /\ Step(g, "unlink")
       \/ ~Deletable(s) /\ snaps' = snaps /\ Done(g) /\ NoFault
       \/ snaps' = snaps /\ Done(g) /\ Fault("store")
    /\ UNCHANGED <<ledgerVars, blobs, row, box, minted>>

UnlinkBlob(g) ==
    /\ On(g, {"fork", "delete"}, "unlink")
    /\ \/ blobs' = blobs \ {gw[g].sid} /\ NoFault
       \/ blobs' = blobs /\ Fault("store")
    /\ Done(g)
    /\ UNCHANGED <<ledgerVars, snaps, row, box, minted>>

\* The replica that serves the request dies, at any point of it.
Crash(g) ==
    /\ gw[g] # Rest /\ Fault("crash")
    /\ Done(g)
    /\ UNCHANGED <<ledgerVars, snaps, blobs, row, box, minted>>

----------------------------------------------------------------------------

CaptureStep(g) ==
    \/ CaptureCreate(g) \/ CaptureStream(g) \/ CaptureSpoilt(g) \/ CaptureReady(g)
    \/ SourceDestroy(g) \/ SourceStopped(g) \/ SourceFreed(g)

LaunchStep(g) ==
    \/ LaunchPlace(g) \/ LaunchPut(g) \/ LaunchUnplace(g) \/ LaunchConnect(g)
    \/ WalkChain(g) \/ LaunchSend(g) \/ LaunchFinish(g) \/ LaunchRunning(g)
    \/ LaunchFailed(g) \/ LaunchRelease(g)

GatewayStep(g) ==
    \/ CaptureStep(g) \/ ForkAcquire(g) \/ LaunchStep(g) \/ Dereference(g)
    \/ DiscardFork(g) \/ UnlinkBlob(g)

Next ==
    \/ \E g \in Gateways, src \in Ids, b \in Snaps \cup {NoBase} : SnapshotLoad(g, src, b)
    \/ \E g \in Gateways, src \in Ids : ForkLoad(g, src)
    \/ \E g \in Gateways, s \in Snaps : RestoreAcquire(g, s) \/ DeleteSnapshot(g, s)
    \/ \E g \in Gateways : GatewayStep(g) \/ Crash(g)

\* A goroutine that can go on does: what it waits for answers or times out.
Spec == Init /\ [][Next]_vars /\ \A g \in Gateways : WF_vars(GatewayStep(g))

----------------------------------------------------------------------------
(* Properties *)

SnapRecords ==
    [state : SnapStates, base : Snaps \cup {NoBase}, depth : 0..MaxDiffChain,
     mem : BOOLEAN, refs : Nat]

CapturePcs == {"create", "stream", "spoilt", "ready", "stop", "stopped", "freed"}
HoldPcs == {"place", "put", "unplace", "connect", "walk", "send", "running",
            "failed", "release", "deref"}

Hands ==
    [op : Captures \cup Restores \cup {"delete"},
     pc : CapturePcs \cup HoldPcs \cup {"acquire", "discard", "unlink"},
     src : Ids \cup {NoBase}, keep : BOOLEAN, sid : Snaps \cup {NoBase},
     base : Snaps \cup {NoBase}, depth : 0..MaxDiffChain, mem : BOOLEAN,
     left : 1..MaxChildren, id : Ids \cup {NoBase}, node : Nodes \cup {NoBase},
     next : Snaps \cup {NoBase}, chain : Seq(Snaps \cup {NoBase})]

HandsOK == gw \in [Gateways -> Hands \cup {Rest}]
RowsOK == \A s \in DOMAIN snaps : snaps[s] \in SnapRecords

\* The shapes of the tables, and of what the handlers have in their hands. The
\* depth of a record stays within maxDiffChain.
SnapTypeOK ==
    /\ LedgerTypeOK
    /\ DOMAIN snaps \subseteq Snaps \cap minted /\ RowsOK
    /\ blobs \subseteq Snaps
    /\ DOMAIN row \subseteq Ids /\ box \subseteq Ids
    /\ HandsOK /\ faults \subseteq Faults

\* The handlers that read s, from the acquired reference to its release.
Holding(c, s) == c.op \in Restores /\ c.pc \in HoldPcs /\ c.sid = s
Holders(s) == {g \in Gateways : Holding(gw[g], s)}

\* A snapshot counts the restores and forks that are reading it, so "the
\* source cannot be deleted mid-restore". A crash, a release the store refused
\* and a failed read after an acquire leave the count too high, never too low.
ReadersCounted ==
    \A s \in Snaps : Holders(s) # {} => Has(snaps, s) /\ snaps[s].refs >= Cardinality(Holders(s))

\* No reference is left behind on any path, failed restores included: only a
\* crash and a refused store call cost one.
ReadersExact ==
    faults \cap {"store", "crash"} = {} =>
        \A s \in DOMAIN snaps : snaps[s].refs = Cardinality(Holders(s))

\* A READY snapshot can be restored: its bundle is there, and so is its base,
\* as READY as itself and one link nearer to a full checkpoint. "A base cannot
\* be deleted while anything descends from it".
ChainWhole ==
    \A s \in DOMAIN snaps : Ready(s) =>
        /\ s \in blobs
        /\ snaps[s].base = NoBase => snaps[s].depth = 0
        /\ snaps[s].base # NoBase =>
             Ready(snaps[s].base) /\ snaps[s].depth = snaps[snaps[s].base].depth + 1

\* What a restore streams is the chain of its snapshot, base first: a suffix
\* of it during the walk, the rest of it while sending.
RestoreOrdered ==
    \A g \in Gateways : LET c == gw[g].chain IN
        gw[g].op \in Restores /\ gw[g].pc \in {"walk", "send"} =>
            /\ c # <<>> => c[Len(c)] = gw[g].sid
            /\ \A i \in 1..(Len(c) - 1) : Has(snaps, c[i + 1]) /\ snaps[c[i + 1]].base = c[i]
            /\ gw[g].pc = "walk" /\ c # <<>> => gw[g].next = snaps[c[1]].base

\* A deleted snapshot does not come back.
DeletedStaysDeleted ==
    [][\A s \in Snaps \cap minted : ~Has(snaps, s) => ~Has(snaps', s)]_vars

\* A restore that failed, or a source that was stopped, keeps no capacity
\* once its handler has finished.
FailedHoldsNothing ==
    faults \cap {"store", "crash"} = {} =>
        \A id \in DOMAIN row : row[id].state \in {"FAILED", "STOPPED"} =>
            ~Has(resv, id) \/ \E g \in Gateways : gw[g] # Rest /\ gw[g].id = id

\* A CREATING record has a handler that will settle it, "rather than finding a
\* record stuck in CREATING".
CapturesSettle ==
    \A s \in DOMAIN snaps : snaps[s].state = "CREATING" => Making(s)

\* create_in_flight counts the restores that have been placed and have not
\* settled.
LaunchesCounted ==
    \A n \in Nodes : inFlight[n] =
        Cardinality({g \in Gateways :
            /\ gw[g].op \in Restores /\ gw[g].node = n
            /\ gw[g].pc \in {"put", "unplace", "connect", "walk", "send"}})
=============================================================================
