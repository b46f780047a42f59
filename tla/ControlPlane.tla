---------------------------- MODULE ControlPlane ----------------------------
(***************************************************************************)
(* The control plane around the placement ledger: the gateway's handlers   *)
(* (internal/control/api/server.go), the liveness sweep of every replica   *)
(* (nodesvc/service.go, scheduler/scheduler.go, cmd/bean-api/main.go), and *)
(* the nodes' registration and reconciliation (internal/node/register.go). *)
(* The store is SQLite's, so each store call is one step (see Ledger).     *)
(*                                                                         *)
(* A handler is a sequence of store calls and calls to the node, and other *)
(* handlers run in between. A node is seen through its API: box says which *)
(* sandboxes its Manager knows (NodeManager has the rest).                 *)
(***************************************************************************)
EXTENDS Ledger

CONSTANTS
    Gateways,     \* request goroutines of the gateway
    Sweepers,     \* the RunLivenessSweep goroutine of each replica
    Requests,     \* the kinds of request clients make
    Faults,       \* the kinds of fault the environment may inject
    MaxFaults     \* bound: how many faults happen in one behaviour

ASSUME ControlAssumption == Gateways \cap Sweepers = {} /\ MaxFaults \in Nat

VARIABLES
    row,          \* sandboxes: id -> the control plane's record
    box,          \* what the nodes hold: id -> node and state
    rpc,          \* CreateSandbox calls a node has been sent: id -> progress
    gw,           \* what each gateway goroutine is doing
    sw,           \* what each sweep is doing
    lease,        \* age of each node's last heartbeat
    sync,         \* the reconciliation a node's session is running
    minted,       \* ids handed out so far
    faults        \* faults injected so far

cpVars == <<row, box, rpc, gw, sw, lease, sync, minted, faults>>
vars == <<ledgerVars, cpVars>>

Terminal == {"STOPPED", "FAILED", "LOST"}
RowStates == {"PENDING", "STARTING", "RUNNING", "PAUSED"} \cup Terminal
BoxStates == {"STARTING", "RUNNING", "PAUSED"}
Ages == {"fresh", "old", "expired"}

Rest == [op |-> "none"]
SweepRest == [pc |-> "rest", nodes |-> {}, lost |-> {}, ids |-> {}, hand |-> {}]
NoSync == [pc |-> "none", ids |-> {}]

Has(f, x) == x \in DOMAIN f
Put(f, x, v) == [y \in DOMAIN f \cup {x} |-> IF y = x THEN v ELSE f[y]]
Drop(f, x) == [y \in DOMAIN f \ {x} |-> f[y]]

\* The shapes of the records, threads and calls.
CPTypeOK ==
    /\ LedgerTypeOK
    /\ DOMAIN row \subseteq minted
    /\ \A id \in DOMAIN row : row[id] \in [node : Nodes, state : RowStates]
    /\ DOMAIN box \subseteq minted
    /\ \A id \in DOMAIN box : box[id] \in [node : Nodes, state : BoxStates]
    /\ DOMAIN rpc \subseteq minted
    /\ \A id \in DOMAIN rpc :
         rpc[id] \in [node : Nodes, pc : {"sent", "booting", "ok", "err"}]
    /\ \A g \in Gateways : gw[g] = Rest \/ gw[g].id \in minted
    /\ \A s \in Sweepers : sw[s].nodes \cup sw[s].lost \subseteq Nodes /\ sw[s].ids \cup sw[s].hand \subseteq Ids
    /\ lease \in [Nodes -> Ages]
    /\ \A n \in Nodes : sync[n].ids \subseteq Ids
    /\ faults \in 0..MaxFaults

Init ==
    /\ LedgerInit
    /\ row = [id \in {} |-> Rest] /\ box = [id \in {} |-> Rest] /\ rpc = [id \in {} |-> Rest]
    /\ gw = [g \in Gateways |-> Rest]
    /\ sw = [s \in Sweepers |-> SweepRest]
    /\ lease = [n \in Nodes |-> "fresh"]
    /\ sync = [n \in Nodes |-> NoSync]
    /\ minted = {} /\ faults = 0

Fault(kind) == kind \in Faults /\ faults < MaxFaults /\ faults' = faults + 1
NoFault == faults' = faults

On(g, op, pc) == gw[g].op = op /\ gw[g].pc = pc
Step(g, pc) == gw' = [gw EXCEPT ![g].pc = pc]
Done(g) == gw' = [gw EXCEPT ![g] = Rest]
Free(g, op) == op \in Requests /\ gw[g] = Rest
Start(g, op, id, pc) == gw' = [gw EXCEPT ![g] = [op |-> op, id |-> id, pc |-> pc]]

\* PutSandbox: a blind upsert of the copy the handler has in its hands.
PutSandbox(id, n, state) == row' = Put(row, id, [node |-> n, state |-> state])

\* Writes whose error the caller ignores or only logs.
TryPut(id, n, state) ==
    \/ PutSandbox(id, n, state) /\ NoFault
    \/ row' = row /\ Fault("store")

TryRelease(id) ==
    \/ Release(id) /\ NoFault
    \/ UNCHANGED ledgerVars /\ Fault("store")

TryFinish(n) ==
    \/ FinishCreate(n) /\ NoFault
    \/ UNCHANGED ledgerVars /\ Fault("finish")

Live(id) == Has(row, id) /\ row[id].state \notin Terminal

----------------------------------------------------------------------------
(* handleCreate *)

\* The id is minted and Schedule reserves on a node that fits; a placement
\* that fails leaves nothing behind.
CreatePlace(g, id) ==
    /\ Free(g, "create") /\ id \notin minted
    /\ \E n \in Nodes :
         /\ Reserve(id, n)
         /\ gw' = [gw EXCEPT ![g] = [op |-> "create", id |-> id, node |-> n, pc |-> "put"]]
    /\ minted' = minted \cup {id}
    /\ UNCHANGED <<row, box, rpc, sw, lease, sync, faults>>

CreatePut(g) ==
    LET c == gw[g] IN
    /\ On(g, "create", "put")
    /\ \/ PutSandbox(c.id, c.node, "PENDING") /\ Step(g, "connect") /\ NoFault
       \/ row' = row /\ Step(g, "unplace") /\ Fault("store")
    /\ UNCHANGED <<ledgerVars, box, rpc, sw, lease, sync, minted>>

\* The record could not be written: FinishCreate, then Release.
CreateUnplace(g) ==
    /\ On(g, "create", "unplace")
    /\ TryFinish(gw[g].node)
    /\ Step(g, "release")
    /\ UNCHANGED <<row, box, rpc, sw, lease, sync, minted>>

\* nodeClientFor; a node that cannot be reached goes straight to failCreate.
CreateConnect(g) ==
    LET c == gw[g] IN
    /\ On(g, "create", "connect")
    /\ \/ rpc' = Put(rpc, c.id, [node |-> c.node, pc |-> "sent"]) /\ Step(g, "wait") /\ NoFault
       \/ rpc' = rpc /\ Step(g, "fail") /\ Fault("unreachable")
    /\ UNCHANGED <<ledgerVars, row, box, sw, lease, sync, minted>>

\* The node's answer, or the sixty seconds without one; then FinishCreate.
CreateReturn(g) ==
    LET c == gw[g] IN
    /\ On(g, "create", "wait")
    /\ \/ rpc[c.id].pc = "ok" /\ Step(g, "running") /\ TryFinish(c.node)
       \/ rpc[c.id].pc = "err" /\ Step(g, "fail") /\ TryFinish(c.node)
       \/ Step(g, "fail") /\ FinishCreate(c.node) /\ Fault("timeout")
    /\ UNCHANGED <<row, box, rpc, sw, lease, sync, minted>>

CreateRunning(g) ==
    LET c == gw[g] IN
    /\ On(g, "create", "running")
    /\ TryPut(c.id, c.node, "RUNNING")
    /\ Done(g)
    /\ UNCHANGED <<ledgerVars, box, rpc, sw, lease, sync, minted>>

\* failCreate: the record first, then the reservation.
CreateFail(g) ==
    LET c == gw[g] IN
    /\ On(g, "create", "fail")
    /\ TryPut(c.id, c.node, "FAILED")
    /\ Step(g, "release")
    /\ UNCHANGED <<ledgerVars, box, rpc, sw, lease, sync, minted>>

\* The last step of failCreate, of the unplacing and of handleDelete.
ReleasePlacement(g) ==
    /\ On(g, "create", "release") \/ On(g, "delete", "release")
    /\ TryRelease(gw[g].id)
    /\ Done(g)
    /\ UNCHANGED <<row, box, rpc, sw, lease, sync, minted>>

----------------------------------------------------------------------------
(* The node's side of a create *)

Called(id, pc) == Has(rpc, id) /\ rpc[id].pc = pc

\* The record is reserved as STARTING, or the node's guards refuse.
NodeAccepts(id) ==
    /\ Called(id, "sent")
    /\ \/ /\ box' = Put(box, id, [node |-> rpc[id].node, state |-> "STARTING"])
          /\ rpc' = [rpc EXCEPT ![id].pc = "booting"]
       \/ box' = box /\ rpc' = [rpc EXCEPT ![id].pc = "err"]
    /\ UNCHANGED <<ledgerVars, row, gw, sw, lease, sync, minted, faults>>

\* The create commits, even if its record was destroyed meanwhile, or fails.
\* It does not need anybody to be waiting for it still.
NodeFinishes(id) ==
    /\ Called(id, "booting")
    /\ \/ /\ rpc' = [rpc EXCEPT ![id].pc = "ok"]
          /\ box' = IF Has(box, id) THEN [box EXCEPT ![id].state = "RUNNING"] ELSE box
       \/ rpc' = [rpc EXCEPT ![id].pc = "err"] /\ box' = Drop(box, id)
    /\ UNCHANGED <<ledgerVars, row, gw, sw, lease, sync, minted, faults>>

\* sweepIdle: what onIdle says, "pause" or "delete".
NodeIdles(id) ==
    /\ "idle" \in Requests /\ Has(box, id) /\ box[id].state = "RUNNING"
    /\ box' \in {[box EXCEPT ![id].state = "PAUSED"], Drop(box, id)}
    /\ UNCHANGED <<ledgerVars, row, rpc, gw, sw, lease, sync, minted, faults>>

----------------------------------------------------------------------------
(* handleDelete, handleGet, handlePause and handleResume *)

\* Mutant of DeleteLoad: the capacity goes back before the sandbox does.
DeleteReleasesFirst(g, id) ==
    /\ Free(g, "delete") /\ Has(row, id)
    /\ Start(g, "delete", id, "release")
    /\ UNCHANGED <<ledgerVars, row, box, rpc, sw, lease, sync, minted, faults>>

DeleteLoad(g, id) ==
    /\ Free(g, "delete") /\ Has(row, id)
    /\ Start(g, "delete", id, "call")
    /\ UNCHANGED <<ledgerVars, row, box, rpc, sw, lease, sync, minted, faults>>

\* DestroySandbox: a sandbox the node does not know is already destroyed. A
\* call that fails changes nothing the client is told about.
DeleteCall(g) ==
    /\ On(g, "delete", "call")
    /\ \/ box' = Drop(box, gw[g].id) /\ Step(g, "put") /\ NoFault
       \/ box' \in {box, Drop(box, gw[g].id)} /\ Done(g) /\ Fault("timeout")
    /\ UNCHANGED <<ledgerVars, row, rpc, sw, lease, sync, minted>>

DeletePut(g) ==
    LET id == gw[g].id IN
    /\ On(g, "delete", "put")
    /\ TryPut(id, row[id].node, "STOPPED")
    /\ Step(g, "release")
    /\ UNCHANGED <<ledgerVars, box, rpc, sw, lease, sync, minted>>

\* handleGet refreshes a record that is not terminal from the node.
GetLoad(g, id) ==
    /\ Free(g, "get") /\ Live(id)
    /\ Start(g, "get", id, "call")
    /\ UNCHANGED <<ledgerVars, row, box, rpc, sw, lease, sync, minted, faults>>

\* NotFound reads as "node no longer has it"; any other error writes nothing.
GetCall(g) ==
    LET id == gw[g].id IN
    /\ On(g, "get", "call")
    /\ \/ /\ gw' = [gw EXCEPT ![g] =
                     [op |-> "write", id |-> id, pc |-> "put",
                      state |-> IF Has(box, id) THEN box[id].state ELSE "STOPPED"]]
          /\ NoFault
       \/ Done(g) /\ Fault("timeout")
    /\ UNCHANGED <<ledgerVars, row, box, rpc, sw, lease, sync, minted>>

\* Pause and resume change the node first and the record afterwards. Resuming
\* a sandbox that is running succeeds; pausing one that is not does not.
Toggle(op, from, to, g, id) ==
    /\ Free(g, op) /\ Has(row, id) /\ Has(box, id) /\ box[id].state \in from
    /\ box' = [box EXCEPT ![id].state = to]
    /\ gw' = [gw EXCEPT ![g] = [op |-> "write", id |-> id, pc |-> "load", state |-> to]]
    /\ UNCHANGED <<ledgerVars, row, rpc, sw, lease, sync, minted, faults>>

PauseCall(g, id) == Toggle("pause", {"RUNNING"}, "PAUSED", g, id)
ResumeCall(g, id) == Toggle("resume", {"PAUSED", "RUNNING"}, "RUNNING", g, id)

\* updateState reads the record again before it writes it back.
UpdateLoad(g) ==
    /\ On(g, "write", "load")
    /\ IF Has(row, gw[g].id) THEN Step(g, "put") ELSE Done(g)
    /\ UNCHANGED <<ledgerVars, row, box, rpc, sw, lease, sync, minted, faults>>

WriteState(g) ==
    LET c == gw[g] IN
    /\ On(g, "write", "put")
    /\ TryPut(c.id, row[c.id].node, c.state)
    /\ Done(g)
    /\ UNCHANGED <<ledgerVars, box, rpc, sw, lease, sync, minted>>

\* The replica dies: what its goroutines had in hand is gone.
Crash ==
    /\ Fault("crash")
    /\ \/ \E g \in Gateways : gw[g] # Rest /\ Done(g) /\ sw' = sw
       \/ \E s \in Sweepers : sw[s] # SweepRest /\ gw' = gw /\ sw' = [sw EXCEPT ![s] = SweepRest]
    /\ UNCHANGED <<ledgerVars, row, box, rpc, lease, sync, minted>>

----------------------------------------------------------------------------
(* RunLivenessSweep: SweepLiveness, markNodeSandboxesLost for each node it *)
(* lost, ReclaimOrphanReservations. Lists are read first and worked        *)
(* through afterwards, one store call at a time.                           *)

Stale(ages, exclude) == {n \in Nodes : lease[n] \in ages /\ nodeState[n] \notin exclude}

At(s, pc) == sw[s].pc = pc
Sweeping(s, upd) == sw' = [sw EXCEPT ![s] = upd]

SweepLiveness(s) ==
    /\ At(s, "rest")
    /\ Sweeping(s, [sw[s] EXCEPT !.pc = "lose", !.nodes = Stale({"expired"}, {"DRAINING", "LOST"})])
    /\ UNCHANGED <<ledgerVars, row, box, rpc, gw, lease, sync, minted, faults>>

\* SetNodeState says whether it changed anything; only then is the node this
\* sweep's to clean up.
MarkLost(s) ==
    /\ At(s, "lose")
    /\ \E n \in sw[s].nodes :
         /\ SetNodeState(n, "LOST")
         /\ Sweeping(s, [sw[s] EXCEPT
              !.nodes = @ \ {n}, !.lost = IF nodeState[n] # "LOST" THEN @ \cup {n} ELSE @])
    /\ UNCHANGED <<row, box, rpc, gw, lease, sync, minted, faults>>

ListSuspects(s) ==
    /\ At(s, "lose") /\ sw[s].nodes = {}
    /\ Sweeping(s, [sw[s] EXCEPT !.pc = "suspect",
         !.nodes = Stale({"old", "expired"}, {"DRAINING", "LOST", "SUSPECT"})])
    /\ UNCHANGED <<ledgerVars, row, box, rpc, gw, lease, sync, minted, faults>>

MarkSuspect(s) ==
    /\ At(s, "suspect")
    /\ \E n \in sw[s].nodes :
         SetNodeState(n, "SUSPECT") /\ Sweeping(s, [sw[s] EXCEPT !.nodes = @ \ {n}])
    /\ UNCHANGED <<row, box, rpc, gw, lease, sync, minted, faults>>

\* onLost, for the next node; or the orphan listing once there is none.
ListLost(s) ==
    /\ At(s, "suspect") /\ sw[s].nodes = {}
    /\ \E n \in sw[s].lost :
         Sweeping(s, [sw[s] EXCEPT !.pc = "mark", !.lost = @ \ {n},
           !.ids = {id \in DOMAIN row : row[id].node = n /\ Live(id)}])
    /\ UNCHANGED <<ledgerVars, row, box, rpc, gw, lease, sync, minted, faults>>

\* A record that cannot be written keeps its reservation.
MarkRowLost(s) ==
    /\ At(s, "mark")
    /\ \E id \in sw[s].ids :
         \/ /\ PutSandbox(id, row[id].node, "LOST") /\ NoFault
            /\ Sweeping(s, [sw[s] EXCEPT !.pc = "free", !.ids = @ \ {id}, !.hand = {id}])
         \/ /\ row' = row /\ Fault("store")
            /\ Sweeping(s, [sw[s] EXCEPT !.ids = @ \ {id}])
    /\ UNCHANGED <<ledgerVars, box, rpc, gw, lease, sync, minted>>

FreeLost(s) ==
    /\ At(s, "free")
    /\ \E id \in sw[s].hand : TryRelease(id)
    /\ Sweeping(s, [sw[s] EXCEPT !.pc = "mark", !.hand = {}])
    /\ UNCHANGED <<row, box, rpc, gw, lease, sync, minted>>

LostDone(s) ==
    /\ At(s, "mark") /\ sw[s].ids = {}
    /\ Sweeping(s, [sw[s] EXCEPT !.pc = "suspect"])
    /\ UNCHANGED <<ledgerVars, row, box, rpc, gw, lease, sync, minted, faults>>

\* Mutant of Orphan: only a reservation with no record at all.
OrphanRecordless(id) == Has(resv, id) /\ ~Has(row, id)

\* No sandbox row, or one that will never run again.
Orphan(id) == Has(resv, id) /\ ~Live(id)

OrphanReservations(s) ==
    /\ At(s, "suspect") /\ sw[s].nodes = {} /\ sw[s].lost = {}
    /\ Sweeping(s, [sw[s] EXCEPT !.pc = "reclaim", !.ids = {id \in Ids : Orphan(id)}])
    /\ UNCHANGED <<ledgerVars, row, box, rpc, gw, lease, sync, minted, faults>>

ReclaimOrphan(s) ==
    /\ At(s, "reclaim")
    /\ \E id \in sw[s].ids : Release(id) /\ Sweeping(s, [sw[s] EXCEPT !.ids = @ \ {id}])
    /\ UNCHANGED <<row, box, rpc, gw, lease, sync, minted, faults>>

SweepDone(s) ==
    /\ At(s, "reclaim") /\ sw[s].ids = {}
    /\ Sweeping(s, SweepRest)
    /\ UNCHANGED <<ledgerVars, row, box, rpc, gw, lease, sync, minted, faults>>

\* A store call fails. onLost gives up on the node it was called for; every
\* other error ends this round, and with it the list of nodes it had lost.
SweepFails(s) ==
    /\ Fault("store")
    /\ \/ /\ At(s, "suspect") /\ sw[s].nodes = {}
          /\ \E n \in sw[s].lost : Sweeping(s, [sw[s] EXCEPT !.lost = @ \ {n}])
       \/ /\ \/ At(s, "lose")
             \/ At(s, "suspect") /\ (sw[s].nodes # {} \/ sw[s].lost = {})
             \/ At(s, "reclaim") /\ sw[s].ids # {}
          /\ Sweeping(s, SweepRest)
    /\ UNCHANGED <<ledgerVars, row, box, rpc, gw, lease, sync, minted>>

----------------------------------------------------------------------------
(* Nodes: leases, sessions and reconciliation *)

\* The first missed heartbeat is a fault; after it time simply passes.
LeaseAges(n) ==
    /\ \/ lease[n] = "fresh" /\ lease' = [lease EXCEPT ![n] = "old"] /\ Fault("lease")
       \/ lease[n] = "old" /\ lease' = [lease EXCEPT ![n] = "expired"] /\ NoFault
    /\ UNCHANGED <<ledgerVars, row, box, rpc, gw, sw, sync, minted>>

\* A heartbeat that finds the lease fresh and the node READY changes nothing.
Heartbeat(n) ==
    /\ sync[n].pc # "down"
    /\ lease[n] # "fresh" \/ nodeState[n] \in {"SUSPECT", "LOST"}
    /\ RenewLease(n)
    /\ lease' = [lease EXCEPT ![n] = "fresh"]
    /\ UNCHANGED <<row, box, rpc, gw, sw, sync, minted, faults>>

\* noded dies and the kernel takes its machines with it (fc-kill-on-exit); the
\* calls it was serving fail.
NodeRestart(n) ==
    /\ Fault("restart")
    /\ box' = [id \in {i \in DOMAIN box : box[i].node # n} |-> box[id]]
    /\ rpc' = [id \in DOMAIN rpc |->
                IF rpc[id].node = n /\ rpc[id].pc \in {"sent", "booting"}
                THEN [rpc[id] EXCEPT !.pc = "err"] ELSE rpc[id]]
    /\ sync' = [sync EXCEPT ![n] = [pc |-> "down", ids |-> {}]]
    /\ UNCHANGED <<ledgerVars, row, gw, sw, lease, minted>>

\* session: Register, then a reconciliation on a goroutine of its own. Bound:
\* a session outlives its reconciliation.
Session(n) ==
    /\ UpsertNode(n, alloc[n])
    /\ lease' = [lease EXCEPT ![n] = "fresh"]
    /\ sync' = [sync EXCEPT ![n] = [pc |-> "asked", ids |-> {}]]
    /\ UNCHANGED <<row, box, rpc, gw, sw, minted>>

Register(n) == sync[n].pc = "down" /\ Session(n) /\ NoFault

\* Run's retry after the heartbeat stream broke.
Reconnect(n) == sync[n].pc = "none" /\ Session(n) /\ Fault("session")


\* ExpectedForNode; a listing that fails answers with the empty set, and a
\* call that fails ends the reconciliation.
SyncState(n) ==
    /\ sync[n].pc = "asked"
    /\ \/ /\ sync' = [sync EXCEPT ![n] = [pc |-> "compare",
                ids |-> {id \in DOMAIN row : row[id].node = n /\ Live(id)}]]
          /\ NoFault
       \/ sync' = [sync EXCEPT ![n].pc = "compare"] /\ Fault("list")
       \/ sync' = [sync EXCEPT ![n] = NoSync] /\ Fault("timeout")
    /\ UNCHANGED <<ledgerVars, row, box, rpc, gw, sw, lease, minted>>

\* Statuses: everything the Manager knows that was not expected is doomed.
Compare(n) ==
    /\ sync[n].pc = "compare"
    /\ sync' = [sync EXCEPT ![n] = [pc |-> "destroy",
          ids |-> {id \in DOMAIN box : box[id].node = n} \ sync[n].ids]]
    /\ UNCHANGED <<ledgerVars, row, box, rpc, gw, sw, lease, minted, faults>>

DestroyOrphan(n) ==
    /\ sync[n].pc = "destroy"
    /\ \E id \in sync[n].ids :
         box' = Drop(box, id) /\ sync' = [sync EXCEPT ![n].ids = @ \ {id}]
    /\ UNCHANGED <<ledgerVars, row, rpc, gw, sw, lease, minted, faults>>

Reconciled(n) ==
    /\ sync[n].pc = "destroy" /\ sync[n].ids = {}
    /\ sync' = [sync EXCEPT ![n] = NoSync]
    /\ UNCHANGED <<ledgerVars, row, box, rpc, gw, sw, lease, minted, faults>>

\* The operator's drain.
Drain(n) ==
    /\ "drain" \in Requests /\ nodeState[n] # "DRAINING"
    /\ SetNodeState(n, "DRAINING")
    /\ UNCHANGED cpVars

----------------------------------------------------------------------------

\* What a goroutine does next once it has started.
GatewayStep(g) ==
    \/ CreatePut(g) \/ CreateUnplace(g) \/ CreateConnect(g) \/ CreateReturn(g)
    \/ CreateRunning(g) \/ CreateFail(g) \/ ReleasePlacement(g)
    \/ DeleteCall(g) \/ DeletePut(g) \/ GetCall(g) \/ UpdateLoad(g) \/ WriteState(g)

SweepStep(s) ==
    \/ SweepLiveness(s) \/ MarkLost(s) \/ ListSuspects(s) \/ MarkSuspect(s)
    \/ ListLost(s) \/ MarkRowLost(s) \/ FreeLost(s) \/ LostDone(s)
    \/ OrphanReservations(s) \/ ReclaimOrphan(s) \/ SweepDone(s)

CreateStep(id) == NodeAccepts(id) \/ NodeFinishes(id)

ReconcileStep(n) == SyncState(n) \/ Compare(n) \/ DestroyOrphan(n) \/ Reconciled(n)

Next ==
    \/ \E g \in Gateways, id \in Ids :
         \/ CreatePlace(g, id) \/ DeleteLoad(g, id) \/ GetLoad(g, id)
         \/ PauseCall(g, id) \/ ResumeCall(g, id)
    \/ \E g \in Gateways : GatewayStep(g)
    \/ \E s \in Sweepers : SweepStep(s) \/ SweepFails(s)
    \/ \E id \in Ids : CreateStep(id) \/ NodeIdles(id)
    \/ \E n \in Nodes :
         \/ Heartbeat(n) \/ LeaseAges(n) \/ Register(n) \/ Reconnect(n)
         \/ ReconcileStep(n) \/ NodeRestart(n) \/ Drain(n)
    \/ Crash

\* A goroutine that can go on does, and the sweep's ticker keeps firing.
\* Requests and faults need never come, and a node may stay silent for good.
Fairness ==
    /\ \A g \in Gateways : WF_vars(GatewayStep(g))
    /\ \A s \in Sweepers : WF_vars(SweepStep(s))
    /\ \A id \in Ids : WF_vars(CreateStep(id))
    /\ \A n \in Nodes : WF_vars(ReconcileStep(n))

Spec == Init /\ [][Next]_vars /\ Fairness

----------------------------------------------------------------------------
(* Runs without overlaps: the two listings that have to see a create's     *)
(* record do not fall between its reservation and that record, a create    *)
(* does not start inside a reconciliation, and clients address a sandbox   *)
(* once its create has answered.                                           *)

Creating(id) == \E g \in Gateways : gw[g].op = "create" /\ gw[g].id = id
Placing == \E g \in Gateways : On(g, "create", "put")

Undisturbed ==
    /\ (\E s \in Sweepers : ~At(s, "reclaim") /\ sw'[s].pc = "reclaim") => ~Placing
    /\ (\E n \in Nodes : sync[n].pc = "asked" /\ sync'[n].pc = "compare") => ~Placing
    /\ minted' # minted => \A n \in Nodes : sync[n].pc # "compare"
    /\ \A g \in Gateways :
         gw[g] = Rest /\ gw'[g] # Rest /\ gw'[g].op # "create" => ~Creating(gw'[g].id)

CalmNext == Next /\ Undisturbed
CalmSpec == Init /\ [][CalmNext]_vars

----------------------------------------------------------------------------
(* Properties *)

\* A sandbox a node holds is a sandbox the ledger has committed capacity for:
\* what the scheduler gives away is really free.
BoxReserved == \A id \in DOMAIN box : Has(resv, id)

\* A node holds no more sandboxes than it said it could carry.
NodeNotOversold ==
    \A n \in Nodes : Cardinality({id \in DOMAIN box : box[id].node = n}) <= alloc[n]

\* create_in_flight counts the creates that have been placed and have not
\* settled: FinishCreate runs "whether it succeeded or failed".
CreatesCounted ==
    \A n \in Nodes : inFlight[n] =
        Cardinality({g \in Gateways :
            /\ gw[g].op = "create" /\ gw[g].node = n
            /\ gw[g].pc \in {"put", "unplace", "connect", "wait"}})


\* A record that has reached STOPPED, FAILED or LOST stays in one of them: the
\* orphan sweep takes such a sandbox for "one that will never run again".
TerminalIsFinal ==
    [][\A id \in DOMAIN row : row[id].state \in Terminal => row'[id].state \in Terminal]_vars

\* A reservation with no live record is reclaimed, or its record appears.
OrphansReclaimed ==
    \A id \in Ids : (Has(resv, id) /\ ~Live(id)) ~> ~(Has(resv, id) /\ ~Live(id))

\* Nobody is working on the sandbox and no node has it, or will.
Abandoned(id) ==
    /\ Has(resv, id) /\ ~Has(box, id)
    /\ ~Called(id, "sent") /\ ~Called(id, "booting")
    /\ \A g \in Gateways : gw[g] = Rest \/ gw[g].id # id

\* Capacity held for a sandbox that no longer exists anywhere comes back.
CapacityReturns == \A id \in Ids : Abandoned(id) ~> ~Abandoned(id)

\* A lost node's live records do not outlast its loss: "a node failure strands
\* neither the records nor the reservations".
LostSwept ==
    \A n \in Nodes, id \in Ids :
        (nodeState[n] = "LOST" /\ Live(id) /\ row[id].node = n)
            ~> ~(nodeState[n] = "LOST" /\ Live(id))

\* No two sweeps are cleaning up after the same loss of a node: the state
\* transition "reports whether it actually happened".
LostHandledOnce ==
    \A s, t \in Sweepers : s # t => sw[s].lost \cap sw[t].lost = {}

\* A node the operator drained takes no new sandbox until somebody undrains it.
DrainSticks ==
    [][\A n \in Nodes : nodeState[n] = "DRAINING" => nodeState'[n] = "DRAINING"]_vars
=============================================================================
