---------------------------- MODULE NodeManager ----------------------------
(***************************************************************************)
(* noded's Manager (internal/node/manager.go): the sandbox records of one  *)
(* node and the operations that create, fork, pause, resume, checkpoint,   *)
(* wake and destroy them, with the runtime's own table of virtual machines *)
(* (internal/node/runtime/fc_linux.go, fc_lifecycle_linux.go) and the      *)
(* network slots of NetworkPool.                                           *)
(*                                                                         *)
(* The Manager's mutex is held only between two calls out, so every        *)
(* operation is a sequence of steps other operations may come between.     *)
(* th[t] is where goroutine t stands: the operation, its sandbox, its step *)
(* and the state a checkpoint will restore. The Sweeper is the goroutine   *)
(* of idleLoop; todo is the list sweepIdle (or Close) is working through.  *)
(*                                                                         *)
(* Sandbox ids are minted fresh by the gateway, so an id is created once.  *)
(***************************************************************************)
EXTENDS NetworkPool, Naturals

CONSTANTS
    Sweeper,          \* the member of Procs that runs idleLoop
    Ops,              \* the operations requests ask for
    Networked,        \* whether the node has a network pool (Manager.Net # nil)
    UnfreezeFails,    \* whether resuming or redialling may fail after a checkpoint
    MaxInFlight       \* bound: data-plane requests open on one sandbox

ASSUME ManagerAssumption ==
    /\ Sweeper \in Procs
    /\ Networked \in BOOLEAN /\ UnfreezeFails \in BOOLEAN
    /\ MaxInFlight \in Nat

VARIABLES
    rec,       \* Manager.sandboxes: id -> record
    vm,        \* FCRuntime.vms: the machine registered for an id, if any
    th,        \* what each goroutine is doing
    todo,      \* sandboxes a goroutine's sweep (or Close) still has to act on
    minted,    \* ids that have been created
    closed     \* Close has run: the idle loop is stopped

mgrVars == <<rec, vm, th, todo, minted, closed>>
mgrVarsButThreads == <<rec, vm, todo, minted, closed>>
vars == <<netVars, mgrVars>>

States == {"STARTING", "RESTORING", "RUNNING", "PAUSING", "PAUSED",
           "RESUMING", "SNAPSHOTTING"}
\* fresh: the agent connection was dialled after the last checkpoint, which
\* resets the guest's transport.
Records == [state : States, inFlight : 0..MaxInFlight, idle : BOOLEAN, fresh : BOOLEAN]

Rest == [op |-> "none"]
CreateSteps == {"network", "boot", "dial", "commit", "drop", "dropNet"}
DestroySteps == {"kill", "killNet"}
PauseSteps == {"rtPause", "paused", "pauseErr"}
WakeSteps == {"rtResume", "resumed", "resumeErr"}
SnapshotSteps == {"freeze", "checkpoint", "unfreeze", "redial", "restore"}
Threads ==
    {Rest} \cup
    [op : {"create"}, id : Ids, pc : CreateSteps, slot : Slots \cup {NoSlot}] \cup
    [op : {"destroy"}, id : Ids, pc : DestroySteps] \cup
    [op : {"pause"}, id : Ids, pc : PauseSteps] \cup
    [op : {"resume"}, id : Ids, pc : WakeSteps] \cup
    [op : {"request"}, id : Ids, pc : WakeSteps \cup {"wake", "serve", "release"}] \cup
    [op : {"snapshot"}, id : Ids, pc : SnapshotSteps, prev : {"RUNNING", "PAUSED"}]

\* The shapes of the Manager's variables.
TypeOK ==
    /\ NetTypeOK
    /\ DOMAIN rec \subseteq Ids /\ \A id \in DOMAIN rec : rec[id] \in Records
    /\ vm \in [Ids -> {"none", "running", "paused"}]
    /\ th \in [Procs -> Threads]
    /\ todo \in [Procs -> SUBSET Ids] /\ minted \subseteq Ids
    /\ DOMAIN rec \subseteq minted
    /\ closed \in BOOLEAN

Init ==
    /\ NetInit
    /\ rec = [id \in {} |-> Rest]
    /\ vm = [id \in Ids |-> "none"]
    /\ th = [t \in Procs |-> Rest]
    /\ todo = [t \in Procs |-> {}] /\ minted = {} /\ closed = FALSE

Known(id) == id \in DOMAIN rec
Is(id, state) == Known(id) /\ rec[id].state = state

SetState(id, state) ==
    rec' = IF Known(id) THEN [rec EXCEPT ![id].state = state] ELSE rec
\* The guarded writes of the error paths: only if nobody moved it meanwhile.
SetStateIf(id, old, state) ==
    rec' = IF Is(id, old) THEN [rec EXCEPT ![id].state = state] ELSE rec

Step(t, pc) == th' = [th EXCEPT ![t].pc = pc]
Done(t) == th' = [th EXCEPT ![t] = Rest]
On(t, op, pc) == th[t].op = op /\ th[t].pc = pc

\* A goroutine can take a request; the Sweeper takes none.
Ready(t, op) == op \in Ops /\ t # Sweeper /\ th[t] = Rest /\ todo[t] = {}

NoNet == UNCHANGED netVars

----------------------------------------------------------------------------
(* The runtime's table of machines. Pause and Resume return early when the
   machine is already there, fail when there is none, and may fail anyway. *)

RtPause(t, ok, err) ==
    LET id == th[t].id IN
    \/ vm[id] # "none" /\ vm' = [vm EXCEPT ![id] = "paused"] /\ Step(t, ok)
    \/ vm[id] # "paused" /\ vm' = vm /\ Step(t, err)

RtResume(t, ok, err) ==
    LET id == th[t].id IN
    \/ vm[id] # "none" /\ vm' = [vm EXCEPT ![id] = "running"] /\ Step(t, ok)
    \/ vm[id] # "running" /\ vm' = vm /\ Step(t, err)

----------------------------------------------------------------------------
(* Create and ForkSandbox: the same steps from a different first state. *)

CreateBegin(t, id) ==
    /\ Ready(t, "create") /\ id \notin minted
    /\ \E state \in {"STARTING", "RESTORING"} :
         rec' = With(rec, id, [state |-> state, inFlight |-> 0, idle |-> FALSE,
                              fresh |-> FALSE])
    /\ minted' = minted \cup {id}
    /\ th' = [th EXCEPT ![t] =
               [op |-> "create", id |-> id, slot |-> NoSlot,
                pc |-> IF Networked THEN "network" ELSE "boot"]]
    /\ IF Networked THEN StartProvision(t, id) ELSE NoNet
    /\ UNCHANGED <<vm, todo, closed>>

\* Provision has returned; minting the agent's token may fail after it.
NetworkReturned(t) ==
    /\ On(t, "create", "network") /\ Return(t)
    /\ \/ call[t].pc = "ok"
          /\ th' = [th EXCEPT ![t].pc = "boot", ![t].slot = call[t].slot]
       \/ Step(t, "drop")
    /\ UNCHANGED <<rec, vm, todo, minted, closed>>

\* The namespace is entered by its path, so it must be there by that name.
NamespaceThere(t) == Networked => th[t].slot \in DOMAIN ns

\* createOrRestoreWarm: a warm restore that fails falls back to a boot, so
\* only the boot's outcome matters. The machine is registered at the end.
Boot(t) ==
    /\ On(t, "create", "boot")
    /\ \/ /\ vm[th[t].id] = "none" /\ NamespaceThere(t)
          /\ vm' = [vm EXCEPT ![th[t].id] = "running"]
          /\ Step(t, "dial")
       \/ vm' = vm /\ Step(t, "drop")
    /\ UNCHANGED <<rec, todo, minted, closed>> /\ NoNet

\* Mutant of Dial: the machine whose agent never answered is left running.
DialKeepsVM(t) ==
    /\ On(t, "create", "dial")
    /\ \/ vm[th[t].id] = "running" /\ NamespaceThere(t) /\ Step(t, "commit")
       \/ Step(t, "drop")
    /\ UNCHANGED <<rec, vm, todo, minted, closed>> /\ NoNet

\* dialAgent: an agent that never answers costs the sandbox its machine.
Dial(t) ==
    /\ On(t, "create", "dial")
    /\ \/ /\ vm[th[t].id] = "running" /\ NamespaceThere(t)
          /\ vm' = vm
          /\ Step(t, "commit")
       \/ vm' = [vm EXCEPT ![th[t].id] = "none"] /\ Step(t, "drop")
    /\ UNCHANGED <<rec, todo, minted, closed>> /\ NoNet

\* The record is written through the pointer Create kept, whether or not it
\* is still in the map; a record that has gone is nobody's.
Commit(t) ==
    /\ On(t, "create", "commit")
    /\ rec' = IF Known(th[t].id)
              THEN [rec EXCEPT ![th[t].id].state = "RUNNING", ![th[t].id].fresh = TRUE]
              ELSE rec
    /\ Done(t)
    /\ UNCHANGED <<vm, todo, minted, closed>> /\ NoNet

\* releaseNetwork, for a goroutine that has one more thing to do.
ReleaseNetwork(t, pc) ==
    IF Networked THEN StartDeprovision(t, th[t].id) /\ Step(t, pc)
                 ELSE NoNet /\ Done(t)

DropFailed(t) ==
    /\ On(t, "create", "drop")
    /\ rec' = Without(rec, th[t].id)
    /\ ReleaseNetwork(t, "dropNet")
    /\ UNCHANGED <<vm, todo, minted, closed>>

NetworkReleased(t) ==
    /\ On(t, "create", "dropNet") \/ On(t, "destroy", "killNet")
    /\ Return(t) /\ Done(t)
    /\ UNCHANGED mgrVarsButThreads

----------------------------------------------------------------------------
(* Destroy *)

\* The record goes first, the machine and the slot after it, each whatever
\* became of the other. A sandbox that is not known is already destroyed.
Destroying(t, id) ==
    /\ rec' = Without(rec, id)
    /\ th' = [th EXCEPT ![t] = [op |-> "destroy", id |-> id, pc |-> "kill"]]

DestroyBegin(t, id) ==
    /\ Ready(t, "destroy") /\ Known(id)
    /\ Destroying(t, id)
    /\ UNCHANGED <<vm, todo, minted, closed>> /\ NoNet

\* The runtime forgets the machine before it tears it down; a machine it has
\* not registered yet is "not found", an error nobody acts on.
Kill(t) ==
    /\ On(t, "destroy", "kill")
    /\ vm' = [vm EXCEPT ![th[t].id] = "none"]
    /\ ReleaseNetwork(t, "killNet")
    /\ UNCHANGED <<rec, todo, minted, closed>>

----------------------------------------------------------------------------
(* Pause and Resume *)

Pausing(t, id) ==
    /\ rec' = [rec EXCEPT ![id].state = "PAUSING"]
    /\ th' = [th EXCEPT ![t] = [op |-> "pause", id |-> id, pc |-> "rtPause"]]

PauseBegin(t, id) ==
    /\ Ready(t, "pause") /\ Is(id, "RUNNING")
    /\ Pausing(t, id)
    /\ UNCHANGED <<vm, todo, minted, closed>> /\ NoNet

PauseVM(t) ==
    /\ On(t, "pause", "rtPause")
    /\ RtPause(t, "paused", "pauseErr")
    /\ UNCHANGED <<rec, todo, minted, closed>> /\ NoNet

\* Mutant of PauseEnd: a pause that failed is recorded as one that worked.
PauseEndIgnoresError(t) ==
    /\ On(t, "pause", "paused") \/ On(t, "pause", "pauseErr")
    /\ SetState(th[t].id, "PAUSED")
    /\ Done(t)
    /\ UNCHANGED <<vm, todo, minted, closed>> /\ NoNet

\* A pause that worked is written whatever the record says by now.
PauseEnd(t) ==
    /\ \/ On(t, "pause", "paused") /\ SetState(th[t].id, "PAUSED")
       \/ On(t, "pause", "pauseErr") /\ SetStateIf(th[t].id, "PAUSING", "RUNNING")
    /\ Done(t)
    /\ UNCHANGED <<vm, todo, minted, closed>> /\ NoNet

ResumeBegin(t, id) ==
    /\ Ready(t, "resume") /\ Is(id, "PAUSED")
    /\ SetState(id, "RESUMING")
    /\ th' = [th EXCEPT ![t] = [op |-> "resume", id |-> id, pc |-> "rtResume"]]
    /\ UNCHANGED <<vm, todo, minted, closed>> /\ NoNet

ResumeVM(t) ==
    /\ On(t, "resume", "rtResume") \/ On(t, "request", "rtResume")
    /\ RtResume(t, "resumed", "resumeErr")
    /\ UNCHANGED <<rec, todo, minted, closed>> /\ NoNet

\* Back in Resume's caller: a request goes on, a resume returns.
AfterResume(t, pc) == IF th[t].op = "request" THEN Step(t, pc) ELSE Done(t)

ResumeEnd(t) ==
    LET id == th[t].id IN
    /\ th[t].op \in {"resume", "request"}
    /\ \/ /\ th[t].pc = "resumed"
          /\ rec' = IF Known(id)
                    THEN [rec EXCEPT ![id].state = "RUNNING", ![id].idle = FALSE] ELSE rec
          /\ AfterResume(t, "serve")
       \/ /\ th[t].pc = "resumeErr"
          /\ SetStateIf(id, "RESUMING", "PAUSED")
          /\ AfterResume(t, "release")
    /\ UNCHANGED <<vm, todo, minted, closed>> /\ NoNet

----------------------------------------------------------------------------
(* AgentConn: a data-plane request, which wakes a paused sandbox *)

\* State is read and the request counted under one lock. A sandbox in a
\* transition refuses it: counted and released, only the activity remains.
RequestBegin(t, id) ==
    /\ Ready(t, "request") /\ Known(id)
    /\ \/ /\ rec[id].state \in {"RUNNING", "PAUSED"}
          /\ rec[id].inFlight < MaxInFlight
          /\ rec' = [rec EXCEPT ![id].inFlight = @ + 1, ![id].idle = FALSE]
          /\ th' = [th EXCEPT ![t] =
                     [op |-> "request", id |-> id,
                      pc |-> IF rec[id].state = "RUNNING" THEN "serve" ELSE "wake"]]
       \/ /\ rec[id].state \notin {"RUNNING", "PAUSED"}
          /\ rec' = [rec EXCEPT ![id].idle = FALSE]
          /\ th' = th
    /\ UNCHANGED <<vm, todo, minted, closed>> /\ NoNet

\* Resume, called with the state read before the lock was given up.
Wake(t) ==
    LET id == th[t].id IN
    /\ On(t, "request", "wake")
    /\ \/ Is(id, "PAUSED") /\ SetState(id, "RESUMING") /\ Step(t, "rtResume")
       \/ Is(id, "RUNNING") /\ rec' = rec /\ Step(t, "serve")
       \/ ~Is(id, "PAUSED") /\ ~Is(id, "RUNNING") /\ rec' = rec /\ Step(t, "release")
    /\ UNCHANGED <<vm, todo, minted, closed>> /\ NoNet

\* The release func: when the request ends, or at once when waking failed.
RequestEnd(t) ==
    LET id == th[t].id IN
    /\ On(t, "request", "serve") \/ On(t, "request", "release")
    /\ rec' = IF Known(id)
              THEN [rec EXCEPT ![id].inFlight = IF @ > 0 THEN @ - 1 ELSE @,
                               ![id].idle = FALSE]
              ELSE rec
    /\ Done(t)
    /\ UNCHANGED <<vm, todo, minted, closed>> /\ NoNet

----------------------------------------------------------------------------
(* Snapshot *)

SnapshotBegin(t, id) ==
    /\ Ready(t, "snapshot") /\ Known(id) /\ rec[id].state \in {"RUNNING", "PAUSED"}
    /\ th' = [th EXCEPT ![t] =
               [op |-> "snapshot", id |-> id, prev |-> rec[id].state,
                pc |-> IF rec[id].state = "RUNNING" THEN "freeze" ELSE "checkpoint"]]
    /\ SetState(id, "SNAPSHOTTING")
    /\ UNCHANGED <<vm, todo, minted, closed>> /\ NoNet

Freeze(t) ==
    /\ On(t, "snapshot", "freeze")
    /\ RtPause(t, "checkpoint", "restore")
    /\ UNCHANGED <<rec, todo, minted, closed>> /\ NoNet

\* Whether the checkpoint succeeds makes no difference to the steps that
\* follow. Taking it cuts the agent's connection.
Checkpoint(t) ==
    LET id == th[t].id IN
    /\ On(t, "snapshot", "checkpoint")
    /\ Step(t, IF th[t].prev = "RUNNING" THEN "unfreeze" ELSE "restore")
    /\ \/ rec' = rec
       \/ Known(id) /\ rec' = [rec EXCEPT ![id].fresh = FALSE]
    /\ UNCHANGED <<vm, todo, minted, closed>> /\ NoNet

\* A failure to resume is logged and the operation carries on.
Unfreeze(t) ==
    /\ On(t, "snapshot", "unfreeze")
    /\ IF UnfreezeFails \/ vm[th[t].id] = "none"
       THEN RtResume(t, "redial", "redial")
       ELSE vm' = [vm EXCEPT ![th[t].id] = "running"] /\ Step(t, "redial")
    /\ UNCHANGED <<rec, todo, minted, closed>> /\ NoNet

\* redialAgent, only for a source that was running; a failure is logged.
Redial(t) ==
    LET id == th[t].id IN
    /\ On(t, "snapshot", "redial")
    /\ \/ Known(id) /\ vm[id] = "running" /\ rec' = [rec EXCEPT ![id].fresh = TRUE]
       \/ (UnfreezeFails \/ ~Known(id) \/ vm[id] # "running") /\ rec' = rec
    /\ Step(t, "restore")
    /\ UNCHANGED <<vm, todo, minted, closed>> /\ NoNet

\* Mutant of Restore: the early return after a failed pause skips it.
RestoreSkipped(t) ==
    /\ On(t, "snapshot", "restore")
    /\ \/ SetStateIf(th[t].id, "SNAPSHOTTING", th[t].prev)
       \/ vm[th[t].id] = "running" /\ rec' = rec
    /\ Done(t)
    /\ UNCHANGED <<vm, todo, minted, closed>> /\ NoNet

Restore(t) ==
    /\ On(t, "snapshot", "restore")
    /\ SetStateIf(th[t].id, "SNAPSHOTTING", th[t].prev)
    /\ Done(t)
    /\ UNCHANGED <<vm, todo, minted, closed>> /\ NoNet

----------------------------------------------------------------------------
(* The idle loop, and Close *)

IdleOut(id) == Is(id, "RUNNING") /\ rec[id].idle /\ rec[id].inFlight = 0

\* lastActivity falls behind by the sandbox's idle timeout.
TimePasses(id) ==
    /\ Known(id) /\ ~rec[id].idle
    /\ rec' = [rec EXCEPT ![id].idle = TRUE]
    /\ UNCHANGED <<vm, th, todo, minted, closed>> /\ NoNet

\* The list is drawn up under the lock and acted on after it is given up.
SweepIdle ==
    /\ th[Sweeper] = Rest /\ todo[Sweeper] = {} /\ ~closed
    /\ \E id \in Ids : IdleOut(id)
    /\ todo' = [todo EXCEPT ![Sweeper] = {id \in Ids : IdleOut(id)}]
    /\ UNCHANGED <<rec, vm, th, minted, closed>> /\ NoNet

Close(t) ==
    /\ Ready(t, "close") /\ ~closed
    /\ closed' = TRUE
    /\ todo' = [todo EXCEPT ![t] = DOMAIN rec]
    /\ UNCHANGED <<rec, vm, th, minted>> /\ NoNet

\* Next on the list: Close destroys, the sweep destroys or pauses as the
\* sandbox's onIdle says. Pause refuses a sandbox that is not RUNNING and
\* Destroy has nothing to do for one that has gone.
Act(t) ==
    /\ th[t] = Rest
    /\ \E id \in todo[t] :
         /\ todo' = [todo EXCEPT ![t] = @ \ {id}]
         /\ \/ Known(id) /\ Destroying(t, id)
            \/ t = Sweeper /\ Is(id, "RUNNING") /\ Pausing(t, id)
            \/ /\ ~Known(id) \/ (t = Sweeper /\ ~Is(id, "RUNNING"))
               /\ UNCHANGED <<rec, th>>
    /\ UNCHANGED <<vm, minted, closed>> /\ NoNet

----------------------------------------------------------------------------
(* Specification *)

\* What a goroutine does once it has begun, the provisioner's steps included.
Continue(t) ==
    \/ NetworkReturned(t) \/ Boot(t) \/ Dial(t) \/ Commit(t) \/ DropFailed(t)
    \/ NetworkReleased(t) \/ Kill(t) \/ PauseVM(t) \/ PauseEnd(t)
    \/ ResumeVM(t) \/ ResumeEnd(t) \/ Wake(t)
    \/ Freeze(t) \/ Checkpoint(t) \/ Unfreeze(t) \/ Redial(t) \/ Restore(t)
    \/ CallStep(t) /\ UNCHANGED mgrVars

Begin(t, id) ==
    \/ CreateBegin(t, id) \/ PauseBegin(t, id) \/ ResumeBegin(t, id)
    \/ RequestBegin(t, id) \/ SnapshotBegin(t, id)

Next ==
    \/ \E t \in Procs : Continue(t) \/ RequestEnd(t) \/ Close(t) \/ Act(t)
    \/ \E t \in Procs, id \in Ids : Begin(t, id) \/ DestroyBegin(t, id)
    \/ SweepIdle
    \/ \E id \in Ids : TimePasses(id)

\* Goroutines run, and the calls they make return: the runtime's and the
\* agent's are bounded by timeouts. Nothing says a request ever ends.
Fairness == \A t \in Procs : WF_vars(Continue(t)) /\ WF_vars(Act(t))

Spec == Init /\ [][Next]_vars /\ Fairness

Creating(id) == \E t \in Procs : th[t].op = "create" /\ th[t].id = id

\* Clients that wait for a create to return before they delete.
WaitingNext ==
    \/ \E t \in Procs : Continue(t) \/ RequestEnd(t) \/ Act(t)
    \/ \E t \in Procs, id \in Ids : Begin(t, id) \/ (~Creating(id) /\ DestroyBegin(t, id))
    \/ SweepIdle
    \/ \E id \in Ids : TimePasses(id)

WaitingSpec == Init /\ [][WaitingNext]_vars

----------------------------------------------------------------------------
(* Properties *)

\* The transitional state an operation has claimed for its sandbox.
ClaimOf(t) ==
    IF th[t].op = "create" /\ th[t].pc \in {"network", "boot", "dial", "commit", "drop"}
      THEN {"STARTING", "RESTORING"}
    ELSE IF th[t].op = "pause" THEN {"PAUSING"}
    ELSE IF th[t].op \in {"resume", "request"} /\ th[t].pc \in WakeSteps THEN {"RESUMING"}
    ELSE IF th[t].op = "snapshot" THEN {"SNAPSHOTTING"}
    ELSE {}

Claims(t, id) == ClaimOf(t) # {} /\ th[t].id = id

\* Pause, Resume, Snapshot and the creates "claim the transition under lock so
\* concurrent pauses cannot both proceed" (manager.go, Pause): at most one
\* operation is in a sandbox's transition at a time, the record shows the
\* state it claimed, and a record in transition always has its claimant.
TransitionClaimed ==
    /\ \A t, u \in Procs, id \in Ids : Claims(t, id) /\ Claims(u, id) => t = u
    /\ \A t \in Procs, id \in DOMAIN rec : Claims(t, id) => rec[id].state \in ClaimOf(t)
    /\ \A id \in DOMAIN rec :
         rec[id].state \notin {"RUNNING", "PAUSED"} => \E t \in Procs : Claims(t, id)

\* Outside a transition the record tells the truth about the machine: RUNNING
\* means the guest runs and PAUSED that it is frozen. Snapshot says as much of
\* its own end: "a checkpoint error still leaves the sandbox running rather
\* than silently stuck".
RecordMatchesVM ==
    \A id \in DOMAIN rec :
        (\A t \in Procs : ~Claims(t, id)) =>
            vm[id] = IF rec[id].state = "RUNNING" THEN "running" ELSE "paused"

\* Snapshot leaves a paused source's connection alone because "Resuming
\* re-dials on its own": a sandbox that is RUNNING and in nobody's hands has a
\* connection made after its last checkpoint.
ResumeRedials ==
    \A id \in DOMAIN rec :
        rec[id].state = "RUNNING" /\ (\A t \in Procs : ~Claims(t, id)) => rec[id].fresh

\* The in-flight marker counts exactly the requests that hold it, across
\* wakes that fail, pauses that intervene and releases that come late.
InFlightExact ==
    \A id \in DOMAIN rec :
        rec[id].inFlight =
            Cardinality({t \in Procs : th[t].op = "request" /\ th[t].id = id})

\* sweepIdle promises to "never freeze/kill a sandbox with a request in
\* progress".
NoSweepMidRequest ==
    th[Sweeper].op \in {"pause", "destroy"} /\ th[Sweeper].pc \in {"rtPause", "kill"} =>
        \A t \in Procs : ~(On(t, "request", "serve") /\ th[t].id = th[Sweeper].id)

\* Every operation gives its claim back, on its error paths too: no sandbox
\* stays in a transitional state for ever.
TransitionEnds ==
    \A id \in Ids :
        (Known(id) /\ rec[id].state \notin {"RUNNING", "PAUSED"}) ~>
        (Known(id) => rec[id].state \in {"RUNNING", "PAUSED"})

Working(id) == \E t \in Procs : th[t].op # "none" /\ th[t].id = id

\* A machine belongs to a record or to an operation that will deal with it:
\* "an orphaned microVM holds memory the scheduler thinks is free"
\* (fc_linux.go, create).
NoOrphanVM == \A id \in Ids : vm[id] # "none" => Known(id) \/ Working(id)

\* A sandbox that is up keeps its own namespace whatever happens to others.
RunningKeepsNetwork ==
    Networked => \A id \in DOMAIN rec :
        rec[id].state \in {"RUNNING", "PAUSED"} => \E s \in DOMAIN ns : ns[s] = id

\* Nothing is left of a sandbox that has gone: dropFailed says it is what
\* "makes it impossible to add a new failure path that leaks" a slot. (A
\* namespace may outlive its sandbox when the host refuses to remove it.)
NoSlotOutlivesSandbox ==
    \A s \in DOMAIN ns : Known(ns[s]) \/ Working(ns[s]) \/ HostFaults
=============================================================================
