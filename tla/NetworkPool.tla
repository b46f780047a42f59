---------------------------- MODULE NetworkPool ----------------------------
(***************************************************************************)
(* The network slots of one node: the Allocator (internal/node/network/    *)
(* alloc.go), the Provisioner over it (provision.go) and the namespaces    *)
(* LinuxSetup builds and removes on the host (setup_linux.go).             *)
(*                                                                         *)
(* A call of Provision or Deprovision is not atomic: only the allocator's  *)
(* own methods hold its mutex, and the host commands run between them.     *)
(* call[p] is where process p stands in the call it is making; callers     *)
(* (the Manager) start a call with Provision / Deprovision and collect its *)
(* outcome with Return.                                                    *)
(***************************************************************************)
EXTENDS Integers, FiniteSets

CONSTANTS
    Ids,       \* sandbox ids
    Slots,     \* indices of the pool, 0..MaxIndex in the code
    Procs,     \* callers: one per request the node is serving
    HostFaults, \* whether a command run on the host may fail by itself
    Unknown,   \* the empty owner of a slot adopted from the host
    NoSlot     \* no layout assigned yet

ASSUME SlotsAssumption == Slots \subseteq Int /\ NoSlot \notin Slots
ASSUME UnknownAssumption == Unknown \notin Ids
ASSUME FaultsAssumption == HostFaults \in BOOLEAN

VARIABLES
    taken,     \* Allocator.taken: slot -> owner, a cache in process memory
    ns,        \* namespaces on the host: slot -> the sandbox it was built for
    call,      \* the provisioner call each process is making
    up         \* sandboxes whose Provision succeeded and whose Deprovision has not begun

netVars == <<taken, ns, call, up>>

Owners == Ids \cup {Unknown}
Idle == [op |-> "none"]
Calls ==
    {Idle} \cup
    [op : {"provision"}, id : Ids, slot : Slots \cup {NoSlot},
     pc : {"reserve", "setup", "build", "undo", "rollback", "ok", "err"}] \cup
    [op : {"deprovision"}, id : Ids, slot : Slots \cup {NoSlot},
     pc : {"lookup", "teardown", "release", "releaseErr", "ok", "err"}]

\* The maps are partial functions, as the code's Go maps are.
Without(f, s) == [x \in DOMAIN f \ {s} |-> f[x]]
With(f, s, v) == [x \in DOMAIN f \cup {s} |-> IF x = s THEN v ELSE f[x]]

\* One type invariant: the shapes of the four variables.
NetTypeOK ==
    /\ DOMAIN taken \subseteq Slots /\ \A s \in DOMAIN taken : taken[s] \in Owners
    /\ DOMAIN ns \subseteq Slots /\ \A s \in DOMAIN ns : ns[s] \in Ids
    /\ call \in [Procs -> Calls]
    /\ up \subseteq Ids

NetInit ==
    /\ taken = [s \in {} |-> Unknown]
    /\ ns = [s \in {} |-> Unknown]
    /\ call = [p \in Procs |-> Idle]
    /\ up = {}

----------------------------------------------------------------------------
(* Allocator *)

SlotsOf(id) == {s \in DOMAIN taken : taken[s] = id}

Free == {s \in Slots : s \notin DOMAIN taken /\ s \notin DOMAIN ns}

Lowest(s) == s \in Free /\ \A r \in Free : s <= r

\* What the search passes over on its way to slot s: namespaces on the host
\* that this process did not hand out become owned by "".
Adopted(s) ==
    [r \in DOMAIN taken \cup {q \in DOMAIN ns : q < s} |->
        IF r \in DOMAIN taken THEN taken[r] ELSE Unknown]

AdoptedAll ==
    [r \in DOMAIN taken \cup DOMAIN ns |->
        IF r \in DOMAIN taken THEN taken[r] ELSE Unknown]

Goto(p, pc) == call' = [call EXCEPT ![p].pc = pc]
GotoWith(p, pc, s) == call' = [call EXCEPT ![p].pc = pc, ![p].slot = s]

At(p, op, pc) == call[p].op = op /\ call[p].pc = pc

\* Reserve holds the allocator's mutex throughout, the namespace listing
\* included, so it is one step. Four outcomes: the slot this sandbox already
\* has, the lowest free one, no free slot, or a listing that failed.
Reserve(p) ==
    /\ At(p, "provision", "reserve")
    /\ LET id == call[p].id IN
       \/ \E s \in SlotsOf(id) :
            /\ GotoWith(p, "setup", s)
            /\ UNCHANGED taken
       \/ /\ SlotsOf(id) = {}
          /\ \E s \in Free :
               /\ Lowest(s)
               /\ taken' = With(Adopted(s), s, id)
               /\ GotoWith(p, "setup", s)
       \/ /\ SlotsOf(id) = {}
          /\ Free = {}
          /\ taken' = AdoptedAll
          /\ Goto(p, "err")
       \/ /\ SlotsOf(id) = {}
          /\ HostFaults
          /\ Goto(p, "err")
          /\ UNCHANGED taken
    /\ UNCHANGED <<ns, up>>

\* Release: the first slot whose owner is this sandbox, or nothing.
Released(id) == [s \in DOMAIN taken \ SlotsOf(id) |-> taken[s]]

----------------------------------------------------------------------------
(* LinuxSetup, as the host sees it *)

\* `ip netns add` fails on a namespace that exists, whoever built it.
NetnsAdd(p) ==
    LET c == call[p] IN
    /\ At(p, "provision", "setup")
    /\ \/ /\ c.slot \notin DOMAIN ns
          /\ ns' = With(ns, c.slot, c.id)
          /\ Goto(p, "build")
       \/ /\ c.slot \in DOMAIN ns
          /\ ns' = ns
          /\ Goto(p, "undo")
    /\ UNCHANGED <<taken, up>>

\* The links, addresses, routes and rule batches, all of them inside or
\* towards the namespace: any of them may fail.
Build(p) ==
    LET c == call[p] IN
    /\ At(p, "provision", "build")
    /\ \/ /\ c.slot \in DOMAIN ns
          /\ up' = up \cup {c.id}
          /\ Goto(p, "ok")
       \/ /\ HostFaults \/ c.slot \notin DOMAIN ns
          /\ up' = up
          /\ Goto(p, "undo")
    /\ UNCHANGED <<taken, ns>>

\* Setup's own cleanup: Teardown of the same layout, its error discarded.
Undo(p) ==
    /\ At(p, "provision", "undo")
    /\ \/ ns' = Without(ns, call[p].slot)
       \/ HostFaults /\ ns' = ns
    /\ Goto(p, "rollback")
    /\ UNCHANGED <<taken, up>>

\* Teardown runs every command and reports the first host failure. The
\* namespace is gone unless `ip netns del` itself failed, and that failure is
\* reported only if the namespaces could be listed afterwards.
Teardown(p) ==
    LET c == call[p] IN
    /\ At(p, "deprovision", "teardown")
    /\ \/ ns' = Without(ns, c.slot) /\ Goto(p, "release")
       \/ /\ HostFaults
          /\ ns' \in {ns, Without(ns, c.slot)}
          /\ Goto(p, "release") \/ Goto(p, "releaseErr")
    /\ UNCHANGED <<taken, up>>

----------------------------------------------------------------------------
(* Provisioner *)

\* Mutant of Rollback: the failed Provision forgets to give the index back.
RollbackKeeps(p) ==
    /\ At(p, "provision", "rollback")
    /\ Goto(p, "err")
    /\ UNCHANGED <<taken, ns, up>>

\* Provision's error path: the index goes back, because Setup undid its work.
Rollback(p) ==
    /\ At(p, "provision", "rollback")
    /\ taken' = Released(call[p].id)
    /\ Goto(p, "err")
    /\ UNCHANGED <<ns, up>>

\* Deprovision leaves a sandbox this process never assigned a slot alone.
Lookup(p) ==
    /\ At(p, "deprovision", "lookup")
    /\ \/ \E s \in SlotsOf(call[p].id) : GotoWith(p, "teardown", s)
       \/ SlotsOf(call[p].id) = {} /\ Goto(p, "ok")
    /\ UNCHANGED <<taken, ns, up>>

\* Mutant of ReleaseSlot: only a teardown that worked gives the slot back.
ReleaseSlotIfClean(p) ==
    /\ \/ At(p, "deprovision", "release") /\ Goto(p, "ok") /\ taken' = Released(call[p].id)
       \/ At(p, "deprovision", "releaseErr") /\ Goto(p, "err") /\ taken' = taken
    /\ UNCHANGED <<ns, up>>

\* Released whether or not the teardown worked.
ReleaseSlot(p) ==
    /\ \/ At(p, "deprovision", "release") /\ Goto(p, "ok")
       \/ At(p, "deprovision", "releaseErr") /\ Goto(p, "err")
    /\ taken' = Released(call[p].id)
    /\ UNCHANGED <<ns, up>>

StartProvision(p, id) ==
    /\ call[p] = Idle
    /\ call' = [call EXCEPT ![p] =
                 [op |-> "provision", id |-> id, slot |-> NoSlot, pc |-> "reserve"]]
    /\ UNCHANGED <<taken, ns, up>>

StartDeprovision(p, id) ==
    /\ call[p] = Idle
    /\ call' = [call EXCEPT ![p] =
                 [op |-> "deprovision", id |-> id, slot |-> NoSlot, pc |-> "lookup"]]
    /\ up' = up \ {id}
    /\ UNCHANGED <<taken, ns>>

Finished(p) == call[p].op # "none" /\ call[p].pc \in {"ok", "err"}

Return(p) ==
    /\ Finished(p)
    /\ call' = [call EXCEPT ![p] = Idle]
    /\ UNCHANGED <<taken, ns, up>>

\* The steps a call takes on its own once it has been started.
CallStep(p) ==
    \/ Reserve(p) \/ NetnsAdd(p) \/ Build(p) \/ Undo(p) \/ Rollback(p)
    \/ Lookup(p) \/ Teardown(p) \/ ReleaseSlot(p)

\* noded restarts: the cache and the calls in progress are lost, the
\* namespaces stay on the host and may still serve their sandboxes.
Restart ==
    /\ taken' = [s \in {} |-> Unknown]
    /\ call' = [p \in Procs |-> Idle]
    /\ UNCHANGED <<ns, up>>

Busy(id) == \E p \in Procs : call[p].op # "none" /\ call[p].id = id

\* Somebody removes a namespace no sandbox uses (an operator, as Reserve's
\* comment allows for).
OperatorRemoves(s) ==
    /\ s \in DOMAIN ns
    /\ ns[s] \notin up /\ ~Busy(ns[s])
    /\ ns' = Without(ns, s)
    /\ UNCHANGED <<taken, call, up>>

Environment == Restart \/ \E s \in Slots : OperatorRemoves(s)

\* Callers that never overlap two calls for one sandbox, and that provision
\* a sandbox only when it has no network.
SerialNext ==
    \/ \E p \in Procs : CallStep(p) \/ Return(p)
    \/ \E p \in Procs, id \in Ids \ up : ~Busy(id) /\ StartProvision(p, id)
    \/ \E p \in Procs, id \in Ids : ~Busy(id) /\ StartDeprovision(p, id)
    \/ Environment

SerialSpec == NetInit /\ [][SerialNext]_netVars

----------------------------------------------------------------------------
(* Properties *)

\* A sandbox that was given a network still has the namespace built for it,
\* and no other sandbox was given the same slot: Setup never builds on, and
\* Teardown never removes, a namespace that serves somebody else
\* (alloc.go: "reassigning an index that is still in use gives two sandboxes
\* the same veth addresses").
NetworkKept == \A id \in up : \E s \in DOMAIN ns : ns[s] = id

\* A slot handed to a sandbox is on the host only as that sandbox's own
\* namespace: the host and the cache never name two different owners.
OwnersAgree ==
    \A s \in DOMAIN taken \cap DOMAIN ns : taken[s] \in Ids => ns[s] = taken[s]

\* A slot is held for a sandbox only while something will give it back: the
\* sandbox is up or one of its calls is still running.
NoSlotLeak == \A s \in DOMAIN taken : taken[s] \in Ids =>
                 taken[s] \in up \/ Busy(taken[s])

\* alloc.go says of the cache "a stale cache cannot cause a double assignment
\* -- only a slower search", and provision.go that a half-failed teardown does
\* not "cost the node a slot until it restarted": an adopted slot would be
\* reusable as soon as its namespace is gone from the host.
AdoptedSlotComesBack ==
    \A s \in DOMAIN taken : taken[s] = Unknown => s \in DOMAIN ns
=============================================================================
