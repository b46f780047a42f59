---------------------------- MODULE Firecracker ----------------------------
(***************************************************************************)
(* What a sandbox holds on its host, and who gives it back: FCRuntime's    *)
(* create with its stack of undos (fc_linux.go, devmapper_linux.go,        *)
(* cgroup.go), Destroy (fc_lifecycle_linux.go), and, after noded died, the *)
(* sweep of empty cgroups at startup and the one pass of the reclaim       *)
(* package against the control plane's expected set (register.go,          *)
(* reclaim.go).                                                            *)
(*                                                                         *)
(* The kernel is external: a mapping that is open, a loop device under a   *)
(* mapping and a cgroup with a process in it cannot be removed; a          *)
(* directory always can.                                                   *)
(***************************************************************************)
EXTENDS Naturals, Sequences, FiniteSets, SequencesExt

CONSTANTS
    Boxes,         \* sandbox ids; all from one base image
    KillOnDeath,   \* VMMIsolation.KillOnNodedDeath
    MaxHostFaults, \* bound: host operations that fail
    MaxDeaths      \* bound: times noded dies

ASSUME FirecrackerAssumption ==
    KillOnDeath \in BOOLEAN /\ MaxHostFaults \in Nat /\ MaxDeaths \in Nat

VARIABLES
    host,      \* box -> what the host holds for it
    baseLoop,  \* whether the base image's loop device is attached
    baseRefs,  \* sharedBase.refs, in noded's memory
    vms,       \* FCRuntime.vms
    job,       \* box -> the create or destroy under way
    wanted,    \* sandboxes the control plane has on record for this node
    pass,      \* the reclaim pass
    excused,   \* boxes whose VMM outlived an attempt to undo its create
    hostFaults, deaths

fcVars == <<host, baseLoop, baseRefs, vms, job, wanted, pass, excused, hostFaults, deaths>>

\* vmm: "up", or "dying" once killed and not gone yet. open: the VMM has the
\* rootfs open. grouped: the VMM is in the sandbox's cgroup.
Bare == [dir |-> FALSE, cow |-> FALSE, mapping |-> FALSE, cgroup |-> FALSE,
         vmm |-> "none", open |-> FALSE, grouped |-> FALSE]
NoJob == [pc |-> "idle", todo |-> <<>>]
NoPass == [pc |-> "sync", expected |-> {}, todo |-> {}, ending |-> {}, unknown |-> {},
           alive |-> {}, held |-> {}, suspect |-> {}, fresh |-> {}, taken |-> {}]

HostInit ==
    /\ host = [s \in Boxes |-> Bare] /\ baseLoop = FALSE /\ baseRefs = 0
    /\ vms = {} /\ job = [s \in Boxes |-> [pc |-> "new", todo |-> <<>>]] /\ wanted = {} /\ pass = NoPass
    /\ excused = {} /\ hostFaults = 0 /\ deaths = 0

HostWorks == hostFaults' = hostFaults
HostFails == hostFaults < MaxHostFaults /\ hostFaults' = hostFaults + 1

JobAt(s, pc) == job[s].pc = pc
Goes(s, pc, todo) == job' = [job EXCEPT ![s] = [pc |-> pc, todo |-> todo]]
Gains(s, field) == host' = [host EXCEPT ![s][field] = TRUE]

----------------------------------------------------------------------------
(* create *)

\* The control plane records the sandbox, then asks for it. A create that
\* begins after the pass took the expected set is fresh to that pass.
Request(s) ==
    /\ JobAt(s, "new")
    /\ wanted' = wanted \cup {s} /\ Goes(s, "dir", <<>>)
    /\ pass' = IF pass.pc = "sync" THEN pass ELSE [pass EXCEPT !.fresh = @ \cup {s}]
    /\ UNCHANGED <<host, baseLoop, baseRefs, vms, excused, hostFaults, deaths>>

\* A step of create or of Prepare works and registers its undo, or fails, by
\* itself or because what it needs is gone, and the undos run, last first.
Works(s, pc, needs, next, undo) ==
    JobAt(s, pc) /\ needs /\ HostWorks /\ Goes(s, next, undo \o job[s].todo)
Breaks(s, pc, needs) ==
    /\ JobAt(s, pc) /\ Goes(s, "undo", job[s].todo)
    /\ IF needs THEN HostFails ELSE HostWorks

MakeDir(s) ==
    /\ \/ Works(s, "dir", TRUE, "base", <<"dir">>) /\ Gains(s, "dir")
       \/ Breaks(s, "dir", TRUE) /\ host' = host
    /\ UNCHANGED <<baseLoop, baseRefs, vms, wanted, pass, excused, deaths>>

\* acquireBase: the device is shared, adopted if a former noded left it, or
\* attached.
AcquireBase(s) ==
    /\ \/ /\ Works(s, "base", TRUE, "cow", <<"base">>)
          /\ baseRefs' = baseRefs + 1 /\ baseLoop' = TRUE
       \/ Breaks(s, "base", TRUE) /\ UNCHANGED <<baseLoop, baseRefs>>
    /\ UNCHANGED <<host, vms, wanted, pass, excused, deaths>>

\* createSparse and attachLoop.
AttachCow(s) ==
    /\ \/ Works(s, "cow", host[s].dir, "mapping", <<"cow">>) /\ Gains(s, "cow")
       \/ Breaks(s, "cow", host[s].dir) /\ host' = host
    /\ UNCHANGED <<baseLoop, baseRefs, vms, wanted, pass, excused, deaths>>

\* dmsetup create over the loop device; then the link to it in the directory.
CreateMapping(s) ==
    /\ \/ /\ Works(s, "mapping", host[s].cow, IF host[s].dir THEN "cgroup" ELSE "undo",
                   <<"mapping">>)
          /\ Gains(s, "mapping")
       \/ Breaks(s, "mapping", host[s].cow) /\ host' = host
    /\ UNCHANGED <<baseLoop, baseRefs, vms, wanted, pass, excused, deaths>>

\* createCgroup takes a group it half built down itself.
CreateCgroup(s) ==
    /\ \/ Works(s, "cgroup", host[s].dir, "fork", <<"cgroup">>) /\ Gains(s, "cgroup")
       \/ Breaks(s, "cgroup", host[s].dir) /\ host' = [host EXCEPT ![s].cgroup = FALSE]
    /\ UNCHANGED <<baseLoop, baseRefs, vms, wanted, pass, excused, deaths>>

\* startVMM forks the VMM in its network namespace.
Fork(s) ==
    /\ \/ /\ Works(s, "fork", host[s].dir, "group", <<>>)
          /\ host' = [host EXCEPT ![s].vmm = "up"]
       \/ Breaks(s, "fork", host[s].dir) /\ host' = host
    /\ UNCHANGED <<baseLoop, baseRefs, vms, wanted, pass, excused, deaths>>

\* The rest of startVMM: the group, then the limits. create registers killVMM
\* when startVMM has returned without an error, so a VMM forked by one that
\* fails is left running: Spared.
Spared(s) == excused' = excused \cup {s}
StartVMM(s) ==
    LET in == [host EXCEPT ![s].grouped = host[s].vmm # "none"]
    IN  /\ \/ Works(s, "group", TRUE, "boot", <<"kill">>) /\ host' = in /\ excused' = excused
           \/ Breaks(s, "group", TRUE) /\ host' \in {host, in} /\ Spared(s)
        /\ UNCHANGED <<baseLoop, baseRefs, vms, wanted, pass, deaths>>

\* waitAPIReady, then configureAndBoot or loadSnapshot: the VMM opens its
\* rootfs through the link in its directory, and the machine is on record.
Boot(s) ==
    LET ready == host[s].vmm = "up" /\ host[s].dir /\ host[s].mapping
    IN  /\ \/ /\ Works(s, "boot", ready, "idle", <<>>)
              /\ Gains(s, "open") /\ vms' = vms \cup {s}
           \/ Breaks(s, "boot", ready) /\ UNCHANGED <<host, vms>>
        /\ UNCHANGED <<baseLoop, baseRefs, wanted, pass, excused, deaths>>

----------------------------------------------------------------------------
(* Undoing: the stack of a create that failed, and Destroy *)

\* killVMM: SIGKILL to the group and two seconds for it to go.
Gone(h) == [h EXCEPT !.vmm = "none", !.open = FALSE, !.grouped = FALSE]
Kill(s) ==
    \/ host' = [host EXCEPT ![s] = Gone(@)] /\ UNCHANGED <<excused, hostFaults>>
    \/ /\ host[s].vmm # "none" /\ HostFails /\ Spared(s)
       /\ host' = [host EXCEPT ![s].vmm = "dying"]

\* What one undo leaves of h; the kernel refuses what is in use.
Dropped(h, op) ==
    IF op = "mapping" /\ ~h.open THEN [h EXCEPT !.mapping = FALSE]
    ELSE IF op = "cow" /\ ~h.mapping THEN [h EXCEPT !.cow = FALSE]
    ELSE IF op = "cgroup" /\ ~h.grouped THEN [h EXCEPT !.cgroup = FALSE]
    ELSE IF op = "dir" THEN [h EXCEPT !.dir = FALSE]
    ELSE h

\* releaseBase: the last reference detaches the device, if no mapping is on it.
ReleaseBase ==
    /\ baseRefs' = IF baseRefs > 0 THEN baseRefs - 1 ELSE 0
    /\ baseLoop' = (baseLoop /\ (baseRefs # 1 \/ \E t \in Boxes : host[t].mapping))

UndoCreate(s) ==
    /\ JobAt(s, "undo")
    /\ IF job[s].todo = <<>>
       THEN Goes(s, "idle", <<>>) /\ UNCHANGED <<host, baseLoop, baseRefs, excused, hostFaults>>
       ELSE LET op == Head(job[s].todo)
            IN  /\ Goes(s, "undo", Tail(job[s].todo))
                /\ IF op = "kill" THEN Kill(s)
                   ELSE host' = [host EXCEPT ![s] = Dropped(@, op)] /\ UNCHANGED <<excused, hostFaults>>
                /\ IF op = "base" THEN ReleaseBase ELSE UNCHANGED <<baseLoop, baseRefs>>
    /\ UNCHANGED <<vms, wanted, pass, deaths>>

\* Mutant of DestroyOrder: the group goes first, while the VMM is in it.
DestroyGroupFirst == <<"cgroup", "kill", "mapping", "cow", "base", "dir">>

\* Destroy takes the machine off the record, then undoes the rest past any
\* failure: the VMM, Rootfs.release, the directory, the group.
DestroyOrder == <<"kill", "mapping", "cow", "base", "dir", "cgroup">>
Destroy(s) ==
    /\ s \in vms /\ vms' = vms \ {s}
    /\ Goes(s, "undo", DestroyOrder)
    /\ UNCHANGED <<host, baseLoop, baseRefs, wanted, pass, excused, hostFaults, deaths>>

\* The control plane drops the sandbox from its records: destroyed, or lost.
Forget(s) ==
    /\ s \in wanted /\ JobAt(s, "idle") /\ wanted' = wanted \ {s}
    /\ UNCHANGED <<host, baseLoop, baseRefs, vms, job, pass, excused, hostFaults, deaths>>

\* A VMM that was killed goes at last, or a guest powers itself off.
VMMExits(s) ==
    /\ host[s].vmm = "dying" \/ s \in vms
    /\ host[s].vmm # "none"
    /\ host' = [host EXCEPT ![s] = Gone(@)]
    /\ UNCHANGED <<baseLoop, baseRefs, vms, job, wanted, pass, excused, hostFaults, deaths>>

----------------------------------------------------------------------------
(* noded dies and starts again *)

\* What the VMMs do depends on Pdeathsig. NewFCTier sweeps the groups that
\* hold no process before anything is created.
SweepOrphans(h) == [h EXCEPT !.cgroup = h.cgroup /\ h.grouped]
NodedDies ==
    /\ deaths < MaxDeaths /\ deaths' = deaths + 1
    /\ host' = [s \in Boxes |-> SweepOrphans(
                  IF KillOnDeath /\ host[s].vmm = "up" THEN [host[s] EXCEPT !.vmm = "dying"] ELSE host[s])]
    /\ excused' = excused \cup {s \in Boxes : host[s] # Bare}
    /\ baseRefs' = 0 /\ vms' = {} /\ pass' = [NoPass EXCEPT !.taken = pass.taken]
    /\ job' = [s \in Boxes |-> IF JobAt(s, "new") THEN job[s] ELSE NoJob]
    /\ UNCHANGED <<baseLoop, wanted, hostFaults>>

----------------------------------------------------------------------------
(* reconcile, then reclaimHost, once per process *)

PassAt(pc) == pass.pc = pc
PassOnly == UNCHANGED <<host, baseLoop, baseRefs, vms, job, wanted, excused, deaths>>

\* The answer of SyncState, then Statuses: what is not expected is destroyed.
SyncState ==
    /\ PassAt("sync") /\ HostWorks
    /\ pass' = [pass EXCEPT !.pc = "statuses", !.expected = wanted]
    /\ PassOnly
Statuses ==
    /\ PassAt("statuses") /\ HostWorks
    /\ pass' = [pass EXCEPT !.pc = "orphans", !.todo = vms \ pass.expected]
    /\ PassOnly
DestroyOrphan(s) ==
    /\ PassAt("orphans") /\ s \in pass.todo /\ \A t \in pass.ending : JobAt(t, "idle")
    /\ pass' = [pass EXCEPT !.todo = @ \ {s}, !.ending = @ \cup {s}]
    /\ IF s \in vms THEN vms' = vms \ {s} /\ Goes(s, "undo", DestroyOrder)
       ELSE UNCHANGED <<vms, job>>
    /\ UNCHANGED <<host, baseLoop, baseRefs, wanted, excused, hostFaults, deaths>>

\* A stage lists a kind of resource and looks at each; a list that cannot be
\* read is remembered as unknown.
List(pc, next, over, kind) ==
    /\ PassAt(pc) /\ pass.todo = {} /\ \A t \in pass.ending : JobAt(t, "idle")
    /\ \/ HostWorks /\ pass' = [pass EXCEPT !.pc = next, !.todo = {s \in Boxes : host[s][kind]}]
       \/ HostFails /\ pass' = [pass EXCEPT !.pc = over, !.unknown = @ \cup {kind}]
    /\ PassOnly
ListDMNames == List("orphans", "mappings", "loopsList", "mapping")
ListLoopDevices == List("mappings", "loops", "dirsList", "cow") \/ List("loopsList", "loops", "dirsList", "cow")
ListSandboxDirs == List("loops", "dirs", "done", "dir") \/ List("dirsList", "dirs", "done", "dir")

\* Left alone: as expected, or reported.
Leaves(s, mark, reported) ==
    /\ pass' = [pass EXCEPT !.todo = @ \ {s}, ![mark] = @ \cup {s},
                            !.suspect = IF reported THEN @ \cup {s} ELSE @]
    /\ host' = host
Takes(s, h) ==
    /\ pass' = [pass EXCEPT !.todo = @ \ {s}, !.taken = @ \cup (pass.fresh \cap {s})]
    /\ host' = [host EXCEPT ![s] = h]

\* RemoveDM fails on a mapping that is open; one that is gone is a success.
RemoveMapping(s) ==
    /\ PassAt("mappings") /\ s \in pass.todo
    /\ IF s \in pass.expected THEN Leaves(s, "alive", FALSE) /\ HostWorks
       ELSE \/ ~host[s].open /\ Takes(s, Dropped(host[s], "mapping")) /\ HostWorks
            \/ Leaves(s, "alive", TRUE) /\ IF host[s].open THEN HostWorks ELSE HostFails
    /\ UNCHANGED <<baseLoop, baseRefs, vms, job, wanted, excused, deaths>>

\* A loop device goes when its mapping is known to be gone.
LoopReferenced(s) == "mapping" \in pass.unknown \/ s \in pass.alive
DetachLoop(s) ==
    /\ PassAt("loops") /\ s \in pass.todo
    /\ IF s \in pass.expected \/ LoopReferenced(s)
       THEN Leaves(s, "held", s \notin pass.expected) /\ HostWorks
       ELSE \/ ~host[s].mapping /\ Takes(s, Dropped(host[s], "cow")) /\ HostWorks
            \/ Leaves(s, "held", TRUE) /\ IF host[s].mapping THEN HostWorks ELSE HostFails
    /\ UNCHANGED <<baseLoop, baseRefs, vms, job, wanted, excused, deaths>>

\* A directory goes when neither a mapping nor a loop device refers to it.
DirReferenced(s) == pass.unknown # {} \/ s \in pass.alive \/ s \in pass.held
RemoveSandboxDir(s) ==
    /\ PassAt("dirs") /\ s \in pass.todo
    /\ IF s \in pass.expected \/ DirReferenced(s)
       THEN Leaves(s, "held", s \notin pass.expected) /\ HostWorks
       ELSE \/ Takes(s, Dropped(host[s], "dir")) /\ HostWorks
            \/ Leaves(s, "held", TRUE) /\ HostFails
    /\ UNCHANGED <<baseLoop, baseRefs, vms, job, wanted, excused, deaths>>
Publish ==
    /\ PassAt("dirs") /\ pass.todo = {} /\ pass' = [pass EXCEPT !.pc = "done"] /\ HostWorks
    /\ PassOnly

BoxStep(s) ==
    \/ MakeDir(s) \/ AcquireBase(s) \/ AttachCow(s) \/ CreateMapping(s) \/ CreateCgroup(s)
    \/ Fork(s) \/ StartVMM(s) \/ Boot(s) \/ UndoCreate(s)
PassStep ==
    \/ SyncState \/ Statuses \/ ListDMNames \/ ListLoopDevices \/ ListSandboxDirs \/ Publish
    \/ \E s \in Boxes : DestroyOrphan(s) \/ RemoveMapping(s) \/ DetachLoop(s) \/ RemoveSandboxDir(s)
HostNext ==
    \/ \E s \in Boxes : Request(s) \/ BoxStep(s) \/ Destroy(s) \/ Forget(s) \/ VMMExits(s)
    \/ PassStep \/ NodedDies

HostSpec == HostInit /\ [][HostNext]_fcVars

----------------------------------------------------------------------------
(* Properties *)

\* create: "a failed create leaves no VMM process, no device and no files", and
\* Destroy releases everything it held, whichever step failed; except for a
\* VMM that outlived the attempt (killed and not gone in two seconds, or left
\* running by a startVMM that failed after the fork) and what noded left when
\* it died.
LeavesNothing ==
    \A s \in Boxes : JobAt(s, "idle") /\ s \notin vms /\ s \notin excused => host[s] = Bare

\* The same for a VMM that a failed create forked: killVMM is on the "caller's
\* cleanup stack already" (startVMM).
FailedCreateKills ==
    \A s \in Boxes : JobAt(s, "idle") /\ s \notin vms /\ deaths = 0 => host[s].vmm # "up"

\* Rootfs.release and acquireBase: the count of the shared base is that of the
\* creates and machines that hold it, and whatever noded does, a mapping never
\* loses the device under it.
BaseCounted ==
    /\ baseRefs = Cardinality({s \in Boxes : s \in vms \/ Contains(job[s].todo, "base")})
    /\ baseRefs > 0 \/ (\E s \in Boxes : host[s].mapping) => baseLoop

\* reclaim: a guest that outlived the noded that started it keeps the store
\* under its rootfs, though the control plane expects it no more and though a
\* list could not be read or a removal failed. The exception is a sandbox whose
\* create began after the expected set was read, of which the pass took
\* something before the guest had it open.
GuestKeepsStore ==
    \A s \in Boxes : host[s].vmm = "up" /\ host[s].open /\ s \notin pass.taken =>
        host[s].dir /\ host[s].cow /\ host[s].mapping /\ host[s].grouped /\ host[s].cgroup

\* What a sandbox holds is exactly what somebody will give back.
HostResourcesExact == LeavesNothing /\ BaseCounted

\* dirs: "removable once nothing on the host references its contents".
NoStoreTaken ==
    \A s \in Boxes : host[s].vmm = "up" /\ host[s].open => host[s].dir

\* reclaim: what a pass leaves on the host is either accounted for by a sandbox
\* or reported.
LeftoverReported ==
    PassAt("done") => \A s \in Boxes :
        \/ s \in pass.expected \cup pass.fresh \cup pass.suspect \/ pass.unknown # {}
        \/ ~(host[s].dir \/ host[s].cow \/ host[s].mapping)

\* A reclaim pass neither takes what a guest uses nor forgets what it leaves.
ReclaimSound == GuestKeepsStore /\ LeftoverReported
=============================================================================
