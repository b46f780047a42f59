----------------------------- MODULE Containers -----------------------------
(***************************************************************************)
(* The tiers that are not microVMs. OCIRuntime (oci_linux.go,              *)
(* oci_mmds_linux.go, image/mount_linux.go) runs a sandbox as a container: *)
(* a directory, a mounted rootfs device, a metadata service in the         *)
(* sandbox's namespace and the container itself, which a failed create     *)
(* takes down in reverse. LocalRuntime (local.go) runs the agent as a      *)
(* process. Both the metadata service and a microVM's process are started  *)
(* from a thread that enters the sandbox's namespace (netns_linux.go). The *)
(* manager may destroy a sandbox whose create is not over.                 *)
(* The OCI runtime binary, mount(2) and ip(8) are external and may fail.   *)
(***************************************************************************)
EXTENDS Integers, FiniteSets

CONSTANTS
    OciBoxes, LocalBoxes,
    Vmms,           \* microVMs whose process is started in their namespace
    MaxEnds,        \* bound: Destroy calls for one sandbox
    MaxCtrFaults,   \* bound: operations of a create or pause that fail
    MaxUndoFaults   \* bound: operations of a clean-up that fail

VARIABLES
    ctrJob,      \* of each sandbox, how far its Create is
    holds,       \* of each sandbox, what exists of it on the host
    container,   \* of each sandbox: "none", "running", "paused"
    entry,       \* OCIRuntime.sandboxes, LocalRuntime.procs
    ending,      \* of each sandbox, how far a Destroy is, and whether it took an entry
    ends,        \* Destroy calls of each sandbox
    straying,    \* threads of Go's pool left in a sandbox's namespace
    vmm,         \* of each microVM, whether its process runs and whether its start was reported
    agentProc,   \* of each local sandbox, its agent: "none", "running", "stopped", "killed"
    ctrFaults, undoFaults,
    stuck        \* history: sandboxes whose container a failed run left, or a delete did not remove

ctrVars == <<vmm, ctrJob, holds, container, entry, ending, ends, straying, agentProc, ctrFaults, undoFaults, stuck>>

CtrBoxes == OciBoxes \cup LocalBoxes
NoEnd == [pc |-> "none", took |-> FALSE]

CtrInit ==
    /\ ctrJob = [c \in CtrBoxes |-> "idle"] /\ holds = [c \in CtrBoxes |-> {}] /\ container = [c \in CtrBoxes |-> "none"]
    /\ entry = {} /\ ending = [c \in CtrBoxes |-> NoEnd] /\ ends = [c \in CtrBoxes |-> 0]
    /\ vmm = [v \in Vmms |-> [runs |-> FALSE, told |-> "nothing"]]
    /\ straying = 0 /\ agentProc = [c \in LocalBoxes |-> "none"] /\ ctrFaults = 0 /\ undoFaults = 0 /\ stuck = {}

CtrFault == ctrFaults < MaxCtrFaults /\ ctrFaults' = ctrFaults + 1
\* The clean-up operations that fail in one clean-up.
UndoFails(flaws) == undoFaults + Cardinality(flaws) <= MaxUndoFaults /\ undoFaults' = undoFaults + Cardinality(flaws)
JobGo(c, pc) == ctrJob' = [ctrJob EXCEPT ![c] = pc]

-----------------------------------------------------------------------------
\* OCIRuntime.Create

\* A step that makes something, or fails and leads to the clean-up.
Makes(c, at, thing, next) ==
    /\ c \in OciBoxes /\ ctrJob[c] = at
    /\ \/ holds' = [holds EXCEPT ![c] = @ \cup {thing}] /\ JobGo(c, next) /\ UNCHANGED ctrFaults
       \/ JobGo(c, "undo") /\ CtrFault /\ UNCHANGED holds
    /\ UNCHANGED <<container, entry, ending, ends, straying, agentProc, undoFaults, stuck>>

\* No namespace or no token is refused before anything exists.
MakeBoxDir(c) == Makes(c, "idle", "dir", "prepare")
PrepareRootfs(c) == Makes(c, "prepare", "device", "mount")
\* MountDir; when it fails Create releases the rootfs itself.
MountRootfs(c) ==
    /\ c \in OciBoxes /\ ctrJob[c] = "mount"
    /\ \/ holds' = [holds EXCEPT ![c] = @ \cup {"mount"}] /\ JobGo(c, "bundle") /\ UNCHANGED <<ctrFaults, undoFaults>>
       \/ /\ JobGo(c, "undo") /\ CtrFault
          /\ \E flaws \in SUBSET {"device"} : holds' = [holds EXCEPT ![c] = @ \ ({"device"} \ flaws)] /\ UndoFails(flaws)
    /\ UNCHANGED <<container, entry, ending, ends, straying, agentProc, stuck>>
\* The agent, the resolver, whose failure is only logged, and the bundle's config.
WriteBundle(c) == Makes(c, "bundle", "dir", "addr")
AddMMDSAddr(c) == Makes(c, "addr", "addr", "listen")

\* listenInNetns, startInNetns: a thread that could not come back from the sandbox's
\* namespace stays locked and dies with its goroutine.
ToPool(entered, back) == entered => back
\* listenInNetns: setns in, listen, setns back; a listener that was opened is reported.
ListenInNetns(c) ==
    /\ c \in OciBoxes /\ ctrJob[c] = "listen"
    /\ \E entered, opened, back \in BOOLEAN :
          /\ IF entered /\ opened
             THEN /\ holds' = [holds EXCEPT ![c] = @ \cup {"listener"}] /\ JobGo(c, "run") /\ UNCHANGED undoFaults
                  /\ IF back THEN UNCHANGED ctrFaults ELSE CtrFault
             ELSE /\ CtrFault /\ JobGo(c, "undo")
                  /\ \E flaws \in SUBSET {"addr"} : holds' = [holds EXCEPT ![c] = @ \ ({"addr"} \ flaws)] /\ UndoFails(flaws)
          /\ straying' = straying + IF entered /\ ~back /\ ToPool(entered, back) THEN 1 ELSE 0
    /\ UNCHANGED <<container, entry, ending, ends, agentProc, stuck>>

StartReported(entered, started, back) == entered /\ started
\* startInNetns: setns in, fork, setns back; a process that was started is reported.
StartInNetns(v) ==
    /\ vmm[v].told = "nothing"
    /\ \E entered, started, back \in BOOLEAN :
          /\ IF entered /\ started /\ back THEN UNCHANGED ctrFaults ELSE CtrFault
          /\ vmm' = [vmm EXCEPT ![v] = [runs |-> entered /\ started,
                                        told |-> IF StartReported(entered, started, back) THEN "started" ELSE "failed"]]
          /\ straying' = straying + IF entered /\ ~back /\ ToPool(entered, back) THEN 1 ELSE 0
    /\ UNCHANGED <<ctrJob, holds, container, entry, ending, ends, agentProc, undoFaults, stuck>>

\* `run --detach`; cut short, it may have started the container all the same.
RunContainer(c) ==
    /\ c \in OciBoxes /\ ctrJob[c] = "run"
    /\ \/ container' = [container EXCEPT ![c] = "running"] /\ JobGo(c, "record") /\ UNCHANGED <<ctrFaults, stuck>>
       \/ JobGo(c, "undo") /\ CtrFault /\ UNCHANGED <<container, stuck>>
       \/ /\ JobGo(c, "undo") /\ CtrFault
          /\ container' = [container EXCEPT ![c] = "running"] /\ stuck' = stuck \cup {c}
    /\ UNCHANGED <<holds, entry, ending, ends, straying, agentProc, undoFaults>>
Record(c) ==
    /\ c \in OciBoxes /\ ctrJob[c] = "record" /\ entry' = entry \cup {c} /\ JobGo(c, "done")
    /\ UNCHANGED <<holds, container, ending, ends, straying, agentProc, ctrFaults, undoFaults, stuck>>

\* stopMMDS, then MountDir's release, then RemoveAll: after a failed unmount the device is
\* kept, and the mount point cannot be removed; a rootfs a container still uses is detached
\* lazily, which counts as unmounted.
Cleared(c, flaws) ==
    (holds[c] \cap flaws) \cup (CASE "mount" \in flaws -> {"device", "dir"}
                                [] "mount" \in holds[c] \ flaws /\ container[c] # "none" -> {"lazy"}
                                [] OTHER -> {})
Flaws(c) == SUBSET (holds[c] \cap {"addr", "mount", "device", "dir"})

\* Mutant of UndoContainer: the metadata service was started outside the clean-up.
UndoContainerServing(c) ==
    /\ c \in OciBoxes /\ ctrJob[c] = "undo" /\ JobGo(c, "done")
    /\ \E flaws \in Flaws(c) : holds' = [holds EXCEPT ![c] = Cleared(c, flaws) \cup (@ \cap {"addr", "listener"})] /\ UndoFails(flaws)
    /\ UNCHANGED <<container, entry, ending, ends, straying, agentProc, ctrFaults, stuck>>
\* The deferred clean-up of a Create that failed.
UndoContainer(c) ==
    /\ c \in OciBoxes /\ ctrJob[c] = "undo" /\ JobGo(c, "done")
    /\ \E flaws \in Flaws(c) : holds' = [holds EXCEPT ![c] = Cleared(c, flaws)] /\ UndoFails(flaws)
    /\ UNCHANGED <<container, entry, ending, ends, straying, agentProc, ctrFaults, stuck>>

-----------------------------------------------------------------------------
\* OCIRuntime.Destroy, Pause, Resume

TakeEntry(c) ==
    /\ c \in OciBoxes /\ ending[c].pc = "none" /\ ctrJob[c] # "idle" /\ ends[c] < MaxEnds
    /\ ending' = [ending EXCEPT ![c] = [pc |-> "delete", took |-> c \in entry]] /\ entry' = entry \ {c}
    /\ ends' = [ends EXCEPT ![c] = @ + 1]
    /\ UNCHANGED <<ctrJob, holds, container, straying, agentProc, ctrFaults, undoFaults, stuck>>
\* `delete --force`, and that there is no such container is no failure.
DeleteContainer(c) ==
    /\ ending[c].pc = "delete"
    /\ ending' = [ending EXCEPT ![c] = IF ending[c].took THEN [@ EXCEPT !.pc = "teardown"] ELSE NoEnd]
    /\ \/ container' = [container EXCEPT ![c] = "none"] /\ holds' = [holds EXCEPT ![c] = @ \ {"lazy"}] /\ UNCHANGED <<undoFaults, stuck>>
       \/ container[c] # "none" /\ UndoFails({"container"}) /\ stuck' = stuck \cup {c} /\ UNCHANGED <<container, holds>>
    /\ UNCHANGED <<ctrJob, entry, ends, straying, agentProc, ctrFaults>>
TearDownBox(c) ==
    /\ ending[c].pc = "teardown" /\ ending' = [ending EXCEPT ![c] = NoEnd]
    /\ \E flaws \in Flaws(c) : holds' = [holds EXCEPT ![c] = Cleared(c, flaws)] /\ UndoFails(flaws)
    /\ UNCHANGED <<ctrJob, container, entry, ends, straying, agentProc, ctrFaults, stuck>>
\* Pause and Resume, which look no entry up before the command.
PauseContainer(c) ==
    /\ ctrJob[c] = "done" /\ c \notin stuck /\ container[c] # "none"
    /\ container' = [container EXCEPT ![c] = IF @ = "running" THEN "paused" ELSE "running"]
    /\ UNCHANGED <<ctrJob, holds, entry, ending, ends, straying, agentProc, ctrFaults, undoFaults, stuck>>

-----------------------------------------------------------------------------
\* LocalRuntime

\* create up to the started agent; only a checkpoint that does not unpack removes what exists.
LocalStarts(c) ==
    /\ c \in LocalBoxes /\ ctrJob[c] = "idle"
    /\ \/ holds' = [holds EXCEPT ![c] = {"dir", "socket"}] /\ agentProc' = [agentProc EXCEPT ![c] = "running"]
          /\ JobGo(c, "socket") /\ UNCHANGED ctrFaults
       \/ /\ CtrFault /\ JobGo(c, "done") /\ UNCHANGED agentProc
          /\ \E left \in {{}, {"dir"}, {"dir", "socket"}} : holds' = [holds EXCEPT ![c] = left]
    /\ UNCHANGED <<container, entry, ending, ends, straying, undoFaults, stuck>>
\* The socket appears, or it does not in time, or the caller leaves: cleanupFailed.
LocalWaits(c) ==
    /\ c \in LocalBoxes /\ ctrJob[c] = "socket" /\ JobGo(c, "done")
    /\ \/ entry' = entry \cup {c} /\ UNCHANGED <<holds, agentProc, ctrFaults, undoFaults>>
       \/ /\ CtrFault /\ agentProc' = [agentProc EXCEPT ![c] = "killed"] /\ UNCHANGED entry
          /\ \E flaws \in SUBSET {"dir", "socket"} : holds' = [holds EXCEPT ![c] = flaws] /\ UndoFails(flaws)
    /\ UNCHANGED <<container, ending, ends, straying, stuck>>
\* SIGSTOP and SIGCONT to the group
LocalPause(c) ==
    /\ c \in entry \cap LocalBoxes /\ agentProc[c] \in {"running", "stopped"}
    /\ agentProc' = [agentProc EXCEPT ![c] = IF @ = "running" THEN "stopped" ELSE "running"]
    /\ UNCHANGED <<ctrJob, holds, container, entry, ending, ends, straying, ctrFaults, undoFaults, stuck>>
LocalSignal(c) ==
    /\ c \in entry \cap LocalBoxes /\ ending[c].pc = "none" /\ ends[c] < MaxEnds /\ ends' = [ends EXCEPT ![c] = @ + 1]
    /\ \E force \in BOOLEAN :
          /\ agentProc' = [agentProc EXCEPT ![c] = IF force THEN "killed" ELSE "running"]
          /\ ending' = [ending EXCEPT ![c] = [pc |-> IF force THEN "remove" ELSE "grace", took |-> TRUE]]
    /\ UNCHANGED <<ctrJob, holds, container, entry, straying, ctrFaults, undoFaults, stuck>>
\* SIGTERM ends it, or SIGKILL does after three seconds.
LocalGrace(c) ==
    /\ c \in LocalBoxes /\ ending[c].pc = "grace" /\ ending' = [ending EXCEPT ![c].pc = "remove"]
    /\ agentProc' = [agentProc EXCEPT ![c] = "killed"]
    /\ UNCHANGED <<ctrJob, holds, container, entry, ends, straying, ctrFaults, undoFaults, stuck>>
LocalRemove(c) ==
    /\ c \in LocalBoxes /\ ending[c].pc = "remove" /\ ending' = [ending EXCEPT ![c] = NoEnd]
    /\ entry' = entry \ {c} /\ \E flaws \in SUBSET {"dir", "socket"} : holds' = [holds EXCEPT ![c] = flaws] /\ UndoFails(flaws)
    /\ UNCHANGED <<ctrJob, container, ends, straying, agentProc, ctrFaults, stuck>>

BoxNext ==
    \E c \in CtrBoxes :
        \/ MakeBoxDir(c) \/ PrepareRootfs(c) \/ MountRootfs(c) \/ WriteBundle(c) \/ AddMMDSAddr(c) \/ ListenInNetns(c)
        \/ RunContainer(c) \/ Record(c) \/ UndoContainer(c) \/ TakeEntry(c) \/ DeleteContainer(c) \/ TearDownBox(c) \/ PauseContainer(c)
        \/ LocalStarts(c) \/ LocalWaits(c) \/ LocalPause(c) \/ LocalSignal(c) \/ LocalGrace(c) \/ LocalRemove(c)
CtrNext == (BoxNext /\ UNCHANGED vmm) \/ \E v \in Vmms : StartInNetns(v)
CtrSpec == CtrInit /\ [][CtrNext]_ctrVars

-----------------------------------------------------------------------------
CtrQuiet(c) == ctrJob[c] \in {"idle", "done"} /\ ending[c] = NoEnd /\ c \notin entry
\* Whatever fails, and wherever a Destroy cuts in: a device is never released under its mount,
\* nor a rootfs taken from under a container, but for one that a failed run left or a delete
\* did not remove, no thread of the pool is left in a sandbox's
\* namespace, and no process is started that its caller is not told of. And where no
\* clean-up operation itself fails: a container sandbox that no call is about and that is not
\* recorded has left nothing on the host, with the same exception; a local one no process.
ContainersSound ==
    /\ straying = 0 /\ \A v \in Vmms : vmm[v].runs => vmm[v].told = "started"
    /\ \A c \in OciBoxes : "mount" \in holds[c] => {"device", "dir"} \subseteq holds[c]
    /\ \A c \in OciBoxes \ stuck : container[c] # "none" => "mount" \in holds[c]
    /\ \A c \in OciBoxes \ stuck : CtrQuiet(c) /\ undoFaults = 0 => holds[c] = {} /\ container[c] = "none"
    /\ \A c \in LocalBoxes : CtrQuiet(c) => agentProc[c] \in {"none", "killed"}
\* MountDir: "doing so would detach a device the kernel still has mounted".
NeverDetachedMounted == \A c \in OciBoxes : "lazy" \in holds[c] => "device" \in holds[c]
\* Manager.dropFailed: "The runtime has already been cleaned up."
FailedLeavesNothing == \A c \in CtrBoxes : CtrQuiet(c) /\ undoFaults = 0 => holds[c] = {}
=============================================================================
