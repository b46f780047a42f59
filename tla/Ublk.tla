-------------------------------- MODULE Ublk --------------------------------
(***************************************************************************)
(* Sandbox disks served over ublk (internal/node/image): the admission of  *)
(* UblkProvider against ublks_max, the sequence of control commands that   *)
(* attaches a device and the one that takes it down, with the control ring *)
(* they share, and the loop that serves a device's requests, inline or on  *)
(* workers when the backend may read over the network.                     *)
(*                                                                         *)
(* The kernel's driver is modelled from what the code relies on: START_DEV *)
(* waits for every slot to be armed and scans the partitions of the new    *)
(* disk, STOP_DEV waits for the requests in flight and then completes the  *)
(* armed slots with ENODEV.                                                *)
(***************************************************************************)
EXTENDS Integers, FiniteSets

CONSTANTS
    Disks,              \* sandboxes with a ublk disk
    Counted,            \* those of UblkProvider; the overlaybd provider has no admission
    SlowDisks,          \* those whose backend MayBlock
    Tags,               \* the slots of a queue
    UblksMax,           \* /sys/module/ublk_drv/parameters/ublks_max
    MaxIO,              \* requests a guest issues, in all
    MaxUblkFaults

ASSUME UblkAssumption ==
    /\ Counted \subseteq Disks /\ SlowDisks \subseteq Disks
    /\ UblksMax \in Nat /\ MaxIO \in Nat /\ MaxUblkFaults \in Nat

VARIABLES
    disk,         \* of each sandbox: where its call is, and its device and queue
    ctl,          \* the holder of ublkControl.mu across a command that waits
    inFlight,     \* UblkProvider.inFlight
    issued,       \* requests issued so far
    ublkFaults

ublkVars == <<disk, ctl, inFlight, issued, ublkFaults>>

NoHolder == "nobody"
Unarmed == [t \in Tags |-> "unarmed"]
\* pc: the call. kdev: the device in the kernel. loop: ublkQueue.serve. stop: the stop
\* channel is closed. mapped: the descriptors are. broken: STOP_DEV or DEL_DEV failed.
NoDisk == [pc |-> "idle", kdev |-> "none", slot |-> Unarmed, loop |-> "off", stop |-> FALSE,
           pending |-> 0, mapped |-> FALSE, removing |-> FALSE, broken |-> FALSE, panic |-> FALSE]

UblkInit ==
    /\ disk = [b \in Disks |-> NoDisk] /\ ctl = NoHolder
    /\ inFlight = 0 /\ issued = 0 /\ ublkFaults = 0

DFault == ublkFaults < MaxUblkFaults /\ ublkFaults' = ublkFaults + 1
DNoFault == UNCHANGED ublkFaults
Set(b, new) == disk' = [disk EXCEPT ![b] = new]
Pc(b, pc) == Set(b, [disk[b] EXCEPT !.pc = pc])
Has(b, state) == {t \in Tags : disk[b].slot[t] \in state}
InKernel == {"req", "serving", "queued", "working", "done", "lost"}
Free == ctl = NoHolder

(***************************************************************************)
(* Prepare and attachUblk.                                                 *)
(***************************************************************************)
\* admit, and what comes before the device: the directory and the backend.
Admit(b) ==
    /\ disk[b].pc = "idle"
    /\ b \in Counted => inFlight < UblksMax
    /\ inFlight' = IF b \in Counted THEN inFlight + 1 ELSE inFlight
    /\ Set(b, [NoDisk EXCEPT !.pc = "add"])
    /\ UNCHANGED <<ctl, issued, ublkFaults>>

\* GET_FEATURES and ADD_DEV. Nothing to undo when they fail.
AddDevice(b) ==
    /\ disk[b].pc = "add" /\ Free
    /\ \/ DNoFault /\ Set(b, [disk[b] EXCEPT !.pc = "open", !.kdev = "added"])
       \/ DFault /\ Pc(b, "backend")
    /\ UNCHANGED <<ctl, inFlight, issued>>

\* waitAndOpen of the char device, then newUblkQueue, whose Stop is undone from here on.
OpenQueue(b) ==
    /\ disk[b].pc = "open"
    /\ \/ DNoFault /\ Set(b, [disk[b] EXCEPT !.pc = "arm", !.mapped = TRUE, !.loop = "arm"])
       \/ DFault /\ Pc(b, "delete")
    /\ UNCHANGED <<ctl, inFlight, issued>>

\* Start: the serve goroutine arms every slot on its own thread and reports.
Arm(b) ==
    /\ disk[b].pc = "arm" /\ disk[b].loop = "arm"
    /\ \/ DNoFault /\ Set(b, [disk[b] EXCEPT !.pc = "params", !.loop = "top", !.slot = [t \in Tags |-> "armed"]])
       \/ DFault /\ Set(b, [disk[b] EXCEPT !.pc = "close stop", !.loop = "ended"])
    /\ UNCHANGED <<ctl, inFlight, issued>>

SetParams(b) ==
    /\ disk[b].pc = "params" /\ Free
    /\ \/ DNoFault /\ Pc(b, "start")
       \/ DFault /\ Pc(b, "close stop")
    /\ UNCHANGED <<ctl, inFlight, issued>>

\* startDevice: the disk appears and its partitions are scanned before START_DEV returns.
StartDevice(b) ==
    /\ disk[b].pc = "start" /\ Free /\ Has(b, {"armed"}) = Tags
    /\ \/ /\ DNoFault /\ ctl' = b
          /\ \E t \in Tags : Set(b, [disk[b] EXCEPT !.pc = "starting", !.kdev = "live", !.slot[t] = "req"])
       \/ DFault /\ Pc(b, "close stop") /\ UNCHANGED ctl
    /\ UNCHANGED <<inFlight, issued>>
DeviceStarted(b) ==
    /\ disk[b].pc = "starting" /\ Has(b, InKernel) = {}
    /\ ctl' = NoHolder /\ Pc(b, "node")
    /\ UNCHANGED <<inFlight, issued, ublkFaults>>

\* waitForPath of the block device, the entry in attached and the link under the
\* sandbox's directory.
NodeAppears(b) ==
    /\ disk[b].pc = "node"
    /\ \/ DNoFault /\ Pc(b, "up")
       \/ DFault /\ Pc(b, "stop")
    /\ UNCHANGED <<ctl, inFlight, issued>>

(***************************************************************************)
(* detach, which attachUblk's undo list repeats from where it got to.      *)
(***************************************************************************)
Dec == IF inFlight > 0 THEN inFlight - 1 ELSE 0

\* Rootfs.release gives the slot back first, and then takes the device down.
Release(b) ==
    /\ disk[b].pc = "up" /\ Set(b, [disk[b] EXCEPT !.pc = "stop", !.removing = TRUE])
    /\ inFlight' = IF b \in Counted THEN Dec ELSE inFlight
    /\ UNCHANGED <<ctl, issued, ublkFaults>>

\* Mutant of StopDevice: the queue is stopped before the device is.
StopQueueFirst(b) ==
    /\ disk[b].pc = "stop" /\ Free /\ Pc(b, "close stop")
    /\ UNCHANGED <<ctl, inFlight, issued, ublkFaults>>
\* stopDevice: no request comes in any more. Failing does not skip the rest.
StopDevice(b) ==
    /\ disk[b].pc = "stop" /\ Free
    /\ \/ DNoFault /\ ctl' = b /\ Set(b, [disk[b] EXCEPT !.pc = "stopping", !.kdev = "stopping"])
       \/ DFault /\ Set(b, [disk[b] EXCEPT !.pc = "close stop", !.broken = TRUE]) /\ UNCHANGED ctl
    /\ UNCHANGED <<inFlight, issued>>
DeviceStopped(b) ==
    /\ disk[b].pc = "stopping" /\ Has(b, InKernel) = {}
    /\ ctl' = NoHolder
    /\ Set(b, [disk[b] EXCEPT !.pc = "close stop", !.kdev = "stopped",
                              !.slot = [t \in Tags |-> IF @[t] = "armed" THEN "abort" ELSE @[t]]])
    /\ UNCHANGED <<inFlight, issued, ublkFaults>>

\* ublkQueue.Stop: closes the channel, waits for the loop, drops mapping and ring.
CloseStop(b) ==
    /\ disk[b].pc = "close stop"
    /\ Set(b, [disk[b] EXCEPT !.pc = "join", !.stop = TRUE])
    /\ UNCHANGED <<ctl, inFlight, issued, ublkFaults>>
Joined(b) ==
    /\ disk[b].pc = "join" /\ disk[b].loop = "ended"
    /\ Set(b, [disk[b] EXCEPT !.pc = "delete", !.mapped = FALSE])
    /\ UNCHANGED <<ctl, inFlight, issued, ublkFaults>>

\* The char device is closed and the id released.
DeleteDevice(b) ==
    /\ disk[b].pc = "delete" /\ Free
    /\ \/ DNoFault /\ Set(b, [disk[b] EXCEPT !.pc = "backend", !.kdev = "none"])
       \/ DFault /\ Set(b, [disk[b] EXCEPT !.pc = "backend", !.broken = TRUE])
    /\ UNCHANGED <<ctl, inFlight, issued>>

\* The backend and the directory; a failed create gives its slot back last.
CloseBackend(b) ==
    /\ disk[b].pc = "backend"
    /\ Set(b, [disk[b] EXCEPT !.pc = IF disk[b].broken THEN "leaked" ELSE "idle"])
    /\ inFlight' = IF b \in Counted /\ ~disk[b].removing THEN Dec ELSE inFlight
    /\ UNCHANGED <<ctl, issued, ublkFaults>>

(***************************************************************************)
(* The guest, and the loop that serves it.                                 *)
(***************************************************************************)
Issue(b, t) ==
    /\ issued < MaxIO /\ disk[b].kdev = "live" /\ disk[b].slot[t] = "armed"
    /\ Set(b, [disk[b] EXCEPT !.slot[t] = "req"]) /\ issued' = issued + 1
    /\ UNCHANGED <<ctl, inFlight, ublkFaults>>

\* The top of the loop: a closed stop channel ends it, every result that is ready is
\* committed and its slot armed again. A commit that fails ends the loop.
LoopTop(b) ==
    /\ disk[b].loop = "top"
    /\ LET ready == Has(b, {"done"}) IN
       \/ DNoFault /\ disk[b].stop /\ Set(b, [disk[b] EXCEPT !.loop = "ended"])
       \/ /\ DNoFault /\ ~disk[b].stop
          /\ Set(b, [disk[b] EXCEPT !.loop = "next", !.pending = @ - Cardinality(ready),
                                    !.slot = [t \in Tags |-> IF t \in ready THEN "armed" ELSE @[t]]])
       \/ DFault /\ ~disk[b].stop /\ ready # {} /\ Set(b, [disk[b] EXCEPT !.loop = "ended"])
    /\ UNCHANGED <<ctl, inFlight, issued>>

\* A completion of the kernel: an abort ends the loop quietly, a request goes to a
\* worker or is served here.
NextCQE(b, t) ==
    /\ disk[b].loop = "next"
    /\ \/ /\ disk[b].slot[t] = "abort" /\ Set(b, [disk[b] EXCEPT !.loop = "ended"])
       \/ /\ disk[b].slot[t] = "req"
          /\ IF b \in SlowDisks
             THEN Set(b, [disk[b] EXCEPT !.loop = "top", !.slot[t] = "queued", !.pending = @ + 1])
             ELSE Set(b, [disk[b] EXCEPT !.loop = "serve", !.slot[t] = "serving"])
    /\ UNCHANGED <<ctl, inFlight, issued, ublkFaults>>

\* Mutant of PeekNone: with workers out, the loop waits in the kernel all the same.
PeekInKernel(b) ==
    /\ disk[b].loop = "next" /\ disk[b].pending > 0 /\ FALSE
    /\ UNCHANGED ublkVars
\* nextCQE finds nothing in the ring. With workers out it waits for one of them and for
\* the stop channel; with none out it blocks in io_uring_enter (no step of its own).
PeekNone(b) ==
    /\ disk[b].loop = "next" /\ disk[b].pending > 0 /\ Has(b, {"req", "abort"}) = {}
    /\ Set(b, [disk[b] EXCEPT !.loop = "workers"])
    /\ UNCHANGED <<ctl, inFlight, issued, ublkFaults>>
TakeCompletion(b) ==
    /\ disk[b].loop = "workers"
    /\ \/ \E t \in Has(b, {"done"}) :
             \/ DNoFault /\ Set(b, [disk[b] EXCEPT !.loop = "top", !.slot[t] = "armed", !.pending = @ - 1])
             \/ DFault /\ Set(b, [disk[b] EXCEPT !.loop = "ended", !.slot[t] = "lost"])
       \/ DNoFault /\ disk[b].stop /\ Set(b, [disk[b] EXCEPT !.loop = "top"])
    /\ UNCHANGED <<ctl, inFlight, issued>>

\* A signal of the runtime interrupts the wait in the kernel; nothing makes one come.
Interrupted(b) ==
    /\ disk[b].loop = "next" /\ disk[b].pending = 0 /\ Has(b, {"req", "abort"}) = {}
    /\ Set(b, [disk[b] EXCEPT !.loop = "top"])
    /\ UNCHANGED <<ctl, inFlight, issued, ublkFaults>>

\* handle and commit on the loop's own thread. A commit that fails ends the loop, and
\* the request is never answered.
Serve(b, t) ==
    /\ disk[b].loop = "serve" /\ disk[b].slot[t] = "serving"
    /\ \/ DNoFault /\ Set(b, [disk[b] EXCEPT !.loop = "top", !.slot[t] = "armed"])
       \/ DFault /\ Set(b, [disk[b] EXCEPT !.loop = "ended", !.slot[t] = "lost"])
    /\ UNCHANGED <<ctl, inFlight, issued>>

\* A worker reads its descriptor, which panics once it is unmapped, and hands its result
\* over; after a stop it may drop it.
WorkerReads(b, t) ==
    /\ disk[b].slot[t] = "queued"
    /\ Set(b, [disk[b] EXCEPT !.slot[t] = "working", !.panic = @ \/ ~disk[b].mapped])
    /\ UNCHANGED <<ctl, inFlight, issued, ublkFaults>>
WorkerDone(b, t) ==
    /\ disk[b].slot[t] = "working"
    /\ \/ Set(b, [disk[b] EXCEPT !.slot[t] = "done"])
       \/ disk[b].stop /\ Set(b, [disk[b] EXCEPT !.slot[t] = "lost"])
    /\ UNCHANGED <<ctl, inFlight, issued, ublkFaults>>

Loop(b) == LoopTop(b) \/ PeekNone(b) \/ TakeCompletion(b) \/ \E t \in Tags : NextCQE(b, t) \/ Serve(b, t)
Worker(b, t) == WorkerReads(b, t) \/ WorkerDone(b, t)
Call(b) ==
    \/ AddDevice(b) \/ OpenQueue(b) \/ Arm(b) \/ SetParams(b) \/ StartDevice(b) \/ DeviceStarted(b) \/ NodeAppears(b)
    \/ StopDevice(b) \/ DeviceStopped(b) \/ CloseStop(b) \/ Joined(b) \/ DeleteDevice(b) \/ CloseBackend(b)

UblkNext ==
    \E b \in Disks :
        \/ Admit(b) \/ Call(b) \/ Release(b) \/ Loop(b) \/ Interrupted(b)
        \/ \E t \in Tags : Issue(b, t) \/ Worker(b, t)

\* The scheduler runs the goroutines that can run, and the kernel the commands it holds.
UblkFairness ==
    \A b \in Disks : WF_ublkVars(Call(b)) /\ WF_ublkVars(Loop(b)) /\ \A t \in Tags : WF_ublkVars(Worker(b, t))
UblkSpec == UblkInit /\ [][UblkNext]_ublkVars /\ UblkFairness

(***************************************************************************)
(* What holds.                                                             *)
(***************************************************************************)
\* The loop's count of requests out with workers is exact while it runs, which is what
\* decides where it may block; no worker reads descriptors that were unmapped under it;
\* a disk is visible only while its loop runs; and a device outlives its sandbox only
\* when the kernel refused to stop or to delete it (serve, Stop, detach) - all but the
\* last as long as no commit and no STOP_DEV failed.
QueueSound ==
    \A b \in Disks : LET d == disk[b] IN
        /\ d.loop \in {"top", "next", "workers"} =>
               d.pending = Cardinality(Has(b, {"queued", "working", "done", "lost"}))
        /\ d.panic => d.broken
        /\ d.kdev = "live" /\ ublkFaults = 0 => d.loop \notin {"off", "ended"}
        /\ d.pc = "idle" => d.kdev = "none"

\* UblkProvider counts exactly the devices it is creating or holds: the ceiling neither
\* falls with every sandbox nor forgets one, and the devices it has in the kernel are at
\* most ublks_max but for those being taken down and those the kernel kept.
DevicesCounted ==
    LET counts == {b \in Counted : disk[b].pc \notin {"idle", "leaked"} /\ ~disk[b].removing}
        present == {b \in Counted : disk[b].kdev # "none" /\ ~disk[b].removing /\ disk[b].pc # "leaked"}
    IN inFlight = Cardinality(counts) /\ Cardinality(present) <= UblksMax

\* Every request a guest issues is answered, whoever serves it, unless something failed:
\* the loop never sleeps in the kernel over results that wait for it (nextCQE).
RequestsAnswered ==
    \A b \in Disks, t \in Tags :
        disk[b].slot[t] \in InKernel ~> (disk[b].slot[t] \notin InKernel \/ ublkFaults > 0)

\* A create that fails gives everything back and returns ("Unwound in reverse on any
\* failure below"): no call waits for ever for a loop to end (Stop).
FailedAttachReturns == \A b \in Disks : disk[b].pc = "join" ~> disk[b].pc # "join"

\* The devices in the kernel never exceed ublks_max (Prepare: "the limit is enforced
\* before anything is allocated").
WithinUblksMax == Cardinality({b \in Counted : disk[b].kdev # "none"}) <= UblksMax

\* A disk's queue and the provider's count of disks, together.
DevicesSound == QueueSound /\ DevicesCounted
=============================================================================
