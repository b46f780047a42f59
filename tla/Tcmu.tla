-------------------------------- MODULE Tcmu --------------------------------
(***************************************************************************)
(* Sandbox disks presented through TCMU and the loopback fabric            *)
(* (internal/node/image/obdtcmu_linux.go): the configfs objects attachTCMU *)
(* creates one by one, what it undoes when a step fails, detach, and what  *)
(* the kernel makes of them: the WWID a device gets when it is enabled,    *)
(* the scan that only finds a LUN linked after the nexus, and the objects  *)
(* it refuses to remove because another one refers to them.                *)
(***************************************************************************)
EXTENDS Integers, FiniteSets

CONSTANTS
    Luns,               \* sandboxes with a disk of this kind
    MaxTcmuFaults

VARIABLES
    lunPc,        \* of each sandbox: the step its call is at
    tree,         \* its configfs objects
    wwid,         \* the WWID its device registered with
    scanned,      \* the SCSI devices the host found, by sandbox
    opened,       \* whose device waitForDevice returned to it
    refused,      \* sandboxes for which a removal was refused or failed
    tcmuFaults

tcmuVars == <<lunPc, tree, wwid, scanned, opened, refused, tcmuFaults>>

Zeros == "no serial"        \* the WWID of a device enabled without one
NoLun == "nothing"

TcmuInit ==
    /\ lunPc = [b \in Luns |-> "idle"] /\ tree = [b \in Luns |-> {}]
    /\ wwid = [b \in Luns |-> NoLun] /\ scanned = {} /\ opened = [b \in Luns |-> NoLun]
    /\ refused = {} /\ tcmuFaults = 0

TFault == tcmuFaults < MaxTcmuFaults /\ tcmuFaults' = tcmuFaults + 1
TNoFault == UNCHANGED tcmuFaults
To(b, pc) == lunPc' = [lunPc EXCEPT ![b] = pc]
AddObj(b, obj) == tree' = [tree EXCEPT ![b] = @ \cup {obj}]

\* The order in which attachTCMU builds the tree, and what undoes each prefix of it.
AttachSteps == [control |-> "serial", serial |-> "enable", enable |-> "wwn", wwn |-> "nexus",
                nexus |-> "lun", lun |-> "link", link |-> "wait"]
\* Mutant of AttachNext: the device is enabled before it has its serial.
EnableFirst(pc) ==
    CASE pc = "control" -> "enable" [] pc = "enable" -> "serial" [] pc = "serial" -> "wwn"
      [] OTHER -> AttachSteps[pc]
AttachNext(pc) == AttachSteps[pc]

\* The undo list, newest first: the fabric if it was reached, then the backstore.
UndoFrom(pc) == IF pc \in {"nexus", "lun", "link", "wait"} THEN "fabric" ELSE "base"

\* The backstore. Its directory left behind by an earlier teardown refuses the create.
Backstore(b) ==
    /\ lunPc[b] = "idle" /\ "base" \notin tree[b]
    /\ \/ TNoFault /\ AddObj(b, "base") /\ To(b, "control")
       \/ TFault /\ UNCHANGED <<lunPc, tree>>
    /\ UNCHANGED <<wwid, scanned, opened, refused>>

\* dev_config, vpd_unit_serial, enable, the tpgt, the nexus and the LUN's directory.
\* Enabling registers the WWID the serial makes; every failure unwinds.
AttachStep(b) ==
    LET pc == lunPc[b] IN
    /\ pc \in {"control", "serial", "enable", "wwn", "nexus", "lun"}
    /\ \/ /\ TNoFault /\ AddObj(b, pc) /\ To(b, AttachNext(pc))
          /\ wwid' = IF pc = "enable" THEN [wwid EXCEPT ![b] = IF "serial" \in tree[b] THEN b ELSE Zeros] ELSE wwid
       \/ TFault /\ To(b, UndoFrom(pc)) /\ UNCHANGED <<tree, wwid>>
    /\ UNCHANGED <<scanned, opened, refused>>

\* The LUN is linked to the backstore; the host scans it when the nexus was there first.
Link(b) ==
    /\ lunPc[b] = "link"
    /\ \/ /\ TNoFault /\ AddObj(b, "link") /\ To(b, AttachNext("link"))
          /\ scanned' = IF "nexus" \in tree[b] THEN scanned \cup {b} ELSE scanned
       \/ TFault /\ To(b, UndoFrom("link")) /\ UNCHANGED <<tree, scanned>>
    /\ UNCHANGED <<wwid, opened, refused>>

\* waitForDevice: the device whose WWID is this sandbox's serial, or five seconds.
WaitForDevice(b) ==
    /\ lunPc[b] = "wait"
    /\ \/ /\ TNoFault /\ To(b, "up")
          /\ \E d \in scanned : wwid[d] = b /\ opened' = [opened EXCEPT ![b] = d]
       \/ /\ IF \E d \in scanned : wwid[d] = b THEN TFault ELSE TNoFault
          /\ To(b, UndoFrom("wait")) /\ UNCHANGED opened
    /\ UNCHANGED <<tree, wwid, scanned, refused>>

\* detach: unlink, remove the LUN, the fabric and the backstore; every step runs.
Detach(b) ==
    /\ lunPc[b] = "up" /\ To(b, "unlink") /\ opened' = [opened EXCEPT ![b] = NoLun]
    /\ UNCHANGED <<tree, wwid, scanned, refused, tcmuFaults>>

\* Removing objs, which the kernel refuses while one of "users" is still there.
RemoveObjs(b, objs, users) ==
    \/ /\ TNoFault /\ tree[b] \cap users = {}
       /\ tree' = [tree EXCEPT ![b] = @ \ objs] /\ UNCHANGED refused
    \/ /\ TNoFault /\ tree[b] \cap users # {} /\ refused' = refused \cup {b} /\ UNCHANGED tree
    \/ TFault /\ refused' = refused \cup {b} /\ UNCHANGED tree

Unlink(b) ==
    /\ lunPc[b] = "unlink" /\ To(b, "rmlun") /\ RemoveObjs(b, {"link"}, {})
    /\ scanned' = IF "link" \in tree'[b] THEN scanned ELSE scanned \ {b}
    /\ UNCHANGED <<wwid, opened>>
RemoveLun(b) ==
    /\ lunPc[b] = "rmlun" /\ To(b, "fabric") /\ RemoveObjs(b, {"lun"}, {"link"})
    /\ UNCHANGED <<wwid, scanned, opened>>
\* RemoveAll takes what is left under the fabric with it, the link included.
RemoveFabric(b) ==
    /\ lunPc[b] = "fabric" /\ To(b, "base") /\ RemoveObjs(b, {"link", "lun", "nexus", "wwn"}, {})
    /\ scanned' = IF "link" \in tree'[b] THEN scanned ELSE scanned \ {b}
    /\ UNCHANGED <<wwid, opened>>
RemoveBackstore(b) ==
    /\ lunPc[b] = "base" /\ To(b, "idle")
    /\ RemoveObjs(b, {"base", "control", "serial", "enable"}, {"link"})
    /\ wwid' = IF "base" \in tree'[b] THEN wwid ELSE [wwid EXCEPT ![b] = NoLun]
    /\ UNCHANGED <<scanned, opened>>

TcmuNext ==
    \E b \in Luns :
        \/ Backstore(b) \/ AttachStep(b) \/ Link(b) \/ WaitForDevice(b)
        \/ Detach(b) \/ Unlink(b) \/ RemoveLun(b) \/ RemoveFabric(b) \/ RemoveBackstore(b)

TcmuSpec == TcmuInit /\ [][TcmuNext]_tcmuVars

\* A sandbox opens its own device and no two devices on the host share a WWID, which
\* multipathd would merge into one (setSerial, blockDeviceForSerial); and what a create
\* or a teardown leaves in configfs, where it blocks the next attach of that name, is
\* only what some removal was really refused for (attachTCMU's undo list, detach).
TcmuSound ==
    /\ \A b \in Luns : lunPc[b] = "up" => opened[b] = b /\ b \in scanned
    /\ \A b, c \in scanned : b # c => wwid[b] # wwid[c]
    /\ \A b \in Luns : lunPc[b] = "idle" /\ b \notin refused => tree[b] = {} /\ b \notin scanned
    /\ refused # {} => tcmuFaults > 0
=============================================================================
