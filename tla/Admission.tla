----------------------------- MODULE Admission -----------------------------
(***************************************************************************)
(* The node's admission thresholds (internal/node/diskguard.go,            *)
(* memguard.go, admissionstore.go): a push from the control plane overlays *)
(* the fields it sets on the guards in force, is validated, written to the *)
(* node's file and installed; a restart loads the file; a create measures  *)
(* the machine against the guards. Pushes may overlap, the file may fail   *)
(* to be written, and the node may die between any two steps.              *)
(***************************************************************************)
EXTENDS Integers, FiniteSets, TLC

CONSTANTS
    Pushes,             \* ConfigureAdmission calls
    Configs,            \* what a push may set: functions from some of the fields to values
    MiB,                \* bytes in a MiB
    TotalDisk,          \* the volume's size in bytes
    FreeDisk, UsedMem,  \* what a measurement may say: bytes free, percent of memory used
    MaxAdmissionFaults

VARIABLES
    guards,       \* Manager.disk and Manager.mem
    file,         \* admission.json: absent, torn, or whole and its admissionFile
    tmp,          \* admission.json.tmp: the same
    push,         \* of each push, how far it is, the guards it means to install, and where
                  \* the file it has open is found: "tmp", "file", or nowhere ("gone")
    create,       \* a create on its way through the two guards
    nodeUp, admissionFaults,
    promised,     \* history: the guards an operator may count on
    overlapped    \* history: two pushes were in flight together

admVars == <<guards, file, tmp, push, create, nodeUp, admissionFaults, promised, overlapped>>

Off == [bytes |-> 0, percent |-> 0, mem |-> 0]
Idle == [pc |-> "idle", want |-> Off, fd |-> "tmp"]
\* SaveAdmission's form of the guards and LoadAdmission's reading of it: disk in MiB.
Stored(g) == [mib |-> g.bytes \div MiB, percent |-> g.percent, mem |-> g.mem]
Loaded(f) == [bytes |-> f.mib * MiB, percent |-> f.percent, mem |-> f.mem]
Absent == [is |-> "absent", f |-> Stored(Off)]
Torn == [is |-> "torn", f |-> Stored(Off)]
Whole(g) == [is |-> "whole", f |-> Stored(g)]
NoCreate == [pc |-> "none", free |-> 0, used |-> 0, calm |-> FALSE]
InFlight == {p \in Pushes : push[p].pc \notin {"idle", "done", "failed"}}

AdmissionInit ==
    /\ guards = Off /\ file = Absent /\ tmp = Absent /\ push = [p \in Pushes |-> Idle] /\ create = NoCreate
    /\ nodeUp = TRUE /\ admissionFaults = 0 /\ promised = {Off} /\ overlapped = FALSE

AdmissionFault == admissionFaults < MaxAdmissionFaults /\ admissionFaults' = admissionFaults + 1
Step(p, pc) == push' = [push EXCEPT ![p].pc = pc]

-----------------------------------------------------------------------------
\* DiskGuard.Validate, MemGuard.Validate
ValidDisk(g) == g.bytes >= 0 /\ g.percent >= 0 /\ g.percent < 100
ValidMem(g) == g.mem >= 0 /\ g.mem < 100
\* DiskGuard.floorFor: the larger of the two floors
FloorFor(g) == LET pct == (TotalDisk * g.percent) \div 100 IN IF g.percent > 0 /\ pct > g.bytes THEN pct ELSE g.bytes
\* DiskGuard.Admit, MemGuard.Admit
DiskAdmits(g, free) == free >= FloorFor(g)
MemAdmits(g, used) == g.mem = 0 \/ used < g.mem

-----------------------------------------------------------------------------
\* GRPCServer.ConfigureAdmission, from its call to its answer

\* Only the fields the caller set replace those of the guards in force.
Overlay(g, cfg) ==
    [bytes |-> IF "mib" \in DOMAIN cfg THEN cfg.mib * MiB ELSE g.bytes,
     percent |-> IF "percent" \in DOMAIN cfg THEN cfg.percent ELSE g.percent,
     mem |-> IF "mem" \in DOMAIN cfg THEN cfg.mem ELSE g.mem]
ReadAndValidate(p) ==
    /\ nodeUp /\ push[p].pc = "idle"
    /\ \E cfg \in Configs :
          LET want == Overlay(guards, cfg)
          IN push' = [push EXCEPT ![p] = [pc |-> IF ValidDisk(want) /\ ValidMem(want) THEN "truncate" ELSE "failed", want |-> want, fd |-> "tmp"]]
    /\ overlapped' = (overlapped \/ InFlight # {}) /\ create' = [create EXCEPT !.calm = FALSE]
    /\ UNCHANGED <<guards, file, tmp, nodeUp, admissionFaults, promised>>
\* SaveAdmission writes the temporary file, whose name every push shares, in two steps ...
TruncateTmp(p) ==
    /\ nodeUp /\ push[p].pc = "truncate"
    /\ \/ tmp' = Torn /\ Step(p, "write") /\ UNCHANGED admissionFaults
       \/ AdmissionFault /\ Step(p, "failed") /\ UNCHANGED tmp
    /\ UNCHANGED <<guards, file, create, nodeUp, promised, overlapped>>
\* ... the second into the file it has open, which another push may have renamed meanwhile.
WriteTmp(p) ==
    /\ nodeUp /\ push[p].pc = "write" /\ Step(p, "rename")
    /\ tmp' = IF push[p].fd = "tmp" THEN Whole(push[p].want) ELSE tmp
    /\ file' = IF push[p].fd = "file" THEN Whole(push[p].want) ELSE file
    /\ UNCHANGED <<guards, create, nodeUp, admissionFaults, promised, overlapped>>
\* Mutant of RenameTmp: the guards are installed although the file was not replaced.
RenameTmpIgnored(p) ==
    /\ nodeUp /\ push[p].pc = "rename" /\ AdmissionFault /\ Step(p, "apply")
    /\ UNCHANGED <<file, tmp, guards, create, nodeUp, promised, overlapped>>
RenameTmp(p) ==
    /\ nodeUp /\ push[p].pc = "rename"
    /\ \/ /\ tmp # Absent /\ file' = tmp /\ tmp' = Absent /\ UNCHANGED admissionFaults
          /\ push' = [q \in Pushes |-> IF q = p THEN [push[q] EXCEPT !.pc = "apply"]
                                      ELSE [push[q] EXCEPT !.fd = IF push[q].pc = "write" /\ @ = "tmp" THEN "file" ELSE IF @ = "file" THEN "gone" ELSE @]]
       \/ tmp = Absent /\ Step(p, "failed") /\ UNCHANGED <<file, tmp, admissionFaults>>
       \/ AdmissionFault /\ Step(p, "failed") /\ UNCHANGED <<file, tmp>>
    /\ UNCHANGED <<guards, create, nodeUp, promised, overlapped>>
\* Manager.SetAdmission, and the answer
SetAdmission(p) ==
    /\ nodeUp /\ push[p].pc = "apply" /\ Step(p, "done")
    /\ guards' = push[p].want /\ promised' = {push[p].want}
    /\ UNCHANGED <<file, tmp, create, nodeUp, admissionFaults, overlapped>>

-----------------------------------------------------------------------------
\* The node dies with the pushes it was serving.
NodeDies ==
    /\ nodeUp /\ AdmissionFault /\ nodeUp' = FALSE
    /\ promised' = promised \cup {push[p].want : p \in InFlight}
    /\ push' = [p \in Pushes |-> IF p \in InFlight THEN [push[p] EXCEPT !.pc = "failed"] ELSE push[p]]
    /\ create' = NoCreate /\ UNCHANGED <<guards, file, tmp, overlapped>>
\* noded's start: no file means no thresholds, and a file that cannot be read stops it.
LoadAdmission ==
    /\ ~nodeUp /\ file # Torn /\ nodeUp' = TRUE
    /\ LET g == IF file = Absent THEN Off ELSE Loaded(file.f) IN ValidDisk(g) /\ ValidMem(g) /\ guards' = g /\ promised' = {g}
    /\ UNCHANGED <<file, tmp, push, create, admissionFaults, overlapped>>

\* Manager.Create's two checks, each on a copy of the guard; a measurement that fails admits.
CreateDisk ==
    /\ nodeUp /\ create.pc \in {"none", "admitted", "refused"}
    /\ \E free \in FreeDisk : create' = [pc |-> IF DiskAdmits(guards, free) THEN "mem" ELSE "refused",
                                         free |-> free, used |-> 0, calm |-> InFlight = {}]
    /\ UNCHANGED <<guards, file, tmp, push, nodeUp, admissionFaults, promised, overlapped>>
CreateMem ==
    /\ nodeUp /\ create.pc = "mem"
    /\ \E used \in UsedMem : create' = [create EXCEPT !.pc = IF MemAdmits(guards, used) THEN "admitted" ELSE "refused", !.used = used]
    /\ UNCHANGED <<guards, file, tmp, push, nodeUp, admissionFaults, promised, overlapped>>

AdmissionNext ==
    \/ \E p \in Pushes : ReadAndValidate(p) \/ TruncateTmp(p) \/ WriteTmp(p) \/ RenameTmp(p) \/ SetAdmission(p)
    \/ NodeDies \/ LoadAdmission \/ CreateDisk \/ CreateMem
AdmissionSpec == AdmissionInit /\ [][AdmissionNext]_admVars

-----------------------------------------------------------------------------
\* As long as pushes do not overlap: a push that was acknowledged governs every create that
\* follows it, restarts included, until another push succeeds or dies with the node; the
\* file holds the guards in force; a refused or failed push changes nothing; and the node
\* always finds a file it can start from (ConfigureAdmission, SaveAdmission).
AckedThresholdGoverns ==
    ~overlapped =>
        /\ file # Torn
        /\ nodeUp => guards \in promised
        /\ nodeUp /\ InFlight = {} => guards = IF file = Absent THEN Off ELSE Loaded(file.f)
        /\ create.pc = "admitted" /\ create.calm =>
              \E g \in promised : create.free >= g.bytes /\ create.free * 100 >= TotalDisk * g.percent
                                  /\ (g.mem > 0 => create.used < g.mem)
\* The file never holds what the next start would reject (SaveAdmission).
NeverTorn == file # Torn
\* The file and the guards never disagree once no push is in flight (ConfigureAdmission).
FileAgrees == nodeUp /\ InFlight = {} /\ file # Absent => file = Whole(guards)
=============================================================================
