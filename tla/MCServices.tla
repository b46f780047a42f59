----------------------------- MODULE MCServices -----------------------------
(***************************************************************************)
(* Instance for TLC of what the control plane, the node and the guest      *)
(* offer around a sandbox's life: the scheduler and the ledger it commits  *)
(* to, the object stores, the proxy and the node's port forwarder, the     *)
(* agent's token, the node's admission thresholds, the stream of a         *)
(* restore, and the guest's files, user process and commands. They share   *)
(* no state, so a behaviour explores one of them: "part" says which.       *)
(***************************************************************************)
EXTENDS Ledger, ObjectUpload, Admission, ProxyCache, PortForward, AgentToken,
        RestoreStream, GuestFiles, GuestProcess, GuestExec, Placement

VARIABLE part

Cfgs == {[mib |-> 1], [percent |-> 20], [mem |-> 60], [mem |-> 100], [mib |-> 0, percent |-> 0]}

\* Two nodes alike, and a third of another make that is larger and warm for one image. Two
\* requests of one group, one of which is a restore, and one as large as a node.
Amounts(cpu, mem, disk, gpu) == [k \in Resources |-> CASE k = "cpu" -> cpu [] k = "mem" -> mem [] k = "disk" -> disk [] k = "gpu" -> gpu]
Twin == [region |-> "eu", runtimes |-> {"fc"}, labels |-> {"ssd"}, vendor |-> "amd", family |-> 0, alloc |-> Amounts(2, 2, 2, 1),
         maxCreates |-> 1, used |-> {10, 20}, nvme |-> TRUE, cached |-> {}, warm |-> {}]
MCNodeSpec ==
    [n \in PlNodes |-> IF n < 3 THEN Twin
                       ELSE [Twin EXCEPT !.vendor = "intel", !.cached = {"py"}, !.warm = {"py"}, !.labels = {}, !.alloc = Amounts(4, 4, 2, 1)]]
Small == [region |-> "eu", runtime |-> "fc", selector |-> {}, vendor |-> "", family |-> 0, need |-> Amounts(1, 1, 1, 0), image |-> "go", group |-> "g", waits |-> FALSE]
MCReqSpec ==
    "q1" :> Small
    @@ "q2" :> [Small EXCEPT !.vendor = "amd", !.family = 6, !.image = "py", !.waits = TRUE]
    @@ "q3" :> [Small EXCEPT !.selector = {"ssd"}, !.need = Amounts(2, 2, 2, 1), !.group = "", !.image = "py", !.waits = TRUE]
\* One caller may leave, and a node's change or an error of the store meets two calls at most.
PlPart ==
    /\ PlNext /\ left' \subseteq {"q3"} /\ turns' + plFaults' <= 1
    /\ turns' + plFaults' = 1 /\ Running("q3")' => ~Running("q1")' /\ ~Running("q2")'

Parts == {"placement", "ledger", "objects", "admission", "proxy", "forward", "token", "restore", "files", "process", "exec"}
\* Parts that do not move start in one state.
MCInit ==
    /\ LedgerInit /\ ObjInit /\ AdmissionInit /\ PxInit /\ PfInit /\ TokInit
    /\ PlInit /\ RsInit /\ FilesInit /\ ProcInit /\ ExecInit
    /\ part \in Parts
    /\ part # "ledger" => \A n \in Nodes : alloc[n] = CHOOSE a \in Allocs : TRUE
    /\ part # "proxy" => \A n \in PxNodes : label[n] = CHOOSE a \in Addrs : TRUE
    /\ part # "token" => document = "none" /\ hash.is = "none" /\ \A c \in GuestCalls : agentCall[c].pc = "idle"
    /\ part # "restore" => frames = Chain(Layers) /\ cached
    /\ part # "files" => dir
MCNext ==
    /\ UNCHANGED part
    /\ \/ part = "placement" /\ PlPart
       \/ part = "ledger" /\ LedgerNext
       \/ part = "objects" /\ ObjNext
       \/ part = "admission" /\ AdmissionNext
       \/ part = "proxy" /\ PxNext
       \/ part = "forward" /\ PfNext
       \/ part = "token" /\ TokNext
       \/ part = "restore" /\ RsNext
       \/ part = "files" /\ FilesNext
       \/ part = "process" /\ ProcNext
       \/ part = "exec" /\ ExecNext
    /\ part # "placement" => UNCHANGED plVars
    /\ part # "ledger" => UNCHANGED ledgerVars
    /\ part # "objects" => UNCHANGED objVars
    /\ part # "admission" => UNCHANGED admVars
    /\ part # "proxy" => UNCHANGED pxVars
    /\ part # "forward" => UNCHANGED fwdVars
    /\ part # "token" => UNCHANGED tokVars
    /\ part # "restore" => UNCHANGED rsVars
    /\ part # "files" => UNCHANGED fileVars
    /\ part # "process" => UNCHANGED procVars
    /\ part # "exec" => UNCHANGED execVars
MCSpec == MCInit /\ [][MCNext]_<<plVars, ledgerVars, objVars, admVars, pxVars, fwdVars, tokVars, rsVars, fileVars, procVars, execVars, part>>

\* Requests are placed, or refused, as the nodes allow.
RequestsPlaced == part = "placement" => PlacementSound
=============================================================================
