----------------------------- MODULE WarmStore -----------------------------
(***************************************************************************)
(* Warm snapshots on a node: a prewarm boots a guest, captures it and      *)
(* stores the bundle under the image's digest and the node's CPU           *)
(* (Manager.warmSnapshotFor, WarmStore); a create restores the bundle if   *)
(* the node has one and boots if anything goes wrong                       *)
(* (createOrRestoreWarm, WarmLookup); a sweep after each prewarm bounds    *)
(* the store (warmevict_linux.go).                                         *)
(*                                                                         *)
(* A bundle is written under a temporary name and renamed, so it is either *)
(* absent or whole. A key stands for an image's digest on this CPU.        *)
(***************************************************************************)
EXTENDS Naturals, Sequences, FiniteSets, SequencesExt

CONSTANTS
    Warmers,       \* goroutines that prewarm an image
    Starters,      \* goroutines that create a sandbox from an image
    WarmKeys,      \* digests of images that can be warmed; bundles have size 1
    WarmHigh,      \* EvictionPolicy.HighBytes of the warm store
    WarmLow,       \* EvictionPolicy.LowBytes
    MaxWarmFaults  \* bound: boots, captures or restores that fail, deaths of noded

ASSUME WarmAssumption ==
    /\ WarmLow \in Nat /\ WarmHigh \in Nat /\ WarmLow < WarmHigh
    /\ MaxWarmFaults \in Nat

VARIABLES
    bundles,    \* stored bundles, least recently used first
    temps,      \* temporary files in the warm directory, by their writer
    guests,     \* prewarms whose throwaway guest runs
    reading,    \* key -> how many creates read its bundle
    wjob,       \* prewarm or create in progress -> where it is
    wfaults

warmVars == <<bundles, temps, guests, reading, wjob, wfaults>>

WarmIdle == [pc |-> "idle"]
WarmInit ==
    /\ bundles = <<>> /\ temps = {} /\ guests = {}
    /\ reading = [k \in WarmKeys |-> 0]
    /\ wjob = [j \in Warmers \cup Starters |-> WarmIdle]
    /\ wfaults = 0

Warm(k) == k \in ToSet(bundles)
WAt(j, pc) == wjob[j].pc = pc
WGo(j, pc) == wjob' = [wjob EXCEPT ![j].pc = pc]
WFails == wfaults < MaxWarmFaults /\ wfaults' = wfaults + 1
WWorks == wfaults' = wfaults

----------------------------------------------------------------------------
(* A prewarm *)

\* Nothing is done for an image that is warm already.
WarmSnapshotFor(j, k) ==
    /\ WAt(j, "idle") /\ ~Warm(k)
    /\ wjob' = [wjob EXCEPT ![j] = [pc |-> "boot", key |-> k, todo |-> <<>>, over |-> 0]]
    /\ UNCHANGED <<bundles, temps, guests, reading, wfaults>>

\* The guest boots through the ordinary create path, under an id of its own.
BootThrowaway(j) ==
    /\ WAt(j, "boot")
    /\ \/ guests' = guests \cup {j} /\ WGo(j, "create") /\ WWorks
       \/ UNCHANGED guests /\ WGo(j, "idle") /\ WFails
    /\ UNCHANGED <<bundles, temps, reading>>

\* warmStore.Create, then the checkpoint into the temporary file.
CreateTemp(j) ==
    /\ WAt(j, "create") /\ temps' = temps \cup {j} /\ WGo(j, "capture")
    /\ UNCHANGED <<bundles, guests, reading, wfaults>>

\* The bundle is renamed into place, or the temporary is removed.
Commit(j) ==
    /\ WAt(j, "capture") /\ temps' = temps \ {j}
    /\ \/ bundles' = Append(Remove(bundles, wjob[j].key), wjob[j].key) /\ WGo(j, "scan") /\ WWorks
       \/ UNCHANGED bundles /\ WGo(j, "destroy") /\ WFails
    /\ UNCHANGED <<guests, reading>>

\* The throwaway guest is destroyed however the capture went.
DestroyThrowaway(j) ==
    /\ WAt(j, "destroy") /\ guests' = guests \ {j}
    /\ wjob' = [wjob EXCEPT ![j] = WarmIdle]
    /\ UNCHANGED <<bundles, temps, reading, wfaults>>

----------------------------------------------------------------------------
(* Sweep, with the bundle just stored as keep *)

SweepScan(j) ==
    /\ WAt(j, "scan")
    /\ IF Len(bundles) < WarmHigh THEN WGo(j, "destroy")
       ELSE wjob' = [wjob EXCEPT ![j].pc = "next", ![j].todo = bundles, ![j].over = Len(bundles)]
    /\ UNCHANGED <<bundles, temps, guests, reading, wfaults>>

SweepSkips(j, k) == k = wjob[j].key \/ reading[k] > 0

SweepNext(j) ==
    /\ WAt(j, "next")
    /\ IF wjob[j].todo = <<>> \/ wjob[j].over <= WarmLow THEN WGo(j, "destroy")
       ELSE IF SweepSkips(j, Head(wjob[j].todo)) THEN wjob' = [wjob EXCEPT ![j].todo = Tail(@)]
            ELSE WGo(j, "remove")
    /\ UNCHANGED <<bundles, temps, guests, reading, wfaults>>

\* A bundle another sweep removed counts as freed.
SweepRemove(j) ==
    /\ WAt(j, "remove") /\ bundles' = Remove(bundles, Head(wjob[j].todo))
    /\ wjob' = [wjob EXCEPT ![j].pc = "next", ![j].todo = Tail(@), ![j].over = @ - 1]
    /\ UNCHANGED <<temps, guests, reading, wfaults>>

----------------------------------------------------------------------------
(* A create from an image *)

Booted == [pc |-> "running", from |-> "boot"]

\* createOrRestoreWarm up to warmStore.Lookup; a miss boots.
WarmLookup(j, k) ==
    /\ WAt(j, "idle")
    /\ wjob' = [wjob EXCEPT ![j] = IF Warm(k) THEN [pc |-> "hold", key |-> k] ELSE Booted]
    /\ UNCHANGED <<bundles, temps, guests, reading, wfaults>>

Hold(j) ==
    /\ WAt(j, "hold") /\ reading' = [reading EXCEPT ![wjob[j].key] = @ + 1] /\ WGo(j, "open")
    /\ UNCHANGED <<bundles, temps, guests, wfaults>>


\* A bundle that went away between the lookup and the open is a miss.
OpenBundle(j) ==
    LET k == wjob[j].key
    IN  /\ WAt(j, "open")
        /\ IF Warm(k)
           THEN bundles' = Append(Remove(bundles, k), k) /\ WGo(j, "fork") /\ UNCHANGED reading
           ELSE /\ wjob' = [wjob EXCEPT ![j] = Booted] /\ UNCHANGED bundles
                /\ reading' = [reading EXCEPT ![k] = @ - 1]
        /\ UNCHANGED <<temps, guests, wfaults>>

\* The restore, and the boot it falls back to; either way the hold is released.
RestoreWarm(j) ==
    /\ WAt(j, "fork")
    /\ reading' = [reading EXCEPT ![wjob[j].key] = @ - 1]
    /\ \/ wjob' = [wjob EXCEPT ![j] = [pc |-> "running", from |-> "warm"]] /\ WWorks
       \/ wjob' = [wjob EXCEPT ![j] = Booted] /\ WFails
    /\ UNCHANGED <<bundles, temps, guests>>

StopSandbox(j) ==
    /\ WAt(j, "running") /\ wjob' = [wjob EXCEPT ![j] = WarmIdle]
    /\ UNCHANGED <<bundles, temps, guests, reading, wfaults>>

\* noded dies and starts again: Clean removes the temporaries. The throwaway
\* guests are in nobody's expected set, so reconciliation destroys them.
WarmCrash ==
    /\ WFails /\ temps' = {} /\ guests' = {}
    /\ reading' = [k \in WarmKeys |-> 0]
    /\ wjob' = [j \in Warmers \cup Starters |-> WarmIdle]
    /\ UNCHANGED bundles

WarmStep(j) ==
    \/ BootThrowaway(j) \/ CreateTemp(j) \/ Commit(j) \/ DestroyThrowaway(j)
    \/ SweepScan(j) \/ SweepNext(j) \/ SweepRemove(j)
    \/ Hold(j) \/ OpenBundle(j) \/ RestoreWarm(j)

WarmNext ==
    \/ \E j \in Warmers \cup Starters : WarmStep(j)
    \/ \E j \in Warmers, k \in WarmKeys : WarmSnapshotFor(j, k)
    \/ \E j \in Starters : StopSandbox(j) \/ \E k \in WarmKeys : WarmLookup(j, k)
    \/ WarmCrash

WarmFairness == \A j \in Warmers \cup Starters : WF_warmVars(WarmStep(j))
WarmSpec == WarmInit /\ [][WarmNext]_warmVars /\ WarmFairness

----------------------------------------------------------------------------
(* Properties *)


\* createOrRestoreWarm: every create of an image gets its sandbox and every
\* prewarm ends, whatever fails.
WarmEnds == \A j \in Warmers \cup Starters : wjob[j].pc # "idle" ~> wjob[j].pc \in {"idle", "running"}
=============================================================================
