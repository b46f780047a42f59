------------------------------ MODULE MCStores ------------------------------
(***************************************************************************)
(* Instance for TLC of what a restore reads from: the cache of unpacked    *)
(* snapshots, the warm snapshots and the page-fault handler. They share no *)
(* state, so a behaviour explores one of them and the others stay where    *)
(* nothing is in progress.                                                 *)
(***************************************************************************)
EXTENDS SnapCache, WarmStore, Uffd

VARIABLE part

MCInit ==
    /\ part \in {"cache", "warm", "uffd"}
    /\ CacheInit /\ WarmInit
    /\ IF part = "uffd" THEN UffdInit ELSE UffdGone

MCNext ==
    /\ UNCHANGED part
    /\ \/ part = "cache" /\ CacheNext /\ UNCHANGED <<warmVars, uffdVars>>
       \/ part = "warm" /\ WarmNext /\ UNCHANGED <<cacheVars, uffdVars>>
       \/ part = "uffd" /\ UffdNext /\ UNCHANGED <<cacheVars, warmVars>>

MCSpec ==
    /\ MCInit /\ [][MCNext]_<<cacheVars, warmVars, uffdVars, part>>
    /\ CacheFairness /\ WarmFairness /\ UffdFairness

\* Whatever fails and whoever waits for whom: a restore ends, a prewarm and a
\* create from a warm snapshot end, and a guest gets the page it waits for.
RestoresProgress == RestoreEnds /\ WarmEnds /\ FaultAnswered
=============================================================================
