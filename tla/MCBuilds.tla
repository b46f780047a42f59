------------------------------ MODULE MCBuilds ------------------------------
(***************************************************************************)
(* Instance of the builds and of the build log for TLC. The parts share no *)
(* state and no mutex but the templates table, so a behaviour explores one *)
(* of them: builds of a tag, creates from a reference, or a build's log.   *)
(***************************************************************************)
EXTENDS Builds, BuildLog

VARIABLE part

MCVars == <<buildVars, logVars, part>>

\* The log of a build that wrote nothing, read to its end.
LogOver ==
    /\ produced = 0 /\ buf = <<>> /\ seq = 0 /\ closed = TRUE
    /\ flush = [w \in Flushers |-> IF w = "build" THEN [pc |-> "done"] ELSE NoFlush]
    /\ chunks = <<>> /\ manifest = <<[chunks |-> 0, done |-> TRUE]>> /\ putFails = 0
    /\ reader = [pc |-> "done", seq |-> 0, pos |-> 0, off |-> 0, sizes |-> <<>>, out |-> <<>>]

MCInit ==
    /\ BuildInit
    /\ \/ part = "log" /\ LogInit
       \/ part \in {"tags", "refs"} /\ LogOver

MCNext ==
    /\ UNCHANGED part
    /\ \/ part = "tags" /\ (TagRequests \/ BuildInternal) /\ UNCHANGED logVars
       \/ part = "refs" /\ (RefRequests \/ BuildInternal) /\ UNCHANGED logVars
       \/ part = "log" /\ LogNext /\ UNCHANGED buildVars

MCSpec == MCInit /\ [][MCNext]_MCVars /\ BuildFairness /\ LogFairness


\* A build ends READY or FAILED although replicas and nodes may die, and a follower comes
\* to the end of its log.
BuildsEnd == BuildsSettle /\ FollowerEnds
=============================================================================
