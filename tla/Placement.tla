------------------------------ MODULE Placement -----------------------------
(***************************************************************************)
(* The scheduler (control/scheduler/scheduler.go, wait.go, rejection.go,   *)
(* cpucompat.go) over the store's conditional commit (store/placement.go   *)
(* Reserve): several control-plane replicas read the nodes, rank them and  *)
(* try to commit best first, while sandboxes end and nodes come and go.    *)
(* That a node's row stays the sum of its reservations is Ledger.tla's.    *)
(***************************************************************************)
EXTENDS Integers, FiniteSets, FiniteSetsExt, Sequences, SequencesExt

CONSTANTS
    PlNodes,      \* nodes: integers, whose order is that of the ids
    NodeSpec,     \* what a node registered: region, runtimes, labels, vendor, family, alloc,
                  \* maxCreates, used (its reported load in percent), nvme, cached, warm
    Reqs, ReqSpec,\* requests: region, runtime, selector, vendor, family, need, image, group, waits
    PlAttempts,   \* Scheduler.maxAttempts
    Scale,        \* scores are integers: a multiple of 200 and of every denominator below
    MaxTicks,     \* bound: polls of one wait
    MaxTurns, MaxPlFaults   \* bounds: changes of node states, store errors

Resources == {"cpu", "mem", "disk", "gpu"}
NoNode == 0

VARIABLES
    ready,       \* the nodes whose state is READY
    rowCommitted,\* of each node, what its row has committed of each resource
    heldOn,      \* of each request, the node it holds a reservation on
    starting,    \* of each request, the node whose create_in_flight counts it
    sched,       \* of each request, its call of ScheduleWait
    left,        \* requests whose caller has hung up
    turns, plFaults,
    roomy,       \* history: of each call, the nodes that had room for it ever since it began
    someRoom     \* history: of each call, whether at every moment some node had room for it

plVars == <<ready, rowCommitted, heldOn, starting, sched, left, turns, plFaults, roomy, someRoom>>

NoCounts == [n \in PlNodes |-> 0]
NoSeen == [ready |-> {}, committed |-> NoCounts, inFlight |-> NoCounts]
PlIdle == [pc |-> "idle", attempt |-> 0, ticks |-> 0, seen |-> NoSeen, spread |-> NoCounts, ranked |-> <<>>, result |-> "none"]

PlInit ==
    /\ ready = PlNodes /\ rowCommitted = [n \in PlNodes |-> [k \in Resources |-> 0]]
    /\ heldOn = [r \in Reqs |-> NoNode] /\ starting = [r \in Reqs |-> NoNode]
    /\ sched = [r \in Reqs |-> PlIdle] /\ left = {} /\ turns = 0 /\ plFaults = 0
    /\ roomy = [r \in Reqs |-> {}] /\ someRoom = [r \in Reqs |-> TRUE]

-----------------------------------------------------------------------------
\* LoadNodes, and what the scheduler makes of a node's row

NodeRows ==
    [ready |-> ready, committed |-> rowCommitted,
     inFlight |-> [n \in PlNodes |-> Cardinality({r \in Reqs : starting[r] = n})]]
RowFits(rows, n, r) == \A k \in Resources : rows.committed[n][k] + ReqSpec[r].need[k] <= NodeSpec[n].alloc[k]

HasRuntime(n, r) == ReqSpec[r].runtime = "" \/ ReqSpec[r].runtime \in NodeSpec[n].runtimes
LabelsMatch(n, r) == ReqSpec[r].selector \subseteq NodeSpec[n].labels
Constrained(r) == ReqSpec[r].vendor # ""
\* CheckCPU: a node that reports no vendor is refused, one that reports no family is not.
CheckCPU(n, r) ==
    Constrained(r) =>
        /\ NodeSpec[n].vendor = ReqSpec[r].vendor
        /\ ReqSpec[r].family # 0 /\ NodeSpec[n].family # 0 => ReqSpec[r].family = NodeSpec[n].family

\* "cpu" is whether the CPU constraint applies: cpuRejection's probe drops it.
Feasible(rows, n, r, cpu) ==
    /\ n \in rows.ready /\ NodeSpec[n].region = ReqSpec[r].region /\ HasRuntime(n, r) /\ LabelsMatch(n, r)
    /\ cpu => CheckCPU(n, r)
    /\ RowFits(rows, n, r)
CpuRejection(rows, r) == Constrained(r) /\ \E n \in PlNodes : Feasible(rows, n, r, FALSE) /\ ~CheckCPU(n, r)
\* blockers, which worthWaiting and the explanation of a refusal go by
Blockers(rows, n, r) ==
    {k \in Resources : rows.committed[n][k] + ReqSpec[r].need[k] > NodeSpec[n].alloc[k]}
    \cup {c \in {"nodeState", "runtime", "nodeSelector", "cpuCompatibility"} :
             CASE c = "nodeState" -> n \notin rows.ready
               [] c = "runtime" -> ~HasRuntime(n, r)
               [] c = "nodeSelector" -> ~LabelsMatch(n, r)
               [] c = "cpuCompatibility" -> ~CheckCPU(n, r)}
InRegion(r) == {n \in PlNodes : NodeSpec[n].region = ReqSpec[r].region}

\* DefaultWeights
Weights == [imageAffinity |-> 10, warmSnapshot |-> 15, createPressure |-> 12, packing |-> 3, nvmeCache |-> 2, spread |-> 4, load |-> 6]
When(cond, x) == IF cond THEN x ELSE 0
\* score, times Scale
Score(rows, n, r, placed) ==
    LET node == NodeSpec[n]
        req == ReqSpec[r]
        Frac(k) == When(node.alloc[k] > 0, (Scale * Weights.packing * (rows.committed[n][k] + req.need[k])) \div (2 * node.alloc[k]))
    IN  When(req.image \in node.cached, Scale * Weights.imageAffinity + When(req.image \in node.warm, Scale * Weights.warmSnapshot))
        - When(node.maxCreates > 0, (Scale * Weights.createPressure * Min({rows.inFlight[n], node.maxCreates})) \div node.maxCreates)
        + Frac("cpu") + Frac("mem")
        - (Scale * Weights.load * Max(node.used)) \div 100
        + When(node.nvme /\ req.image \notin node.cached, Scale * Weights.nvmeCache)
        - When(req.group # "", Scale * Weights.spread * placed)
\* Best first, and the smaller id among equals.
RankNodes(rows, spread, r) ==
    LET sc == [n \in PlNodes |-> Score(rows, n, r, spread[n])]
    IN  SetToSortSeq({n \in PlNodes : Feasible(rows, n, r, TRUE)},
                     LAMBDA a, b : sc[a] > sc[b] \/ (sc[a] = sc[b] /\ a < b))

-----------------------------------------------------------------------------
\* One call of ScheduleWait

Move(r, changes) == sched' = [sched EXCEPT ![r] = changes]
Ends(r, result) == Move(r, [PlIdle EXCEPT !.pc = "done", !.result = result])
StoreFails(r) == plFaults < MaxPlFaults /\ plFaults' = plFaults + 1 /\ Ends(r, "error")

\* A caller that has gone already is refused before anything is placed for it.
Call(r) ==
    /\ sched[r].pc = "idle"
    /\ IF r \in left THEN Ends(r, "cancelled") ELSE Move(r, [sched[r] EXCEPT !.pc = "load"])
    /\ UNCHANGED <<ready, rowCommitted, heldOn, starting, left, turns, plFaults>>
LoadNodes(r) ==
    /\ sched[r].pc = "load"
    /\ \/ Move(r, [sched[r] EXCEPT !.pc = "rank", !.seen = NodeRows]) /\ UNCHANGED plFaults
       \/ StoreFails(r)
    /\ UNCHANGED <<ready, rowCommitted, heldOn, starting, left, turns>>
\* The schedule fails for want of capacity; ScheduleWait returns that, or sees whether to wait.
Refused(r) == IF ReqSpec[r].waits THEN Move(r, [sched[r] EXCEPT !.pc = "worth", !.ranked = <<>>]) ELSE Ends(r, "noCapacity")
SpreadCounts(r) ==
    [n \in PlNodes |-> When(ReqSpec[r].group # "", Cardinality({q \in Reqs : heldOn[q] = n /\ ReqSpec[q].group = ReqSpec[r].group}))]
RankAndExplain(r) ==
    /\ sched[r].pc = "rank"
    /\ LET ranked == RankNodes(sched[r].seen, SpreadCounts(r), r)
       IN  CASE ranked # <<>> -> Move(r, [sched[r] EXCEPT !.pc = "reserve", !.spread = SpreadCounts(r), !.ranked = ranked])
             [] ranked = <<>> /\ CpuRejection(sched[r].seen, r) -> Ends(r, "incompatible")
             [] OTHER -> Refused(r)
    /\ UNCHANGED <<ready, rowCommitted, heldOn, starting, left, turns, plFaults>>

\* Reserve's conditional update: the state and the four resources, not the creates in flight.
Commits(n, r) == n \in ready /\ RowFits(NodeRows, n, r)
\* Mutant of NextCandidate: the first candidate that filled up fails the request.
NextCandidateNone(r) == Refused(r)
\* A candidate that filled up is skipped; after the last, the nodes are read and ranked again.
NextCandidate(r) ==
    LET rest == Tail(sched[r].ranked)
    IN  CASE rest # <<>> -> Move(r, [sched[r] EXCEPT !.ranked = rest])
          [] rest = <<>> /\ sched[r].attempt + 1 < PlAttempts ->
                Move(r, [sched[r] EXCEPT !.pc = "load", !.attempt = @ + 1, !.ranked = <<>>])
          [] OTHER -> Refused(r)
\* An error other than lost capacity ends the call, the commit made or not.
TryReserve(r) ==
    /\ sched[r].pc = "reserve"
    /\ LET n == Head(sched[r].ranked)
           commits == /\ rowCommitted' = [rowCommitted EXCEPT ![n] = [k \in Resources |-> @[k] + ReqSpec[r].need[k]]]
                      /\ heldOn' = [heldOn EXCEPT ![r] = n] /\ starting' = [starting EXCEPT ![r] = n]
       IN  \/ Commits(n, r) /\ commits /\ Ends(r, "placed") /\ UNCHANGED plFaults
           \/ ~Commits(n, r) /\ NextCandidate(r) /\ UNCHANGED <<rowCommitted, heldOn, starting, plFaults>>
           \/ StoreFails(r) /\ IF Commits(n, r) THEN commits \/ UNCHANGED <<rowCommitted, heldOn, starting>> ELSE UNCHANGED <<rowCommitted, heldOn, starting>>
    /\ UNCHANGED <<ready, left, turns>>

\* worthWaiting, then the deadline, which is looked at only after a poll.
WorthWaiting(r) ==
    /\ sched[r].pc = "worth"
    /\ \/ /\ UNCHANGED plFaults
          /\ IF \A n \in InRegion(r) : Blockers(NodeRows, n, r) # {} THEN Ends(r, "noCapacity")
             ELSE \/ sched[r].ticks > 0 /\ Ends(r, "queueTimeout")
                  \/ sched[r].ticks < MaxTicks /\ Move(r, [sched[r] EXCEPT !.pc = "wait"])
       \/ plFaults < MaxPlFaults /\ plFaults' = plFaults + 1 /\ Ends(r, "noCapacityUnread")
    /\ UNCHANGED <<ready, rowCommitted, heldOn, starting, left, turns>>
\* The select, which may take the tick although the caller has gone.
PollTick(r) ==
    /\ sched[r].pc = "wait"
    /\ \/ r \in left /\ Ends(r, "cancelled")
       \/ Move(r, [sched[r] EXCEPT !.pc = "load", !.attempt = 0, !.ticks = @ + 1])
    /\ UNCHANGED <<ready, rowCommitted, heldOn, starting, left, turns, plFaults>>

\* Around the scheduler: the caller hangs up, the create settles, the sandbox ends, and
\* sweeps, drains and heartbeats move the node's state.
HangUp(r) == r \notin left /\ sched[r].pc \in {"idle", "wait"} /\ left' = left \cup {r}
             /\ UNCHANGED <<ready, rowCommitted, heldOn, starting, sched, turns, plFaults>>
CreateSettles(r) == sched[r].pc = "done" /\ starting[r] # NoNode /\ starting' = [starting EXCEPT ![r] = NoNode]
                    /\ UNCHANGED <<ready, rowCommitted, heldOn, sched, left, turns, plFaults>>
ReleaseResv(r) ==
    /\ sched[r].pc = "done" /\ heldOn[r] # NoNode /\ heldOn' = [heldOn EXCEPT ![r] = NoNode]
    /\ rowCommitted' = [rowCommitted EXCEPT ![heldOn[r]] = [k \in Resources |-> @[k] - ReqSpec[r].need[k]]]
    /\ UNCHANGED <<ready, starting, sched, left, turns, plFaults>>
NodeTurns(n) ==
    /\ turns < MaxTurns /\ turns' = turns + 1
    /\ ready' = IF n \in ready THEN ready \ {n} ELSE ready \cup {n}
    /\ UNCHANGED <<rowCommitted, heldOn, starting, sched, left, plFaults>>

Running(r) == sched[r].pc \notin {"idle", "done"}
Roomy(r) == LET rows == NodeRows IN {n \in PlNodes : Feasible(rows, n, r, TRUE)}
Watch ==
    /\ roomy' = [r \in Reqs |-> IF ~Running(r)' THEN roomy[r] ELSE IF ~Running(r) THEN Roomy(r)' ELSE roomy[r] \cap Roomy(r)']
    /\ someRoom' = [r \in Reqs |-> someRoom[r] /\ (Running(r)' => Roomy(r)' # {})]
PlNext ==
    /\ \/ \E r \in Reqs : Call(r) \/ LoadNodes(r) \/ RankAndExplain(r) \/ TryReserve(r) \/ WorthWaiting(r) \/ PollTick(r)
                          \/ HangUp(r) \/ CreateSettles(r) \/ ReleaseResv(r)
       \/ \E n \in PlNodes : NodeTurns(n)
    /\ Watch
PlSpec == PlInit /\ [][PlNext]_plVars

-----------------------------------------------------------------------------
\* A node no worse than n for r when r's call read the nodes.
AsGood(m, n, r) == NodeSpec[m] = NodeSpec[n] /\ sched[r].seen.inFlight[m] <= sched[r].seen.inFlight[n]
\* Of the scheduler under contention, whatever the replicas' order:
\* no node holds more than it has, or a request it must not run;
\* a request is refused only when every node it could run on was, at some moment of the
\* call, without room for it, and one that waits only when at some moment all of them were;
\* no member of a group is about to join another that its call saw, while a node as good
\* had room all along; the filter and worthWaiting's blockers agree on every node.
PlacementSound ==
    /\ \A n \in PlNodes, k \in Resources : rowCommitted[n][k] <= NodeSpec[n].alloc[k]
    /\ \A r \in Reqs : heldOn[r] # NoNode =>
          NodeSpec[heldOn[r]].region = ReqSpec[r].region /\ HasRuntime(heldOn[r], r) /\ LabelsMatch(heldOn[r], r) /\ CheckCPU(heldOn[r], r)
    /\ \A r \in Reqs : sched[r].result \in {"noCapacity", "incompatible", "queueTimeout"} => roomy[r] = {}
    /\ \A r \in Reqs : sched[r].result = "noCapacity" /\ ReqSpec[r].waits => ~someRoom[r]
    /\ \A r \in Reqs : sched[r].pc = "reserve" /\ Commits(Head(sched[r].ranked), r) /\ sched[r].spread[Head(sched[r].ranked)] > 0 =>
          \A m \in roomy[r] : AsGood(m, Head(sched[r].ranked), r) => sched[r].spread[m] > 0
    /\ LET rows == NodeRows IN
       \A r \in Reqs : sched[r].pc = "worth" => \A n \in InRegion(r) : Feasible(rows, n, r, TRUE) <=> Blockers(rows, n, r) = {}
\* ScheduleWait, before the first attempt: "a caller that had already hung up could still
\* have a node reserved for it"
NothingForTheGone == \A r \in Reqs : r \in left => sched[r].pc # "reserve"
=============================================================================
