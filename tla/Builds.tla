------------------------------- MODULE Builds -------------------------------
(***************************************************************************)
(* Templates and the builds that make them: the templates table, the       *)
(* gateway's handlers (api/build.go, api/templates.go), the image service  *)
(* (internal/control/image), and a node's registry of builds in progress   *)
(* (buildreg.go, StartBuild and its neighbours in grpc.go).                *)
(*                                                                         *)
(* A build runs under the node's own context. Whichever replica of the     *)
(* gateway polls for it writes down how it ended, so several may, and none *)
(* may while the replicas are down. A replica's image service has a mutex; *)
(* other replicas do not share it.                                         *)
(***************************************************************************)
EXTENDS Naturals, Sequences, FiniteSets, TLC, Functions, SequencesExt

CONSTANTS
    Tpls,         \* template ids
    Tags,         \* tags clients build
    Refs,         \* image references sandboxes are created from
    Replicas,     \* replicas of the gateway
    Builders,     \* nodes
    Careful,      \* clients leave a tag alone while a request for it is served
    BuildFaults,  \* the kinds of fault the environment may inject
    MaxBuildFaults, \* bound: how many happen, each kind once
    Nobody        \* no node, no build

ASSUME BuildAssumption ==
    /\ Careful \in BOOLEAN /\ MaxBuildFaults \in Nat
    /\ Nobody \notin Builders \cup Tpls /\ Tags \cap Refs = {}

VARIABLES
    tpls,         \* the templates table, least recently updated first
    live,         \* replicas that are up
    bg,           \* goroutines of the replicas in progress -> where they are
    cancelOf,     \* node, tag -> the build a CancelBuild would stop
    outcome,      \* node, tag -> how the last build ended
    run,          \* builds in progress on nodes
    stopped,      \* builds whose context is cancelled
    files,        \* node -> tags with an image in its image directory
    published,    \* tags whose layers are in the object store
    asked,        \* template ids handed out
    mishaps       \* the kinds of fault that have happened

ctlVars == <<tpls, live, bg, asked>>
nodeVars == <<cancelOf, outcome, run, stopped, files, published>>
buildVars == <<ctlVars, nodeVars, mishaps>>

Idle == [pc |-> "none"]

BuildInit ==
    /\ tpls = <<>> /\ live = Replicas /\ asked = {} /\ mishaps = {}
    /\ bg = <<>>
    /\ cancelOf = [n \in Builders |-> [t \in Tags |-> Nobody]]
    /\ outcome = [n \in Builders |-> [t \in Tags |-> "none"]]
    /\ run = [i \in Tpls |-> Idle] /\ stopped = {}
    /\ files = [n \in Builders |-> {}] /\ published = {}

Mishap(kind) ==
    /\ kind \in BuildFaults \ mishaps /\ Cardinality(mishaps) < MaxBuildFaults
    /\ mishaps' = mishaps \cup {kind}
NoMishap == mishaps' = mishaps

At(j, pc) == bg[j].pc = pc
Go(j, c) == bg' = (j :> c) @@ bg
Moved(j, pc) == Go(j, [bg[j] EXCEPT !.pc = pc])
Ended(j) == bg' = Restrict(bg, DOMAIN bg \ {j})
Will(j, state) == Go(j, [bg[j] EXCEPT !.pc = "mark", !.to = state])

----------------------------------------------------------------------------
(* The templates table *)

Drop(id) == SelectSeq(tpls, LAMBDA t : t.id # id)
PutTemplate(t) == tpls' = Append(Drop(t.id), t)
DeleteTemplate(id) == tpls' = Drop(id)

\* The rows of a name, and the one updated last: names are not unique.
Named(name) == {i \in DOMAIN tpls : tpls[i].name = name}
GetTemplateByName(name) ==
    LET last == CHOOSE i \in Named(name) : \A k \in Named(name) : k <= i
    IN  IF Named(name) = {} THEN <<>> ELSE <<tpls[last]>>

ListTemplates(state) == {i \in DOMAIN tpls : tpls[i].state = state}

\* The image service's mutex is taken while a goroutine of the replica is
\* between its read and its write.
Unlocked(r) == \A j \in DOMAIN bg : j.rep = r => bg[j].pc \notin {"put", "putnode", "register"}

\* Careful clients start or delete a tag when nobody is busy with it.
Busy(name) ==
    \/ \E j \in DOMAIN bg : bg[j].name = name
    \/ \E i \in Tpls : run[i] # Idle /\ run[i].name = name
MayTouch(name) == Careful => ~Busy(name)

----------------------------------------------------------------------------
(* Requests *)

Fresh(id) == id \notin asked /\ asked' = asked \cup {id}
Call(name, pc) == [pc |-> pc, name |-> name, node |-> Nobody, to |-> "BUILDING", seen |-> <<>>]

\* handleBuild up to its lookup: a name that exists is refused.
HandleBuild(r, id, name) ==
    /\ r \in live /\ MayTouch(name) /\ Fresh(id)
    /\ GetTemplateByName(name) = <<>>
    /\ Go([rep |-> r, tpl |-> id, kind |-> "build"], Call(name, "claim"))
    /\ NoMishap /\ UNCHANGED <<tpls, live, nodeVars>>

ClaimTag(j) ==
    /\ At(j, "claim") /\ j.kind = "build"
    /\ \/ /\ PutTemplate([id |-> j.tpl, name |-> bg[j].name, state |-> "BUILDING",
                          node |-> Nobody, source |-> "built"])
          /\ Moved(j, "pick") /\ NoMishap
       \/ Ended(j) /\ tpls' = tpls /\ Mishap("store")
    /\ UNCHANGED <<live, asked, nodeVars>>

PickBuilder(j) ==
    /\ At(j, "pick")
    /\ \/ \E n \in Builders : Go(j, [bg[j] EXCEPT !.pc = "setnode", !.node = n]) /\ NoMishap
       \/ Will(j, "FAILED") /\ Mishap("no_builder")
    /\ UNCHANGED <<tpls, live, asked, nodeVars>>

\* SetBuildNode: a read and a write under the replica's mutex.
SetBuildNodeRead(j) ==
    /\ At(j, "setnode") /\ Unlocked(j.rep)
    /\ LET t == GetTemplateByName(bg[j].name)
       IN  IF t = <<>> THEN Will(j, "FAILED")
           ELSE Go(j, [bg[j] EXCEPT !.pc = "putnode", !.seen = t])
    /\ NoMishap /\ UNCHANGED <<tpls, live, asked, nodeVars>>

SetBuildNodeWrite(j) ==
    /\ At(j, "putnode")
    /\ \/ /\ PutTemplate([bg[j].seen[1] EXCEPT !.node = bg[j].node])
          /\ Moved(j, "start") /\ NoMishap
       \/ tpls' = tpls /\ Will(j, "FAILED") /\ Mishap("store")
    /\ UNCHANGED <<live, asked, nodeVars>>

\* add: a build that is registered for the tag is cancelled and replaced.
Register(n, name, id) ==
    /\ stopped' = stopped \cup ({cancelOf[n][name]} \ {Nobody})
    /\ cancelOf' = [cancelOf EXCEPT ![n][name] = id]
    /\ outcome' = [outcome EXCEPT ![n][name] = "none"]
    /\ run' = [run EXCEPT ![id] = [pc |-> "buildctl", name |-> name, node |-> n, ok |-> FALSE]]
    /\ UNCHANGED <<files, published>>

\* runBuild's StartBuild: answered, refused, or its answer is lost.
StartBuild(j) ==
    /\ At(j, "start")
    /\ \/ Register(bg[j].node, bg[j].name, j.tpl) /\ Moved(j, "attach") /\ NoMishap
       \/ UNCHANGED nodeVars /\ Will(j, "FAILED") /\ Mishap("unreachable")
       \/ Register(bg[j].node, bg[j].name, j.tpl) /\ Will(j, "FAILED") /\ Mishap("lost_answer")
    /\ UNCHANGED <<tpls, live, asked>>

\* buildRegistry.status: an outcome wins over a registration.
Status(n, name) ==
    CASE outcome[n][name] # "none" -> outcome[n][name]
      [] cancelOf[n][name] # Nobody -> "running"
      [] OTHER -> "unknown"

\* pollBuild needs a connection to the node before its first tick.
PollAttach(j) ==
    /\ At(j, "attach")
    /\ \/ Moved(j, "poll") /\ NoMishap
       \/ Will(j, "FAILED") /\ Mishap("unreachable")
    /\ UNCHANGED <<tpls, live, asked, nodeVars>>

\* pollBuild, a tick with news. Errors, RUNNING and UNKNOWN are polled again.
PollTick(j) ==
    /\ At(j, "poll")
    /\ \/ Status(bg[j].node, bg[j].name) = "succeeded" /\ Will(j, "READY")
       \/ Status(bg[j].node, bg[j].name) = "failed" /\ Will(j, "FAILED")
    /\ NoMishap /\ UNCHANGED <<tpls, live, asked, nodeVars>>

\* pollBuild's deadline. It is longer than any build that ends takes, so it
\* strikes when the node does not know the build and nobody is about to start
\* it, or when the build hangs.
PollDeadline(j) ==
    /\ At(j, "poll")
    /\ \A k \in DOMAIN bg : bg[k].name = bg[j].name => bg[k].pc # "start"
    /\ \/ Status(bg[j].node, bg[j].name) = "unknown" /\ NoMishap
       \/ Status(bg[j].node, bg[j].name) = "running" /\ Mishap("slow")
    /\ Will(j, "FAILED")
    /\ UNCHANGED <<tpls, live, asked, nodeVars>>

\* transition, as MarkReady and MarkFailed: a read and a write under the
\* replica's mutex. A failed MarkReady is followed by failTemplate.
Transition(j) ==
    /\ At(j, "mark") /\ Unlocked(j.rep)
    /\ LET t == GetTemplateByName(bg[j].name)
       IN  IF t = <<>> THEN Ended(j) ELSE Go(j, [bg[j] EXCEPT !.pc = "put", !.seen = t])
    /\ NoMishap /\ UNCHANGED <<tpls, live, asked, nodeVars>>

TransitionPut(j) ==
    /\ At(j, "put")
    /\ \/ PutTemplate([bg[j].seen[1] EXCEPT !.state = bg[j].to]) /\ Ended(j) /\ NoMishap
       \/ /\ tpls' = tpls /\ Mishap("store")
          /\ IF bg[j].to = "READY" /\ j.kind # "create" THEN Will(j, "FAILED") ELSE Ended(j)
    /\ UNCHANGED <<live, asked, nodeVars>>

\* handleBuildCancel: the record names the node, the node stops the build.
HandleBuildCancel(r, name) ==
    /\ r \in live /\ GetTemplateByName(name) # <<>>
    /\ LET t == GetTemplateByName(name)[1]
           j == [rep |-> r, tpl |-> t.id, kind |-> "cancel"]
       IN  /\ t.state = "BUILDING" /\ t.node # Nobody /\ j \notin DOMAIN bg
           /\ Go(j, [Call(name, "cancel") EXCEPT !.node = t.node])
    /\ NoMishap /\ UNCHANGED <<tpls, live, asked, nodeVars>>

CancelBuild(j) ==
    /\ At(j, "cancel")
    /\ stopped' = stopped \cup ({cancelOf[bg[j].node][bg[j].name]} \ {Nobody})
    /\ Ended(j)
    /\ NoMishap /\ UNCHANGED <<tpls, live, asked, cancelOf, outcome, run, files, published>>

\* handleDeleteTemplate: the row asked for is looked up, and DeleteFor deletes
\* the latest row of its name.
DeleteFor(name) == DeleteTemplate(GetTemplateByName(name)[1].id)

HandleDeleteTemplate(r, i) ==
    /\ r \in live /\ Unlocked(r) /\ MayTouch(tpls[i].name)
    /\ DeleteFor(tpls[i].name)
    /\ NoMishap /\ UNCHANGED <<live, bg, asked, nodeVars>>

\* A create from, or a prewarm of, an image reference. ResolveFor registers
\* an unseen one.
ResolveFor(r, id, ref, kind) ==
    LET j == [rep |-> r, tpl |-> id, kind |-> kind]
        t == GetTemplateByName(ref)
    IN  /\ r \in live /\ Unlocked(r) /\ MayTouch(ref) /\ Fresh(id)
        /\ \/ t = <<>> /\ Go(j, Call(ref, "register"))
           \/ t # <<>> /\ t[1].state # "READY" /\ kind = "create" /\ Go(j, Call(ref, "convert"))
           \/ t # <<>> /\ kind = "prewarm" /\ Go(j, Call(ref, "warm"))
        /\ NoMishap /\ UNCHANGED <<tpls, live, nodeVars>>

ResolvePut(j) ==
    /\ At(j, "register")
    /\ PutTemplate([id |-> j.tpl, name |-> bg[j].name, state |-> "PENDING",
                    node |-> Nobody, source |-> "converted"])
    /\ Moved(j, IF j.kind = "create" THEN "convert" ELSE "warm")
    /\ NoMishap /\ UNCHANGED <<live, asked, nodeVars>>

\* The node's answer to the create carries the conversion, if it succeeded.
Converted(j) ==
    /\ At(j, "convert")
    /\ \/ Will(j, "READY") /\ NoMishap
       \/ Ended(j) /\ Mishap("unreachable")
    /\ UNCHANGED <<tpls, live, asked, nodeVars>>

\* runPrewarmJob asks each node in turn; a node that cannot is passed over.
RunPrewarmJob(j) ==
    /\ At(j, "warm")
    /\ \E n \in Builders \ ToSet(bg[j].seen) :
        /\ \/ files' = [files EXCEPT ![n] = @ \cup {bg[j].name}] /\ NoMishap
           \/ files' = files /\ Mishap("unreachable")
        /\ IF Len(bg[j].seen) + 1 = Cardinality(Builders) THEN Ended(j)
           ELSE Go(j, [bg[j] EXCEPT !.seen = Append(@, n)])
    /\ UNCHANGED <<tpls, live, asked, cancelOf, outcome, run, stopped, published>>

----------------------------------------------------------------------------
(* The node *)

\* buildctl fails when it is killed, and otherwise as the Dockerfile has it.
Buildctl(i) == IF i \in stopped THEN {FALSE} ELSE BOOLEAN

\* Build up to the export. An image that exists is an error.
Build(i) ==
    /\ run[i].pc = "buildctl"
    /\ \E ok \in Buildctl(i) :
        run' = [run EXCEPT ![i].pc =
                  IF ok /\ run[i].name \notin files[run[i].node] THEN "write" ELSE "finish"]
    /\ NoMishap /\ UNCHANGED <<ctlVars, cancelOf, outcome, stopped, files, published>>

WriteBaseImage(i) ==
    /\ run[i].pc = "write"
    /\ files' = [files EXCEPT ![run[i].node] = @ \cup {run[i].name}]
    /\ run' = [run EXCEPT ![i].pc = "publish"]
    /\ NoMishap /\ UNCHANGED <<ctlVars, cancelOf, outcome, stopped, published>>


\* PublishBuiltRootfs: its failure fails the build, the local image stays.
PublishBuiltRootfs(i) ==
    /\ run[i].pc = "publish"
    /\ \/ /\ i \notin stopped /\ NoMishap
          /\ run' = [run EXCEPT ![i].pc = "finish", ![i].ok = TRUE]
          /\ published' = published \cup {run[i].name}
       \/ /\ (i \in stopped /\ NoMishap) \/ Mishap("publish")
          /\ run' = [run EXCEPT ![i].pc = "finish"] /\ UNCHANGED published
    /\ UNCHANGED <<ctlVars, cancelOf, outcome, stopped, files>>


\* The log is sealed, and the outcome recorded. A log that cannot be sealed
\* fails a build that succeeded.
SetOutcome(i) ==
    /\ run[i].pc = "finish"
    /\ \E ok \in {run[i].ok, FALSE} :
        /\ ok = run[i].ok \/ Mishap("log")
        /\ ok = run[i].ok => NoMishap
        /\ outcome' = [outcome EXCEPT ![run[i].node][run[i].name] =
                         IF ok THEN "succeeded" ELSE "failed"]
    /\ run' = [run EXCEPT ![i].pc = "release"]
    /\ UNCHANGED <<ctlVars, cancelOf, stopped, files, published>>

\* The done of add: removes whatever is registered for the tag.
ReleaseBuild(i) ==
    /\ run[i].pc = "release"
    /\ cancelOf' = [cancelOf EXCEPT ![run[i].node][run[i].name] = Nobody]
    /\ run' = [run EXCEPT ![i] = Idle] /\ stopped' = stopped \cup {i}
    /\ NoMishap /\ UNCHANGED <<ctlVars, outcome, files, published>>

BuildStep(i) ==
    Build(i) \/ WriteBaseImage(i) \/ PublishBuiltRootfs(i) \/ SetOutcome(i) \/ ReleaseBuild(i)

\* The daemon restarts: its registry is memory, its image directory is not.
NodeRestart(n) ==
    /\ Mishap("node_restart")
    /\ cancelOf' = [cancelOf EXCEPT ![n] = [t \in Tags |-> Nobody]]
    /\ outcome' = [outcome EXCEPT ![n] = [t \in Tags |-> "none"]]
    /\ run' = [i \in Tpls |-> IF run[i] # Idle /\ run[i].node = n THEN Idle ELSE run[i]]
    /\ UNCHANGED <<ctlVars, stopped, files, published>>

----------------------------------------------------------------------------
(* Replicas *)

Crash(r) ==
    /\ r \in live /\ Mishap("crash")
    /\ live' = live \ {r}
    /\ bg' = Restrict(bg, {j \in DOMAIN bg : j.rep # r})
    /\ UNCHANGED <<tpls, asked, nodeVars>>

\* Mutant of Resumed: a row no node was recorded for is skipped.
ResumedPlaced(t) ==
    IF t.node = Nobody THEN Call(t.name, "skipped")
    ELSE [Call(t.name, "attach") EXCEPT !.node = t.node]

\* What becomes of a BUILDING row: a row with no node is failed.
Resumed(t) ==
    IF t.node = Nobody THEN [Call(t.name, "mark") EXCEPT !.to = "FAILED"]
    ELSE [Call(t.name, "attach") EXCEPT !.node = t.node]

\* ReconcileBuilds, as a replica starts: one poller per BUILDING row.
ReconcileBuilds(r) ==
    /\ r \notin live /\ live' = live \cup {r}
    /\ LET mine == ListTemplates("BUILDING")
           row(j) == tpls[CHOOSE i \in mine : tpls[i].id = j.tpl]
           resumed == [j \in [rep : {r}, tpl : {tpls[i].id : i \in mine}, kind : {"resume"}] |->
                        Resumed(row(j))]
       IN  bg' = resumed @@ bg
    /\ NoMishap /\ UNCHANGED <<tpls, asked, nodeVars>>

JobStep(j) ==
    \/ ClaimTag(j) \/ PickBuilder(j) \/ SetBuildNodeRead(j) \/ SetBuildNodeWrite(j)
    \/ StartBuild(j) \/ PollAttach(j) \/ PollTick(j) \/ PollDeadline(j) \/ Transition(j) \/ TransitionPut(j)
    \/ CancelBuild(j) \/ ResolvePut(j) \/ Converted(j) \/ RunPrewarmJob(j)

TagRequests ==
    \E r \in Replicas, t \in Tags : (\E id \in Tpls : HandleBuild(r, id, t)) \/ HandleBuildCancel(r, t)

RefRequests ==
    \E r \in Replicas, id \in Tpls, t \in Refs, k \in {"create", "prewarm"} : ResolveFor(r, id, t, k)

BuildInternal ==
    \/ \E r \in Replicas, i \in DOMAIN tpls : HandleDeleteTemplate(r, i)
    \/ \E j \in DOMAIN bg : JobStep(j)
    \/ \E i \in Tpls : BuildStep(i)
    \/ \E n \in Builders : NodeRestart(n)
    \/ \E r \in Replicas : Crash(r) \/ ReconcileBuilds(r)

BuildNext == TagRequests \/ RefRequests \/ BuildInternal

\* Goroutines run, builds end or are caught by the poller's deadline, and a
\* replica that died is started again. Each goroutine takes finitely many
\* steps and only cancels may be asked for without end, so it is enough that
\* some other goroutine runs whenever one can.
BuildFairness ==
    /\ WF_buildVars(\E j \in DOMAIN bg : j.kind # "cancel" /\ JobStep(j))
    /\ WF_buildVars(\E i \in Tpls : BuildStep(i))
    /\ WF_buildVars(\E r \in Replicas : ReconcileBuilds(r))

BuildSpec == BuildInit /\ [][BuildNext]_buildVars /\ BuildFairness

----------------------------------------------------------------------------
(* Properties *)



\* Every BUILDING template ends READY or FAILED, or is deleted, although the
\* replica that started it may die and the node may forget the build. Only a
\* write the store refuses leaves one BUILDING until a replica restarts.
BuildsSettle ==
    \A id \in Tpls :
        (\E i \in DOMAIN tpls : tpls[i].id = id /\ tpls[i].state = "BUILDING")
        ~> \/ \A i \in DOMAIN tpls : tpls[i].id = id => tpls[i].state # "BUILDING"
           \/ "store" \in mishaps

\* Two builds cannot race to the same reference (handleBuild's claim).
OneBuildPerTag ==
    \A t \in Tags : Cardinality({i \in Named(t) : tpls[i].state = "BUILDING"}) <= 1

\* A duplicate poller at most repeats a terminal write (pollBuild).
PollersAgree ==
    [][\A i \in DOMAIN tpls, k \in DOMAIN tpls' :
        tpls[i].id = tpls'[k].id /\ tpls[i].state = "READY" => tpls'[k].state = "READY"]_buildVars
=============================================================================
