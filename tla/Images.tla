------------------------------- MODULE Images -------------------------------
(***************************************************************************)
(* How a node turns an image reference, a template or a snapshot into the  *)
(* layer chain of a block device (internal/node/image): the walk over a    *)
(* manifest with its lookup levels, the single flight of conversions, the  *)
(* publication of sealed layers and of the index that says which of them   *)
(* make up an image, the sealing of a running sandbox's filesystem, and    *)
(* the two transports a chain is attached through.                         *)
(*                                                                         *)
(* A sealed overlaybd layer holds blocks, and which blocks a tar touches   *)
(* depends on the filesystem it is applied over: the content of a sealed   *)
(* layer is modelled by the digests of the layers it was sealed over and   *)
(* by the size its filesystem was formatted to.                            *)
(***************************************************************************)
EXTENDS Integers, Sequences, FiniteSets, SequencesExt, Functions, TLC

CONSTANTS
    Nodes, UblkNodes,     \* the nodes, and those that serve chains over ublk
    LazyNodes,            \* nodes started with --fc-overlaybd-lazy-pull
    Refs, Pinned,         \* references, and those that name a digest (ref@sha256)
    BuildRefs,            \* references only ever tagged by a build
    Pushed,               \* manifests a tag may be pushed to later
    Digests, ChainOf,     \* manifests of the registry and their layers, base first
    VsizeOf,              \* vsizeForImage of each manifest, in GB
    RegistrySealed,       \* layers the registry already serves in overlaybd form
    FirstOf, NoDigest,    \* what the registry's tags name at first
    ImgCalls,                \* calls of the provider: creates, prewarms, seals, builds
    DiskGB,               \* the disk a create asks for
    MaxImgFaults, MaxMoves

ASSUME ImagesAssumption ==
    /\ Pushed \subseteq Digests /\ UblkNodes \subseteq Nodes /\ LazyNodes \subseteq Nodes
    /\ Pinned \subseteq Refs /\ BuildRefs \subseteq Refs
    /\ FirstOf \in [Refs -> Digests \cup {NoDigest}]
    /\ \A ref \in Refs : FirstOf[ref] = NoDigest <=> ref \in BuildRefs
    /\ \A d \in Digests : ChainOf[d] \in Seq(UNION {Range(ChainOf[e]) : e \in Digests})
    /\ MaxImgFaults \in Nat /\ MaxMoves \in Nat

VARIABLES
    upstream,     \* the registry: what each tag names now
    sealedAt,     \* LayerDir of each node: digest -> content of the sealed file
    recordAt,     \* ImageDir of each node: ref -> [d, chain]
    blobs,        \* the object store's blobs/: digest -> content
    manifests,    \* manifests/: digest -> chain
    tags,         \* tags/: ref -> digest
    flights,      \* p.layers.inflight of each node: digest -> leader and build
    calls,        \* the calls and the sandboxes they brought up
    reported,     \* digests handed to the control plane as templates or snapshots
    lostPuts,     \* layers an upload of which failed
    imgFaults, moves

storeVars == <<blobs, manifests, tags>>
imgVars == <<upstream, sealedAt, recordAt, storeVars, flights, calls, reported, lostPuts, imgFaults, moves>>

Empty == <<>>
Blank == [op |-> "none", pc |-> "idle", n |-> NoDigest, ref |-> NoDigest, d |-> NoDigest, chain |-> Empty,
          publish |-> FALSE, remote |-> FALSE, lowers |-> Empty, vs |-> 0, of |-> NoDigest, size |-> 0]

\* What a layer was sealed over, and the size of the filesystem in it (0: none).
Content(over, vs) == [over |-> over, vs |-> vs]
LayerChain(lowers) == [i \in DOMAIN lowers |-> lowers[i].l]
Lower(l, at, vs) == [l |-> l, at |-> at, vs |-> vs]
ContentOf(n, low) == CASE low.at = "file" -> sealedAt[n][low.l]
                       [] low.at = "store" -> blobs[low.l]
                       [] OTHER -> Content(Empty, low.vs)
FirstRemote(lowers) == \E i \in DOMAIN lowers : lowers[i].at # "file"

ImgInit ==
    /\ upstream = FirstOf
    /\ sealedAt = [n \in Nodes |-> Empty] /\ recordAt = [n \in Nodes |-> Empty]
    /\ blobs = Empty /\ manifests = Empty /\ tags = Empty
    /\ flights = [n \in Nodes |-> Empty]
    /\ calls = [c \in ImgCalls |-> Blank]
    /\ reported = {} /\ lostPuts = {} /\ imgFaults = 0 /\ moves = 0

\* A call that talks to the registry, to the store or to a tool may fail.
Fault == imgFaults < MaxImgFaults /\ imgFaults' = imgFaults + 1
NoFault == imgFaults' = imgFaults
Become(c, new) == calls' = [calls EXCEPT ![c] = new]
CallGoto(c, pc) == Become(c, [calls[c] EXCEPT !.pc = pc])
Add(c, low, pc) == Become(c, [calls[c] EXCEPT !.lowers = Append(@, low), !.pc = pc])

\* The next layer of the walk, its vsize, and whether the walk has them all.
CallAt(c, pc) == calls[c].pc = pc
Walked(c) == Len(calls[c].lowers) = Len(calls[c].chain)
NextLayer(c) == calls[c].chain[Len(calls[c].lowers) + 1]
Vsize(c) == IF calls[c].lowers = Empty /\ calls[c].d \in Digests THEN VsizeOf[calls[c].d] ELSE 1
Lazy(c) == calls[c].n \in LazyNodes

(***************************************************************************)
(* The calls.                                                              *)
(***************************************************************************)
Starts(c, call) == calls[c] = Blank /\ Become(c, call) /\ NoFault
    /\ UNCHANGED <<upstream, sealedAt, recordAt, storeVars, flights, reported, lostPuts, moves>>

\* Prepare on a reference: a cold create, which publishes when asked to.
StartCreate(c, n, ref, publish) ==
    Starts(c, [Blank EXCEPT !.op = "create", !.pc = "manifest", !.n = n, !.ref = ref,
                            !.publish = publish, !.remote = ~publish])

StartPrewarm(c, n, ref) ==
    Starts(c, [Blank EXCEPT !.op = "prewarm", !.pc = "manifest", !.n = n, !.ref = ref, !.publish = TRUE])

\* Prepare on a manifest digest: a create from a template, or a restore.
StartRestore(c, n, d) ==
    /\ d \in reported
    /\ Starts(c, [Blank EXCEPT !.op = "restore", !.pc = "lowers", !.n = n, !.d = d])

\* SealSnapshotFS of a sandbox that has written something. A cold start's base is
\* its reference, resolved again here; any other base is a manifest digest. The tcmu
\* route refuses while overlaybd's daemon has not written the index to disk.
StartSeal(c, s) ==
    /\ CallAt(s, "up")
    /\ \E indexed \in BOOLEAN : LET box == calls[s]
                                 cold == box.op = "create"
       IN /\ box.n \in UblkNodes => indexed
          /\ Starts(c, [Blank EXCEPT !.op = "seal", !.n = box.n, !.of = s,
                                  !.pc = CASE ~indexed -> "failed" [] cold -> "manifest" [] OTHER -> "lowers",
                                  !.ref = IF cold THEN box.ref ELSE NoDigest,
                                  !.d = IF cold THEN NoDigest ELSE box.d])

\* PublishBuiltRootfs: the flattened rootfs becomes one sealed base layer, keyed by
\* the digest of the tar.
StartBuild(c, n, ref) ==
    /\ calls[c] = Blank
    /\ sealedAt' = [sealedAt EXCEPT ![n] = c :> Content(Empty, 2) @@ @]
    /\ Become(c, [Blank EXCEPT !.op = "build", !.pc = "put", !.n = n, !.ref = ref, !.d = c,
                               !.chain = <<c>>, !.publish = TRUE])
    /\ NoFault /\ UNCHANGED <<upstream, recordAt, storeVars, flights, reported, lostPuts, moves>>

(***************************************************************************)
(* resolveManifest.                                                        *)
(***************************************************************************)
\* What the index answers for a reference: its digest, or nothing.
StoredDigest(ref) == CASE ref \in Pinned -> upstream[ref]
                       [] ref \in DOMAIN tags -> tags[ref]
                       [] OTHER -> NoDigest
Stored(ref) == StoredDigest(ref) \in DOMAIN manifests
Recorded(c) == calls[c].ref \in DOMAIN recordAt[calls[c].n]
RecordAnswers(c) == ~calls[c].publish /\ calls[c].ref \in Pinned /\ Recorded(c)

Resolved(c, d, chain) == Become(c, [calls[c] EXCEPT !.d = d, !.chain = chain, !.pc = "layer"])
ResolveOnly == UNCHANGED <<upstream, sealedAt, recordAt, storeVars, flights, reported, lostPuts, moves>>

\* manifestFromRecord: a pinned reference, or any when the registry is unreachable.
FromRecord(c) ==
    /\ CallAt(c, "manifest") /\ ~calls[c].publish /\ Recorded(c)
    /\ ~RecordAnswers(c) => ~Stored(calls[c].ref)
    /\ IF RecordAnswers(c) \/ upstream[calls[c].ref] = NoDigest THEN NoFault ELSE Fault
    /\ LET rec == recordAt[calls[c].n][calls[c].ref] IN Resolved(c, rec.d, rec.chain)
    /\ ResolveOnly

\* storedManifest: skipped by a prewarm, whose job is to refresh it.
FromStore(c) ==
    /\ CallAt(c, "manifest") /\ ~calls[c].publish /\ ~RecordAnswers(c) /\ Stored(calls[c].ref)
    /\ LET d == StoredDigest(calls[c].ref) IN Resolved(c, d, manifests[d])
    /\ NoFault /\ ResolveOnly

\* The registry; a store that could not be read counts as one that does not know.
FromRegistry(c) ==
    /\ CallAt(c, "manifest") /\ ~RecordAnswers(c) /\ upstream[calls[c].ref] # NoDigest
    /\ IF ~calls[c].publish /\ Stored(calls[c].ref) THEN Fault ELSE NoFault
    /\ LET d == upstream[calls[c].ref] IN Resolved(c, d, ChainOf[d])
    /\ ResolveOnly

\* The registry is unreachable and nothing is recorded, or the caller is a prewarm.
NoManifest(c) ==
    /\ CallAt(c, "manifest") /\ ~RecordAnswers(c)
    /\ calls[c].publish \/ ~Recorded(c)
    /\ ~calls[c].publish => ~Stored(calls[c].ref)
    /\ IF upstream[calls[c].ref] = NoDigest THEN NoFault ELSE Fault
    /\ CallGoto(c, "failed") /\ ResolveOnly

(***************************************************************************)
(* walk, one layer at a time.                                              *)
(***************************************************************************)
WalkOnly == UNCHANGED <<upstream, sealedAt, recordAt, storeVars, reported, lostPuts, moves>>
IsLevel0(c) == Lazy(c) /\ NextLayer(c) \in RegistrySealed
IsLevel1(c) == ~IsLevel0(c) /\ NextLayer(c) \in DOMAIN sealedAt[calls[c].n]

\* Level 0: the registry blob is already a sealed layer.
Level0(c) ==
    /\ CallAt(c, "layer") /\ ~Walked(c) /\ IsLevel0(c)
    /\ Add(c, Lower(NextLayer(c), "registry", Vsize(c)), "layer")
    /\ NoFault /\ WalkOnly /\ UNCHANGED flights

\* Level 1: this node has the sealed layer; a publishing walk uploads it all the same.
Level1(c) ==
    /\ CallAt(c, "layer") /\ ~Walked(c) /\ IsLevel1(c)
    /\ IF calls[c].publish
       THEN Become(c, [calls[c] EXCEPT !.pc = "put", !.vs = Vsize(c)])
       ELSE Add(c, Lower(NextLayer(c), "file", Vsize(c)), "layer")
    /\ NoFault /\ WalkOnly /\ UNCHANGED flights

\* Level 2: the store has it, and this walk may read it there.
HasRemote(c) == calls[c].remote /\ Lazy(c) /\ NextLayer(c) \in DOMAIN blobs
Level2(c) ==
    /\ CallAt(c, "layer") /\ ~Walked(c) /\ ~IsLevel0(c) /\ ~IsLevel1(c) /\ HasRemote(c)
    /\ Add(c, Lower(NextLayer(c), "store", 0), "layer")
    /\ NoFault /\ WalkOnly /\ UNCHANGED flights

\* Level 3: convert over the layers below, which have to be files. materialiseLayer
\* joins the conversion of this digest that is under way, or leads one.
Parents(c) == LayerChain(calls[c].lowers)
Flight(c) == [leader |-> c, over |-> Parents(c), vs |-> Vsize(c)]
Level3(c) ==
    /\ CallAt(c, "layer") /\ ~Walked(c) /\ ~IsLevel0(c) /\ ~IsLevel1(c)
    /\ IF HasRemote(c) THEN Fault ELSE NoFault
    /\ ~FirstRemote(calls[c].lowers)
    /\ LET n == calls[c].n IN
       IF NextLayer(c) \in DOMAIN flights[n]
       THEN CallGoto(c, "wait") /\ UNCHANGED flights
       ELSE /\ CallGoto(c, "convert")
            /\ flights' = [flights EXCEPT ![n] = NextLayer(c) :> Flight(c) @@ @]
    /\ WalkOnly

\* errRemoteParent: a create starts over and converts the whole chain locally,
\* anyone else fails.
RemoteParent(c) ==
    /\ CallAt(c, "layer") /\ ~Walked(c) /\ ~IsLevel0(c) /\ ~IsLevel1(c)
    /\ IF HasRemote(c) THEN Fault ELSE NoFault
    /\ FirstRemote(calls[c].lowers)
    /\ IF calls[c].remote
       THEN Become(c, [calls[c] EXCEPT !.remote = FALSE, !.lowers = Empty, !.pc = "manifest"])
       ELSE CallGoto(c, "failed")
    /\ WalkOnly /\ UNCHANGED flights

\* Those who get the outcome of the flight that c leads.
Aboard(c) == {w \in ImgCalls : w = c \/ (CallAt(w, "wait") /\ calls[w].n = calls[c].n /\ NextLayer(w) = NextLayer(c))}
Land(c, ok) ==
    calls' = [w \in ImgCalls |->
        CASE w \notin Aboard(c) -> calls[w]
          [] ~ok -> [calls[w] EXCEPT !.pc = "failed"]
          [] calls[w].publish -> [calls[w] EXCEPT !.pc = "put", !.vs = 0]
          [] OTHER -> [calls[w] EXCEPT !.pc = "layer", !.lowers = Append(@, Lower(NextLayer(c), "file", 0))]]

\* convertLayer and buildLayer: fetch, apply over the parents, seal, rename into place.
BuildLayer(c) ==
    LET n == calls[c].n
        l == NextLayer(c)
        f == flights[n][l]
    IN sealedAt' = [sealedAt EXCEPT ![n] = @ @@ l :> Content(f.over, IF f.over = Empty THEN f.vs ELSE 0)]

\* layerFlight.do ends: the entry goes first, then everyone aboard has its outcome.
ConvertLayer(c) ==
    /\ CallAt(c, "convert")
    /\ flights' = [flights EXCEPT ![calls[c].n] = [l \in DOMAIN @ \ {NextLayer(c)} |-> @[l]]]
    /\ \/ BuildLayer(c) /\ Land(c, TRUE) /\ NoFault
       \/ Fault /\ Land(c, FALSE) /\ UNCHANGED sealedAt
    /\ UNCHANGED <<upstream, recordAt, storeVars, reported, lostPuts, moves>>

\* A waiter keeps its own cancellation; the leader's is stripped.
Cancel(c) ==
    /\ CallAt(c, "wait") /\ Fault /\ CallGoto(c, "failed")
    /\ WalkOnly /\ UNCHANGED flights

(***************************************************************************)
(* publish, recordInStore and recordRef.                                   *)
(***************************************************************************)
\* The layer a call publishes: the next of its walk, or the one it sealed.
ToPut(c) == IF calls[c].op = "seal" THEN c ELSE NextLayer(c)
PutContent(c) == IF calls[c].op = "seal" THEN Content(LayerChain(calls[calls[c].of].lowers), 0)
                 ELSE sealedAt[calls[c].n][NextLayer(c)]
AfterPut(c) == CASE calls[c].op = "seal" -> Add(c, Lower(c, "store", 0), "index")
                 [] calls[c].op = "build" -> Add(c, Lower(c, "file", 2), "index")
                 [] OTHER -> Add(c, Lower(NextLayer(c), "file", calls[c].vs), "layer")

\* Published, now or before. A Stat that cannot be answered counts as "not there",
\* and the layer is uploaded again.
PublishLayer(c) ==
    /\ CallAt(c, "put")
    /\ \/ blobs' = blobs @@ ToPut(c) :> PutContent(c) /\ NoFault
       \/ ToPut(c) \in DOMAIN blobs /\ Fault /\ blobs' = ToPut(c) :> PutContent(c) @@ blobs
    /\ AfterPut(c)
    /\ UNCHANGED <<upstream, sealedAt, recordAt, manifests, tags, flights, reported, lostPuts, moves>>

\* The upload fails. A walk goes on with its local copy; a seal and a build report no
\* manifest.
PublishFails(c) ==
    /\ CallAt(c, "put") /\ ToPut(c) \notin DOMAIN blobs /\ Fault
    /\ IF calls[c].op \in {"seal", "build"} THEN CallGoto(c, "done") ELSE AfterPut(c)
    /\ lostPuts' = lostPuts \cup {ToPut(c)}
    /\ UNCHANGED <<upstream, sealedAt, recordAt, storeVars, flights, reported, moves>>

\* digestOfChain: a snapshot's manifest is addressed by its layers.
ManifestDigest(c) == IF calls[c].op = "seal" THEN LayerChain(calls[c].lowers) ELSE calls[c].d

\* The walk has its layers: the config is fetched, and the image recorded.
AfterWalk(c) == CASE calls[c].op = "create" -> "attach"
                  [] calls[c].op = "seal" -> "put"
                  [] OTHER -> "done"
RecordRef(c) ==
    /\ recordAt' = [recordAt EXCEPT ![calls[c].n] =
                        calls[c].ref :> [d |-> calls[c].d, chain |-> calls[c].chain] @@ @]
    /\ CallGoto(c, AfterWalk(c))
EndWalk(c) ==
    /\ CallAt(c, "layer") /\ Walked(c)
    /\ \/ Fault /\ CallGoto(c, "failed") /\ UNCHANGED recordAt   \* imageConfig
       \/ NoFault /\ IF calls[c].publish THEN CallGoto(c, "index") /\ UNCHANGED recordAt ELSE RecordRef(c)
    /\ UNCHANGED <<upstream, sealedAt, storeVars, flights, reported, lostPuts, moves>>

\* A seal and a build have their digest to report whether or not it was recorded.
Reports(c) == reported' = reported \cup (IF calls[c].op \in {"seal", "build"} THEN {ManifestDigest(c)} ELSE {})
Indexed(c) == IF calls[c].op \in {"seal", "build"} THEN CallGoto(c, "done") /\ UNCHANGED recordAt ELSE RecordRef(c)

\* The manifest first, and the tag only over a manifest that is there.
PutManifest(c) ==
    /\ CallAt(c, "index") /\ manifests' = ManifestDigest(c) :> LayerChain(calls[c].lowers) @@ manifests
    /\ CallGoto(c, "tag")
    /\ NoFault /\ UNCHANGED <<upstream, sealedAt, recordAt, blobs, tags, flights, reported, lostPuts, moves>>
PutManifestFails(c) ==
    /\ CallAt(c, "index") /\ Fault /\ Indexed(c) /\ Reports(c)
    /\ UNCHANGED <<upstream, sealedAt, storeVars, flights, lostPuts, moves>>
PutTag(c) ==
    /\ CallAt(c, "tag")
    /\ IF calls[c].ref \in Refs \ Pinned
       THEN \/ tags' = calls[c].ref :> ManifestDigest(c) @@ tags /\ NoFault
            \/ Fault /\ UNCHANGED tags
       ELSE NoFault /\ UNCHANGED tags
    /\ Indexed(c) /\ Reports(c)
    /\ UNCHANGED <<upstream, sealedAt, blobs, manifests, flights, lostPuts, moves>>

(***************************************************************************)
(* snapshotFSLowers, and the two transports.                               *)
(***************************************************************************)
Holds(n, l) == l \in DOMAIN sealedAt[n]
SnapshotFSLowers(c) ==
    /\ CallAt(c, "lowers")
    /\ LET n == calls[c].n
           chain == manifests[calls[c].d]
           found == calls[c].d \in DOMAIN manifests
                    /\ \A l \in Range(chain) : Holds(n, l) \/ l \in DOMAIN blobs
       IN IF found
          THEN Become(c, [calls[c] EXCEPT
                   !.chain = chain, !.pc = IF @ = "lowers" /\ calls[c].op = "seal" THEN "put" ELSE "attach",
                   !.lowers = [i \in DOMAIN chain |-> Lower(chain[i], IF Holds(n, chain[i]) THEN "file" ELSE "store", 0)]])
          ELSE CallGoto(c, "failed")
    /\ NoFault /\ ResolveOnly

Bigger(a, b) == IF a > b THEN a ELSE b
Ublk(c) == calls[c].n \in UblkNodes
\* chainBlobURL: overlaybd's config has one URL for every remote layer.
OneSource(lowers) == ~\E i, j \in DOMAIN lowers : lowers[i].at = "registry" /\ lowers[j].at = "store"
\* layerSources: without lazy pull only a restore may read a layer remotely.
MayRead(c) == FirstRemote(calls[c].lowers) => Lazy(c) \/ calls[c].op = "restore"
Assembles(c) == IF Ublk(c) THEN MayRead(c) ELSE OneSource(calls[c].lowers)

\* The size of the device: what was asked for, and never less than the filesystem.
\* The ublk route reads its size from the layers, the tcmu route is told by the walk.
DeviceGB(c) == Bigger(DiskGB, IF Ublk(c) THEN ContentOf(calls[c].n, calls[c].lowers[1]).vs ELSE calls[c].lowers[1].vs)

\* A create that published reports its digest once its device is up.
Attach(c) ==
    /\ CallAt(c, "attach") /\ Assembles(c)
    /\ Become(c, [calls[c] EXCEPT !.pc = "up", !.size = DeviceGB(c)])
    /\ reported' = reported \cup (IF calls[c].publish THEN {calls[c].d} ELSE {})
    /\ NoFault /\ UNCHANGED <<upstream, sealedAt, recordAt, storeVars, flights, lostPuts, moves>>
AttachFails(c) ==
    /\ CallAt(c, "attach")
    /\ IF Assembles(c) THEN Fault ELSE NoFault
    /\ CallGoto(c, "failed") /\ ResolveOnly

\* Rootfs.release; the manager does not destroy a sandbox it is checkpointing.
Release(c) ==
    /\ CallAt(c, "up") /\ ~\E s \in ImgCalls : calls[s].of = c /\ calls[s].pc \notin {"done", "failed"}
    /\ CallGoto(c, "done") /\ NoFault /\ ResolveOnly

(***************************************************************************)
(* The world: a tag moves, a node restarts.                                *)
(***************************************************************************)
MoveTag(ref, d) ==
    /\ moves < MaxMoves /\ moves' = moves + 1
    /\ ref \notin Pinned \cup BuildRefs /\ upstream[ref] # d
    /\ upstream' = [upstream EXCEPT ![ref] = d]
    /\ UNCHANGED <<sealedAt, recordAt, storeVars, flights, calls, reported, lostPuts, imgFaults>>

NodeRestarts(n) ==
    /\ Fault /\ \E c \in ImgCalls : calls[c].n = n /\ calls[c].pc \notin {"done", "failed"}
    /\ calls' = [c \in ImgCalls |-> IF calls[c].n = n /\ calls[c].pc # "done"
                                 THEN [calls[c] EXCEPT !.pc = "failed"] ELSE calls[c]]
    /\ flights' = [flights EXCEPT ![n] = Empty]
    /\ WalkOnly

ImgNext ==
    \/ \E c \in ImgCalls, n \in Nodes, ref \in Refs :
          \/ \E publish \in BOOLEAN : StartCreate(c, n, ref, publish)
          \/ StartPrewarm(c, n, ref)
          \/ ref \in BuildRefs /\ StartBuild(c, n, ref)
    \/ \E c \in ImgCalls, n \in Nodes, d \in reported : StartRestore(c, n, d)
    \/ \E c, s \in ImgCalls : StartSeal(c, s)
    \/ \E c \in ImgCalls :
          \/ FromRecord(c) \/ FromStore(c) \/ FromRegistry(c) \/ NoManifest(c)
          \/ Level0(c) \/ Level1(c) \/ Level2(c) \/ Level3(c) \/ RemoteParent(c)
          \/ ConvertLayer(c) \/ Cancel(c)
          \/ PublishLayer(c) \/ PublishFails(c) \/ EndWalk(c)
          \/ PutManifest(c) \/ PutManifestFails(c) \/ PutTag(c)
          \/ SnapshotFSLowers(c) \/ Attach(c) \/ AttachFails(c) \/ Release(c)
    \/ \E ref \in Refs, d \in Pushed : MoveTag(ref, d)
    \/ \E n \in Nodes : NodeRestarts(n)

ImgSpec == ImgInit /\ [][ImgNext]_imgVars

(***************************************************************************)
(* What holds.                                                             *)
(***************************************************************************)
\* The layers of a device are read over the layers they were sealed over.
SealedOver(n, lowers) ==
    \A i \in DOMAIN lowers :
        lowers[i].at # "registry" => ContentOf(n, lowers[i]).over = SubSeq(LayerChain(lowers), 1, i - 1)

\* A sandbox started from a reference runs on exactly the layers of the manifest the
\* reference resolved to, each of them sealed over the ones below it, whichever of the
\* node, the store and a conversion each came from and whoever converted or published
\* it first; a sandbox started from a digest runs on the chain recorded under it,
\* as long as no tag has moved (walk, materialiseLayer, snapshotFSLowers).
ImageAssembled ==
    \A c \in ImgCalls :
        CallAt(c, "up") /\ (calls[c].op = "create" \/ moves = 0) =>
            /\ LayerChain(calls[c].lowers) = calls[c].chain
            /\ SealedOver(calls[c].n, calls[c].lowers)

\* A sandbox restored from a snapshot runs on the layers its filesystem was captured
\* over ("the chain is resolved locally (every layer is a file already here because
\* the sandbox is running from it)", snapshotBase). The base is resolved again from
\* the reference when the snapshot is taken, and a tag may have moved since.
RestoredOverItsBase ==
    \A c \in ImgCalls : CallAt(c, "up") /\ calls[c].op = "restore" => SealedOver(calls[c].n, calls[c].lowers)

\* The index never dangles: a tag names a manifest that is in the store, and the
\* manifest of a published image names layers that are there, but for those the
\* registry serves and those an upload of which failed (recordInStore, publish).
IndexSound ==
    /\ \A ref \in DOMAIN tags : tags[ref] \in DOMAIN manifests
    /\ \A d \in DOMAIN manifests : d \in Digests \cup ImgCalls =>
           Range(manifests[d]) \subseteq DOMAIN blobs \cup RegistrySealed \cup lostPuts

\* A digest has at most one conversion on a node at a time, and whoever waits for one
\* waits for a call that is still converting it (layerFlight.do).
FlightSound ==
    \A c \in ImgCalls :
        /\ CallAt(c, "convert") => /\ NextLayer(c) \in DOMAIN flights[calls[c].n]
                               /\ flights[calls[c].n][NextLayer(c)].leader = c
        /\ CallAt(c, "wait") => /\ NextLayer(c) \in DOMAIN flights[calls[c].n]
                            /\ CallAt(flights[calls[c].n][NextLayer(c)].leader, "convert")

\* The device is never smaller than the filesystem in its base layer (Prepare).
DeviceFits ==
    \A c \in ImgCalls : CallAt(c, "up") /\ calls[c].lowers[1].at # "registry" =>
        calls[c].size >= ContentOf(calls[c].n, calls[c].lowers[1]).vs
=============================================================================
