----------------------------- MODULE MCStorage ------------------------------
(***************************************************************************)
(* Instance for TLC of what a node holds for its sandboxes: what creates   *)
(* and destroys take of the host, noded's death and the reclaim pass; the  *)
(* memory a chain of checkpoints restores to; the images and their layers; *)
(* the disks over them; the containers; and the pool of networks. They     *)
(* share no state, so a behaviour explores one of them: "part" says which. *)
(***************************************************************************)
EXTENDS Firecracker, GuestMemory, Tcmu, CowDisk, RemoteBlob, Images, NetworkPool, Containers

CONSTANTS n1, n2, app, pin, built, d1, d2, d3, bot, t1, t2, t3, c1, c2, c3, none

VARIABLES
    part,
    plan,         \* the image calls that meet, in the order they start
    chainIn,      \* a chain of layers, read in every way
    formIn        \* a sealed layer's file

hostVars == <<fcVars, memVars>>
diskVars == <<tcmuVars, cowVars, blobVars>>

MCChainOf == d1 :> <<bot, t1>> @@ d2 :> <<bot, t2>> @@ d3 :> <<bot, t3>>
MCVsizeOf == d1 :> 2 @@ d2 :> 2 @@ d3 :> 2
MCFirstOf == app :> d1 @@ pin :> d3 @@ built :> none

Order == <<c1, c2, c3>>
Plans == {<<"create", "create">>, <<"prewarm">>, <<"build", "create">>, <<"build", "restore">>,
          <<"create", "seal", "restore">>}
ByPlan ==
    \A k \in DOMAIN Order :
        calls[Order[k]] = Blank /\ calls'[Order[k]] # Blank =>
            /\ k \in DOMAIN plan /\ calls'[Order[k]].op = plan[k]
            /\ k > 1 => calls[Order[k - 1]] # Blank

\* A layer over the disk's first sectors: each is data, zeroed or not mapped, a run is
\* one mapping or cut in every sector, and the file holds the runs last first.
Layer(l, shape, cut, size) ==
    LET n == Len(shape)
        starts == {i \in 1..n : shape[i] # "none" /\ (cut \/ i = 1 \/ shape[i - 1] # shape[i])}
        Stop(i) == CHOOSE e \in (i + 1)..(n + 1) :
                       /\ e = n + 1 \/ e \in starts \/ shape[e] = "none"
                       /\ \A k \in (i + 1)..(e - 1) : k \notin starts /\ shape[k] # "none"
        M(i) == EncodeMapping(Mapping(i - 1, Stop(i) - i, n + 2 - Stop(i), shape[i] = "zero"))
        padding == EncodeMapping(Mapping(InvalidOffset, 0, 0, FALSE))
    IN [head |-> {"header", "data", "sealed"}, tail |-> {"data", "sealed"},
        index |-> Append(SetToSeq({M(i) : i \in starts}), padding),
        data |-> [u \in 0..((n + 2) * SectorUnits) |-> <<l, u>>], virtualSize |-> size]

Shapes == [1..3 -> {"data", "zero", "none"}]
Unsealed(f) == [f EXCEPT !.tail = {"data"}]
MCBase == <<Layer("base", <<"data", "data", "data">>, FALSE, 3 * SectorUnits),
            Layer("top", <<"none", "data", "none">>, FALSE, 3 * SectorUnits)>>
MCWrites == {<<0, 2>>, <<2, 2>>, <<2, 4>>, <<8, 4>>}
MCReads == {<<0, 8>>}

Chains ==
    {<<Layer("base", low, FALSE, 3 * SectorUnits), Layer("mid", mid, cut, 3 * SectorUnits), Layer("top", top, ~cut, 3 * SectorUnits)>> :
        low \in {<<"data", "data", "data">>}, mid \in Shapes, top \in Shapes, cut \in BOOLEAN}
    \cup {<<Unsealed(Layer("base", shape, FALSE, 3 * SectorUnits))>> : shape \in Shapes}
Form(tar, members, at, size, lens) ==
    [tar |-> tar, members |-> members, payloadAt |-> at, fileSize |-> size, z |-> [lens |-> lens, blockSize |-> 2, algo |-> "lz4", head |-> {"header", "data"}, tail |-> {"data", "sealed"}]]
Total(lens) == 1 + FoldLeft(LAMBDA x, y : x + y, 0, lens)
Forms ==
    UNION {{Form(FALSE, <<>>, 0, Total(lens), lens),
            Form(TRUE, <<[name |-> "pax", at |-> 1, size |-> 1], [name |-> "payload", at |-> 3, size |-> 0]>>, 3, 3 + Total(lens), lens),
            Form(TRUE, <<[name |-> "payload", at |-> 1, size |-> Total(lens)]>>, 1, 3 + Total(lens), lens)} :
           lens \in {<<2>>, <<1, 2>>, <<3, 1, 2>>}}
NotAZFile == [Form(FALSE, <<>>, 0, 3, <<2>>) EXCEPT !.z.tail = {"data"}]
NoChain == <<>>

MCFetchers == [r1 |-> "a", r2 |-> "a", r3 |-> "b", r4 |-> "c"]
MCBlobUnits == [a |-> 5, b |-> 3, c |-> 3]
MCBlobReads == {<<1, 1>>, <<1, 3>>, <<4, 4>>}

\* The reclaim pass is explored with one sandbox, creates and destroys without the death of
\* noded with all of them.
FirstBox == CHOOSE s \in Boxes : TRUE
HostPart ==
    /\ HostNext
    /\ part = "vm" => UNCHANGED <<pass, deaths>>
    /\ part = "reclaim" => \A s \in Boxes \ {FirstBox} : job'[s] = job[s]

MCInit ==
    /\ HostInit /\ MemInit /\ TcmuInit /\ CowInit /\ BlobInit /\ ImgInit /\ NetInit /\ CtrInit
    /\ \/ /\ part \in {"vm", "reclaim", "memory", "tcmu", "cow", "blob", "images", "network", "containers"}
          /\ chainIn = NoChain /\ formIn = NoChain
       \/ part = "layers" /\ chainIn \in Chains /\ formIn = NoChain
       \/ part = "layers" /\ chainIn = NoChain /\ formIn \in Forms \cup {NotAZFile}
    /\ plan \in IF part = "images" THEN Plans ELSE {<<>>}
    /\ backend = "file" => part = "cow"
MCNext ==
    /\ UNCHANGED <<part, plan, chainIn, formIn>>
    /\ part # "containers" => UNCHANGED ctrVars
    /\ \/ part = "containers" /\ CtrNext /\ UNCHANGED <<hostVars, diskVars, imgVars, netVars>>
       \/ part \in {"vm", "reclaim"} /\ HostPart /\ UNCHANGED <<memVars, diskVars, imgVars, netVars>>
       \/ part = "memory" /\ MemNext /\ UNCHANGED <<fcVars, diskVars, imgVars, netVars>>
       \/ part = "tcmu" /\ TcmuNext /\ UNCHANGED <<hostVars, cowVars, blobVars, imgVars, netVars>>
       \/ part = "cow" /\ CowNext /\ UNCHANGED <<hostVars, tcmuVars, blobVars, imgVars, netVars>>
       \/ part = "blob" /\ BlobNext /\ UNCHANGED <<hostVars, tcmuVars, cowVars, imgVars, netVars>>
       \/ part = "images" /\ ImgNext /\ ByPlan /\ UNCHANGED <<hostVars, diskVars, netVars>>
       \/ part = "network" /\ SerialNext /\ UNCHANGED <<hostVars, diskVars, imgVars>>
MCSpec == MCInit /\ [][MCNext]_<<ctrVars, hostVars, diskVars, imgVars, netVars, part, plan, chainIn, formIn>>

\* Whatever the chain of layers and however a read falls on it, the merged index serves
\* each sector from the newest layer that maps it, and zeros where none does; a layer that
\* is not sealed is refused (mergeLSMTLayers, lsmtStack.ReadAt, openLSMTLayer). And the
\* containers a layer is wrapped in are undone exactly (findSealedPayload, zfileReader).
LayersSound ==
    /\ chainIn # NoChain => ReadsAsChain(chainIn) /\ \A i \in 1..Len(chainIn) : "sealed" \notin chainIn[i].tail => ~StackOpens(chainIn)
    /\ formIn # NoChain => Unwraps(formIn) /\ ("sealed" \notin formIn.z.tail => ~ZOpens(formIn.z))

\* The properties of each part, where it moves.

\* Creates, destroys and the reclaim pass leave on the host what the sandboxes use.
HostSound == part \in {"vm", "reclaim"} => HostResourcesExact /\ ReclaimSound
\* TCMU objects are built and undone in order.
LunsSound == part = "tcmu" => TcmuSound
\* Container and local sandboxes leave nothing behind, and nothing is taken from under them.
ContainersHeld == part = "containers" => ContainersSound
\* The copy-on-write disk reads what was written to it, and the remote chunks below it are
\* fetched once and served whole.
DisksSound == (part = "cow" => DiskSound) /\ (part = "blob" => RemoteSound)
\* Every sandbox keeps its network, and no slot is lost or has two owners.
PoolSound == part = "network" => NetworkKept /\ OwnersAgree /\ NoSlotLeak
=============================================================================
