----------------------------- MODULE ProxyCache -----------------------------
(***************************************************************************)
(* bean-proxy (internal/control/proxy): a request names a port and a       *)
(* sandbox in its Host; the proxy asks bean-api which node holds the       *)
(* sandbox and where that node forwards, keeps both answers for a window,  *)
(* and passes the request on. Lookups of several requests interleave with  *)
(* each other, with creates and deletes, and with nodes that come back     *)
(* under another address or under none.                                    *)
(***************************************************************************)
EXTENDS Integers, FiniteSets

CONSTANTS
    ProxiedBoxes, PxNodes,
    Addrs,              \* the addresses nodes may advertise
    Requests,           \* requests being served at the same time
    Window,             \* APISandboxes.forFor, in ticks
    LookupTicks,        \* what a lookup lasts at most (the client's timeouts)
    MaxRelabels

VARIABLES
    placed,       \* of each sandbox, the node its record names; "unplaced" before, "deleted" after
    label,        \* of each node, the forwarding address it registered, or "none"
    boxCache,     \* APISandboxes.cache: of each sandbox, an address and its age
    nodeCache,    \* APISandboxes.nodes
    request,      \* of each request, how far it is and what it was told
    lastOn,       \* history: of each sandbox and node, the ticks since it was placed there
    lastAt,       \* history: of each node and address, the ticks since it advertised it
    vanished,     \* history: the nodes that stopped advertising an address
    relabels

pxVars == <<placed, label, boxCache, nodeCache, request, lastOn, lastAt, vanished, relabels>>

Expired == Window + 1
Forgotten == 2 * (LookupTicks + Window) + 1
NoEntry == [addr |-> "none", age |-> Expired]
NoRequest == [pc |-> "idle", box |-> "none", node |-> "none", addr |-> "none", list |-> [n \in PxNodes |-> "none"], waited |-> 0, status |-> "none"]
Older(n, cap) == IF n < cap THEN n + 1 ELSE cap

PxInit ==
    /\ placed = [s \in ProxiedBoxes |-> "unplaced"]
    /\ label \in {l \in [PxNodes -> Addrs] : \A m, n \in PxNodes : l[m] = l[n] => m = n}
    /\ boxCache = [s \in ProxiedBoxes |-> NoEntry] /\ nodeCache = [n \in PxNodes |-> NoEntry]
    /\ request = [r \in Requests |-> NoRequest]
    /\ lastOn = [s \in ProxiedBoxes |-> [n \in PxNodes |-> Forgotten]]
    /\ lastAt = [n \in PxNodes |-> [a \in Addrs |-> IF label[n] = a THEN 0 ELSE Forgotten]] /\ vanished = {} /\ relabels = 0

SetR(r, new) == request' = [request EXCEPT ![r] = new]
Answered(r, status) == SetR(r, [NoRequest EXCEPT !.status = status])

-----------------------------------------------------------------------------
\* Mutant of Cached: an entry never expires.
CachedForever(e) == e.addr # "none"
\* APISandboxes.cached
Cached(e) == e.addr # "none" /\ e.age <= Window

\* The first label of a Host: what precedes its first dash, as a number, and what follows.
Hosts == [dash : BOOLEAN, port : {0, 65535, 65536}, rest : ProxiedBoxes \cup {""}]
SandboxIDFromHost(host) == IF host.dash /\ host.port \in 1..65535 THEN host.rest ELSE ""
\* Server.ServeHTTP up to NodeAddrFor's first look: a Host that is not {port}-{sandbox} is a 400.
ReceiveRequest(r) ==
    /\ request[r].pc = "idle"
    /\ \E s \in {SandboxIDFromHost(host) : host \in Hosts} :
          CASE s = "" -> Answered(r, "400")
            [] s # "" /\ Cached(boxCache[s]) -> SetR(r, [NoRequest EXCEPT !.pc = "forward", !.box = s, !.addr = boxCache[s].addr])
            [] OTHER -> SetR(r, [NoRequest EXCEPT !.pc = "nodeOf", !.box = s])
    /\ UNCHANGED <<placed, label, boxCache, nodeCache, lastOn, lastAt, vanished, relabels>>
\* APISandboxes.nodeOf: the record may be missing or unplaced, or bean-api may not answer.
NodeOf(r) ==
    /\ request[r].pc = "nodeOf"
    /\ LET n == placed[request[r].box]
       IN \/ n \in PxNodes /\ SetR(r, [request[r] EXCEPT !.pc = "forwardAddrOf", !.node = n])
          \/ n \notin PxNodes /\ Answered(r, "404")
          \/ Answered(r, "500")
    /\ UNCHANGED <<placed, label, boxCache, nodeCache, lastOn, lastAt, vanished, relabels>>
\* APISandboxes.forwardAddrOf, the cached answer ...
ForwardAddrCached(r) ==
    /\ request[r].pc = "forwardAddrOf" /\ Cached(nodeCache[request[r].node])
    /\ SetR(r, [request[r] EXCEPT !.pc = "remember", !.addr = nodeCache[request[r].node].addr])
    /\ UNCHANGED <<placed, label, boxCache, nodeCache, lastOn, lastAt, vanished, relabels>>
\* ... or the node list, as bean-api had it when it answered.
AskNodeList(r) ==
    /\ request[r].pc = "forwardAddrOf" /\ ~Cached(nodeCache[request[r].node])
    /\ SetR(r, [request[r] EXCEPT !.pc = "listed", !.list = label])
       \/ Answered(r, "500")
    /\ UNCHANGED <<placed, label, boxCache, nodeCache, lastOn, lastAt, vanished, relabels>>
\* A node without a label leaves its entry as it was, however old, and that entry is used.
ForwardAddrListed(r) ==
    /\ request[r].pc = "listed"
    /\ LET list == request[r].list
       IN nodeCache' = [n \in PxNodes |-> IF list[n] # "none" THEN [addr |-> list[n], age |-> 0] ELSE nodeCache[n]]
    /\ LET a == nodeCache'[request[r].node].addr
       IN IF a = "none" THEN Answered(r, "503")
          ELSE SetR(r, [request[r] EXCEPT !.pc = "remember", !.addr = a, !.list = NoRequest.list])
    /\ UNCHANGED <<placed, label, boxCache, lastOn, lastAt, vanished, relabels>>
\* NodeAddrFor's entry is stamped with the present, whatever the age of the node's.
RememberAddr(r) ==
    /\ request[r].pc = "remember" /\ SetR(r, [request[r] EXCEPT !.pc = "forward"])
    /\ boxCache' = [boxCache EXCEPT ![request[r].box] = [addr |-> request[r].addr, age |-> 0]]
    /\ UNCHANGED <<placed, label, nodeCache, lastOn, lastAt, vanished, relabels>>
\* proxyFor and the round trip: what listens at the address answers, or nothing does; neither
\* changes what is cached.
Forward(r) ==
    /\ request[r].pc = "forward"
    /\ Answered(r, IF \E n \in PxNodes : label[n] = request[r].addr THEN "node" ELSE "502")
    /\ UNCHANGED <<placed, label, boxCache, nodeCache, lastOn, lastAt, vanished, relabels>>

-----------------------------------------------------------------------------
\* The control plane and the nodes, as bean-api shows them.
PlaceBox(s) ==
    /\ placed[s] = "unplaced"
    /\ \E n \in PxNodes : placed' = [placed EXCEPT ![s] = n] /\ lastOn' = [lastOn EXCEPT ![s][n] = 0]
    /\ UNCHANGED <<label, boxCache, nodeCache, request, lastAt, vanished, relabels>>
DeleteBox(s) ==
    /\ placed[s] \in PxNodes /\ placed' = [placed EXCEPT ![s] = "deleted"]
    /\ UNCHANGED <<label, boxCache, nodeCache, request, lastOn, lastAt, vanished, relabels>>
Reregister(n) ==
    /\ relabels < MaxRelabels /\ relabels' = relabels + 1
    /\ \/ \E a \in Addrs : /\ \A m \in PxNodes : label[m] # a
                            /\ label' = [label EXCEPT ![n] = a] /\ lastAt' = [lastAt EXCEPT ![n][a] = 0] /\ UNCHANGED vanished
       \/ label[n] # "none" /\ label' = [label EXCEPT ![n] = "none"] /\ vanished' = vanished \cup {n} /\ UNCHANGED lastAt
    /\ UNCHANGED <<placed, boxCache, nodeCache, request, lastOn>>
\* A tick: entries age; no lookup outlasts its timeouts, and what it finds is used at once.
Looking(r) == request[r].pc \in {"nodeOf", "forwardAddrOf", "listed", "remember"}
PxTick ==
    /\ \A r \in Requests : request[r].pc # "forward" /\ (Looking(r) => request[r].waited < LookupTicks)
    /\ request' = [r \in Requests |-> IF Looking(r) THEN [request[r] EXCEPT !.waited = @ + 1] ELSE request[r]]
    /\ boxCache' = [s \in ProxiedBoxes |-> [boxCache[s] EXCEPT !.age = Older(@, Expired)]]
    /\ nodeCache' = [n \in PxNodes |-> [nodeCache[n] EXCEPT !.age = Older(@, Expired)]]
    /\ lastOn' = [s \in ProxiedBoxes |-> [n \in PxNodes |-> IF n = placed[s] THEN 0 ELSE Older(lastOn[s][n], Forgotten)]]
    /\ lastAt' = [n \in PxNodes |-> [a \in Addrs |-> IF a = label[n] THEN 0 ELSE Older(lastAt[n][a], Forgotten)]]
    /\ UNCHANGED <<placed, label, vanished, relabels>>

PxNext ==
    \/ \E r \in Requests : ReceiveRequest(r) \/ NodeOf(r) \/ ForwardAddrCached(r) \/ AskNodeList(r) \/ ForwardAddrListed(r)
                           \/ RememberAddr(r) \/ Forward(r)
    \/ \E s \in ProxiedBoxes : PlaceBox(s) \/ DeleteBox(s)
    \/ \E n \in PxNodes : Reregister(n)
    \/ PxTick
PxSpec == PxInit /\ [][PxNext]_pxVars

-----------------------------------------------------------------------------
\* A request is passed to an address that a node advertised at most two lookups and two
\* windows ago (the node's entry may be a window old when the sandbox's is stamped), and the
\* sandbox was placed on that node at most one lookup and one window ago (NodeAddrFor). A
\* node that stopped advertising an address is the exception.
RoutedRecently ==
    \A r \in Requests : request[r].pc = "forward" => \E n \in PxNodes :
        /\ lastOn[request[r].box][n] <= LookupTicks + Window
        /\ lastAt[n][request[r].addr] < Forgotten \/ n \in vanished
\* The same with the one window both answers are said to be cached for (forwardAddrOf).
RoutedWithinWindow ==
    \A r \in Requests : request[r].pc = "forward" => \E n \in PxNodes :
        lastOn[request[r].box][n] <= LookupTicks + Window /\ lastAt[n][request[r].addr] <= LookupTicks + Window
=============================================================================
