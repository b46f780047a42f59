---------------------------- MODULE PortForward ----------------------------
(***************************************************************************)
(* The node's port forwarder (internal/node/portforward.go): a request     *)
(* names a sandbox and a port, is resolved to the namespace of the         *)
(* sandbox's network slot, and is carried into it: over a connection of    *)
(* its own for a user's port, over the pooled HTTP/2 connection for the    *)
(* agent's, with the sandbox's token. Sandboxes are paused, destroyed and  *)
(* replaced, in the same slot, between those steps.                        *)
(***************************************************************************)
EXTENDS Integers, FiniteSets

CONSTANTS
    FwdBoxes, FwdSlots,
    Forwards            \* requests being served at the same time

\* Neither a sandbox nor a slot has a name that stands for none.
ASSUME ForwardAssumption == FwdBoxes \cap {"none", ""} = {} /\ "none" \notin FwdSlots

VARIABLES
    fwdBox,       \* of each sandbox, its state and its slot
    h2cPool,      \* http2.Transport's connections: one key, the placeholder host
    forward       \* of each request, its target and how far it is

fwdVars == <<fwdBox, h2cPool, forward>>

NoForward == [pc |-> "idle", box |-> "none", port |-> "none", slot |-> "none", token |-> "none",
              conn |-> "none", by |-> "none", resolvedThenGone |-> FALSE]
PfInit ==
    /\ fwdBox = [s \in FwdBoxes |-> [state |-> "absent", slot |-> "none"]]
    /\ h2cPool = {} /\ forward = [r \in Forwards |-> NoForward]

SetF(r, new) == forward' = [forward EXCEPT ![r] = new]
\* The sandbox in a slot's namespace, or "none".
InSlot(k) == IF \E s \in FwdBoxes : fwdBox[s].slot = k THEN CHOOSE s \in FwdBoxes : fwdBox[s].slot = k ELSE "none"

-----------------------------------------------------------------------------
\* The first label of a Host: what precedes its first dash, as a number, and what follows.
AgentPort == 8111
FwdHosts == [dash : BOOLEAN, port : {0, AgentPort, 65535, 65536}, rest : FwdBoxes \cup {""}]
ValidPort(port) == port \in 1..65535
ParseSandboxHost(host) ==
    IF host.dash /\ ValidPort(host.port) /\ host.rest # ""
    THEN <<host.rest, IF host.port = AgentPort THEN "agent" ELSE "user">> ELSE <<"", "">>
Targets == {ParseSandboxHost(host) : host \in FwdHosts} \ {<<"", "">>}
\* Manager.TargetFor: the token goes with the agent's port only.
TargetFor(s, port) == [pc |-> "resolved", box |-> s, port |-> port, slot |-> fwdBox[s].slot,
                       token |-> IF port = "agent" THEN s ELSE "none",
                       conn |-> "none", by |-> "none", resolvedThenGone |-> FALSE]
\* ServeHTTP: no node token is a 401 and a Host that does not parse a 400; a sandbox this node
\* does not hold, or that is not running, or has no network, is a 404. None goes further.
ServeHTTP(r) ==
    /\ forward[r].pc = "idle"
    /\ \E to \in Targets : /\ fwdBox[to[1]].state = "running" /\ fwdBox[to[1]].slot # "none"
                          /\ SetF(r, TargetFor(to[1], to[2]))
    /\ UNCHANGED <<fwdBox, h2cPool>>

\* Mutant of OwnConnection: a user's port rides the pool as well.
OwnConnectionPooled(port) == FALSE
\* transportFor: HTTP/1.1 without keep-alive for a user's port, pooled h2c for the agent's.
OwnConnection(port) == port # "agent"
\* dialTarget: into whatever is now in the namespace the target named.
DialTarget(r) ==
    /\ forward[r].pc = "resolved" /\ ~(~OwnConnection(forward[r].port) /\ h2cPool # {})
    /\ LET s == InSlot(forward[r].slot)
       IN IF s = "none" THEN SetF(r, NoForward) /\ UNCHANGED h2cPool
          ELSE /\ SetF(r, [forward[r] EXCEPT !.pc = "sent", !.conn = s])
               /\ h2cPool' = IF OwnConnection(forward[r].port) THEN h2cPool ELSE h2cPool \cup {s}
    /\ UNCHANGED fwdBox
\* http2.Transport finds a connection it made for the same host.
ReuseConnection(r) ==
    /\ forward[r].pc = "resolved" /\ ~OwnConnection(forward[r].port)
    /\ \E s \in h2cPool : SetF(r, [forward[r] EXCEPT !.pc = "sent", !.conn = s])
    /\ UNCHANGED <<fwdBox, h2cPool>>

\* Authenticator.authorize in the guest, with the hash of its own token
AgentAccepts(s, token) == token = s
\* The sandbox at the end of the connection answers; one that is paused does not, until it
\* is resumed or the caller leaves, and one that is gone breaks its connections.
SandboxAnswers(r) ==
    /\ forward[r].pc = "sent" /\ fwdBox[forward[r].conn].state = "running"
    /\ LET s == forward[r].conn
       IN SetF(r, IF forward[r].port = "agent" /\ ~AgentAccepts(s, forward[r].token) THEN NoForward
                  ELSE [forward[r] EXCEPT !.pc = "answered", !.by = s])
    /\ UNCHANGED <<fwdBox, h2cPool>>
BadGateway(r) ==
    /\ forward[r].pc = "sent" /\ fwdBox[forward[r].conn].state = "gone"
    /\ h2cPool' = h2cPool \ {forward[r].conn} /\ SetF(r, NoForward) /\ UNCHANGED fwdBox
CallerLeaves(r) == forward[r].pc \in {"sent", "answered"} /\ SetF(r, NoForward) /\ UNCHANGED <<fwdBox, h2cPool>>

-----------------------------------------------------------------------------
\* The sandboxes of the node, as the manager and the runtime change them.
BoxStarts(s) ==
    /\ fwdBox[s].state = "absent"
    /\ \E k \in FwdSlots : InSlot(k) = "none" /\ fwdBox' = [fwdBox EXCEPT ![s] = [state |-> "running", slot |-> k]]
    /\ UNCHANGED <<h2cPool, forward>>
BoxPauses(s) == fwdBox[s].state = "running" /\ fwdBox' = [fwdBox EXCEPT ![s].state = "paused"] /\ UNCHANGED <<h2cPool, forward>>
BoxResumes(s) == fwdBox[s].state = "paused" /\ fwdBox' = [fwdBox EXCEPT ![s].state = "running"] /\ UNCHANGED <<h2cPool, forward>>
BoxDestroyed(s) ==
    /\ fwdBox[s].state \in {"running", "paused"} /\ fwdBox' = [fwdBox EXCEPT ![s] = [state |-> "gone", slot |-> "none"]]
    /\ forward' = [r \in Forwards |-> IF forward[r].box = s THEN [forward[r] EXCEPT !.resolvedThenGone = TRUE] ELSE forward[r]]
    /\ UNCHANGED h2cPool

PfNext ==
    \/ \E r \in Forwards : ServeHTTP(r) \/ DialTarget(r) \/ ReuseConnection(r) \/ SandboxAnswers(r) \/ BadGateway(r) \/ CallerLeaves(r)
    \/ \E s \in FwdBoxes : BoxStarts(s) \/ BoxPauses(s) \/ BoxResumes(s) \/ BoxDestroyed(s)
PfSpec == PfInit /\ [][PfNext]_fwdVars

-----------------------------------------------------------------------------
\* Whatever connection it rode: what answered a request to the agent's port is the agent of
\* the sandbox the request named, and what answered one to a user's port is that sandbox,
\* unless it was destroyed after the request was resolved; no user's port was given a token
\* (ServeHTTP, TargetFor, the Director).
AnsweredByItsSandbox ==
    \A r \in Forwards : forward[r].pc = "answered" =>
        /\ forward[r].by = forward[r].box \/ (forward[r].port = "user" /\ forward[r].resolvedThenGone)
        /\ forward[r].port = "user" => forward[r].token = "none"
\* A request is only ever sent to the sandbox it names, while that sandbox exists
\* (PortForwarder.proxy: without a connection from one leaking to another).
SentToItsSandbox ==
    \A r \in Forwards : forward[r].pc = "sent" /\ ~forward[r].resolvedThenGone => forward[r].conn = forward[r].box
=============================================================================
