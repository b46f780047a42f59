----------------------------- MODULE AgentToken -----------------------------
(***************************************************************************)
(* How a restored guest's agent comes to know the node that restored it    *)
(* (internal/beand/auth.go and mmds.go, the end of the VM restore, and the *)
(* manager's waitHealthy). The agent requires the token whose hash is in   *)
(* the metadata document, which it reads when called and keeps for a       *)
(* window. The snapshot carries its ancestor's document, its ancestor's    *)
(* cached hash and calls caught halfway; the node publishes the new hash   *)
(* once the guest is already running.                                      *)
(***************************************************************************)
EXTENDS Integers, FiniteSets

CONSTANTS
    GuestCalls,         \* calls from anyone but the node
    CacheTicks,         \* mmdsClient.cacheFor
    ReadTicks,          \* what one read of the document lasts at most: two exchanges of mmdsTimeout
    HealthTicks,        \* how long waitHealthy retries
    MaxMetadataFaults

Settled == CacheTicks + ReadTicks
\* agentReadyTimeout is longer than a window and a read; the node's call is one of its own.
ASSUME TokenAssumption ==
    /\ CacheTicks \in Nat /\ ReadTicks \in Nat /\ HealthTicks \in Nat /\ MaxMetadataFaults \in Nat
    /\ HealthTicks >= Settled /\ "health" \notin GuestCalls

VARIABLES
    document,     \* the metadata document's agentTokenHash
    hash,         \* mmdsClient.cached, and its age
    agentCall,    \* of each call, the token it carries and how far its authorization is
    restoreState,    \* "restoring", "waiting", "healthy", "gave up" or "failed"
    waited,       \* ticks since waitHealthy began, which is when the hash was published
    asked,        \* the node has asked in this tick
    metadataFaults

tokVars == <<document, hash, agentCall, restoreState, waited, asked, metadataFaults>>

Calls == GuestCalls \cup {"health"}
Stale == CacheTicks + 1
Ended(v) == [pc |-> "idle", token |-> "none", read |-> "none", ticks |-> 0, verdict |-> v]

\* The guest resumes with whatever its ancestor had cached, published and half read.
TokInit ==
    /\ document \in {"ancestor", "none"}
    /\ hash \in {[is |-> "none", age |-> Stale], [is |-> "ancestor", age |-> 0]}
    /\ \E caught \in SUBSET GuestCalls :
          agentCall = [c \in Calls |-> IF c \in caught THEN [Ended("none") EXCEPT !.pc = "store", !.read = "ancestor"] ELSE Ended("none")]
    /\ restoreState = "restoring" /\ waited = 0 /\ asked = FALSE /\ metadataFaults = 0

SetC(c, new) == agentCall' = [agentCall EXCEPT ![c] = new]
MetadataFault == metadataFaults < MaxMetadataFaults /\ metadataFaults' = metadataFaults + 1

-----------------------------------------------------------------------------
\* The tail of the restore: the hash is published to the machine that is already running.
PublishHash ==
    /\ restoreState = "restoring"
    /\ \/ document' = "own" /\ restoreState' = "waiting" /\ UNCHANGED metadataFaults
       \/ MetadataFault /\ restoreState' = "failed" /\ UNCHANGED document
    /\ UNCHANGED <<hash, agentCall, waited, asked>>

\* authorize: no hash, or another's, denies.
Verdict(expected, token) == IF expected # "none" /\ expected = token THEN "accepted" ELSE "denied"
\* Mutant of CacheHit: a hash stays good for as long as it is used.
CacheHitAlways == hash.is # "none"
\* AgentTokenHash's first look
CacheHit == hash.is # "none" /\ hash.age < CacheTicks
\* A call arrives: the node's health check with the sandbox's token, or anyone with any token.
CallAgent(c) ==
    /\ agentCall[c].pc = "idle"
    /\ \E token \in IF c = "health" THEN {"own"} ELSE {"ancestor", "none"} :
          SetC(c, IF CacheHit THEN Ended(Verdict(hash.is, token)) ELSE [Ended("none") EXCEPT !.pc = "read", !.token = token])
    /\ c = "health" => restoreState = "waiting" /\ ~asked
    /\ asked' = (asked \/ c = "health")
    /\ UNCHANGED <<document, hash, restoreState, waited, metadataFaults>>
\* mmdsClient.read: the document as it is now, or an error, which is Unavailable.
ReadDocument(c) ==
    /\ agentCall[c].pc = "read"
    /\ \/ SetC(c, [agentCall[c] EXCEPT !.pc = "store", !.read = document]) /\ UNCHANGED metadataFaults
       \/ MetadataFault /\ SetC(c, Ended("unavailable"))
    /\ UNCHANGED <<document, hash, restoreState, waited, asked>>
\* What was read is cached as of now, although another call may have cached a newer one.
StoreHash(c) ==
    /\ agentCall[c].pc = "store"
    /\ hash' = [is |-> agentCall[c].read, age |-> IF agentCall[c].read = "none" THEN Stale ELSE 0]
    /\ SetC(c, Ended(Verdict(agentCall[c].read, agentCall[c].token)))
    /\ UNCHANGED <<document, restoreState, waited, asked, metadataFaults>>

-----------------------------------------------------------------------------
\* waitHealthy: the first call that is accepted ends it; otherwise it asks again, at least
\* once a tick, until the time is up.
Healthy ==
    /\ restoreState = "waiting" /\ agentCall["health"].verdict = "accepted" /\ restoreState' = "healthy"
    /\ UNCHANGED <<document, hash, agentCall, waited, asked, metadataFaults>>
GiveUp ==
    /\ restoreState = "waiting" /\ waited = HealthTicks /\ asked /\ agentCall["health"].pc = "idle" /\ agentCall["health"].verdict # "accepted"
    /\ restoreState' = "gave up" /\ UNCHANGED <<document, hash, agentCall, waited, asked, metadataFaults>>
\* A tick: the health call has ended within it (its own timeout is shorter), and no read lasts
\* longer than its timeout.
TokTick ==
    /\ restoreState \in {"waiting", "healthy"} /\ waited < HealthTicks
    /\ restoreState = "waiting" => asked /\ agentCall["health"].pc = "idle" /\ agentCall["health"].verdict # "accepted"
    /\ \A c \in Calls : agentCall[c].pc # "idle" => agentCall[c].ticks < ReadTicks
    /\ agentCall' = [c \in Calls |-> IF agentCall[c].pc = "idle" THEN Ended("none") ELSE [agentCall[c] EXCEPT !.ticks = @ + 1]]
    /\ hash' = [hash EXCEPT !.age = IF @ < Stale THEN @ + 1 ELSE @]
    /\ waited' = waited + 1 /\ asked' = FALSE
    /\ UNCHANGED <<document, restoreState, metadataFaults>>

TokNext ==
    \/ PublishHash \/ Healthy \/ GiveUp \/ TokTick
    \/ \E c \in Calls : CallAgent(c) \/ ReadDocument(c) \/ StoreHash(c)
TokSpec == TokInit /\ [][TokNext]_tokVars

-----------------------------------------------------------------------------
\* A restored agent settles on the node that restored it: however its calls interleave, the
\* node's health check is answered before its time is up unless the metadata service failed,
\* and once the window and a read have passed since the hash was published, no call with the
\* ancestor's token is accepted (authorize, AgentTokenHash, waitHealthy).
AgentSettles ==
    /\ restoreState = "gave up" => metadataFaults > 0
    /\ waited >= Settled => hash.is # "ancestor" \/ ~CacheHit
\* The agent knows the new token as soon as it is published (fc_lifecycle_linux.go: the agent
\* reads the hash when it is handed a token).
OwnTokenAtOnce == restoreState = "waiting" => agentCall["health"].verdict # "denied"
=============================================================================
