-------------------------- MODULE AgentTokenProofs --------------------------
(***************************************************************************)
(* A restored agent settles on the node that restored it, for any number   *)
(* of calls, any window and any time a read may take. The argument is      *)
(* about age: an ancestor's hash was read before the node published its    *)
(* own, so a call that still holds it is at least as old as the wait, and  *)
(* the cache it was stored in is at most one read younger.                 *)
(***************************************************************************)
EXTENDS AgentToken, TLAPS

Hashes == {"ancestor", "none", "own"}
HashRecords == [is : Hashes, age : 0..Stale]
CallRecords == [pc : {"idle", "read", "store"}, token : Hashes, read : Hashes, ticks : Nat,
                verdict : {"none", "accepted", "denied", "unavailable"}]

TokType ==
    /\ document \in Hashes /\ hash \in HashRecords /\ agentCall \in [Calls -> CallRecords]
    /\ waited \in Nat /\ metadataFaults \in Nat
    /\ restoreState \in {"restoring", "waiting", "healthy", "gave up", "failed"}

\* Time passes, and the node asks, only once its hash is published.
PublishedFirst == restoreState \in {"restoring", "failed"} \/ document = "own"
NoWaitBefore == restoreState \in {"restoring", "failed"} => waited = 0 /\ agentCall["health"].pc = "idle"
\* A call that holds the ancestor's hash has held it since before the wait.
CallOK(c) ==
    /\ agentCall[c].ticks <= ReadTicks
    /\ agentCall[c].pc = "store" /\ agentCall[c].read = "ancestor" => waited <= agentCall[c].ticks
\* The cache holds it for at most a read longer than its age says.
HashOK == hash.is = "ancestor" => hash.age = Stale \/ waited <= hash.age + ReadTicks
NotAsked == ~asked
Faulty == metadataFaults > 0
Early == waited < Settled
\* The node's own call carries the sandbox's token and reads the sandbox's hash; it is denied
\* only while the ancestor's may be cached, and unavailable only by a fault.
HealthOK(h) ==
    /\ h.pc # "idle" => h.token = "own" /\ h.verdict = "none"
    /\ h.pc = "store" => h.read = "own"
    /\ h.verdict = "denied" => Early
    /\ h.verdict = "unavailable" => Faulty
    /\ h.verdict = "none" /\ h.pc = "idle" => NotAsked

TokInv ==
    /\ TokType /\ PublishedFirst /\ NoWaitBefore /\ HashOK
    /\ \A c \in Calls : CallOK(c)
    /\ HealthOK(agentCall["health"])
    /\ restoreState = "gave up" => Faulty

LEMMA TicksAreNat == Stale \in Nat /\ Settled \in Nat /\ Stale = CacheTicks + 1 /\ Settled = CacheTicks + ReadTicks
                     /\ "health" \in Calls /\ HealthTicks >= Settled
  BY TokenAssumption DEF Stale, Settled, Calls

LEMMA EndedIs == ASSUME NEW v \in {"none", "accepted", "denied", "unavailable"}
                 PROVE  Ended(v) \in CallRecords /\ Ended(v).pc = "idle" /\ Ended(v).ticks = 0 /\ Ended(v).verdict = v
  BY DEF Ended, CallRecords, Hashes

LEMMA TokInvInit == TokInit => TokInv
<1> SUFFICES ASSUME TokInit PROVE TokInv
  OBVIOUS
<1> USE TicksAreNat, TokenAssumption
<1>1. PICK caught \in SUBSET GuestCalls :
          agentCall = [c \in Calls |-> IF c \in caught THEN [Ended("none") EXCEPT !.pc = "store", !.read = "ancestor"] ELSE Ended("none")]
  BY ZenonT(30) DEF TokInit
<1>2. /\ [Ended("none") EXCEPT !.pc = "store", !.read = "ancestor"] \in CallRecords
      /\ [Ended("none") EXCEPT !.pc = "store", !.read = "ancestor"].ticks = 0
  BY ZenonT(30) DEF Ended, CallRecords, Hashes
<1>3. agentCall["health"] = Ended("none")
  BY <1>1
<1>4. agentCall \in [Calls -> CallRecords] /\ \A c \in Calls : agentCall[c].ticks = 0
  BY <1>1, <1>2, EndedIs
<1>5. TokType
  BY <1>4 DEF TokType, TokInit, HashRecords, Hashes
<1>6. PublishedFirst /\ NoWaitBefore /\ HashOK /\ \A c \in Calls : CallOK(c)
  BY <1>3, <1>4, EndedIs DEF PublishedFirst, NoWaitBefore, HashOK, CallOK, TokInit
<1>7. HealthOK(agentCall["health"])
  BY <1>3, EndedIs DEF HealthOK, TokInit, NotAsked
<1> QED
  BY <1>5, <1>6, <1>7 DEF TokInv, TokInit

\* A step of one call.
LEMMA CallStep ==
    ASSUME TokInv, NEW c \in Calls, NEW new \in CallRecords, SetC(c, new),
           UNCHANGED <<document, restoreState, waited>>, hash' \in HashRecords, HashOK',
           metadataFaults' \in Nat, Faulty => Faulty',
           new.ticks <= ReadTicks, new.pc = "store" /\ new.read = "ancestor" => waited <= new.ticks,
           c = "health" => HealthOK(new)' /\ (new.pc # "idle" => restoreState \notin {"restoring", "failed"}),
           c # "health" => (NotAsked => NotAsked')
    PROVE  TokInv'
<1> USE TicksAreNat
<1>1. agentCall \in [Calls -> CallRecords] /\ agentCall' = [agentCall EXCEPT ![c] = new]
  BY DEF TokInv, TokType, SetC
<1>2. agentCall' \in [Calls -> CallRecords] /\ agentCall'[c] = new /\ \A d \in Calls \ {c} : agentCall'[d] = agentCall[d]
  BY <1>1
<1>3. TokType' /\ PublishedFirst'
  BY <1>2 DEF TokInv, TokType, PublishedFirst
<1>4. \A d \in Calls : CallOK(d)'
  BY <1>2 DEF TokInv, CallOK
<1>5. NoWaitBefore'
  BY <1>2 DEF TokInv, NoWaitBefore
<1>e. Early => Early'
  BY DEF Early
<1>6. HealthOK(agentCall["health"])'
  <2>1. CASE c = "health"
    BY <1>2, <2>1 DEF HealthOK
  <2>2. CASE c # "health"
    <3>1. agentCall'["health"] = agentCall["health"] /\ (NotAsked => NotAsked')
      BY <1>2, <2>2
    <3> QED
      BY <1>e, <3>1 DEF TokInv, HealthOK
  <2> QED
    BY <2>1, <2>2
<1>7. (restoreState = "gave up" => Faulty)'
  BY DEF TokInv
<1> QED
  BY <1>3, <1>4, <1>5, <1>6, <1>7 DEF TokInv

LEMMA FaultsKept ==
    ASSUME metadataFaults \in Nat, metadataFaults' = metadataFaults \/ metadataFaults' = metadataFaults + 1
    PROVE  metadataFaults' \in Nat /\ (Faulty => Faulty') /\ (metadataFaults' = metadataFaults + 1 => Faulty')
  BY DEF Faulty

LEMMA AskedKept == UNCHANGED asked => (NotAsked => NotAsked')
  BY DEF NotAsked

LEMMA HashKept == ASSUME TokInv, UNCHANGED <<hash, waited>> PROVE hash' \in HashRecords /\ HashOK'
  BY DEF TokInv, TokType, HashOK

\* No hash but the ancestor's denies the sandbox's token, and none is no hit.
LEMMA CallAgentKeeps == ASSUME TokInv, NEW c \in Calls, CallAgent(c) PROVE TokInv'
<1> USE TicksAreNat, TokenAssumption
<1>1. PICK token \in Hashes :
          /\ c = "health" => token = "own"
          /\ SetC(c, IF CacheHit THEN Ended(Verdict(hash.is, token)) ELSE [Ended("none") EXCEPT !.pc = "read", !.token = token])
  BY ZenonT(30) DEF CallAgent, Hashes
<1>2. UNCHANGED <<document, hash, restoreState, waited, metadataFaults>> /\ (c # "health" => (NotAsked => NotAsked'))
  <2>1. UNCHANGED <<document, hash, restoreState, waited, metadataFaults>>
    BY DEF CallAgent
  <2>2. c # "health" => (NotAsked => NotAsked')
    BY Zenon DEF CallAgent, NotAsked
  <2> QED
    BY <2>1, <2>2
<1>3. /\ metadataFaults' \in Nat /\ (Faulty => Faulty') /\ waited \in Nat /\ hash \in HashRecords
      /\ hash' \in HashRecords /\ HashOK' /\ HashOK
  BY <1>2, HashKept, FaultsKept DEF TokInv, TokType
<1>4. CASE CacheHit
  <2>0. PICK v, new : v = Verdict(hash.is, token) /\ new = Ended(v)
    OBVIOUS
  <2>1. v \in {"accepted", "denied"} /\ (v = "denied" /\ c = "health" => hash.is = "ancestor")
    BY <1>1, <1>3, <1>4, <2>0 DEF Verdict, CacheHit, HashRecords, Hashes
  <2>2. c = "health" /\ v = "denied" => Early'
    BY <1>2, <1>3, <1>4, <2>1 DEF CacheHit, HashOK, HashRecords, Early
  <2>3. new \in CallRecords /\ new.pc = "idle" /\ new.ticks = 0 /\ new.verdict = v
    BY <2>0, <2>1, EndedIs
  <2>4. SetC(c, new)
    BY <1>1, <1>4, <2>0
  <2>5. c = "health" => HealthOK(new)'
    BY <2>1, <2>2, <2>3 DEF HealthOK
  <2> QED
    BY <1>2, <1>3, <2>3, <2>4, <2>5, CallStep
<1>5. CASE ~CacheHit
  <2>0. PICK new : new = [Ended("none") EXCEPT !.pc = "read", !.token = token]
    OBVIOUS
  <2>1. new \in CallRecords /\ new.pc = "read" /\ new.ticks = 0 /\ new.token = token /\ new.verdict = "none"
    BY <2>0, ZenonT(30) DEF Ended, CallRecords, Hashes
  <2>2. SetC(c, new)
    BY <1>1, <1>5, <2>0
  <2>3. c = "health" => restoreState = "waiting"
    BY DEF CallAgent
  <2>4. c = "health" => HealthOK(new)'
    BY <1>1, <2>1 DEF HealthOK
  <2> QED
    BY <1>2, <1>3, <2>1, <2>2, <2>3, <2>4, CallStep
<1> QED
  BY <1>4, <1>5

LEMMA ReadDocumentKeeps == ASSUME TokInv, NEW c \in Calls, ReadDocument(c) PROVE TokInv'
<1> USE TicksAreNat, TokenAssumption
<1> DEFINE a == agentCall[c]
<1>1. /\ a \in CallRecords /\ a.pc = "read" /\ CallOK(c) /\ document \in Hashes
      /\ UNCHANGED <<document, hash, restoreState, waited>> /\ (NotAsked => NotAsked')
      /\ metadataFaults \in Nat /\ waited \in Nat /\ hash' \in HashRecords /\ HashOK'
  BY HashKept, AskedKept DEF ReadDocument, TokInv, TokType
<1>2. c = "health" => a.token = "own" /\ a.verdict = "none" /\ restoreState \notin {"restoring", "failed"}
  BY <1>1 DEF TokInv, HealthOK, NoWaitBefore
<1>3. CASE SetC(c, [agentCall[c] EXCEPT !.pc = "store", !.read = document]) /\ UNCHANGED metadataFaults
  <2>0. PICK new : new = [a EXCEPT !.pc = "store", !.read = document]
    OBVIOUS
  <2>1. /\ new \in CallRecords /\ new.pc = "store" /\ new.read = document /\ new.ticks = a.ticks
        /\ new.token = a.token /\ new.verdict = a.verdict
    BY <1>1, <2>0, ZenonT(30) DEF CallRecords
  <2>2. new.read = "ancestor" => waited = 0 /\ restoreState \in {"restoring", "failed"}
    BY <2>1 DEF TokInv, PublishedFirst, NoWaitBefore
  <2>3. new.ticks <= ReadTicks /\ new.ticks \in Nat
    BY <1>1, <2>1 DEF CallOK, CallRecords
  <2>4. c = "health" => HealthOK(new)'
    BY <1>1, <1>2, <2>1 DEF HealthOK, TokInv, PublishedFirst
  <2>5. SetC(c, new)
    BY <1>3, <2>0
  <2> QED
    BY <1>1, <1>2, <1>3, <2>1, <2>2, <2>3, <2>4, <2>5, FaultsKept, CallStep
<1>4. CASE MetadataFault /\ SetC(c, Ended("unavailable"))
  <2>1. metadataFaults' \in Nat /\ Faulty'
    BY <1>1, <1>4, FaultsKept DEF MetadataFault
  <2>2. HealthOK(Ended("unavailable"))'
    BY <2>1, EndedIs DEF HealthOK, Ended
  <2> QED
    BY <1>1, <1>4, <2>1, <2>2, EndedIs, CallStep
<1> QED
  BY <1>3, <1>4 DEF ReadDocument

LEMMA StoreHashKeeps == ASSUME TokInv, NEW c \in Calls, StoreHash(c) PROVE TokInv'
<1> USE TicksAreNat, TokenAssumption
<1> DEFINE a == agentCall[c]
<1>1. /\ a \in CallRecords /\ a.pc = "store" /\ CallOK(c)
      /\ UNCHANGED <<document, restoreState, waited, metadataFaults>> /\ (NotAsked => NotAsked')
      /\ metadataFaults \in Nat /\ waited \in Nat
      /\ hash' = [is |-> a.read, age |-> IF a.read = "none" THEN Stale ELSE 0]
      /\ SetC(c, Ended(Verdict(a.read, a.token)))
  BY AskedKept DEF StoreHash, TokInv, TokType
<1>2. a.read \in Hashes /\ a.ticks \in Nat
  BY <1>1 DEF CallRecords
<1>3. hash' \in HashRecords /\ HashOK'
  BY <1>1, <1>2 DEF HashRecords, HashOK, CallOK
<1>v. PICK v, new : v = Verdict(a.read, a.token) /\ new = Ended(v)
  OBVIOUS
<1>4. v \in {"accepted", "denied"} /\ (c = "health" => v = "accepted")
  BY <1>1, <1>v DEF Verdict, TokInv, HealthOK
<1>5. new \in CallRecords /\ new.pc = "idle" /\ new.ticks = 0 /\ new.verdict = v /\ SetC(c, new)
  BY <1>1, <1>4, <1>v, EndedIs
<1>6. c = "health" => HealthOK(new)'
  BY <1>4, <1>5 DEF HealthOK
<1> QED
  BY <1>1, <1>3, <1>5, <1>6, FaultsKept, CallStep

LEMMA NodeKeeps == ASSUME TokInv, PublishHash \/ Healthy \/ GiveUp PROVE TokInv'
<1> USE TicksAreNat, TokenAssumption
<1>1. UNCHANGED <<hash, agentCall, waited>> /\ (NotAsked => NotAsked')
  BY AskedKept DEF PublishHash, Healthy, GiveUp
<1>2. metadataFaults' \in Nat /\ (Faulty => Faulty')
  <2>1. metadataFaults' = metadataFaults \/ metadataFaults' = metadataFaults + 1
    BY DEF PublishHash, Healthy, GiveUp, MetadataFault
  <2> QED
    BY <2>1, FaultsKept DEF TokInv, TokType
<1>3. TokType' /\ HashOK' /\ \A c \in Calls : CallOK(c)'
  BY <1>1, <1>2 DEF TokInv, TokType, HashOK, CallOK, PublishHash, Healthy, GiveUp, Hashes
<1>4. PublishedFirst' /\ NoWaitBefore'
  BY <1>1 DEF TokInv, TokType, PublishedFirst, NoWaitBefore, PublishHash, Healthy, GiveUp
<1>5. HealthOK(agentCall["health"])'
  BY <1>1, <1>2 DEF TokInv, HealthOK, Early
<1>6. (restoreState = "gave up" => Faulty)'
  <2>1. CASE GiveUp
    <3>1. agentCall["health"].verdict \in {"none", "accepted", "denied", "unavailable"}
      BY DEF TokInv, TokType, CallRecords
    <3>2. agentCall["health"].verdict # "none"
      BY <2>1, ZenonT(30) DEF GiveUp, TokInv, HealthOK, NotAsked
    <3>3. agentCall["health"].verdict # "denied"
      <4>0. waited = HealthTicks
        BY <2>1 DEF GiveUp
      <4>1. ~Early
        BY <4>0 DEF Early
      <4> QED
        BY <4>1 DEF TokInv, HealthOK
    <3> QED
      BY <1>2, <2>1, <3>1, <3>2, <3>3 DEF GiveUp, TokInv, HealthOK
  <2>2. CASE PublishHash \/ Healthy
    BY <2>2 DEF PublishHash, Healthy
  <2> QED
    BY <2>1, <2>2
<1> QED
  BY <1>3, <1>4, <1>5, <1>6 DEF TokInv

\* In a tick everything grows older alike.
LEMMA TokTickKeeps == ASSUME TokInv, TokTick PROVE TokInv'
<1> USE TicksAreNat, TokenAssumption
<1> DEFINE Older(c) == [agentCall[c] EXCEPT !.ticks = @ + 1]
<1>0. /\ waited \in Nat /\ waited' = waited + 1 /\ UNCHANGED <<document, restoreState, metadataFaults>>
      /\ hash \in HashRecords /\ hash' = [hash EXCEPT !.age = IF @ < Stale THEN @ + 1 ELSE @]
      /\ agentCall \in [Calls -> CallRecords] /\ metadataFaults \in Nat
      /\ agentCall' = [c \in Calls |-> IF agentCall[c].pc = "idle" THEN Ended("none") ELSE Older(c)]
      /\ \A c \in Calls : agentCall[c].pc # "idle" => agentCall[c].ticks < ReadTicks
      /\ restoreState \in {"waiting", "healthy"}
  BY DEF TokTick, TokInv, TokType
<1>1. hash'.is = hash.is /\ hash'.age \in 0..Stale /\ (hash'.age = Stale \/ hash'.age = hash.age + 1) /\ hash' \in HashRecords
  <2>1. PICK age : age = IF hash.age < Stale THEN hash.age + 1 ELSE hash.age
    OBVIOUS
  <2>2. hash.age \in 0..Stale /\ hash \in HashRecords /\ hash' = [hash EXCEPT !.age = age]
    BY <1>0, <2>1 DEF HashRecords
  <2>3. age \in 0..Stale /\ (age = Stale \/ age = hash.age + 1)
    BY <2>1, <2>2
  <2> QED
    BY <2>2, <2>3 DEF HashRecords
<1>2. HashOK'
  <2>1. hash.age \in 0..Stale /\ HashOK
    BY <1>0 DEF HashRecords, TokInv
  <2> SUFFICES ASSUME hash'.is = "ancestor", hash'.age # Stale PROVE waited' <= hash'.age + ReadTicks
    BY DEF HashOK
  <2>2. waited \in Nat /\ waited' = waited + 1 /\ hash'.age = hash.age + 1 /\ hash.is = "ancestor" /\ hash.age # Stale
    BY <1>0, <1>1, <2>1
  <2>3. waited <= hash.age + ReadTicks
    BY <2>1, <2>2 DEF HashOK
  <2> QED
    BY <2>1, <2>2, <2>3
<1>3. \A c \in Calls : agentCall[c].pc # "idle" =>
        /\ agentCall'[c] = Older(c) /\ Older(c) \in CallRecords /\ Older(c).ticks = agentCall[c].ticks + 1
        /\ Older(c).pc = agentCall[c].pc /\ Older(c).read = agentCall[c].read /\ Older(c).token = agentCall[c].token
        /\ Older(c).verdict = agentCall[c].verdict /\ agentCall[c].ticks \in Nat
  BY <1>0 DEF CallRecords
<1>4. \A c \in Calls : agentCall[c].pc = "idle" => agentCall'[c] = Ended("none")
  BY <1>0
<1> HIDE DEF Older
<1>5. agentCall' \in [Calls -> CallRecords]
  <2>1. \A c \in Calls : agentCall'[c] \in CallRecords
    BY <1>3, <1>4, EndedIs
  <2> QED
    BY <1>0, <2>1
<1>6. TokType'
  <2>1. document \in Hashes
    BY DEF TokInv, TokType
  <2>2. waited' \in Nat
    BY <1>0
  <2> QED
    BY <1>0, <1>1, <1>5, <2>1, <2>2 DEF TokType
<1>7. \A c \in Calls : CallOK(c)'
  <2> SUFFICES ASSUME NEW c \in Calls PROVE CallOK(c)'
    OBVIOUS
  <2>1. CASE agentCall[c].pc = "idle"
    BY <1>4, <2>1, EndedIs DEF CallOK
  <2>2. CASE agentCall[c].pc # "idle"
    <3>1. CallOK(c) /\ agentCall[c].ticks \in Nat /\ agentCall[c].ticks < ReadTicks /\ waited \in Nat /\ waited' = waited + 1
      BY <1>0, <1>3, <2>2 DEF TokInv
    <3>2. /\ agentCall'[c].ticks = agentCall[c].ticks + 1 /\ agentCall'[c].pc = agentCall[c].pc
          /\ agentCall'[c].read = agentCall[c].read
      BY <1>3, <2>2
    <3> QED
      BY <3>1, <3>2 DEF CallOK
  <2> QED
    BY <2>1, <2>2
<1>8. PublishedFirst' /\ NoWaitBefore'
  BY <1>0 DEF TokInv, PublishedFirst, NoWaitBefore
<1>9. NotAsked' /\ (Faulty => Faulty')
  BY DEF TokTick, NotAsked, Faulty
<1>10. HealthOK(agentCall["health"])'
  <2>1. CASE agentCall["health"].pc = "idle"
    BY <1>4, <1>9, <2>1, EndedIs DEF HealthOK
  <2>2. CASE agentCall["health"].pc # "idle"
    BY <1>3, <2>2 DEF HealthOK, TokInv
  <2> QED
    BY <2>1, <2>2
<1>11. (restoreState = "gave up" => Faulty)'
  BY <1>0
<1> QED
  BY <1>2, <1>6, <1>7, <1>8, <1>10, <1>11 DEF TokInv

LEMMA TokInvStutter == TokInv /\ UNCHANGED tokVars => TokInv'
<1> SUFFICES ASSUME TokInv, UNCHANGED tokVars PROVE TokInv'
  OBVIOUS
<1>1. UNCHANGED <<document, hash, agentCall, restoreState, waited, metadataFaults>> /\ (NotAsked => NotAsked')
      /\ (Faulty => Faulty') /\ (Early => Early')
  BY AskedKept DEF tokVars, Faulty, Early
<1>2. TokType' /\ PublishedFirst' /\ NoWaitBefore' /\ HashOK' /\ \A c \in Calls : CallOK(c)'
  BY <1>1 DEF TokInv, TokType, PublishedFirst, NoWaitBefore, HashOK, CallOK
<1>3. HealthOK(agentCall["health"])' /\ (restoreState = "gave up" => Faulty)'
  BY <1>1 DEF TokInv, HealthOK
<1> QED
  BY <1>2, <1>3 DEF TokInv

LEMMA TokInvStep == TokInv /\ [TokNext]_tokVars => TokInv'
  BY CallAgentKeeps, ReadDocumentKeeps, StoreHashKeeps, NodeKeeps, TokTickKeeps, TokInvStutter DEF TokNext

LEMMA TokInvSettles == TokInv => AgentSettles
<1> SUFFICES ASSUME TokInv PROVE AgentSettles
  OBVIOUS
<1>1. restoreState = "gave up" => metadataFaults > 0
  BY DEF TokInv, Faulty
<1>2. waited >= Settled => hash.is # "ancestor" \/ ~CacheHit
  <2>1. waited \in Nat /\ hash.age \in 0..Stale /\ HashOK
    BY TicksAreNat DEF TokInv, TokType, HashRecords
  <2> QED
    BY <2>1, TicksAreNat, TokenAssumption DEF HashOK, CacheHit
<1> QED
  BY <1>1, <1>2 DEF AgentSettles

\* However the calls interleave: the node's health check is answered before its time is up
\* unless the metadata service failed, and once a window and a read have passed since the
\* hash was published the ancestor's token opens nothing (authorize, AgentTokenHash,
\* waitHealthy).
THEOREM AgentTokenSettles == TokSpec => []AgentSettles
<1>1. TokInit => TokInv
  BY TokInvInit
<1>2. TokInv /\ [TokNext]_tokVars => TokInv'
  BY TokInvStep
<1>3. TokInv => AgentSettles
  BY TokInvSettles
<1> QED
  BY <1>1, <1>2, <1>3, PTL DEF TokSpec
=============================================================================
