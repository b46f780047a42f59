------------------------- MODULE ControlPlaneProofs -------------------------
(***************************************************************************)
(* The counters stay exact under the whole control plane: any number of    *)
(* replicas, requests, sweeps and nodes, and every fault of the model, so  *)
(* whatever the races of ControlPlane do, they lose sandboxes and not      *)
(* arithmetic. LedgerProofs has the two steps that count.                  *)
(*                                                                         *)
(* A reservation is made once per id because ids are minted; ResvMinted is *)
(* what makes LedgerExact inductive here.                                  *)
(***************************************************************************)
EXTENDS ControlPlane, LedgerProofs

ResvMinted == DOMAIN resv \subseteq minted

CPInv == LedgerTypeOK /\ LedgerExact /\ ResvMinted

\* The ways a handler touches the ledger.
LedgerStep ==
    \/ \E id \in Ids, n \in Nodes :
         id \notin minted /\ minted' = minted \cup {id} /\ Reserve(id, n)
    \/ minted' = minted /\ \E id : Release(id)
    \/ minted' = minted /\ \E n : FinishCreate(n) \/ RenewLease(n)
    \/ minted' = minted /\ \E n : \E s \in NodeStates : SetNodeState(n, s)
    \/ minted' = minted /\ \E n \in Nodes : UpsertNode(n, alloc[n])
    \/ UNCHANGED <<ledgerVars, minted>>

\* Every action of the control plane is one of them.
LEMMA StepsTouchLedger == Next => LedgerStep
<1> SUFFICES ASSUME Next PROVE LedgerStep
  OBVIOUS
<1>1. ASSUME NEW g \in Gateways, NEW id \in Ids,
             \/ CreatePlace(g, id) \/ DeleteLoad(g, id) \/ GetLoad(g, id)
             \/ PauseCall(g, id) \/ ResumeCall(g, id)
      PROVE  LedgerStep
  BY <1>1 DEF CreatePlace, DeleteLoad, GetLoad, PauseCall, ResumeCall, Toggle, LedgerStep
<1>2. ASSUME NEW g \in Gateways, GatewayStep(g)
      PROVE  LedgerStep
  BY <1>2 DEF GatewayStep, CreatePut, CreateUnplace, CreateConnect, CreateReturn,
     CreateRunning, CreateFail, ReleasePlacement, DeleteCall, DeletePut, GetCall,
     UpdateLoad, WriteState, TryFinish, TryRelease, LedgerStep
<1>3. ASSUME NEW s \in Sweepers, SweepStep(s) \/ SweepFails(s)
      PROVE  LedgerStep
  <2>1. CASE MarkLost(s) \/ MarkSuspect(s)
    <3>1. PICK n : \E st \in {"LOST", "SUSPECT"} : SetNodeState(n, st) /\ minted' = minted
      BY <2>1 DEF MarkLost, MarkSuspect
    <3> QED
      BY <3>1 DEF NodeStates, LedgerStep
  <2>2. CASE FreeLost(s) \/ ReclaimOrphan(s)
    <3>1. PICK id : (Release(id) \/ UNCHANGED ledgerVars) /\ minted' = minted
      BY <2>2 DEF FreeLost, ReclaimOrphan, TryRelease
    <3> QED
      BY <3>1 DEF LedgerStep
  <2>3. CASE \/ SweepLiveness(s) \/ ListSuspects(s) \/ ListLost(s) \/ MarkRowLost(s)
             \/ LostDone(s) \/ OrphanReservations(s) \/ SweepDone(s) \/ SweepFails(s)
    BY <2>3 DEF SweepLiveness, ListSuspects, ListLost, MarkRowLost, LostDone,
       OrphanReservations, SweepDone, SweepFails, LedgerStep
  <2> QED
    BY <1>3, <2>1, <2>2, <2>3 DEF SweepStep
<1>4. ASSUME NEW id \in Ids, CreateStep(id) \/ NodeIdles(id)
      PROVE  LedgerStep
  BY <1>4 DEF CreateStep, NodeAccepts, NodeFinishes, NodeIdles, LedgerStep
<1>5. ASSUME NEW n \in Nodes,
             \/ Heartbeat(n) \/ LeaseAges(n) \/ Register(n) \/ Reconnect(n)
             \/ ReconcileStep(n) \/ NodeRestart(n) \/ Drain(n)
      PROVE  LedgerStep
  <2>1. CASE Heartbeat(n)
    BY <2>1 DEF Heartbeat, LedgerStep
  <2>2. CASE Register(n) \/ Reconnect(n)
    BY <2>2 DEF Register, Reconnect, Session, LedgerStep
  <2>3. CASE Drain(n)
    <3>1. SetNodeState(n, "DRAINING") /\ minted' = minted /\ "DRAINING" \in NodeStates
      BY <2>3 DEF Drain, cpVars, NodeStates
    <3> QED
      BY <3>1 DEF LedgerStep
  <2>4. CASE LeaseAges(n) \/ ReconcileStep(n) \/ NodeRestart(n)
    BY <2>4 DEF LeaseAges, ReconcileStep, SyncState, Compare, DestroyOrphan, Reconciled,
       NodeRestart, LedgerStep
  <2> QED
    BY <1>5, <2>1, <2>2, <2>3, <2>4
<1>6. CASE Crash
  BY <1>6 DEF Crash, LedgerStep
<1> QED
  BY <1>1, <1>2, <1>3, <1>4, <1>5, <1>6 DEF Next

\* Whichever way the ledger is touched, the counters count the rows.
LEMMA LedgerStepInv == CPInv /\ LedgerStep => CPInv'
<1> SUFFICES ASSUME CPInv, LedgerStep PROVE CPInv'
  OBVIOUS
<1> USE LedgerAssumption
<1>1. ASSUME NEW id \in Ids, NEW n \in Nodes,
             id \notin minted, minted' = minted \cup {id}, Reserve(id, n)
      PROVE  CPInv'
  <2>1. LedgerTypeOK'
    BY <1>1 DEF Reserve, CPInv, LedgerTypeOK
  <2>2. LedgerExact'
    BY <1>1, ReserveCounts DEF CPInv, ResvMinted
  <2>3. ResvMinted'
    BY <1>1 DEF Reserve, CPInv, ResvMinted
  <2> QED
    BY <2>1, <2>2, <2>3 DEF CPInv
<1>2. ASSUME NEW id, minted' = minted, Release(id)
      PROVE  CPInv'
  <2>1. CASE id \in DOMAIN resv
    <3>1. committed' = Returned(resv[id]) /\ resv' = Unreserved(id)
      BY <1>2, <2>1 DEF Release
    <3>2. LedgerTypeOK'
      BY <1>2, <2>1 DEF Release, Returned, Unreserved, CPInv, LedgerTypeOK
    <3>3. LedgerExact'
      BY <2>1, <3>1, ReturnCounts DEF CPInv
    <3> QED
      BY <1>2, <3>1, <3>2, <3>3 DEF CPInv, ResvMinted, Unreserved
  <2>2. CASE id \notin DOMAIN resv
    BY <1>2, <2>2, UntouchedCounts DEF Release, CPInv, LedgerTypeOK, ResvMinted
  <2> QED
    BY <2>1, <2>2
<1>3. ASSUME LedgerTypeOK', UNCHANGED <<committed, resv, minted>>
      PROVE  CPInv'
  BY <1>3, UntouchedCounts DEF CPInv, ResvMinted
<1>4. ASSUME NEW n, minted' = minted, FinishCreate(n) \/ RenewLease(n)
      PROVE  CPInv'
  BY <1>3, <1>4 DEF FinishCreate, RenewLease, CPInv, LedgerTypeOK, NodeStates
<1>5. ASSUME NEW n, NEW s \in NodeStates, minted' = minted, SetNodeState(n, s)
      PROVE  CPInv'
  BY <1>3, <1>5 DEF SetNodeState, CPInv, LedgerTypeOK
<1>6. ASSUME NEW n \in Nodes, minted' = minted, UpsertNode(n, alloc[n])
      PROVE  CPInv'
  BY <1>3, <1>6 DEF UpsertNode, CPInv, LedgerTypeOK, NodeStates
<1>7. CASE UNCHANGED <<ledgerVars, minted>>
  BY <1>3, <1>7 DEF ledgerVars, CPInv, LedgerTypeOK
<1> QED
  BY <1>1, <1>2, <1>4, <1>5, <1>6, <1>7 DEF LedgerStep

\* No crash, timeout, restart, lost lease or race of handlers makes the
\* counters of a node differ from the reservations on it.
THEOREM ControlPlaneExact == Spec => []LedgerExact
<1>1. Init => CPInv
  BY LedgerInitInv DEF Init, LedgerInv, LedgerInit, CPInv, ResvMinted
<1>2. CPInv /\ [Next]_vars => CPInv'
  <2>1. UNCHANGED vars => LedgerStep
    BY DEF vars, cpVars, LedgerStep
  <2> QED
    BY <2>1, StepsTouchLedger, LedgerStepInv
<1>3. CPInv => LedgerExact
  BY DEF CPInv
<1> QED
  BY <1>1, <1>2, <1>3, PTL DEF Spec
=============================================================================
