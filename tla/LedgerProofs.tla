---------------------------- MODULE LedgerProofs ----------------------------
(***************************************************************************)
(* The ledger's counters stand for its rows, for any number of nodes,      *)
(* sandboxes, connections and capacities, as long as one transaction is    *)
(* open at a time (SQLite's single connection).                            *)
(*                                                                         *)
(* LedgerExact is not inductive: a transaction that has read a reservation *)
(* decrements the counter later, whatever became of the row meanwhile.     *)
(* ReadIsCurrent says that nothing did, and OneReader why.                 *)
(***************************************************************************)
EXTENDS Ledger, FiniteSetTheorems, TLAPS

\* What a transaction has read is still what the table says.
ReadIsCurrent ==
    \A c \in Conns : tx[c] # NoTx =>
        tx[c].id \in DOMAIN resv /\ resv[tx[c].id] = tx[c].node

\* The single connection: no two transactions are open.
OneReader == \A c, d \in Conns : tx[c] # NoTx /\ tx[d] # NoTx => c = d

LedgerInv == LedgerTypeOK /\ LedgerExact /\ ReadIsCurrent /\ OneReader

-----------------------------------------------------------------------------
(* Type correctness *)

\* The first state has the types the schema gives its columns.
LEMMA LedgerInitType == LedgerInit => LedgerTypeOK
BY LedgerAssumption DEF LedgerInit, LedgerTypeOK, NodeStates

\* No statement takes a column out of its type: the guard of Reserve and the
\* clamps of Release and FinishCreate keep the counters in range.
LEMMA LedgerNextType == LedgerTypeOK /\ [LedgerNext]_ledgerVars => LedgerTypeOK'
<1> SUFFICES ASSUME LedgerTypeOK, [LedgerNext]_ledgerVars PROVE LedgerTypeOK'
  OBVIOUS
<1> USE LedgerAssumption DEF LedgerTypeOK
<1>1. ASSUME NEW id \in Ids, NEW n \in Nodes, Reserve(id, n) PROVE LedgerTypeOK'
  BY <1>1 DEF Reserve
<1>2. ASSUME NEW c \in Conns, NEW id \in Ids, ReleaseRead(c, id) PROVE LedgerTypeOK'
  BY <1>2 DEF ReleaseRead
<1>3. ASSUME NEW c \in Conns, ReleaseApply(c) PROVE LedgerTypeOK'
  BY <1>3 DEF ReleaseApply, Returned, Unreserved
<1>4. ASSUME NEW n \in Nodes, FinishCreate(n) PROVE LedgerTypeOK'
  BY <1>4 DEF FinishCreate
<1>5. ASSUME NEW n \in Nodes, RenewLease(n) PROVE LedgerTypeOK'
  BY <1>5 DEF RenewLease, NodeStates
<1>6. ASSUME NEW n \in Nodes, NEW s \in NodeStates, SetNodeState(n, s) PROVE LedgerTypeOK'
  BY <1>6 DEF SetNodeState
<1>7. ASSUME NEW n \in Nodes, NEW a \in Allocs, UpsertNode(n, a) PROVE LedgerTypeOK'
  BY <1>7 DEF UpsertNode, NodeStates
<1>8. CASE UNCHANGED ledgerVars
  BY <1>8 DEF ledgerVars
<1> QED
  BY <1>1, <1>2, <1>3, <1>4, <1>5, <1>6, <1>7, <1>8 DEF LedgerNext

\* Every state of the ledger, on either engine, has the types of the schema.
THEOREM LedgerTypeCorrect == LedgerSpec => []LedgerTypeOK
BY LedgerInitType, LedgerNextType, PTL DEF LedgerSpec

-----------------------------------------------------------------------------
(* The counters count the rows *)

\* There are finitely many sandboxes, so a node's reservations can be counted.
LEMMA ReservedOnFinite ==
    ASSUME LedgerTypeOK, NEW n
    PROVE  IsFiniteSet(ReservedOn(n))
BY LedgerAssumption, FS_Subset, ReservedOn(n) \subseteq Ids DEF LedgerTypeOK, ReservedOn

\* Reserve adds its sandbox to the node it reserves on, and to no other.
LEMMA ReserveCounts ==
    ASSUME LedgerTypeOK, LedgerExact,
           NEW id \in Ids, NEW n \in Nodes, id \notin DOMAIN resv, Reserve(id, n)
    PROVE  LedgerExact'
<1> SUFFICES ASSUME NEW m \in Nodes PROVE committed'[m] = Cardinality(ReservedOn(m)')
  BY DEF LedgerExact
<1>1. committed[m] = Cardinality(ReservedOn(m)) /\ committed[m] \in Nat
  BY DEF LedgerExact, LedgerTypeOK
<1>2. CASE m = n
  <2>1. ReservedOn(m)' = ReservedOn(m) \cup {id} /\ id \notin ReservedOn(m)
    BY <1>2 DEF Reserve, ReservedOn
  <2>2. Cardinality(ReservedOn(m) \cup {id}) = Cardinality(ReservedOn(m)) + 1
    BY <2>1, ReservedOnFinite, FS_AddElement
  <2>3. committed'[m] = committed[m] + 1
    BY <1>2 DEF Reserve, LedgerTypeOK
  <2> QED
    BY <1>1, <2>1, <2>2, <2>3
<1>3. CASE m # n
  <2>1. ReservedOn(m)' = ReservedOn(m)
    BY <1>3 DEF Reserve, ReservedOn
  <2>2. committed'[m] = committed[m]
    BY <1>3 DEF Reserve, LedgerTypeOK
  <2> QED
    BY <1>1, <2>1, <2>2
<1> QED
  BY <1>2, <1>3

\* Taking a reservation out and decrementing its node's counter agree; the
\* clamp is never what decides, because the row was there to be counted.
LEMMA ReturnCounts ==
    ASSUME LedgerTypeOK, LedgerExact, NEW id \in DOMAIN resv,
           committed' = Returned(resv[id]), resv' = Unreserved(id)
    PROVE  LedgerExact'
<1> DEFINE n == resv[id]
<1> SUFFICES ASSUME NEW m \in Nodes PROVE committed'[m] = Cardinality(ReservedOn(m)')
  BY DEF LedgerExact
<1>1. committed[m] = Cardinality(ReservedOn(m)) /\ committed[m] \in Nat
  BY DEF LedgerExact, LedgerTypeOK
<1>2. CASE m = n
  <2>1. ReservedOn(m)' = ReservedOn(m) \ {id} /\ id \in ReservedOn(m)
    BY <1>2 DEF Unreserved, ReservedOn
  <2>2. Cardinality(ReservedOn(m) \ {id}) = Cardinality(ReservedOn(m)) - 1
    BY <2>1, ReservedOnFinite, FS_RemoveElement
  <2>3. Cardinality(ReservedOn(m) \ {id}) \in Nat
    BY ReservedOnFinite, FS_RemoveElement, FS_CardinalityType
  <2>4. committed'[m] = committed[m] - 1
    BY <1>1, <1>2, <2>2, <2>3 DEF Returned, LedgerTypeOK
  <2> QED
    BY <1>1, <2>1, <2>2, <2>4
<1>3. CASE m # n
  <2>1. ReservedOn(m)' = ReservedOn(m)
    BY <1>3 DEF Unreserved, ReservedOn
  <2>2. committed'[m] = committed[m]
    BY <1>3 DEF Returned, LedgerTypeOK
  <2> QED
    BY <1>1, <2>1, <2>2
<1> QED
  BY <1>2, <1>3

\* The empty tables agree.
LEMMA LedgerInitInv == LedgerInit => LedgerInv
<1> SUFFICES ASSUME LedgerInit PROVE LedgerInv
  OBVIOUS
<1>1. LedgerTypeOK
  BY LedgerInitType
<1>2. LedgerExact
  <2> SUFFICES ASSUME NEW n \in Nodes PROVE committed[n] = Cardinality(ReservedOn(n))
    BY DEF LedgerExact
  <2>1. ReservedOn(n) = {}
    BY DEF LedgerInit, ReservedOn
  <2> QED
    BY <2>1, FS_EmptySet DEF LedgerInit
<1>3. ReadIsCurrent /\ OneReader
  BY DEF LedgerInit, ReadIsCurrent, OneReader
<1> QED
  BY <1>1, <1>2, <1>3 DEF LedgerInv

\* A step that touches neither the counters nor the rows keeps them equal.
LEMMA UntouchedCounts ==
    ASSUME LedgerExact, UNCHANGED <<committed, resv>>
    PROVE  LedgerExact'
BY DEF LedgerExact, ReservedOn

\* Every statement keeps the counters equal to the rows, and what the open
\* transaction has read current.
LEMMA LedgerNextInv ==
    ASSUME SingleConn
    PROVE  LedgerInv /\ [LedgerNext]_ledgerVars => LedgerInv'
<1> SUFFICES ASSUME LedgerInv, [LedgerNext]_ledgerVars PROVE LedgerInv'
  OBVIOUS
<1>0. LedgerTypeOK'
  BY LedgerNextType DEF LedgerInv
<1> USE DEF LedgerInv
<1>1. ASSUME NEW id \in Ids, NEW n \in Nodes, id \notin DOMAIN resv, Reserve(id, n)
      PROVE  LedgerInv'
  <2>1. LedgerExact'
    BY <1>1, ReserveCounts
  <2>2. ReadIsCurrent' /\ OneReader'
    BY <1>1, SingleConn DEF Reserve, StoreFree, ReadIsCurrent, OneReader
  <2> QED
    BY <1>0, <2>1, <2>2
<1>2. ASSUME NEW c \in Conns, NEW id \in Ids, ReleaseRead(c, id)
      PROVE  LedgerInv'
  <2>1. LedgerExact'
    BY <1>2, UntouchedCounts DEF ReleaseRead
  <2>2. tx \in [Conns -> {NoTx} \cup [id : Ids, node : Nodes]]
    BY DEF LedgerTypeOK
  <2>3. ReadIsCurrent'
    BY <1>2, <2>2 DEF ReleaseRead, ReadIsCurrent
  <2>4. OneReader'
    BY <1>2, <2>2, SingleConn DEF ReleaseRead, StoreFree, OneReader
  <2> QED
    BY <1>0, <2>1, <2>3, <2>4
<1>3. ASSUME NEW c \in Conns, ReleaseApply(c)
      PROVE  LedgerInv'
  <2>1. tx[c].id \in DOMAIN resv /\ resv[tx[c].id] = tx[c].node
    BY <1>3 DEF ReleaseApply, ReadIsCurrent
  <2>2. LedgerExact'
    BY <1>3, <2>1, ReturnCounts DEF ReleaseApply
  <2>3. \A d \in Conns : tx'[d] = NoTx
    BY <1>3 DEF ReleaseApply, OneReader, LedgerTypeOK
  <2>4. ReadIsCurrent' /\ OneReader'
    BY <2>3 DEF ReadIsCurrent, OneReader
  <2> QED
    BY <1>0, <2>2, <2>4
<1>4. ASSUME UNCHANGED <<committed, resv, tx>>
      PROVE  LedgerInv'
  <2>1. LedgerExact'
    BY <1>4, UntouchedCounts
  <2>2. ReadIsCurrent' /\ OneReader'
    BY <1>4 DEF ReadIsCurrent, OneReader
  <2> QED
    BY <1>0, <2>1, <2>2
<1>5. ASSUME NEW n \in Nodes, FinishCreate(n) \/ RenewLease(n)
      PROVE  LedgerInv'
  BY <1>4, <1>5 DEF FinishCreate, RenewLease
<1>6. ASSUME NEW n \in Nodes, NEW s \in NodeStates, SetNodeState(n, s)
      PROVE  LedgerInv'
  BY <1>4, <1>6 DEF SetNodeState
<1>7. ASSUME NEW n \in Nodes, NEW a \in Allocs, UpsertNode(n, a)
      PROVE  LedgerInv'
  BY <1>4, <1>7 DEF UpsertNode
<1>8. CASE UNCHANGED ledgerVars
  BY <1>4, <1>8 DEF ledgerVars
<1> QED
  BY <1>1, <1>2, <1>3, <1>5, <1>6, <1>7, <1>8 DEF LedgerNext

\* With one connection the counters are exact in every reachable state, so
\* Release is the no-op it says it is when it is called again.
THEOREM LedgerIsExact ==
    ASSUME SingleConn
    PROVE  LedgerSpec => []LedgerExact
<1>1. LedgerInv => LedgerExact
  BY DEF LedgerInv
<1> QED
  BY <1>1, LedgerInitInv, LedgerNextInv, PTL DEF LedgerSpec

-----------------------------------------------------------------------------
(* Nothing is oversold *)

\* The guard compares the counter, and the counter is the number of rows.
LEMMA LedgerNextRoom ==
    ASSUME LedgerInv, LedgerInv', LedgerNext
    PROVE  PlacedWithRoom
<1> SUFFICES ASSUME NEW m \in Nodes, Cardinality(ReservedOn(m)') > Cardinality(ReservedOn(m))
             PROVE  nodeState[m] = "READY" /\ Cardinality(ReservedOn(m)') <= alloc[m]
  BY DEF PlacedWithRoom
<1>1. /\ committed[m] = Cardinality(ReservedOn(m)) /\ committed[m] \in Nat
      /\ committed'[m] = Cardinality(ReservedOn(m)') /\ committed'[m] \in Nat
  BY DEF LedgerInv, LedgerExact, LedgerTypeOK
<1>2. committed'[m] > committed[m]
  BY <1>1
<1>3. ASSUME NEW id \in Ids, NEW n \in Nodes, Reserve(id, n)
      PROVE  nodeState[m] = "READY" /\ committed'[m] <= alloc[m]
  <2>1. m = n /\ committed'[m] = committed[m] + 1
    BY <1>2, <1>3 DEF Reserve, LedgerInv, LedgerTypeOK
  <2> QED
    BY <1>3, <2>1 DEF Reserve, Fits
<1>4. ASSUME NEW c \in Conns, ReleaseApply(c) PROVE FALSE
  BY <1>2, <1>4 DEF ReleaseApply, Returned, LedgerInv, LedgerTypeOK
<1>5. ASSUME UNCHANGED committed PROVE FALSE
  BY <1>2, <1>5 DEF LedgerInv, LedgerTypeOK
<1> QED
  BY <1>1, <1>3, <1>4, <1>5
     DEF LedgerNext, ReleaseRead, FinishCreate, RenewLease, SetNodeState, UpsertNode

\* No step, from any interleaving of callers, places a sandbox on a node that
\* is not READY or has no room for it.
THEOREM LedgerNeverOversells ==
    ASSUME SingleConn
    PROVE  LedgerSpec => NeverOversold
<1>1. LedgerInv /\ LedgerInv' /\ [LedgerNext]_ledgerVars => [PlacedWithRoom]_ledgerVars
  BY LedgerNextRoom
<1> QED
  BY <1>1, LedgerInitInv, LedgerNextInv, PTL DEF LedgerSpec, NeverOversold

-----------------------------------------------------------------------------
(* The ledger implements Reservations *)

\* Both modules count with FiniteSets.
LEMMA SameCardinality == \A S : Abstract!Cardinality(S) = Cardinality(S)
BY DEF Abstract!Cardinality, Cardinality, Abstract!IsFiniteSet, IsFiniteSet

\* The empty tables are the empty set of reservations.
LEMMA InitImplements == LedgerInit => Abstract!ResvInit
BY DEF LedgerInit, Abstract!ResvInit

\* Every statement is a placement, a return, a change to one node, or nothing
\* that the abstraction can see.
LEMMA StepImplements ==
    ASSUME LedgerInv, LedgerInv', [LedgerNext]_ledgerVars
    PROVE  [Abstract!ResvNext]_Abstract!resvVars
<1> USE DEF Abstract!resvVars
<1>1. ASSUME NEW id \in Ids, NEW n \in Nodes, id \notin DOMAIN resv, Reserve(id, n)
      PROVE  Abstract!ResvNext
  <2>1. Abstract!Load(n) = committed[n]
    BY SameCardinality DEF LedgerInv, LedgerExact, ReservedOn, Abstract!Load
  <2>2. Abstract!Load(n) < alloc[n]
    <3>1. committed[n] \in Nat /\ alloc[n] \in Nat
      BY LedgerAssumption DEF LedgerInv, LedgerTypeOK
    <3> QED
      BY <1>1, <2>1, <3>1 DEF Reserve, Fits
  <2>3. resv' = [i \in DOMAIN resv \cup {id} |-> IF i = id THEN n ELSE resv[i]]
    BY <1>1 DEF Reserve
  <2>4. Abstract!Place(id, n)
    BY <1>1, <2>2, <2>3 DEF Reserve, Fits, Abstract!Place
  <2> QED
    BY <2>4 DEF Abstract!ResvNext
<1>2. ASSUME NEW c \in Conns, ReleaseApply(c)
      PROVE  Abstract!ResvNext
  <2>1. tx[c].id \in DOMAIN resv /\ tx[c].id \in Ids
    BY <1>2 DEF ReleaseApply, LedgerInv, ReadIsCurrent, LedgerTypeOK
  <2>2. Abstract!GiveBack(tx[c].id)
    BY <1>2, <2>1 DEF ReleaseApply, Unreserved, Abstract!GiveBack
  <2> QED
    BY <2>1, <2>2 DEF Abstract!ResvNext
<1>3. ASSUME NEW n \in Nodes, NEW s \in NodeStates, SetNodeState(n, s) \/ RenewLease(n)
      PROVE  Abstract!ResvNext
  <2>1. Abstract!NodeChanges(n)
    BY <1>3 DEF SetNodeState, RenewLease, LedgerInv, LedgerTypeOK, Abstract!NodeChanges
  <2> QED
    BY <2>1 DEF Abstract!ResvNext
<1>4. ASSUME NEW n \in Nodes, NEW a \in Allocs, UpsertNode(n, a)
      PROVE  Abstract!ResvNext
  <2>1. Abstract!NodeChanges(n)
    BY <1>4 DEF UpsertNode, LedgerInv, LedgerTypeOK, Abstract!NodeChanges
  <2> QED
    BY <2>1 DEF Abstract!ResvNext
<1>5. ASSUME NEW n \in Nodes, RenewLease(n)
      PROVE  Abstract!ResvNext
  BY <1>3, <1>5 DEF NodeStates
<1>6. ASSUME NEW c \in Conns, NEW id \in Ids, ReleaseRead(c, id)
      PROVE  UNCHANGED Abstract!resvVars
  BY <1>6 DEF ReleaseRead
<1>7. ASSUME NEW n \in Nodes, FinishCreate(n)
      PROVE  UNCHANGED Abstract!resvVars
  BY <1>7 DEF FinishCreate
<1>8. CASE UNCHANGED ledgerVars
  BY <1>8 DEF ledgerVars
<1> QED
  BY <1>1, <1>2, <1>3, <1>4, <1>5, <1>6, <1>7, <1>8 DEF LedgerNext

\* Callers may reason with Reservations, which has neither counters nor
\* transactions: the ledger is one.
THEOREM LedgerImplements ==
    ASSUME SingleConn
    PROVE  LedgerSpec => ImplementsReservations
<1>1. LedgerInv /\ LedgerInv' /\ [LedgerNext]_ledgerVars
        => [Abstract!ResvNext]_Abstract!resvVars
  BY StepImplements
<1> QED
  BY <1>1, InitImplements, LedgerInitInv, LedgerNextInv, PTL
     DEF LedgerSpec, ImplementsReservations, Abstract!ResvSpec
=============================================================================
