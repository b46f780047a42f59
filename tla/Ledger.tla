------------------------------- MODULE Ledger -------------------------------
(***************************************************************************)
(* The placement ledger (internal/control/store/placement.go): the nodes   *)
(* table with its committed counters, and the reservations table that      *)
(* says who they were committed for. Every sandbox costs one unit of one   *)
(* resource; the code keeps four such columns and guards each alike.       *)
(*                                                                         *)
(* A transaction is a sequence of statements. Reserve's first statement    *)
(* locks the node's row until it commits, so it is one step on either      *)
(* engine. Release reads before it writes: on SQLite, whose store opens    *)
(* one connection, nothing comes in between; on Postgres the default       *)
(* isolation lets another connection commit there.                         *)
(***************************************************************************)
EXTENDS Integers, FiniteSets

CONSTANTS
    Ids,          \* sandbox ids
    Nodes,        \* node ids
    Allocs,       \* the allocatable capacities a node may register with
    Conns,        \* database connections, over all replicas
    SingleConn,   \* SQLite (SetMaxOpenConns(1)) rather than Postgres
    MaxInFlight   \* bound: creates counted in flight on one node

ASSUME LedgerAssumption ==
    /\ IsFiniteSet(Ids)
    /\ Allocs \subseteq Nat /\ Allocs # {}
    /\ SingleConn \in BOOLEAN /\ MaxInFlight \in Nat

VARIABLES
    alloc,        \* nodes.cpu_alloc and its sisters
    committed,    \* nodes.cpu_committed and its sisters
    inFlight,     \* nodes.create_in_flight
    nodeState,    \* nodes.state
    resv,         \* reservations: sandbox id -> node id
    tx            \* Release transactions that have read and not yet written

ledgerVars == <<alloc, committed, inFlight, nodeState, resv, tx>>

NodeStates == {"READY", "SUSPECT", "LOST", "DRAINING"}
NoTx == [id |-> "none"]

\* Columns and rows have the types the schema gives them; the counters do not
\* go negative, which "makes a node advertise more capacity than it has".
LedgerTypeOK ==
    /\ alloc \in [Nodes -> Allocs]
    /\ committed \in [Nodes -> Nat]
    /\ inFlight \in [Nodes -> 0..MaxInFlight]
    /\ nodeState \in [Nodes -> NodeStates]
    /\ DOMAIN resv \subseteq Ids /\ \A id \in DOMAIN resv : resv[id] \in Nodes
    /\ tx \in [Conns -> {NoTx} \cup [id : Ids, node : Nodes]]

LedgerInit ==
    /\ alloc \in [Nodes -> Allocs]
    /\ committed = [n \in Nodes |-> 0]
    /\ inFlight = [n \in Nodes |-> 0]
    /\ nodeState = [n \in Nodes |-> "READY"]
    /\ resv = [id \in {} |-> NoTx]
    /\ tx = [c \in Conns |-> NoTx]

\* With one connection, a transaction in progress keeps everybody out.
StoreFree == SingleConn => \A c \in Conns : tx[c] = NoTx

ReservedOn(n) == {id \in DOMAIN resv : resv[id] = n}

----------------------------------------------------------------------------
(* Statements that are atomic on both engines *)

\* Mutant of Fits: the guard compares before it adds.
FitsOffByOne(n) == nodeState[n] = "READY" /\ committed[n] <= alloc[n]

Fits(n) == nodeState[n] = "READY" /\ committed[n] + 1 <= alloc[n]

\* The conditional UPDATE, the INSERT and the commit.
Reserve(id, n) ==
    /\ StoreFree /\ Fits(n) /\ inFlight[n] < MaxInFlight
    /\ committed' = [committed EXCEPT ![n] = @ + 1]
    /\ inFlight' = [inFlight EXCEPT ![n] = @ + 1]
    /\ resv' = [i \in DOMAIN resv \cup {id} |->
                  IF i \in DOMAIN resv THEN resv[i] ELSE n]
    /\ UNCHANGED <<alloc, nodeState, tx>>

FinishCreate(n) ==
    /\ StoreFree
    /\ inFlight' = [inFlight EXCEPT ![n] = IF @ > 0 THEN @ - 1 ELSE @]
    /\ UNCHANGED <<alloc, committed, nodeState, resv, tx>>

SetNodeState(n, s) ==
    /\ StoreFree
    /\ nodeState' = [nodeState EXCEPT ![n] = s]
    /\ UNCHANGED <<alloc, committed, inFlight, resv, tx>>

RenewLease(n) ==
    /\ StoreFree
    /\ nodeState' = [nodeState EXCEPT ![n] = IF @ \in {"SUSPECT", "LOST"} THEN "READY" ELSE @]
    /\ UNCHANGED <<alloc, committed, inFlight, resv, tx>>

\* Mutant of UpsertNode: a node that registers again appears empty.
UpsertNodeEmpty(n, a) ==
    /\ StoreFree
    /\ alloc' = [alloc EXCEPT ![n] = a]
    /\ committed' = [committed EXCEPT ![n] = 0]
    /\ nodeState' = [nodeState EXCEPT ![n] = "READY"]
    /\ UNCHANGED <<inFlight, resv, tx>>

\* A registration replaces the node's description and makes it READY; what
\* is committed on it stays.
UpsertNode(n, a) ==
    /\ StoreFree
    /\ alloc' = [alloc EXCEPT ![n] = a]
    /\ nodeState' = [nodeState EXCEPT ![n] = "READY"]
    /\ UNCHANGED <<committed, inFlight, resv, tx>>

----------------------------------------------------------------------------
(* Release *)

Returned(n) == [committed EXCEPT ![n] = IF @ - 1 < 0 THEN 0 ELSE @ - 1]

Unreserved(id) == [i \in DOMAIN resv \ {id} |-> resv[i]]

\* The SELECT. A reservation that is not there has been released already.
ReleaseRead(c, id) ==
    /\ StoreFree /\ tx[c] = NoTx /\ id \in DOMAIN resv
    /\ tx' = [tx EXCEPT ![c] = [id |-> id, node |-> resv[id]]]
    /\ UNCHANGED <<alloc, committed, inFlight, nodeState, resv>>

\* The UPDATE of the node, the DELETE of the reservation, and the commit. The
\* node's row is locked in between, so two of these do not overlap.
ReleaseApply(c) ==
    /\ tx[c] # NoTx
    /\ committed' = Returned(tx[c].node)
    /\ resv' = Unreserved(tx[c].id)
    /\ tx' = [tx EXCEPT ![c] = NoTx]
    /\ UNCHANGED <<alloc, inFlight, nodeState>>

\* The whole transaction, as it is with a single connection.
Release(id) ==
    /\ StoreFree
    /\ IF id \in DOMAIN resv
       THEN committed' = Returned(resv[id]) /\ resv' = Unreserved(id)
       ELSE UNCHANGED <<committed, resv>>
    /\ UNCHANGED <<alloc, inFlight, nodeState, tx>>

----------------------------------------------------------------------------
(* Callers in any order. An id is reserved by the one create that minted it. *)

Releasing(id) == \E c \in Conns : tx[c] # NoTx /\ tx[c].id = id

LedgerNext ==
    \/ \E id \in Ids, n \in Nodes :
         id \notin DOMAIN resv /\ ~Releasing(id) /\ Reserve(id, n)
    \/ \E c \in Conns : ReleaseApply(c) \/ \E id \in Ids : ReleaseRead(c, id)
    \/ \E n \in Nodes : FinishCreate(n) \/ RenewLease(n)
    \/ \E n \in Nodes, s \in NodeStates : SetNodeState(n, s)
    \/ \E n \in Nodes, a \in Allocs : UpsertNode(n, a)

LedgerSpec == LedgerInit /\ [][LedgerNext]_ledgerVars

----------------------------------------------------------------------------
(* Properties *)

\* What is committed on a node is exactly what its reservations account for,
\* so no order of reserves, releases, retries and re-registrations loses or
\* invents capacity. Release says of itself that "releasing an already-
\* released reservation is a no-op, so cleanup paths and retries do not have
\* to coordinate".
LedgerExact == \A n \in Nodes : committed[n] = Cardinality(ReservedOn(n))

PlacedWithRoom ==
    \A n \in Nodes :
        Cardinality(ReservedOn(n)') > Cardinality(ReservedOn(n)) =>
            nodeState[n] = "READY" /\ Cardinality(ReservedOn(n)') <= alloc[n]

\* A node takes a reservation only while the sandboxes already placed on it
\* leave room: "two replicas racing on the same node cannot both succeed".
NeverOversold == [][PlacedWithRoom]_ledgerVars

\* What the ledger promises, with no counters and no transactions in it.
Abstract == INSTANCE Reservations
    WITH Ids <- Ids, Nodes <- Nodes, Allocs <- Allocs,
         alloc <- alloc, nodeState <- nodeState, resv <- resv

\* The ledger implements Reservations: the counters stand for the rows.
ImplementsReservations == Abstract!ResvSpec
=============================================================================
