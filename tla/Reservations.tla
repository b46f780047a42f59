---------------------------- MODULE Reservations ----------------------------
(***************************************************************************)
(* What the placement ledger promises its callers: a set of reservations   *)
(* per node that grows only while the node is READY and has room, and from *)
(* which a sandbox can be taken out again, once.                           *)
(***************************************************************************)
EXTENDS Integers, FiniteSets

CONSTANTS Ids, Nodes, Allocs
VARIABLES alloc, nodeState, resv

resvVars == <<alloc, nodeState, resv>>

Load(n) == Cardinality({id \in DOMAIN resv : resv[id] = n})

ResvInit ==
    /\ alloc \in [Nodes -> Allocs]
    /\ nodeState = [n \in Nodes |-> "READY"]
    /\ resv = [id \in {} |-> "none"]

Place(id, n) ==
    /\ id \notin DOMAIN resv
    /\ nodeState[n] = "READY" /\ Load(n) < alloc[n]
    /\ resv' = [i \in DOMAIN resv \cup {id} |-> IF i = id THEN n ELSE resv[i]]
    /\ UNCHANGED <<alloc, nodeState>>

GiveBack(id) ==
    /\ id \in DOMAIN resv
    /\ resv' = [i \in DOMAIN resv \ {id} |-> resv[i]]
    /\ UNCHANGED <<alloc, nodeState>>

\* Registrations, leases, sweeps and drains: nobody's reservation changes.
NodeChanges(n) ==
    /\ alloc' \in [Nodes -> Allocs] /\ \A m \in Nodes \ {n} : alloc'[m] = alloc[m]
    /\ \A m \in Nodes \ {n} : nodeState'[m] = nodeState[m]
    /\ UNCHANGED resv

ResvNext ==
    \/ \E id \in Ids, n \in Nodes : Place(id, n)
    \/ \E id \in Ids : GiveBack(id)
    \/ \E n \in Nodes : NodeChanges(n)

ResvSpec == ResvInit /\ [][ResvNext]_resvVars
=============================================================================
