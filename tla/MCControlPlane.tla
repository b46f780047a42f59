--------------------------- MODULE MCControlPlane ---------------------------
(* Small instances of ControlPlane. *)
EXTENDS ControlPlane, TLC

CONSTANTS a, b, n1, n2, g1, g2, s1, s2

\* Sandboxes and request goroutines are interchangeable.
Interchangeable == Permutations({a, b}) \cup Permutations({g1, g2})

\* Between the gateways, the nodes and the ledger: what a node holds is reserved on it, no
\* node holds more than it has, and the creates in flight are those that are counted
\* (createOnce, handleDelete, reconcile, Reserve and Release).
ReservationsHeld == BoxReserved /\ NodeNotOversold /\ CreatesCounted
=============================================================================
