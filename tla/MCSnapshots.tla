----------------------------- MODULE MCSnapshots -----------------------------
(* Small instances of Snapshots. *)
EXTENDS Snapshots, TLC

CONSTANTS x, a, p, q, r, n1, g1, g2

\* A full snapshot and one on top of it.
Chain == <<p, q>>

\* Goroutines are interchangeable.
Interchangeable == Permutations({g1, g2})

=============================================================================
