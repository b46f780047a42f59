--------------------------- MODULE MCNodeManager ---------------------------
(* NodeManager on small instances. *)
EXTENDS NodeManager, TLC

Symmetric == Permutations(Ids) \cup Permutations(Procs \ {Sweeper})
AllOps == {"create", "destroy", "pause", "resume", "request", "snapshot", "close"}

\* Whoever meets whom, the manager's records are right: one operation at a time is in a
\* sandbox's transition, a record outside one says what the machine does, and the marker
\* counts the requests in flight (Pause, Resume, Snapshot, EnsureRunning and its release).
RecordsSound == TransitionClaimed /\ RecordMatchesVM /\ InFlightExact

\* With failing host commands, every machine has a record or an operation that will deal
\* with it, and no running sandbox loses its namespace to another (create, Provision).
NetworkedSound == NoOrphanVM /\ RunningKeepsNetwork
=============================================================================
