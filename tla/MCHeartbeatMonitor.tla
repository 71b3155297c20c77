-------------------------- MODULE MCHeartbeatMonitor --------------------------
(* Model values for HeartbeatMonitor. *)
EXTENDS HeartbeatMonitor

CONSTANTS i1, i2, n1, n2, t1, t2, c1, c2

\* Every task has the same priority.
EqualRank == [t \in Submitted \cup Clones |-> 0]
=============================================================================
