--------------------------- MODULE MCTaskScheduler ---------------------------
(* Model values and symmetry for TaskScheduler. *)
EXTENDS TaskScheduler, TLC

CONSTANTS i1, i2, n1, n2, t1, t2, c1, c2

\* Every task has the same priority.
EqualRank == [t \in Submitted \cup Clones |-> 0]

SchedulerSymmetry ==
    Permutations(Instance) \cup Permutations(Node)
        \cup Permutations(Submitted) \cup Permutations(Clones)
=============================================================================
