----------------------------- MODULE MCRaftNode -----------------------------
(* Model values, symmetry and a late starting point for RaftNode. *)
EXTENDS RaftNode, TLC

CONSTANTS n1, n2, n3, v1, v2, v3, v4

NodeSymmetry == Permutations(Server) \cup Permutations(Value)

\* A reachable state with diverged logs, from which a run looks further than it
\* could from Init.  n3 led term 1: v1 reached the others, v2 did not.  n1 led
\* term 2: v3 reached n2 only.  n3 lost the election of term 3, which ended the
\* leadership of n1, and n1 won that of term 4 with the vote of n2.  Every other
\* request and every response to an appendEntries failed.
DivergedInit ==
    LET E(t, v) == [term |-> t, command |-> v]
        Failed(s, i) == [status |-> "failed", node |-> s, index |-> i]
    IN  /\ currentTerm = (n1 :> 4) @@ (n2 :> 4) @@ (n3 :> 3)
        /\ votedFor = (n1 :> n1) @@ (n2 :> n1) @@ (n3 :> n3)
        /\ log = (n1 :> <<E(1, v1), E(2, v3)>>) @@ (n2 :> <<E(1, v1), E(2, v3)>>)
                 @@ (n3 :> <<E(1, v1), E(1, v2)>>)
        /\ state = (n1 :> "LEADER") @@ (n2 :> "FOLLOWER") @@ (n3 :> "CANDIDATE")
        /\ commitIndex = [s \in Server |-> 0]
        /\ nextIndex = (n1 :> [p \in Server |-> 3])
                       @@ [s \in {n2, n3} |-> [p \in Server |-> 1]]
        /\ matchIndex = [s \in Server |-> [p \in Server |-> 0]]
        /\ electionTimer = (n1 :> FALSE) @@ (n2 :> TRUE) @@ (n3 :> TRUE)
        /\ applied = [s \in Server |-> <<>>]
        /\ votes = [s \in Server |-> [t \in Terms |->
                       CASE s = n3 /\ t = 1 -> {n2, n3}
                         [] s = n1 /\ t \in {2, 4} -> {n1, n2}
                         [] s = n3 /\ t = 3 -> {n3}
                         [] OTHER -> {}]]
        /\ msgs = {}
        /\ requests = (v1 :> Failed(n3, 1)) @@ (v2 :> Failed(n3, 2))
                      @@ (v3 :> Failed(n1, 2)) @@ (v4 :> [status |-> "new"])
        /\ elected = [t \in Terms |-> CASE t = 1 -> {n3}
                                        [] t \in {2, 4} -> {n1}
                                        [] OTHER -> {}]
        /\ restarts = 0

DivergedSpec == DivergedInit /\ [][Next]_vars

=============================================================================
