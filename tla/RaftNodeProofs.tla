--------------------------- MODULE RaftNodeProofs ---------------------------
(***************************************************************************)
(* Elections and logs of RaftNode, for any number of nodes, terms,         *)
(* commands and messages.                                                  *)
(*                                                                         *)
(* At most one leader is elected per term when the two things the code     *)
(* leaves to its environment are granted (Timely): PeerClient delivers no  *)
(* response that is older than its caller's term, and no node restarts     *)
(* without its memory.  Only the part of the state that elections read is  *)
(* typed for it (ElectionTypes); logs and indexes play no part.            *)
(*                                                                         *)
(* That a node which does not lead goes on to elect, and that a candidate  *)
(* never sits on a majority, needs neither (CandidateInv).                 *)
(***************************************************************************)
EXTENDS RaftNode, FiniteSetTheorems, SequenceTheorems, WellFoundedInduction, TLAPS

Timely == LateReplies = FALSE /\ MaxRestarts = 0

USE ServerAssumption, BoundAssumption

\* What every message in flight satisfies.
WellFormed(m) ==
    /\ m.from \in Server /\ m.to \in Server /\ m.term \in Terms
    /\ m.rpc = "voteResponse" => m.election \in Terms
    /\ m.rpc = "appendResponse" => m.sentIn \in Terms
    /\ m.rpc \in {"requestVote", "appendEntries"} => m.from # m.to
    /\ m.rpc = "appendEntries" => m.from \in elected[m.term]

GrantedVote(m) == m.rpc = "voteResponse" /\ m.granted

ElectionTypes ==
    /\ currentTerm \in [Server -> Terms]
    /\ votedFor \in [Server -> Server \cup {Nil}]
    /\ state \in [Server -> {"FOLLOWER", "CANDIDATE", "LEADER"}]
    /\ votes \in [Server -> [Terms -> SUBSET Server]]
    /\ elected \in [Terms -> SUBSET Server]
    /\ restarts \in 0..MaxRestarts
    /\ \A m \in msgs : WellFormed(m)

IInv == ElectionTypes /\ VoteInv /\ ElectionSafety

\* The variables the invariant reads, msgs apart.
electionVars == <<currentTerm, votedFor, state, votes, elected, restarts>>

-----------------------------------------------------------------------------
\* The messages the handlers create

LEMMA RequestVoteMsgs ==
    ASSUME NEW s \in Server, NEW t \in Terms
    PROVE  \A m \in RequestVote(s, t) : WellFormed(m) /\ ~GrantedVote(m)
BY DEF RequestVote, WellFormed, GrantedVote, Peers

LEMMA HeartbeatMsgs ==
    ASSUME ElectionTypes, NEW s \in Server, NEW l, NEW next
    PROVE  \A m \in Heartbeats(s, l, next) :
              /\ m.rpc = "appendEntries"
              /\ m.from = s /\ m.to \in Server /\ m.to # s
              /\ m.term = currentTerm[s]
BY DEF Heartbeats, Peers, ElectionTypes

LEMMA LeaderHeartbeats ==
    ASSUME IInv, NEW s \in Server, state[s] = "LEADER", NEW l, NEW next
    PROVE  \A m \in Heartbeats(s, l, next) : WellFormed(m) /\ ~GrantedVote(m)
<1>1. s \in elected[currentTerm[s]] /\ currentTerm[s] \in Terms
  BY DEF IInv, VoteInv, ElectionTypes
<1>2. ElectionTypes
  BY DEF IInv
<1>. QED  BY <1>1, <1>2, HeartbeatMsgs DEF WellFormed, GrantedVote

-----------------------------------------------------------------------------
\* Steps of the election state

\* Only messages change, and no new one carries a vote.
LEMMA QuietStep ==
    ASSUME IInv, UNCHANGED electionVars, NEW new,
           msgs' \subseteq msgs \cup new,
           \A m \in new : WellFormed(m) /\ ~GrantedVote(m)
    PROVE  IInv'
<1>. USE DEF electionVars
<1>1. \A m : WellFormed(m)' <=> WellFormed(m)
  BY DEF WellFormed
<1>2. \A m \in msgs' : WellFormed(m)'
  BY <1>1 DEF IInv, ElectionTypes
<1>3. ElectionTypes'
  BY <1>2 DEF IInv, ElectionTypes
<1>4. \A v, s, t : Voted(v, s, t)' => Voted(v, s, t)
  BY DEF Voted, GrantedVote
<1>5. VoteInv'
  BY <1>2, <1>4 DEF IInv, VoteInv, WellFormed
<1>6. ElectionSafety'
  BY DEF IInv, ElectionSafety
<1>. QED  BY <1>3, <1>5, <1>6 DEF IInv

\* A node adopts a higher term as FOLLOWER, without having voted in it.
LEMMA NewTermStep ==
    ASSUME IInv, NEW s \in Server, NEW t \in Terms, t > currentTerm[s],
           convertToFollower(s, t), UNCHANGED <<votes, elected, restarts>>,
           NEW new, msgs' \subseteq msgs \cup new,
           \A m \in new : WellFormed(m) /\ ~GrantedVote(m)
    PROVE  IInv'
<1>. USE DEF convertToFollower
<1>1. \A m \in msgs' : WellFormed(m)'
  BY DEF IInv, ElectionTypes, WellFormed
<1>2. ElectionTypes'
  BY <1>1 DEF IInv, ElectionTypes
<1>3. \A v, r, u : Voted(v, r, u)' => Voted(v, r, u)
  BY DEF Voted, GrantedVote
<1>4. \A v \in Server : currentTerm'[v] >= currentTerm[v]
  BY DEF IInv, ElectionTypes, Terms
<1>5. VoteInv'
  <2>1. /\ \A v \in Server : state'[v] # "FOLLOWER" => votedFor'[v] = v
        /\ \A v \in Server : state'[v] = "LEADER" => v \in elected'[currentTerm'[v]]
    BY DEF IInv, ElectionTypes, VoteInv
  <2>2. ASSUME NEW v \in Server, NEW r \in Server, NEW u \in Terms,
               v # r, Voted(v, r, u)'
        PROVE  /\ u <= currentTerm'[v]
               /\ u = currentTerm'[v] => votedFor'[v] = r
               /\ \A q \in Server : (q # v /\ Voted(v, q, u)') => q = r
               /\ v \notin elected'[u]
    <3>1. Voted(v, r, u)
      BY <2>2, <1>3
    <3>. QED  BY <2>2, <3>1, <1>3, <1>4 DEF IInv, ElectionTypes, VoteInv, Terms
  <2>3. ASSUME NEW u \in Terms, NEW v \in elected'[u]
        PROVE  /\ u <= currentTerm'[v]
               /\ u = currentTerm'[v] => state'[v] = "LEADER"
               /\ Cardinality(votes'[v][u]) >= Majority
    BY <1>4 DEF IInv, ElectionTypes, VoteInv, Terms
  <2>4. \A m \in msgs' : /\ m.rpc \in {"requestVote", "appendEntries"} => m.from # m.to
                         /\ m.rpc = "appendEntries" => m.from \in elected'[m.term]
    BY <1>1 DEF WellFormed
  <2>. QED  BY <2>1, <2>2, <2>3, <2>4 DEF VoteInv
<1>6. ElectionSafety'
  BY DEF IInv, ElectionSafety
<1>. QED  BY <1>2, <1>5, <1>6 DEF IInv

\* The same when messages only disappear: what a closure does on a response of a
\* higher term.
LEMMA StepDown ==
    ASSUME IInv, NEW s \in Server, NEW t \in Terms, t > currentTerm[s],
           convertToFollower(s, t), UNCHANGED <<votes, elected, restarts>>,
           msgs' \subseteq msgs
    PROVE  IInv'
<1>. DEFINE none == {}
<1>1. msgs' \subseteq msgs \cup none /\ \A n \in none : WellFormed(n) /\ ~GrantedVote(n)
  OBVIOUS
<1>. HIDE DEF none
<1>. QED  BY <1>1, NewTermStep, Zenon

\* Messages only disappear.
LEMMA LossStep ==
    ASSUME IInv, UNCHANGED electionVars, msgs' \subseteq msgs
    PROVE  IInv'
<1>. DEFINE none == {}
<1>1. msgs' \subseteq msgs \cup none /\ \A m \in none : WellFormed(m) /\ ~GrantedVote(m)
  OBVIOUS
<1>. HIDE DEF none
<1>. QED  BY <1>1, QuietStep, Zenon

-----------------------------------------------------------------------------
\* The actions

LEMMA HandleVoteRequest ==
    ASSUME IInv, NEW m \in msgs, handleVoteRequest(m)
    PROVE  IInv'
<1>. DEFINE v == m.to
            c == m.from
            resp == VoteResponse(m, m.term, CanVote(v, m))
<1>0. /\ WellFormed(m) /\ v \in Server /\ c \in Server /\ v # c
      /\ m.term \in Terms /\ m.rpc = "requestVote"
      /\ UNCHANGED <<votes, elected, restarts>>
  BY DEF handleVoteRequest, IInv, ElectionTypes, WellFormed
<1>1. CASE m.term < currentTerm[v]
  <2>. DEFINE refusal == VoteResponse(m, currentTerm[v], FALSE)
  <2>1. WellFormed(refusal) /\ ~GrantedVote(refusal)
    BY <1>0 DEF WellFormed, GrantedVote, VoteResponse, IInv, ElectionTypes
  <2>2. msgs' = (msgs \ {m}) \cup {refusal} /\ UNCHANGED electionVars
    BY <1>0, <1>1 DEF handleVoteRequest, electionVars
  <2>3. \A n \in {refusal} : WellFormed(n) /\ ~GrantedVote(n)
    BY <2>1
  <2>4. msgs' \subseteq msgs \cup {refusal}
    BY <2>2
  <2>. HIDE DEF refusal
  <2>. QED  BY <2>2, <2>3, <2>4, QuietStep, Zenon
<1>2. CASE m.term >= currentTerm[v]
  <2>1. /\ currentTerm' = [currentTerm EXCEPT ![v] = m.term]
        /\ votedFor' = [votedFor EXCEPT ![v] =
              IF CanVote(v, m) THEN c ELSE IF m.term > currentTerm[v] THEN Nil ELSE @]
        /\ state' = [state EXCEPT ![v] = IF m.term > currentTerm[v] THEN "FOLLOWER" ELSE @]
        /\ msgs' = (msgs \ {m}) \cup {resp}
    <3>1. ~(m.term < currentTerm[v])
      BY <1>0, <1>2 DEF IInv, ElectionTypes, Terms
    <3>. QED  BY <3>1, Zenon DEF handleVoteRequest
  <2>2. \A n \in msgs' : WellFormed(n)'
    BY <1>0, <2>1 DEF IInv, ElectionTypes, WellFormed, VoteResponse
  <2>3. ElectionTypes'
    BY <1>0, <2>1, <2>2 DEF IInv, ElectionTypes
  <2>4. ASSUME NEW q, NEW r, NEW u, Voted(q, r, u)'
        PROVE  Voted(q, r, u) \/ (CanVote(v, m) /\ q = v /\ r = c /\ u = m.term)
    BY <1>0, <2>1, <2>4 DEF Voted, VoteResponse
  <2>5. \A q \in Server : currentTerm'[q] >= currentTerm[q]
    BY <1>0, <1>2, <2>1 DEF IInv, ElectionTypes, Terms
  \* A node that may vote for another in its current term follows, and has voted
  \* for nobody else in it.
  <2>6. ASSUME CanVote(v, m), m.term = currentTerm[v]
        PROVE  state[v] = "FOLLOWER" /\ votedFor[v] \in {Nil, c}
    BY <1>0, <2>6 DEF CanVote, IInv, ElectionTypes, VoteInv, Terms
  <2>7. ASSUME CanVote(v, m), NEW r \in Server, r # v, Voted(v, r, m.term)
        PROVE  r = c
    BY <1>0, <1>2, <2>6, <2>7 DEF IInv, ElectionTypes, VoteInv, Terms
  <2>8. CanVote(v, m) => v \notin elected[m.term]
    BY <1>0, <1>2, <2>6 DEF IInv, ElectionTypes, VoteInv, Terms
  <2>9. VoteInv'
    <3>1. /\ \A q \in Server : state'[q] # "FOLLOWER" => votedFor'[q] = q
          /\ \A q \in Server : state'[q] = "LEADER" => q \in elected'[currentTerm'[q]]
      BY <1>0, <1>2, <2>1, <2>6 DEF IInv, ElectionTypes, VoteInv, Terms
    <3>2. ASSUME NEW q \in Server, NEW r \in Server, NEW u \in Terms,
                 q # r, Voted(q, r, u)'
          PROVE  /\ u <= currentTerm'[q]
                 /\ u = currentTerm'[q] => votedFor'[q] = r
      <4>1. CASE Voted(q, r, u)
        BY <1>0, <1>2, <2>1, <2>5, <2>7, <3>2, <4>1
           DEF IInv, ElectionTypes, VoteInv, Terms
      <4>2. CASE CanVote(v, m) /\ q = v /\ r = c /\ u = m.term
        BY <1>0, <2>1, <4>2 DEF IInv, ElectionTypes, Terms
      <4>. QED  BY <2>4, <3>2, <4>1, <4>2
    <3>3. ASSUME NEW q \in Server, NEW r \in Server, NEW u \in Terms,
                 q # r, Voted(q, r, u)'
          PROVE  q \notin elected'[u]
      BY <1>0, <2>4, <2>8, <3>3 DEF IInv, VoteInv
    <3>4. ASSUME NEW q \in Server, NEW r \in Server, NEW u \in Terms,
                 q # r, Voted(q, r, u)',
                 NEW p \in Server, p # q, Voted(q, p, u)'
          PROVE  p = r
      BY <1>0, <2>4, <2>7, <3>4 DEF IInv, VoteInv
    <3>5. ASSUME NEW u \in Terms, NEW q \in elected'[u]
          PROVE  /\ u <= currentTerm'[q]
                 /\ u = currentTerm'[q] => state'[q] = "LEADER"
                 /\ Cardinality(votes'[q][u]) >= Majority
      BY <1>0, <2>1, <2>5, <3>5 DEF IInv, ElectionTypes, VoteInv, Terms
    <3>6. \A n \in msgs' : /\ n.rpc \in {"requestVote", "appendEntries"} => n.from # n.to
                           /\ n.rpc = "appendEntries" => n.from \in elected'[n.term]
      BY <2>2 DEF WellFormed
    <3>. QED  BY <3>1, <3>2, <3>3, <3>4, <3>5, <3>6 DEF VoteInv
  <2>10. ElectionSafety'
    BY <1>0 DEF IInv, ElectionSafety
  <2>. QED  BY <2>3, <2>9, <2>10 DEF IInv
<1>. QED  BY <1>0, <1>1, <1>2 DEF IInv, ElectionTypes, Terms

LEMMA Timeout ==
    ASSUME IInv, NEW s \in Server, ElectionTimeout(s)
    PROVE  IInv'
<1>. DEFINE t == currentTerm[s] + 1
<1>0. UNCHANGED <<elected, restarts>>
  BY DEF ElectionTimeout
<1>1. CASE state[s] = "LEADER"
  BY <1>0, <1>1, LossStep DEF ElectionTimeout, electionVars
<1>2. CASE state[s] # "LEADER"
  <2>1. /\ t \in Terms /\ t > currentTerm[s]
        /\ state' = [state EXCEPT ![s] = "CANDIDATE"]
        /\ currentTerm' = [currentTerm EXCEPT ![s] = t]
        /\ votedFor' = [votedFor EXCEPT ![s] = s]
        /\ votes' = [votes EXCEPT ![s][t] = {s}]
        /\ msgs' = msgs \cup RequestVote(s, t)
    BY <1>2 DEF ElectionTimeout, IInv, ElectionTypes, Terms
  <2>2. \A m \in msgs' : WellFormed(m)'
    BY <1>0, <2>1, RequestVoteMsgs DEF IInv, ElectionTypes, WellFormed
  <2>3. ElectionTypes'
    BY <1>0, <2>1, <2>2 DEF IInv, ElectionTypes
  <2>4. ASSUME NEW v, NEW r \in Server, NEW u \in Terms, v # r, Voted(v, r, u)'
        PROVE  Voted(v, r, u)
    BY <2>1, <2>4, RequestVoteMsgs DEF Voted, GrantedVote, IInv, ElectionTypes
  <2>5. \A v \in Server : currentTerm'[v] >= currentTerm[v]
    BY <2>1 DEF IInv, ElectionTypes, Terms
  <2>6. VoteInv'
    <3>1. /\ \A v \in Server : state'[v] # "FOLLOWER" => votedFor'[v] = v
          /\ \A v \in Server : state'[v] = "LEADER" => v \in elected'[currentTerm'[v]]
      BY <1>0, <2>1 DEF IInv, ElectionTypes, VoteInv
    <3>2. ASSUME NEW v \in Server, NEW r \in Server, NEW u \in Terms,
                 v # r, Voted(v, r, u)'
          PROVE  /\ u <= currentTerm'[v]
                 /\ u = currentTerm'[v] => votedFor'[v] = r
                 /\ \A q \in Server : (q # v /\ Voted(v, q, u)') => q = r
                 /\ v \notin elected'[u]
      <4>1. Voted(v, r, u)
        BY <2>4, <3>2
      <4>. QED  BY <1>0, <2>1, <2>4, <2>5, <3>2, <4>1
                   DEF IInv, ElectionTypes, VoteInv, Terms
    <3>3. ASSUME NEW u \in Terms, NEW v \in elected'[u]
          PROVE  /\ u <= currentTerm'[v]
                 /\ u = currentTerm'[v] => state'[v] = "LEADER"
                 /\ Cardinality(votes'[v][u]) >= Majority
      <4>1. v \in Server /\ u <= currentTerm[v] /\ Cardinality(votes[v][u]) >= Majority
            /\ (u = currentTerm[v] => state[v] = "LEADER")
        BY <1>0, <3>3 DEF IInv, ElectionTypes, VoteInv
      <4>2. v = s => u # t
        BY <4>1, <2>1 DEF IInv, ElectionTypes, Terms
      <4>3. votes'[v][u] = votes[v][u]
        BY <2>1, <4>1, <4>2 DEF IInv, ElectionTypes
      <4>4. u = currentTerm'[v] => v # s
        BY <2>1, <4>2 DEF IInv, ElectionTypes
      <4>. QED  BY <2>1, <2>5, <4>1, <4>3, <4>4 DEF IInv, ElectionTypes, Terms
    <3>4. \A m \in msgs' : /\ m.rpc \in {"requestVote", "appendEntries"} => m.from # m.to
                           /\ m.rpc = "appendEntries" => m.from \in elected'[m.term]
      BY <2>2 DEF WellFormed
    <3>. QED  BY <3>1, <3>2, <3>3, <3>4 DEF VoteInv
  <2>7. ElectionSafety'
    BY <1>0 DEF IInv, ElectionSafety
  <2>. QED  BY <2>3, <2>6, <2>7 DEF IInv
<1>. QED  BY <1>1, <1>2

\* The heart of the matter: a candidate with a majority in its current term is
\* the only node elected in it.
LEMMA OneMajority ==
    ASSUME IInv, NEW s \in Server, state[s] = "CANDIDATE",
           NEW received \in SUBSET Server, Cardinality(received) >= Majority,
           \A v \in received : v = s \/ Voted(v, s, currentTerm[s])
    PROVE  elected[currentTerm[s]] = {}
<1>. DEFINE t == currentTerm[s]
<1>. SUFFICES ASSUME NEW r \in elected[t] PROVE FALSE
  OBVIOUS
<1>1. /\ t \in Terms /\ r \in Server
      /\ votes[r][t] \in SUBSET Server
      /\ Cardinality(votes[r][t]) >= Majority
  BY DEF IInv, ElectionTypes, VoteInv
<1>2. s # r
  BY DEF IInv, ElectionTypes, VoteInv
<1>3. received \cap votes[r][t] # {}
  <2>1. Cardinality(received) + Cardinality(votes[r][t]) > Cardinality(Server)
    BY <1>1, FS_CardinalityType, FS_Subset DEF Majority
  <2>. QED  BY <1>1, <2>1, FS_MajoritiesIntersect
<1>4. PICK v \in received : v \in votes[r][t]
  BY <1>3
<1>5. v \in Server /\ Voted(v, r, t)
  BY <1>4 DEF Voted
<1>6. CASE v = s
  BY <1>1, <1>2, <1>5, <1>6 DEF IInv, VoteInv, ElectionTypes
<1>7. CASE v = r
  BY <1>1, <1>2, <1>4, <1>7 DEF IInv, VoteInv
<1>8. CASE v # s /\ v # r
  BY <1>1, <1>2, <1>4, <1>5, <1>8 DEF IInv, VoteInv
<1>. QED  BY <1>6, <1>7, <1>8

\* A vote is counted, or the response that carried it is dropped: nobody's vote
\* changes, and no node leads that did not lead before.
LEMMA CountStep ==
    ASSUME IInv, NEW m \in msgs, GrantedVote(m),
           votes' = [votes EXCEPT ![m.from][m.election] = @ \cup {m.to}],
           msgs' = msgs \ {m},
           UNCHANGED <<currentTerm, votedFor, state, elected, restarts>>
    PROVE  IInv'
<1>0. m.from \in Server /\ m.to \in Server /\ m.election \in Terms
  BY DEF GrantedVote, IInv, ElectionTypes, WellFormed
<1>1. \A n \in msgs' : WellFormed(n)'
  BY DEF IInv, ElectionTypes, WellFormed
<1>2. ElectionTypes'
  BY <1>0, <1>1 DEF IInv, ElectionTypes
<1>3. ASSUME NEW v \in Server, NEW r \in Server, NEW u \in Terms, Voted(v, r, u)'
      PROVE  Voted(v, r, u)
  <2>1. CASE v \in votes'[r][u]
    BY <1>0, <2>1 DEF Voted, GrantedVote, IInv, ElectionTypes
  <2>2. CASE v \notin votes'[r][u]
    BY <1>3, <2>2 DEF Voted, GrantedVote
  <2>. QED  BY <2>1, <2>2
<1>4. ASSUME NEW u \in Terms, NEW v \in elected'[u]
      PROVE  Cardinality(votes'[v][u]) >= Majority
  <2>1. v \in Server /\ Cardinality(votes[v][u]) >= Majority
    BY <1>4 DEF IInv, ElectionTypes, VoteInv
  <2>2. votes[v][u] \subseteq votes'[v][u] /\ votes'[v][u] \in SUBSET Server
    BY <1>0, <1>2, <2>1 DEF IInv, ElectionTypes
  <2>3. Cardinality(votes[v][u]) <= Cardinality(votes'[v][u])
    BY <2>2, FS_Subset
  <2>4. /\ Cardinality(votes[v][u]) \in Nat /\ Cardinality(votes'[v][u]) \in Nat
        /\ Majority \in Int
    BY <2>2, FS_Subset, FS_CardinalityType DEF Majority
  <2>. QED  BY <2>1, <2>3, <2>4
<1>5. VoteInv'
  <2>1. ASSUME NEW v \in Server, NEW r \in Server, NEW u \in Terms,
               v # r, Voted(v, r, u)'
        PROVE  /\ u <= currentTerm'[v]
               /\ u = currentTerm'[v] => votedFor'[v] = r
               /\ \A q \in Server : (q # v /\ Voted(v, q, u)') => q = r
               /\ v \notin elected'[u]
    BY <1>3, <2>1 DEF IInv, VoteInv
  <2>2. \A n \in msgs' : /\ n.rpc \in {"requestVote", "appendEntries"} => n.from # n.to
                         /\ n.rpc = "appendEntries" => n.from \in elected'[n.term]
    BY <1>1 DEF WellFormed
  <2>3. ASSUME NEW u \in Terms, NEW v \in elected'[u]
        PROVE  /\ u <= currentTerm'[v]
               /\ u = currentTerm'[v] => state'[v] = "LEADER"
               /\ Cardinality(votes'[v][u]) >= Majority
    BY <1>4, <2>3 DEF IInv, VoteInv
  <2>4. /\ \A v \in Server : state'[v] # "FOLLOWER" => votedFor'[v] = v
        /\ \A v \in Server : state'[v] = "LEADER" => v \in elected'[currentTerm'[v]]
    BY DEF IInv, VoteInv
  <2>. QED  BY <2>1, <2>2, <2>3, <2>4 DEF VoteInv
<1>6. ElectionSafety'
  BY DEF IInv, ElectionSafety
<1>. QED  BY <1>2, <1>5, <1>6 DEF IInv

LEMMA HandleVoteResponse ==
    ASSUME Timely, IInv, NEW m \in msgs, handleVoteResponse(m)
    PROVE  IInv'
<1>. DEFINE s == m.from
            t == m.election
            received == votes[s][t] \cup {m.to}
<1>0. /\ m.rpc = "voteResponse" /\ t = currentTerm[s]
      /\ s \in Server /\ m.to \in Server /\ t \in Terms /\ m.term \in Terms
      /\ UNCHANGED restarts
  BY DEF handleVoteResponse, Delivered, Timely, IInv, ElectionTypes, WellFormed
<1>1. CASE /\ m.term > currentTerm[s]
           /\ convertToFollower(s, m.term)
           /\ msgs' = msgs \ {m}
           /\ UNCHANGED <<nextIndex, matchIndex, votes, elected>>
  <2>1. UNCHANGED <<votes, elected, restarts>> /\ msgs' \subseteq msgs
    BY <1>0, <1>1
  <2>2. s \in Server /\ m.term \in Terms
    BY <1>0
  <2>3. m.term > currentTerm[s] /\ convertToFollower(s, m.term)
    BY <1>1
  <2>. HIDE DEF s
  <2>. QED  BY <2>1, <2>2, <2>3, StepDown, Zenon
<1>2. CASE /\ m.granted
           /\ votes' = [votes EXCEPT ![s][t] = received]
           /\ Cardinality(received) >= Majority /\ state[s] = "CANDIDATE"
           /\ convertToLeader(s, msgs \ {m})
           /\ UNCHANGED <<currentTerm, votedFor>>
  <2>1. /\ received \in SUBSET Server
        /\ \A v \in received : Voted(v, s, t)
    BY <1>0, <1>2 DEF Voted, IInv, ElectionTypes
  <2>2. elected[t] = {}
    BY <1>0, <1>2, <2>1, OneMajority
  <2>3. /\ state' = [state EXCEPT ![s] = "LEADER"]
        /\ elected' = [elected EXCEPT ![t] = {s}]
        /\ elected'[t] = {s}
        /\ votes'[s][t] = received
    BY <1>0, <1>2, <2>2 DEF convertToLeader, IInv, ElectionTypes
  <2>4. msgs' = (msgs \ {m}) \cup Heartbeats(s, log[s], NextAfterElection(s))
    BY <1>2 DEF convertToLeader
  <2>5. \A n \in Heartbeats(s, log[s], NextAfterElection(s)) :
            WellFormed(n)' /\ n.rpc = "appendEntries"
    BY <1>0, <2>3, HeartbeatMsgs DEF IInv, WellFormed
  <2>6. \A n \in msgs : WellFormed(n)'
    BY <1>0, <2>2, <2>3 DEF IInv, ElectionTypes, WellFormed
  <2>7. \A n \in msgs' : WellFormed(n)'
    BY <2>4, <2>5, <2>6
  <2>8. ElectionTypes'
    BY <1>0, <1>2, <2>1, <2>3, <2>7 DEF IInv, ElectionTypes
  <2>9. ASSUME NEW v \in Server, NEW r \in Server, NEW u \in Terms, Voted(v, r, u)'
        PROVE  Voted(v, r, u)
    <3>1. CASE v \in votes'[r][u]
      BY <1>0, <1>2, <2>1, <3>1 DEF Voted, IInv, ElectionTypes
    <3>2. CASE v \notin votes'[r][u]
      BY <2>4, <2>5, <2>9, <3>2 DEF Voted
    <3>. QED  BY <3>1, <3>2
  <2>10. VoteInv'
    <3>1. /\ \A v \in Server : state'[v] # "FOLLOWER" => votedFor'[v] = v
          /\ \A v \in Server : state'[v] = "LEADER" => v \in elected'[currentTerm'[v]]
      BY <1>0, <1>2, <2>2, <2>3 DEF IInv, ElectionTypes, VoteInv
    <3>2. ASSUME NEW r \in Server, s # r, Voted(s, r, t)
          PROVE  FALSE
      BY <1>0, <1>2, <3>2 DEF IInv, VoteInv
    <3>3. ASSUME NEW v \in Server, NEW r \in Server, NEW u \in Terms,
                 v # r, Voted(v, r, u)'
          PROVE  /\ u <= currentTerm'[v]
                 /\ u = currentTerm'[v] => votedFor'[v] = r
                 /\ \A q \in Server : (q # v /\ Voted(v, q, u)') => q = r
                 /\ v \notin elected'[u]
      BY <1>0, <1>2, <2>3, <2>9, <3>2, <3>3 DEF IInv, ElectionTypes, VoteInv
    <3>4. ASSUME NEW u \in Terms, NEW v \in elected'[u]
          PROVE  /\ u <= currentTerm'[v]
                 /\ u = currentTerm'[v] => state'[v] = "LEADER"
                 /\ Cardinality(votes'[v][u]) >= Majority
      <4>1. CASE u = t
        BY <1>0, <1>2, <2>3, <3>4, <4>1 DEF IInv, ElectionTypes, Terms
      <4>2. CASE u # t
        BY <1>0, <1>2, <2>3, <3>4, <4>2 DEF IInv, ElectionTypes, VoteInv
      <4>. QED  BY <4>1, <4>2
    <3>5. \A n \in msgs' : /\ n.rpc \in {"requestVote", "appendEntries"} => n.from # n.to
                           /\ n.rpc = "appendEntries" => n.from \in elected'[n.term]
      BY <2>7 DEF WellFormed
    <3>. QED  BY <3>1, <3>3, <3>4, <3>5 DEF VoteInv
  <2>11. ElectionSafety'
    BY <1>0, <2>3 DEF IInv, ElectionTypes, ElectionSafety
  <2>. QED  BY <2>8, <2>10, <2>11 DEF IInv
<1>3. CASE /\ m.granted
           /\ votes' = [votes EXCEPT ![s][t] = received]
           /\ msgs' = msgs \ {m}
           /\ UNCHANGED <<currentTerm, votedFor, state, elected>>
  BY <1>0, <1>3, CountStep DEF GrantedVote
<1>4. CASE /\ msgs' = msgs \ {m}
           /\ UNCHANGED <<currentTerm, votedFor, state, votes, elected>>
  BY <1>0, <1>4, LossStep DEF electionVars
<1>. QED  BY <1>1, <1>2, <1>3, <1>4 DEF handleVoteResponse

\* A request of the leader of a term: whoever is not FOLLOWER in that term was a
\* candidate, whose only vote in it was its own.
LEMMA HandleAppendEntries ==
    ASSUME IInv, NEW m \in msgs, handleAppendEntries(m)
    PROVE  IInv'
<1>. DEFINE s == m.to
<1>0. /\ m.rpc = "appendEntries" /\ WellFormed(m)
      /\ m.from \in Server /\ s \in Server /\ m.from # s
      /\ m.term \in Terms /\ m.from \in elected[m.term]
      /\ UNCHANGED <<votes, elected, restarts>>
  BY DEF handleAppendEntries, IInv, ElectionTypes, WellFormed
<1>1. PICK r : /\ msgs' = (msgs \ {m}) \cup {r}
               /\ \E t \in Terms : \E success, match, conflict :
                     r = AppendResponse(m, t, success, match, conflict)
  <2>0. currentTerm[s] \in Terms
    BY <1>0 DEF IInv, ElectionTypes
  <2>. DEFINE Answers == {AppendResponse(m, currentTerm[s], FALSE, 0, 0),
                          AppendResponse(m, m.term, FALSE, 0,
                                         ConflictIndex(log[s], m.prevLogIndex)),
                          AppendResponse(m, m.term, TRUE,
                                         m.prevLogIndex + Len(m.entries), 0)}
  <2>1. \E r \in Answers : msgs' = (msgs \ {m}) \cup {r}
    BY Zenon DEF handleAppendEntries
  <2>2. \A r \in Answers : \E t \in Terms : \E success, match, conflict :
                                 r = AppendResponse(m, t, success, match, conflict)
    BY <1>0, <2>0, Zenon
  <2>. QED  BY <2>1, <2>2, Zenon
<1>2. WellFormed(r) /\ ~GrantedVote(r)
  BY <1>0, <1>1 DEF WellFormed, GrantedVote, AppendResponse
<1>3. \A n \in {r} : WellFormed(n) /\ ~GrantedVote(n)
  BY <1>2
<1>4. msgs' \subseteq msgs \cup {r}
  BY <1>1
<1>5. CASE UNCHANGED <<currentTerm, votedFor, state>>
  <2>1. UNCHANGED electionVars
    BY <1>0, <1>5 DEF electionVars
  <2>. QED  BY <1>3, <1>4, <2>1, QuietStep, Zenon
<1>6. CASE m.term > currentTerm[s] /\ convertToFollower(s, m.term)
  BY <1>0, <1>3, <1>4, <1>6, NewTermStep, Zenon
<1>7. CASE m.term = currentTerm[s] /\ state[s] # "FOLLOWER" /\ convertToFollower(s, m.term)
  <2>1. /\ currentTerm' = currentTerm
        /\ votedFor' = [votedFor EXCEPT ![s] = Nil]
        /\ state' = [state EXCEPT ![s] = "FOLLOWER"]
    BY <1>0, <1>7 DEF convertToFollower, IInv, ElectionTypes
  <2>2. s \notin elected[m.term]
    BY <1>0 DEF IInv, ElectionSafety
  <2>3. ASSUME NEW q \in Server, q # s, Voted(s, q, m.term)
        PROVE  FALSE
    BY <1>0, <1>7, <2>3 DEF IInv, VoteInv
  <2>4. \A n \in msgs' : WellFormed(n)'
    BY <1>0, <1>1, <1>2 DEF IInv, ElectionTypes, WellFormed
  <2>5. ElectionTypes'
    BY <1>0, <2>1, <2>4 DEF IInv, ElectionTypes
  <2>6. \A v, q, u : Voted(v, q, u)' => Voted(v, q, u)
    BY <1>0, <1>1, <1>2 DEF Voted, GrantedVote
  <2>7. VoteInv'
    <3>1. /\ \A v \in Server : state'[v] # "FOLLOWER" => votedFor'[v] = v
          /\ \A v \in Server : state'[v] = "LEADER" => v \in elected'[currentTerm'[v]]
      BY <1>0, <2>1 DEF IInv, ElectionTypes, VoteInv
    <3>2. ASSUME NEW v \in Server, NEW q \in Server, NEW u \in Terms,
                 v # q, Voted(v, q, u)'
          PROVE  /\ u <= currentTerm'[v]
                 /\ u = currentTerm'[v] => votedFor'[v] = q
                 /\ \A p \in Server : (p # v /\ Voted(v, p, u)') => p = q
                 /\ v \notin elected'[u]
      <4>1. Voted(v, q, u)
        BY <2>6, <3>2
      <4>2. ~(v = s /\ u = currentTerm[s])
        BY <1>7, <2>3, <3>2, <4>1
      <4>. QED  BY <1>0, <2>1, <2>6, <3>2, <4>1, <4>2 DEF IInv, ElectionTypes, VoteInv
    <3>3. ASSUME NEW u \in Terms, NEW v \in elected'[u]
          PROVE  /\ u <= currentTerm'[v]
                 /\ u = currentTerm'[v] => state'[v] = "LEADER"
                 /\ Cardinality(votes'[v][u]) >= Majority
      BY <1>0, <1>7, <2>1, <2>2, <3>3 DEF IInv, ElectionTypes, VoteInv
    <3>4. \A n \in msgs' : /\ n.rpc \in {"requestVote", "appendEntries"} => n.from # n.to
                           /\ n.rpc = "appendEntries" => n.from \in elected'[n.term]
      BY <2>4 DEF WellFormed
    <3>. QED  BY <3>1, <3>2, <3>3, <3>4 DEF VoteInv
  <2>8. ElectionSafety'
    BY <1>0 DEF IInv, ElectionSafety
  <2>. QED  BY <2>5, <2>7, <2>8 DEF IInv
<1>8. currentTerm[s] \in Nat /\ m.term \in Nat
  BY <1>0 DEF IInv, ElectionTypes, Terms
<1>9. \/ UNCHANGED <<currentTerm, votedFor, state>>
      \/ /\ ~(m.term < currentTerm[s])
         /\ m.term > currentTerm[s] \/ state[s] # "FOLLOWER"
         /\ convertToFollower(s, m.term)
  BY Zenon DEF handleAppendEntries
<1>. QED  BY <1>5, <1>6, <1>7, <1>8, <1>9

LEMMA HandleAppendResponse ==
    ASSUME IInv, NEW m \in msgs, handleAppendResponse(m)
    PROVE  IInv'
<1>0. /\ m.from \in Server /\ m.term \in Terms /\ msgs' \subseteq msgs
      /\ UNCHANGED <<votes, elected, restarts>>
  BY DEF handleAppendResponse, IInv, ElectionTypes, WellFormed
<1>1. CASE m.term > currentTerm[m.from] /\ convertToFollower(m.from, m.term)
  <2>. DEFINE s == m.from
  <2>1. s \in Server /\ m.term > currentTerm[s] /\ convertToFollower(s, m.term)
    BY <1>0, <1>1
  <2>. HIDE DEF s
  <2>. QED  BY <1>0, <2>1, StepDown, Zenon
<1>2. CASE UNCHANGED <<currentTerm, votedFor, state>>
  BY <1>0, <1>2, LossStep DEF electionVars
<1>. QED  BY <1>1, <1>2 DEF handleAppendResponse

LEMMA LeaderSends ==
    ASSUME IInv, NEW s \in Server,
           SendHeartbeats(s) \/ \E v \in Value : replicateCommand(s, v)
    PROVE  IInv'
<1>1. state[s] = "LEADER" /\ UNCHANGED electionVars
  BY DEF SendHeartbeats, replicateCommand, electionVars, nodeVars
<1>2. PICK l, next : msgs' = msgs \cup Heartbeats(s, l, next)
  BY DEF SendHeartbeats, replicateCommand
<1>. DEFINE round == Heartbeats(s, l, next)
<1>3. \A m \in round : WellFormed(m) /\ ~GrantedVote(m)
  BY <1>1, LeaderHeartbeats
<1>4. msgs' \subseteq msgs \cup round
  BY <1>2
<1>. HIDE DEF round
<1>. QED  BY <1>1, <1>3, <1>4, QuietStep, Zenon

LEMMA EnvironmentSteps ==
    ASSUME IInv,
           \/ \E m \in msgs : RpcFails(m)
           \/ \E v \in Value, b \in BOOLEAN : waitForCommit(v, b)
    PROVE  IInv'
<1>1. UNCHANGED electionVars /\ msgs' \subseteq msgs
  BY DEF RpcFails, waitForCommit, electionVars, nodeVars
<1>. QED  BY <1>1, LossStep

-----------------------------------------------------------------------------

LEMMA InitIInv == Init => IInv
<1>. SUFFICES ASSUME Init PROVE IInv
  OBVIOUS
<1>1. ElectionTypes
  BY DEF Init, ElectionTypes, Terms
<1>2. VoteInv
  BY DEF Init, VoteInv, Voted
<1>3. ElectionSafety
  BY DEF Init, ElectionSafety
<1>. QED  BY <1>1, <1>2, <1>3 DEF IInv

LEMMA NextIInv == Timely /\ IInv /\ [Next]_vars => IInv'
<1>. SUFFICES ASSUME Timely, IInv, [Next]_vars PROVE IInv'
  OBVIOUS
<1>1. ASSUME NEW s \in Server, ElectionTimeout(s) PROVE IInv'
  BY <1>1, Timeout
<1>2. ASSUME NEW s \in Server, SendHeartbeats(s) PROVE IInv'
  BY <1>2, LeaderSends
<1>3. ASSUME NEW s \in Server, Restart(s) PROVE IInv'
  BY <1>3 DEF Restart, Timely, IInv, ElectionTypes
<1>4. ASSUME NEW s \in Server, NEW v \in Value, replicateCommand(s, v) PROVE IInv'
  BY <1>4, LeaderSends
<1>5. ASSUME \E v \in Value, b \in BOOLEAN : waitForCommit(v, b) PROVE IInv'
  BY <1>5, EnvironmentSteps
<1>6. ASSUME NEW m \in msgs, handleVoteRequest(m) PROVE IInv'
  BY <1>6, HandleVoteRequest
<1>7. ASSUME NEW m \in msgs, handleVoteResponse(m) PROVE IInv'
  BY <1>7, HandleVoteResponse
<1>8. ASSUME NEW m \in msgs, handleAppendEntries(m) PROVE IInv'
  BY <1>8, HandleAppendEntries
<1>9. ASSUME NEW m \in msgs, handleAppendResponse(m) PROVE IInv'
  BY <1>9, HandleAppendResponse
<1>10. ASSUME NEW m \in msgs, RpcFails(m) PROVE IInv'
  BY <1>10, EnvironmentSteps
<1>11. CASE UNCHANGED vars
  BY <1>11, LossStep DEF vars, nodeVars, electionVars
<1>. QED  BY <1>1, <1>2, <1>3, <1>4, <1>5, <1>6, <1>7, <1>8, <1>9, <1>10, <1>11 DEF Next

\* With timely responses and no restarts, no two nodes are elected in the same
\* term, whatever requests and responses are lost, delayed or reordered, and
\* although handleAppendEntries forgets votes within a term.
THEOREM OneLeaderPerTerm ==
    ASSUME Timely
    PROVE  Spec => []ElectionSafety
<1>1. IInv /\ [Next]_vars => IInv'
  BY NextIInv
<1>2. IInv => ElectionSafety
  BY DEF IInv
<1>. QED  BY InitIInv, <1>1, <1>2, PTL DEF Spec

\* The bookkeeping of votes behind it: a vote for another node is never taken
\* back, and a node elected in a term has voted for no other in it.
THEOREM VotesAreKept ==
    ASSUME Timely
    PROVE  Spec => []VoteInv
<1>1. IInv /\ [Next]_vars => IInv'
  BY NextIInv
<1>2. IInv => VoteInv
  BY DEF IInv
<1>. QED  BY InitIInv, <1>1, <1>2, PTL DEF Spec

-----------------------------------------------------------------------------
\* Candidates: no condition on responses or restarts, but the node has peers

CandidateTypes ==
    /\ currentTerm \in [Server -> Terms]
    /\ state \in [Server -> {"FOLLOWER", "CANDIDATE", "LEADER"}]
    /\ electionTimer \in [Server -> BOOLEAN]
    /\ votes \in [Server -> [Terms -> SUBSET Server]]
    /\ \A m \in msgs :
          /\ m.from \in Server /\ m.to \in Server /\ m.term \in Terms
          /\ m.rpc = "voteResponse" => m.election \in Terms

\* What MajorityBecomesLeader and ElectionPending say of one node.
Ready(s) ==
    /\ state[s] = "CANDIDATE" =>
          2 * Cardinality(votes[s][currentTerm[s]]) <= Cardinality(Server)
    /\ state[s] # "LEADER" =>
          \/ electionTimer[s]
          \/ state[s] = "CANDIDATE" /\ Polling(s, currentTerm[s], msgs) # {}

CandidateInv == CandidateTypes /\ \A s \in Server : Ready(s)

\* Fewer than a majority is at most one half.
LEMMA Minority ==
    ASSUME NEW received \in SUBSET Server
    PROVE  /\ Cardinality(received) \in Nat /\ Cardinality(Server) \in Nat
           /\ Cardinality(received) < Majority <=>
                 2 * Cardinality(received) <= Cardinality(Server)
BY FS_Subset, FS_CardinalityType DEF Majority

LEMMA CandidateTypesKept ==
    ASSUME CandidateInv, [Next]_vars
    PROVE  CandidateTypes'
<1>. USE DEF CandidateInv, CandidateTypes
<1>1. ASSUME NEW s \in Server, ElectionTimeout(s) PROVE CandidateTypes'
  <2>. DEFINE t == currentTerm[s] + 1
  <2>1. CASE state[s] = "LEADER"
    BY <1>1, <2>1 DEF ElectionTimeout
  <2>2. CASE state[s] # "LEADER"
    <3>1. /\ t \in Terms
          /\ electionTimer' = [electionTimer EXCEPT ![s] = FALSE]
          /\ state' = [state EXCEPT ![s] = "CANDIDATE"]
          /\ currentTerm' = [currentTerm EXCEPT ![s] = t]
          /\ votes' = [votes EXCEPT ![s][t] = {s}]
          /\ msgs' = msgs \cup RequestVote(s, t)
      BY <1>1, <2>2 DEF ElectionTimeout, Terms
    <3>2. \A n \in RequestVote(s, t) :
             /\ n.rpc = "requestVote" /\ n.from \in Server /\ n.to \in Server /\ n.term \in Terms
      BY <3>1 DEF RequestVote, Peers
    <3>. HIDE DEF t
    <3>. QED  BY <3>1, <3>2
  <2>. QED  BY <2>1, <2>2
<1>2. ASSUME NEW s \in Server, SendHeartbeats(s) PROVE CandidateTypes'
  <2>1. \A m \in Heartbeats(s, log[s], nextIndex[s]) :
           /\ m.from = s /\ m.to \in Server /\ m.term = currentTerm[s]
           /\ m.rpc = "appendEntries"
    BY DEF Heartbeats, Peers
  <2>. QED  BY <1>2, <2>1 DEF SendHeartbeats, nodeVars
<1>3. ASSUME NEW s \in Server, Restart(s) PROVE CandidateTypes'
  BY <1>3 DEF Restart, Terms
<1>4. ASSUME NEW s \in Server, NEW v \in Value, replicateCommand(s, v) PROVE CandidateTypes'
  <2>1. \A l : \A m \in Heartbeats(s, l, nextIndex[s]) :
           /\ m.from = s /\ m.to \in Server /\ m.term = currentTerm[s]
           /\ m.rpc = "appendEntries"
    BY DEF Heartbeats, Peers
  <2>. QED  BY <1>4, <2>1 DEF replicateCommand
<1>5. ASSUME NEW v \in Value, NEW b \in BOOLEAN, waitForCommit(v, b) PROVE CandidateTypes'
  BY <1>5 DEF waitForCommit, nodeVars
<1>6. ASSUME NEW m \in msgs, handleVoteRequest(m) PROVE CandidateTypes'
  <2>. DEFINE s == m.to
  <2>1. \A u \in Terms, b \in BOOLEAN :
           LET r == VoteResponse(m, u, b)
           IN  r.from \in Server /\ r.to \in Server /\ r.term \in Terms /\ r.election \in Terms
    BY <1>6 DEF VoteResponse
  <2>2. CASE m.term < currentTerm[s]
    <3>1. msgs' = (msgs \ {m}) \cup {VoteResponse(m, currentTerm[s], FALSE)}
      BY <1>6, <2>2 DEF handleVoteRequest
    <3>. QED  BY <1>6, <2>1, <2>2, <3>1 DEF handleVoteRequest
  <2>3. CASE ~(m.term < currentTerm[s])
    <3>1. PICK b \in BOOLEAN : msgs' = (msgs \ {m}) \cup {VoteResponse(m, m.term, b)}
      BY <1>6, <2>3 DEF handleVoteRequest, CanVote, isLogUpToDate
    <3>2. /\ currentTerm' = [currentTerm EXCEPT ![s] = m.term]
          /\ state' = [state EXCEPT ![s] = IF m.term > currentTerm[s] THEN "FOLLOWER" ELSE @]
          /\ electionTimer' \in [Server -> BOOLEAN]
          /\ UNCHANGED votes
      BY <1>6, <2>3 DEF handleVoteRequest
    <3>. QED  BY <1>6, <2>1, <3>1, <3>2
  <2>. QED  BY <2>2, <2>3
<1>7. ASSUME NEW m \in msgs, handleVoteResponse(m) PROVE CandidateTypes'
  <2>. DEFINE s == m.from
              round == Heartbeats(s, log[s], NextAfterElection(s))
  <2>1. s \in Server /\ m.to \in Server /\ m.term \in Terms /\ m.election \in Terms
    BY <1>7 DEF handleVoteResponse
  <2>2. \A n \in round : /\ n.from = s /\ n.to \in Server /\ n.term = currentTerm[s]
                         /\ n.rpc = "appendEntries"
    BY DEF Heartbeats, Peers
  <2>3. \/ msgs' = msgs \ {m}
        \/ msgs' = (msgs \ {m}) \cup round
    BY <1>7 DEF handleVoteResponse, convertToLeader
  <2>4. /\ currentTerm' \in [Server -> Terms]
        /\ state' \in [Server -> {"FOLLOWER", "CANDIDATE", "LEADER"}]
        /\ electionTimer' \in [Server -> BOOLEAN]
    BY <1>7, <2>1 DEF handleVoteResponse, convertToFollower, convertToLeader, RearmAfter
  <2>5. votes' \in [Server -> [Terms -> SUBSET Server]]
    <3>. DEFINE t == m.election
                received == votes[s][t] \cup {m.to}
    <3>1. UNCHANGED votes \/ votes' = [votes EXCEPT ![s][t] = received]
      BY <1>7 DEF handleVoteResponse
    <3>2. received \in SUBSET Server /\ s \in Server /\ t \in Terms
      BY <2>1
    <3>3. votes \in [Server -> [Terms -> SUBSET Server]]
      OBVIOUS
    <3>. HIDE DEF received, s, t, CandidateInv
    <3>. QED  BY <3>1, <3>2, <3>3
  <2>6. \A n \in msgs' : /\ n.from \in Server /\ n.to \in Server /\ n.term \in Terms
                         /\ n.rpc = "voteResponse" => n.election \in Terms
    <3>. HIDE DEF round
    <3>. QED  BY <2>1, <2>2, <2>3
  <2>. QED  BY <2>4, <2>5, <2>6
<1>8. ASSUME NEW m \in msgs, handleAppendEntries(m) PROVE CandidateTypes'
  <2>. DEFINE s == m.to
              Answers == {AppendResponse(m, currentTerm[s], FALSE, 0, 0),
                          AppendResponse(m, m.term, FALSE, 0,
                                         ConflictIndex(log[s], m.prevLogIndex)),
                          AppendResponse(m, m.term, TRUE,
                                         m.prevLogIndex + Len(m.entries), 0)}
  <2>1. \E r \in Answers : msgs' = (msgs \ {m}) \cup {r}
    BY <1>8, Zenon DEF handleAppendEntries
  <2>2. \A r \in Answers : /\ r.from \in Server /\ r.to \in Server /\ r.term \in Terms
                           /\ r.rpc = "appendResponse"
    BY DEF AppendResponse
  <2>3. \A n \in msgs' : /\ n.from \in Server /\ n.to \in Server /\ n.term \in Terms
                         /\ n.rpc = "voteResponse" => n.election \in Terms
    <3>. HIDE DEF Answers
    <3>. QED  BY <2>1, <2>2
  <2>4. \/ UNCHANGED <<currentTerm, state>> /\ UNCHANGED electionTimer
        \/ UNCHANGED <<currentTerm, state>> /\ electionTimer' = [electionTimer EXCEPT ![s] = TRUE]
        \/ convertToFollower(s, m.term)
    BY <1>8, Zenon DEF handleAppendEntries
  <2>5. UNCHANGED votes
    BY <1>8 DEF handleAppendEntries
  <2>. QED  BY <2>3, <2>4, <2>5 DEF convertToFollower
<1>9. ASSUME NEW m \in msgs, handleAppendResponse(m) PROVE CandidateTypes'
  BY <1>9 DEF handleAppendResponse, convertToFollower
<1>10. ASSUME NEW m \in msgs, RpcFails(m) PROVE CandidateTypes'
  BY <1>10 DEF RpcFails, RearmAfter
<1>11. CASE UNCHANGED vars
  BY <1>11 DEF vars, nodeVars
<1>. QED  BY <1>1, <1>2, <1>3, <1>4, <1>5, <1>6, <1>7, <1>8, <1>9, <1>10, <1>11 DEF Next

\* A node that the step leaves alone, except that its timer may be armed.
LEMMA StaysReady ==
    ASSUME NEW s \in Server, Ready(s),
           state'[s] = state[s], currentTerm'[s] = currentTerm[s], votes'[s] = votes[s],
           electionTimer[s] => electionTimer'[s],
           Polling(s, currentTerm[s], msgs) # {} =>
              electionTimer'[s] \/ Polling(s, currentTerm[s], msgs') # {}
    PROVE  Ready(s)'
BY DEF Ready, Polling

\* A node that follows with its timer armed.
LEMMA FollowerReady ==
    ASSUME NEW s \in Server, state'[s] = "FOLLOWER", electionTimer'[s] = TRUE
    PROVE  Ready(s)'
BY DEF Ready

\* The vote RPCs of the others stay in flight.
LEMMA PollingKept ==
    ASSUME NEW s, NEW t, NEW m, msgs \ {m} \subseteq msgs', m.from # s,
           Polling(s, t, msgs) # {}
    PROVE  Polling(s, t, msgs') # {}
BY DEF Polling

\* The timer after one vote RPC of s settled, with fewer than a majority received.
LEMMA RearmReady ==
    ASSUME CandidateInv, NEW s \in Server, NEW t \in Terms, NEW m \in msgs, NEW received,
           m.from = s, m.rpc = "requestVote" => t = m.term,
           m.rpc = "voteResponse" => t = m.election,
           RearmAfter(s, t, msgs \ {m}, received),
           msgs' = msgs \ {m},
           state' = state, currentTerm' = currentTerm,
           \A u \in Terms : u # t => votes'[s][u] = votes[s][u],
           t = currentTerm[s] /\ state[s] = "CANDIDATE" =>
              /\ Cardinality(received) < Majority
              /\ 2 * Cardinality(votes'[s][t]) <= Cardinality(Server)
    PROVE  Ready(s)'
<1>1. /\ Ready(s) /\ currentTerm[s] \in Terms /\ electionTimer \in [Server -> BOOLEAN]
  BY DEF CandidateInv, CandidateTypes
<1>2. electionTimer'[s] = (electionTimer[s] \/ /\ Polling(s, t, msgs') = {}
                                               /\ state[s] = "CANDIDATE"
                                               /\ Cardinality(received) < Majority)
  BY <1>1 DEF RearmAfter
<1>3. CASE t = currentTerm[s]
  BY <1>1, <1>2, <1>3 DEF Ready, Polling
<1>4. CASE t # currentTerm[s]
  <2>1. Polling(s, currentTerm[s], msgs) = Polling(s, currentTerm[s], msgs')
    BY <1>4 DEF Polling
  <2>. QED  BY <1>1, <1>2, <1>4, <2>1 DEF Ready
<1>. QED  BY <1>3, <1>4

LEMMA TimeoutReady ==
    ASSUME CandidateInv, Cardinality(Server) > 1,
           NEW s \in Server, ElectionTimeout(s), NEW r \in Server
    PROVE  Ready(r)'
<1>. DEFINE t == currentTerm[s] + 1
<1>1. /\ Ready(r) /\ currentTerm \in [Server -> Terms] /\ electionTimer \in [Server -> BOOLEAN]
      /\ state \in [Server -> {"FOLLOWER", "CANDIDATE", "LEADER"}]
      /\ votes \in [Server -> [Terms -> SUBSET Server]]
  BY DEF CandidateInv, CandidateTypes
<1>2. CASE state[s] = "LEADER"
  <2>1. /\ electionTimer' = [electionTimer EXCEPT ![s] = FALSE]
        /\ UNCHANGED <<currentTerm, state, votes, msgs>>
    BY <1>2 DEF ElectionTimeout
  <2>. QED  BY <1>1, <1>2, <2>1 DEF Ready
<1>3. CASE state[s] # "LEADER"
  <2>1. /\ t \in Terms
        /\ electionTimer' = [electionTimer EXCEPT ![s] = FALSE]
        /\ state' = [state EXCEPT ![s] = "CANDIDATE"]
        /\ currentTerm' = [currentTerm EXCEPT ![s] = t]
        /\ votes' = [votes EXCEPT ![s][t] = {s}]
        /\ msgs' = msgs \cup RequestVote(s, t)
    BY <1>1, <1>3 DEF ElectionTimeout, Terms
  <2>. HIDE DEF t
  <2>2. CASE r # s
    <3>1. /\ state'[r] = state[r] /\ currentTerm'[r] = currentTerm[r] /\ votes'[r] = votes[r]
          /\ electionTimer'[r] = electionTimer[r]
      BY <1>1, <2>1, <2>2
    <3>2. Polling(r, currentTerm[r], msgs) # {} => Polling(r, currentTerm[r], msgs') # {}
      BY <2>1 DEF Polling
    <3>. QED  BY <1>1, <3>1, <3>2, StaysReady
  <2>3. CASE r = s
    <3>1. /\ state'[s] = "CANDIDATE" /\ currentTerm'[s] = t /\ votes'[s][t] = {s}
      BY <1>1, <2>1
    <3>2. 2 * Cardinality({s}) <= Cardinality(Server)
      <4>1. Cardinality(Server) \in Nat
        BY FS_CardinalityType
      <4>2. Cardinality({s}) = 1
        BY FS_Singleton
      <4>. QED  BY <4>1, <4>2
    <3>3. PICK p \in Server : p # s
      <4>. SUFFICES ASSUME Server = {s} PROVE FALSE
        OBVIOUS
      <4>. QED  BY FS_Singleton
    <3>4. Polling(s, t, RequestVote(s, t)) # {}
      <4>. DEFINE m == [rpc |-> "requestVote", from |-> s, to |-> p, term |-> t,
                        lastLogIndex |-> Len(log[s]), lastLogTerm |-> LastTerm(log[s])]
      <4>1. m \in RequestVote(s, t)
        BY <3>3 DEF RequestVote, Peers
      <4>2. m.from = s /\ m.rpc = "requestVote" /\ m.term = t
        OBVIOUS
      <4>. HIDE DEF m
      <4>. QED  BY <4>1, <4>2 DEF Polling
    <3>5. Polling(s, t, msgs') # {}
      BY <2>1, <3>4 DEF Polling
    <3>. QED  BY <2>3, <3>1, <3>2, <3>5 DEF Ready
  <2>. QED  BY <2>2, <2>3
<1>. QED  BY <1>2, <1>3

LEMMA VoteRequestReady ==
    ASSUME CandidateInv, NEW m \in msgs, handleVoteRequest(m), NEW r \in Server
    PROVE  Ready(r)'
<1>. DEFINE s == m.to
<1>1. /\ Ready(r) /\ currentTerm \in [Server -> Terms] /\ electionTimer \in [Server -> BOOLEAN]
      /\ state \in [Server -> {"FOLLOWER", "CANDIDATE", "LEADER"}]
      /\ s \in Server /\ m.term \in Terms /\ m.rpc = "requestVote"
      /\ UNCHANGED votes
  BY DEF CandidateInv, CandidateTypes, handleVoteRequest
<1>2. PICK u, b : msgs' = (msgs \ {m}) \cup {VoteResponse(m, u, b)}
  BY DEF handleVoteRequest
<1>3. ASSUME NEW t, Polling(r, t, msgs) # {} PROVE Polling(r, t, msgs') # {}
  <2>1. PICK n \in msgs : n \in Polling(r, t, msgs)
    BY <1>3 DEF Polling
  <2>2. CASE n = m
    <3>. DEFINE n2 == VoteResponse(m, u, b)
    <3>1. m.from = r /\ m.term = t
      BY <1>1, <2>1, <2>2 DEF Polling
    <3>2. n2.from = r /\ n2.rpc = "voteResponse" /\ n2.election = t /\ n2 \in msgs'
      BY <1>2, <3>1 DEF VoteResponse
    <3>. HIDE DEF n2
    <3>. QED  BY <3>2 DEF Polling
  <2>3. CASE n # m
    BY <1>2, <2>1, <2>3 DEF Polling
  <2>. QED  BY <2>2, <2>3
<1>4. CASE r = s /\ m.term > currentTerm[s]
  <2>1. ~(m.term < currentTerm[s])
    BY <1>1, <1>4 DEF Terms
  <2>2. /\ state' = [state EXCEPT ![s] = IF m.term > currentTerm[s] THEN "FOLLOWER" ELSE @]
        /\ electionTimer' = [electionTimer EXCEPT ![s] =
              @ \/ m.term > currentTerm[s] \/ CanVote(s, m)]
    BY <2>1, Zenon DEF handleVoteRequest
  <2>3. state'[s] = "FOLLOWER" /\ electionTimer'[s] = TRUE
    BY <1>1, <1>4, <2>2
  <2>. QED  BY <1>4, <2>3, FollowerReady
<1>5. CASE ~(r = s /\ m.term > currentTerm[s])
  <2>1. \/ UNCHANGED <<currentTerm, state, electionTimer>>
        \/ /\ ~(m.term < currentTerm[s])
           /\ currentTerm' = [currentTerm EXCEPT ![s] = m.term]
           /\ state' = [state EXCEPT ![s] = IF m.term > currentTerm[s] THEN "FOLLOWER" ELSE @]
           /\ electionTimer' = [electionTimer EXCEPT ![s] =
                 @ \/ m.term > currentTerm[s] \/ CanVote(s, m)]
    BY Zenon DEF handleVoteRequest
  <2>2. state'[r] = state[r] /\ currentTerm'[r] = currentTerm[r]
    BY <1>1, <1>5, <2>1 DEF Terms
  <2>3. electionTimer[r] => electionTimer'[r]
    BY <1>1, <2>1
  <2>. QED  BY <1>1, <1>3, <2>2, <2>3, StaysReady
<1>. QED  BY <1>4, <1>5

LEMMA VoteResponseReady ==
    ASSUME CandidateInv, NEW m \in msgs, handleVoteResponse(m), NEW r \in Server
    PROVE  Ready(r)'
<1>. DEFINE s == m.from
            t == m.election
            received == votes[s][t] \cup {m.to}
<1>1. /\ Ready(r) /\ currentTerm \in [Server -> Terms] /\ electionTimer \in [Server -> BOOLEAN]
      /\ state \in [Server -> {"FOLLOWER", "CANDIDATE", "LEADER"}]
      /\ votes \in [Server -> [Terms -> SUBSET Server]]
      /\ s \in Server /\ m.to \in Server /\ t \in Terms /\ m.rpc = "voteResponse"
  BY DEF CandidateInv, CandidateTypes, handleVoteResponse
<1>2. received \in SUBSET Server
  BY <1>1
<1>3. CASE r # s
  <2>1. \/ convertToFollower(s, m.term) /\ UNCHANGED votes
        \/ /\ UNCHANGED currentTerm
           /\ UNCHANGED votes \/ votes' = [votes EXCEPT ![s][t] = received]
           /\ UNCHANGED state \/ state' = [state EXCEPT ![s] = "LEADER"]
           /\ \E b : electionTimer' = [electionTimer EXCEPT ![s] = b]
    BY DEF handleVoteResponse, convertToLeader, RearmAfter
  <2>2. /\ state'[r] = state[r] /\ currentTerm'[r] = currentTerm[r] /\ votes'[r] = votes[r]
    BY <1>1, <1>3, <2>1 DEF convertToFollower
  <2>3. electionTimer'[r] = electionTimer[r]
    BY <1>1, <1>3, <2>1 DEF convertToFollower
  <2>4. msgs \ {m} \subseteq msgs'
    BY DEF handleVoteResponse, convertToLeader
  <2>5. Polling(r, currentTerm[r], msgs) # {} => Polling(r, currentTerm[r], msgs') # {}
    BY <1>3, <2>4, PollingKept
  <2>. QED  BY <1>1, <2>2, <2>3, <2>5, StaysReady
<1>4. CASE r = s
  <2>1. CASE convertToFollower(s, m.term)
    <3>1. state'[s] = "FOLLOWER" /\ electionTimer'[s] = TRUE
      BY <1>1, <2>1 DEF convertToFollower
    <3>. QED  BY <1>4, <3>1, FollowerReady
  <2>2. CASE convertToLeader(s, msgs \ {m})
    BY <1>1, <1>4, <2>2 DEF convertToLeader, Ready
  <2>3. CASE /\ votes' = [votes EXCEPT ![s][t] = received]
             /\ ~(Cardinality(received) >= Majority /\ state[s] = "CANDIDATE")
             /\ msgs' = msgs \ {m} /\ RearmAfter(s, t, msgs \ {m}, received)
             /\ UNCHANGED <<state, currentTerm>>
    <3>1. /\ votes'[s][t] = received
          /\ \A u \in Terms : u # t => votes'[s][u] = votes[s][u]
      BY <1>1, <2>3
    <3>2. state[s] = "CANDIDATE" => Cardinality(received) < Majority
      BY <1>2, <2>3, Minority DEF Majority
    <3>3. state[s] = "CANDIDATE" => 2 * Cardinality(received) <= Cardinality(Server)
      BY <1>2, <3>2, Minority
    <3>. HIDE DEF received
    <3>. QED  BY <1>1, <1>4, <2>3, <3>1, <3>2, <3>3, RearmReady
  <2>4. CASE /\ msgs' = msgs \ {m} /\ RearmAfter(s, t, msgs \ {m}, votes[s][t])
             /\ UNCHANGED <<state, currentTerm, votes>>
    <3>1. t = currentTerm[s] /\ state[s] = "CANDIDATE" =>
             /\ 2 * Cardinality(votes[s][t]) <= Cardinality(Server)
             /\ Cardinality(votes[s][t]) < Majority
      BY <1>1, <1>4, Minority DEF Ready
    <3>. QED  BY <1>1, <1>4, <2>4, <3>1, RearmReady
  <2>. QED  BY <2>1, <2>2, <2>3, <2>4 DEF handleVoteResponse
<1>. QED  BY <1>3, <1>4

LEMMA AppendEntriesReady ==
    ASSUME CandidateInv, NEW m \in msgs, handleAppendEntries(m), NEW r \in Server
    PROVE  Ready(r)'
<1>. DEFINE s == m.to
<1>1. /\ Ready(r) /\ currentTerm \in [Server -> Terms] /\ electionTimer \in [Server -> BOOLEAN]
      /\ state \in [Server -> {"FOLLOWER", "CANDIDATE", "LEADER"}]
      /\ s \in Server /\ m.rpc = "appendEntries" /\ UNCHANGED votes
  BY DEF CandidateInv, CandidateTypes, handleAppendEntries
<1>2. \/ UNCHANGED <<currentTerm, state, electionTimer>>
      \/ /\ UNCHANGED <<currentTerm, state>>
         /\ electionTimer' = [electionTimer EXCEPT ![s] = TRUE]
      \/ convertToFollower(s, m.term)
  BY Zenon DEF handleAppendEntries
<1>3. CASE r = s /\ convertToFollower(s, m.term)
  <2>1. state'[s] = "FOLLOWER" /\ electionTimer'[s] = TRUE
    BY <1>1, <1>3 DEF convertToFollower
  <2>. QED  BY <1>3, <2>1, FollowerReady
<1>4. CASE ~(r = s /\ convertToFollower(s, m.term))
  <2>1. /\ state'[r] = state[r] /\ currentTerm'[r] = currentTerm[r]
        /\ electionTimer[r] => electionTimer'[r]
    BY <1>1, <1>2, <1>4 DEF convertToFollower
  <2>2. msgs \ {m} \subseteq msgs'
    BY DEF handleAppendEntries
  <2>3. \A n \in Polling(r, currentTerm[r], msgs) : n \in msgs'
    BY <1>1, <2>2 DEF Polling
  <2>4. Polling(r, currentTerm[r], msgs) # {} => Polling(r, currentTerm[r], msgs') # {}
    BY <2>3 DEF Polling
  <2>. QED  BY <1>1, <2>1, <2>4, StaysReady
<1>. QED  BY <1>3, <1>4

LEMMA AppendResponseReady ==
    ASSUME CandidateInv, NEW m \in msgs, handleAppendResponse(m), NEW r \in Server
    PROVE  Ready(r)'
<1>. DEFINE s == m.from
<1>1. /\ Ready(r) /\ currentTerm \in [Server -> Terms] /\ electionTimer \in [Server -> BOOLEAN]
      /\ state \in [Server -> {"FOLLOWER", "CANDIDATE", "LEADER"}]
      /\ s \in Server /\ m.rpc = "appendResponse" /\ UNCHANGED votes /\ msgs' = msgs \ {m}
  BY DEF CandidateInv, CandidateTypes, handleAppendResponse
<1>2. UNCHANGED <<currentTerm, state, electionTimer>> \/ convertToFollower(s, m.term)
  BY DEF handleAppendResponse
<1>3. CASE r = s /\ convertToFollower(s, m.term)
  <2>1. state'[s] = "FOLLOWER" /\ electionTimer'[s] = TRUE
    BY <1>1, <1>3 DEF convertToFollower
  <2>. QED  BY <1>3, <2>1, FollowerReady
<1>4. CASE ~(r = s /\ convertToFollower(s, m.term))
  <2>1. /\ state'[r] = state[r] /\ currentTerm'[r] = currentTerm[r]
        /\ electionTimer[r] => electionTimer'[r]
    BY <1>1, <1>2, <1>4 DEF convertToFollower
  <2>2. Polling(r, currentTerm[r], msgs) # {} => Polling(r, currentTerm[r], msgs') # {}
    BY <1>1 DEF Polling
  <2>. QED  BY <1>1, <2>1, <2>2, StaysReady
<1>. QED  BY <1>3, <1>4

LEMMA FailureReady ==
    ASSUME CandidateInv, NEW m \in msgs, RpcFails(m), NEW r \in Server
    PROVE  Ready(r)'
<1>. DEFINE s == m.from
<1>1. /\ Ready(r) /\ currentTerm \in [Server -> Terms] /\ electionTimer \in [Server -> BOOLEAN]
      /\ s \in Server /\ msgs' = msgs \ {m} /\ UNCHANGED <<currentTerm, state, votes>>
      /\ m.term \in Terms /\ (m.rpc = "voteResponse" => m.election \in Terms)
  BY DEF CandidateInv, CandidateTypes, RpcFails
<1>2. ASSUME NEW t \in Terms, s = r, t = currentTerm[r], state[r] = "CANDIDATE"
      PROVE  /\ 2 * Cardinality(votes[r][t]) <= Cardinality(Server)
             /\ Cardinality(votes[r][t]) < Majority
  <2>1. votes[r][t] \in SUBSET Server
    BY DEF CandidateInv, CandidateTypes
  <2>. QED  BY <1>1, <1>2, <2>1, Minority DEF Ready
<1>3. CASE r # s
  <2>1. electionTimer'[r] = electionTimer[r]
    BY <1>1, <1>3 DEF RpcFails, RearmAfter
  <2>2. Polling(r, currentTerm[r], msgs) # {} => Polling(r, currentTerm[r], msgs') # {}
    BY <1>1, <1>3 DEF Polling
  <2>. QED  BY <1>1, <2>1, <2>2, StaysReady
<1>4. CASE r = s /\ m.rpc = "requestVote"
  <2>1. RearmAfter(s, m.term, msgs \ {m}, votes[s][m.term])
    BY <1>4 DEF RpcFails
  <2>. QED  BY <1>1, <1>2, <1>4, <2>1, RearmReady
<1>5. CASE r = s /\ m.rpc = "voteResponse"
  <2>1. RearmAfter(s, m.election, msgs \ {m}, votes[s][m.election])
    BY <1>5 DEF RpcFails
  <2>. QED  BY <1>1, <1>2, <1>5, <2>1, RearmReady
<1>6. CASE m.rpc \notin {"requestVote", "voteResponse"}
  <2>1. UNCHANGED electionTimer
    BY <1>6 DEF RpcFails
  <2>2. Polling(r, currentTerm[r], msgs) # {} => Polling(r, currentTerm[r], msgs') # {}
    BY <1>1, <1>6 DEF Polling
  <2>. QED  BY <1>1, <2>1, <2>2, StaysReady
<1>. QED  BY <1>3, <1>4, <1>5, <1>6

LEMMA RestartReady ==
    ASSUME CandidateInv, NEW s \in Server, Restart(s), NEW r \in Server
    PROVE  Ready(r)'
<1>1. /\ Ready(r) /\ currentTerm \in [Server -> Terms] /\ electionTimer \in [Server -> BOOLEAN]
      /\ state \in [Server -> {"FOLLOWER", "CANDIDATE", "LEADER"}]
      /\ votes \in [Server -> [Terms -> SUBSET Server]]
  BY DEF CandidateInv, CandidateTypes
<1>2. CASE r = s
  BY <1>1, <1>2, FollowerReady DEF Restart
<1>3. CASE r # s
  <2>1. /\ state'[r] = state[r] /\ currentTerm'[r] = currentTerm[r] /\ votes'[r] = votes[r]
        /\ electionTimer'[r] = electionTimer[r]
    BY <1>1, <1>3 DEF Restart
  <2>2. Polling(r, currentTerm[r], msgs) # {} => Polling(r, currentTerm[r], msgs') # {}
    BY <1>3 DEF Polling, Restart
  <2>. QED  BY <1>1, <2>1, <2>2, StaysReady
<1>. QED  BY <1>2, <1>3

\* Only requests of another kind are sent, or none.
LEMMA QuietReady ==
    ASSUME CandidateInv, UNCHANGED <<currentTerm, state, votes, electionTimer>>,
           msgs \subseteq msgs', NEW r \in Server
    PROVE  Ready(r)'
<1>1. Ready(r)
  BY DEF CandidateInv
<1>2. Polling(r, currentTerm[r], msgs) # {} => Polling(r, currentTerm[r], msgs') # {}
  BY DEF Polling
<1>. QED  BY <1>1, <1>2, StaysReady

LEMMA NextCandidateInv ==
    Cardinality(Server) > 1 /\ CandidateInv /\ [Next]_vars => CandidateInv'
<1>. SUFFICES ASSUME Cardinality(Server) > 1, CandidateInv, [Next]_vars, NEW r \in Server
              PROVE  Ready(r)'
  BY CandidateTypesKept DEF CandidateInv
<1>1. ASSUME NEW s \in Server, ElectionTimeout(s) PROVE Ready(r)'
  BY <1>1, TimeoutReady
<1>2. ASSUME NEW s \in Server, SendHeartbeats(s) PROVE Ready(r)'
  BY <1>2, QuietReady DEF SendHeartbeats, nodeVars
<1>3. ASSUME NEW s \in Server, Restart(s) PROVE Ready(r)'
  BY <1>3, RestartReady
<1>4. ASSUME NEW s \in Server, NEW v \in Value, replicateCommand(s, v) PROVE Ready(r)'
  BY <1>4, QuietReady DEF replicateCommand
<1>5. ASSUME NEW v \in Value, NEW b \in BOOLEAN, waitForCommit(v, b) PROVE Ready(r)'
  BY <1>5, QuietReady DEF waitForCommit, nodeVars
<1>6. ASSUME NEW m \in msgs, handleVoteRequest(m) PROVE Ready(r)'
  BY <1>6, VoteRequestReady
<1>7. ASSUME NEW m \in msgs, handleVoteResponse(m) PROVE Ready(r)'
  BY <1>7, VoteResponseReady
<1>8. ASSUME NEW m \in msgs, handleAppendEntries(m) PROVE Ready(r)'
  BY <1>8, AppendEntriesReady
<1>9. ASSUME NEW m \in msgs, handleAppendResponse(m) PROVE Ready(r)'
  BY <1>9, AppendResponseReady
<1>10. ASSUME NEW m \in msgs, RpcFails(m) PROVE Ready(r)'
  BY <1>10, FailureReady
<1>11. CASE UNCHANGED vars
  BY <1>11, QuietReady DEF vars, nodeVars
<1>. QED  BY <1>1, <1>2, <1>3, <1>4, <1>5, <1>6, <1>7, <1>8, <1>9, <1>10, <1>11 DEF Next

LEMMA InitCandidateInv == Init => CandidateInv
BY DEF Init, CandidateInv, CandidateTypes, Ready, Terms

\* A node with peers that lost an election, or heard nothing from it, starts
\* another: its timer is armed, or a vote RPC is in flight whose settling arms it,
\* even when responses are late and nodes restart.
THEOREM ElectionsGoOn ==
    ASSUME Cardinality(Server) > 1
    PROVE  Spec => []ElectionPending
<1>1. CandidateInv /\ [Next]_vars => CandidateInv'
  BY NextCandidateInv
<1>2. CandidateInv => ElectionPending
  BY DEF CandidateInv, Ready, ElectionPending
<1>. QED  BY InitCandidateInv, <1>1, <1>2, PTL DEF Spec

\* A candidate that has peers never sits on the votes of a majority.
THEOREM MajorityLeads ==
    ASSUME Cardinality(Server) > 1
    PROVE  Spec => []MajorityBecomesLeader
<1>1. CandidateInv /\ [Next]_vars => CandidateInv'
  BY NextCandidateInv
<1>2. CandidateInv => MajorityBecomesLeader
  BY DEF CandidateInv, Ready, MajorityBecomesLeader
<1>. QED  BY InitCandidateInv, <1>1, <1>2, PTL DEF Spec

-----------------------------------------------------------------------------
(***************************************************************************)
(* LogMatching, under the same conditions.                                 *)
(*                                                                         *)
(* The argument follows the logs of the leaders.  Every log is copied from *)
(* them, entry by entry: up to an entry of term t it is what the leader of *)
(* t had.  The leaders' logs are no variable of the program, as a log is   *)
(* cut and goes on changing after its node was deposed; the invariant says *)
(* that there are such logs.                                               *)
(***************************************************************************)

\* The log l has an entry of term t at index i.
Has(l, i, t) == i \in 1..Len(l) /\ l[i].term = t

\* Two logs are the same up to index i.
Shares(l, k, i) == i <= Len(l) /\ i <= Len(k) /\ \A j \in 1..i : l[j] = k[j]

\* led[t] is the log of the leader of term t, as it was when it last led in t.
Copied(l, led) ==
    \A i \in 1..Len(l) : l[i].term \in Terms \ {0} /\ Shares(l, led[l[i].term], i)

\* What the request m says of its sender's log is so in l.
Repeats(m, l) ==
    /\ \A i \in 1..Len(m.entries) :
          m.prevLogIndex + i <= Len(l) /\ m.entries[i] = l[m.prevLogIndex + i]
    /\ m.prevLogTerm # 0 => Has(l, m.prevLogIndex, m.prevLogTerm)

UpToTerm(l, t) == \A i \in 1..Len(l) : l[i].term <= t

LogMessage(m) ==
    /\ m.rpc = "appendEntries" =>
          m.prevLogIndex \in Nat /\ m.prevLogTerm \in Terms /\ m.entries \in Seq(Entry)
    /\ m.rpc = "appendResponse" =>
          m.success \in BOOLEAN /\ m.matchIndex \in Nat /\ m.conflictIndex \in Nat

LogTypes ==
    /\ log \in [Server -> Seq(Entry)]
    /\ nextIndex \in [Server -> [Server -> Nat \ {0}]]
    /\ \A m \in msgs : LogMessage(m)
    /\ \A s \in Server : state[s] # "FOLLOWER" => currentTerm[s] # 0

LeadersLogs(led) ==
    /\ led \in [Terms -> Seq(Entry)]
    /\ \A t \in Terms : elected[t] = {} => led[t] = <<>>
    /\ \A s \in Server : state[s] = "LEADER" => led[currentTerm[s]] = log[s]
    /\ \A t \in Terms : Copied(led[t], led) /\ UpToTerm(led[t], t)

LedInv(led) ==
    /\ LogTypes
    /\ LeadersLogs(led)
    /\ \A s \in Server : Copied(log[s], led) /\ UpToTerm(log[s], currentTerm[s])
    /\ \A m \in msgs : m.rpc = "appendEntries" => Repeats(m, led[m.term])

LogInv == \E led : LedInv(led)

-----------------------------------------------------------------------------
\* Logs

\* Logs copied from the same leaders that hold the same term are the same up to there.
LEMMA CopiedShares ==
    ASSUME NEW led, NEW l \in Seq(Entry), Copied(l, led), NEW k \in Seq(Entry), Copied(k, led),
           NEW i \in 1..Len(l), i <= Len(k), l[i].term = k[i].term
    PROVE  Shares(l, k, i)
<1>1. i \in 1..Len(k) /\ \A j \in 1..i : j \in 1..Len(l)
  OBVIOUS
<1>2. Shares(l, led[l[i].term], i) /\ Shares(k, led[l[i].term], i)
  BY <1>1 DEF Copied
<1>. QED  BY <1>1, <1>2 DEF Shares

LEMMA SharesLess ==
    ASSUME NEW l \in Seq(Entry), NEW k \in Seq(Entry), NEW i \in Nat, Shares(l, k, i),
           NEW j \in 0..i
    PROVE  Shares(l, k, j)
BY DEF Shares

LEMMA SharesVia ==
    ASSUME NEW l \in Seq(Entry), NEW k \in Seq(Entry), NEW c \in Seq(Entry),
           NEW i \in Nat, Shares(l, c, i), Shares(k, c, i)
    PROVE  Shares(l, k, i) /\ Shares(c, l, i)
BY DEF Shares

LEMMA SharesHas ==
    ASSUME NEW l \in Seq(Entry), NEW k \in Seq(Entry), NEW i \in Nat, Shares(l, k, i),
           NEW j \in 1..i, NEW t, Has(l, j, t)
    PROVE  Has(k, j, t)
BY DEF Shares, Has

\* The leaders' logs only grow.
Extends(now, led) == \A t \in Terms : Shares(now[t], led[t], Len(led[t]))

LEMMA CopiedExtends ==
    ASSUME NEW led \in [Terms -> Seq(Entry)], NEW now \in [Terms -> Seq(Entry)],
           Extends(now, led), NEW l \in Seq(Entry), Copied(l, led)
    PROVE  Copied(l, now)
<1>. SUFFICES ASSUME NEW i \in 1..Len(l)
              PROVE  Shares(l, now[l[i].term], i)
  BY DEF Copied
<1>. DEFINE t == l[i].term
<1>1. t \in Terms /\ Shares(l, led[t], i) /\ Shares(now[t], led[t], Len(led[t]))
  BY DEF Copied, Extends
<1>2. led[t] \in Seq(Entry) /\ now[t] \in Seq(Entry) /\ i \in Nat /\ i <= Len(led[t])
  BY <1>1 DEF Shares
<1>. QED  BY <1>1, <1>2, SharesLess, SharesVia DEF Shares

LEMMA RepeatsExtends ==
    ASSUME NEW l \in Seq(Entry), NEW k \in Seq(Entry), Shares(k, l, Len(l)),
           NEW m, Repeats(m, l), m.entries \in Seq(Entry), m.prevLogIndex \in Nat
    PROVE  Repeats(m, k)
<1>1. \A i \in 1..Len(l) : i \in 1..Len(k) /\ k[i] = l[i]
  BY DEF Shares
<1>2. \A i \in 1..Len(m.entries) :
         m.prevLogIndex + i <= Len(k) /\ m.entries[i] = k[m.prevLogIndex + i]
  <2>. TAKE i \in 1..Len(m.entries)
  <2>1. m.prevLogIndex + i \in 1..Len(l) /\ m.entries[i] = l[m.prevLogIndex + i]
    BY DEF Repeats
  <2>. QED  BY <1>1, <2>1
<1>. QED  BY <1>1, <1>2 DEF Repeats, Has

\* The requests a leader builds repeat its log.
LEMMA HeartbeatsRepeat ==
    ASSUME NEW s \in Server, NEW l \in Seq(Entry), NEW next \in [Server -> Nat \ {0}],
           NEW m \in Heartbeats(s, l, next)
    PROVE  /\ m.rpc = "appendEntries" /\ m.term = currentTerm[s]
           /\ LogMessage(m)
           /\ Repeats(m, l)
<1>1. PICK p \in Server :
         LET prev == next[p] - 1
         IN  /\ m.rpc = "appendEntries" /\ m.term = currentTerm[s]
             /\ m.prevLogIndex = prev
             /\ m.prevLogTerm = IF prev <= Len(l) THEN TermAt(l, prev) ELSE 0
             /\ m.entries = SubSeq(l, next[p], Minimum(Len(l), prev + MaxEntries))
  BY DEF Heartbeats, Peers
<1>. DEFINE prev == next[p] - 1
            last == Minimum(Len(l), prev + MaxEntries)
<1>2. prev \in Nat /\ next[p] = prev + 1 /\ last \in Nat /\ last <= Len(l) /\ Len(l) \in Nat
  BY DEF Minimum
<1>3. /\ m.entries \in Seq(Entry)
      /\ Len(m.entries) = IF prev < last THEN last - prev ELSE 0
      /\ \A k \in 1..Len(m.entries) : m.entries[k] = l[prev + k]
  <2>1. m.entries = SubSeq(l, prev + 1, last)
    BY <1>1, <1>2, Zenon
  <2>. HIDE DEF prev, last
  <2>2. \A k \in (prev + 1)..last : l[k] \in Entry
    BY <1>2
  <2>3. /\ m.entries \in Seq(Entry)
        /\ Len(m.entries) = IF prev + 1 <= last THEN last - (prev + 1) + 1 ELSE 0
        /\ \A k \in 1..(last - (prev + 1) + 1) : m.entries[k] = l[(prev + 1) + k - 1]
    BY <1>2, <2>1, <2>2, SubSeqProperties
  <2>4. \A k \in 1..Len(m.entries) :
           k \in 1..(last - (prev + 1) + 1) /\ (prev + 1) + k - 1 = prev + k
    BY <1>2, <2>3
  <2>. QED  BY <1>2, <2>3, <2>4
<1>4. m.prevLogTerm \in Terms /\ (m.prevLogTerm # 0 =>
         prev \in 1..Len(l) /\ m.prevLogTerm = l[prev].term)
  <2>1. \A k \in 1..Len(l) : l[k] \in Entry
    OBVIOUS
  <2>2. \A k \in 1..Len(l) : l[k].term \in Terms
    BY <2>1 DEF Entry
  <2>. QED  BY <1>1, <1>2, <2>2 DEF TermAt, Terms
<1>. QED  BY <1>1, <1>2, <1>3, <1>4 DEF LogMessage, Repeats, Has

-----------------------------------------------------------------------------
\* Merged(): the log of a follower and the entries of a request

\* The first of the indexes for which something holds.
LEMMA LeastIndex ==
    ASSUME NEW T, T \subseteq Nat, T # {}
    PROVE  \E i \in T : \A j \in T : i <= j
<1>. DEFINE less == OpToRel(<, Nat)
<1>1. IsWellFoundedOn(less, Nat)
  BY NatLessThanWellFounded
<1>2. PICK i \in T : \A j \in T : ~(<<j, i>> \in less)
  <2>. HIDE DEF less
  <2>. QED  BY <1>1, WFMin
<1>3. \A j \in T : ~(j < i)
  BY <1>2 DEF OpToRel
<1>. QED  BY <1>3

\* new is the first n entries of the log l and, from there on, the entries that follow
\* prev in the request: the log has no entry after n, or its next one is in conflict.
MergedAt(n, l, prev, entries, new) ==
    /\ n < Len(l) => /\ n + 1 - prev \in 1..Len(entries)
                     /\ l[n + 1].term # entries[n + 1 - prev].term
    /\ \A i \in 1..Len(entries) : prev + i <= n => l[prev + i].term = entries[i].term
    /\ new \in Seq(Entry)
    /\ Len(new) = IF n < prev + Len(entries) THEN prev + Len(entries) ELSE n
    /\ \A i \in 1..Len(new) : new[i] = IF i <= n THEN l[i] ELSE entries[i - prev]

\* What Merged() leaves: as much of the log as does not conflict, or all of it, and the
\* entries of the request from there on.
LEMMA MergedLog ==
    ASSUME NEW l \in Seq(Entry), NEW prev \in 0..Len(l), NEW entries \in Seq(Entry)
    PROVE  \E n \in prev..Len(l) : MergedAt(n, l, prev, entries, Merged(l, prev, entries))
<1>. DEFINE Conflict(i) == prev + i <= Len(l) /\ l[prev + i].term # entries[i].term
            First(i) == Conflict(i) /\ \A j \in 1..(i - 1) : ~Conflict(j)
            first == CHOOSE i \in DOMAIN entries : First(i)
            Result(kept) == kept \o SubSeq(entries, Len(kept) - prev + 1, Len(entries))
            end == prev + Len(entries)
            new == Merged(l, prev, entries)
<1>0. /\ Len(l) \in Nat /\ Len(entries) \in Nat /\ prev \in Nat /\ prev <= Len(l)
      /\ DOMAIN entries = 1..Len(entries)
  OBVIOUS
\* What follows the part that is kept.
<1>1. ASSUME NEW kept \in Seq(Entry), Len(kept) \in prev..Len(l)
      PROVE  /\ Result(kept) \in Seq(Entry)
             /\ Len(Result(kept)) = IF Len(kept) < end THEN end ELSE Len(kept)
             /\ \A i \in 1..Len(Result(kept)) :
                   Result(kept)[i] = IF i <= Len(kept) THEN kept[i] ELSE entries[i - prev]
  <2>. DEFINE from == Len(kept) - prev + 1
              rest == SubSeq(entries, from, Len(entries))
  <2>1. from \in Nat \ {0} /\ Len(kept) \in Nat
    BY <1>0, <1>1
  <2>2. Result(kept) = kept \o rest
    OBVIOUS
  <2>3. CASE Len(kept) >= end
    <3>1. rest = <<>>
      BY <1>0, <1>1, <2>3, SubSeqEmpty
    <3>2. Result(kept) = kept
      BY <2>2, <3>1, ConcatEmptySeq
    <3>. HIDE DEF Result
    <3>. QED  BY <1>0, <1>1, <2>1, <2>3, <3>2
  <2>4. CASE Len(kept) < end
    <3>1. from <= Len(entries) /\ \A i \in from..Len(entries) : entries[i] \in Entry
      BY <1>0, <1>1, <2>1, <2>4
    <3>. HIDE DEF from
    <3>2. /\ rest \in Seq(Entry) /\ Len(rest) = Len(entries) - from + 1
          /\ \A i \in 1..(Len(entries) - from + 1) : rest[i] = entries[from + i - 1]
      BY <1>0, <2>1, <3>1, SubSeqProperties
    <3>. HIDE DEF rest, Result
    <3>3. Len(kept) + Len(rest) = end
      BY <1>0, <1>1, <2>1, <3>2 DEF from
    <3>4. /\ Result(kept) \in Seq(Entry)
          /\ Len(Result(kept)) = end
          /\ \A i \in 1..Len(Result(kept)) :
                Result(kept)[i] = IF i <= Len(kept) THEN kept[i] ELSE rest[i - Len(kept)]
      <4>. DEFINE both == kept \o rest
      <4>1. /\ both \in Seq(Entry)
            /\ Len(both) = Len(kept) + Len(rest)
            /\ \A i \in 1..(Len(kept) + Len(rest)) :
                  both[i] = IF i <= Len(kept) THEN kept[i] ELSE rest[i - Len(kept)]
        BY <1>1, <3>2, ConcatProperties
      <4>. HIDE DEF both
      <4>. QED  BY <2>2, <3>3, <4>1 DEF both
    <3>5. ASSUME NEW i \in 1..Len(Result(kept)), i > Len(kept)
          PROVE  Result(kept)[i] = entries[i - prev]
      <4>1. i - Len(kept) \in 1..Len(rest) /\ i \in Nat
        BY <2>1, <3>2, <3>3, <3>4, <3>5
      <4>2. from + (i - Len(kept)) - 1 = i - prev
        BY <1>0, <2>1, <4>1 DEF from
      <4>3. rest[i - Len(kept)] = entries[from + (i - Len(kept)) - 1]
        BY <3>2, <4>1
      <4>4. Result(kept)[i] = rest[i - Len(kept)]
        BY <2>1, <3>4, <3>5
      <4>. QED  BY <4>2, <4>3, <4>4
    <3>. QED  BY <2>1, <2>4, <3>4, <3>5
  <2>. QED  BY <1>0, <2>1, <2>3, <2>4
<1>. HIDE DEF Result
<1>2. CASE \E i \in DOMAIN entries : Conflict(i)
  <2>. DEFINE T == {i \in DOMAIN entries : Conflict(i)}
  <2>1. PICK i \in T : \A j \in T : i <= j
    <3>1. T \subseteq Nat /\ T # {}
      BY <1>0, <1>2
    <3>. HIDE DEF T
    <3>. QED  BY <3>1, LeastIndex
  <2>2. First(i) /\ i \in DOMAIN entries
    <3>1. i \in 1..Len(entries) /\ Conflict(i)
      BY <1>0, <2>1
    <3>. HIDE DEF Conflict
    <3>2. ASSUME NEW j \in 1..(i - 1), Conflict(j) PROVE FALSE
      <4>1. j \in DOMAIN entries /\ j < i
        BY <1>0, <3>1
      <4>. QED  BY <1>0, <2>1, <3>1, <3>2, <4>1
    <3>. QED  BY <1>0, <3>1, <3>2
  <2>3. first \in DOMAIN entries /\ First(first)
    <3>. HIDE DEF First
    <3>. QED  BY <2>2
  <2>4. new = Result(SubSeq(l, 1, prev + first - 1))
    BY <1>2 DEF Merged, Result
  <2>. HIDE DEF first
  <2>. DEFINE n == prev + first - 1
              kept == SubSeq(l, 1, n)
  <2>5. /\ n \in prev..Len(l) /\ n < Len(l) /\ n + 1 - prev = first /\ n + 1 = prev + first
        /\ first \in 1..Len(entries) /\ n < end
    BY <1>0, <2>3
  <2>6. kept \in Seq(Entry) /\ Len(kept) = n /\ \A j \in 1..n : kept[j] = l[j]
    <3>1. n \in Nat /\ \A j \in 1..n : l[j] \in Entry
      BY <1>0, <2>5
    <3>. HIDE DEF n
    <3>2. /\ kept \in Seq(Entry) /\ Len(kept) = IF 1 <= n THEN n - 1 + 1 ELSE 0
          /\ \A j \in 1..(n - 1 + 1) : kept[j] = l[1 + j - 1]
      BY <3>1, SubSeqProperties
    <3>. HIDE DEF kept
    <3>. QED  BY <3>1, <3>2
  <2>7. /\ l[n + 1].term # entries[n + 1 - prev].term
        /\ \A j \in 1..Len(entries) : prev + j <= n => l[prev + j].term = entries[j].term
    <3>1. ASSUME NEW j \in 1..Len(entries), prev + j <= n
          PROVE  l[prev + j].term = entries[j].term
      <4>1. j \in 1..(first - 1) /\ prev + j <= Len(l)
        BY <1>0, <2>5, <3>1
      <4>. QED  BY <2>3, <4>1
    <3>. QED  BY <2>3, <2>5, <3>1
  <2>8. /\ Result(kept) \in Seq(Entry)
        /\ Len(Result(kept)) = IF n < end THEN end ELSE n
        /\ \A j \in 1..Len(Result(kept)) :
              Result(kept)[j] = IF j <= n THEN l[j] ELSE entries[j - prev]
    <3>. HIDE DEF kept, n
    <3>1. /\ Result(kept) \in Seq(Entry)
          /\ Len(Result(kept)) = IF n < end THEN end ELSE n
          /\ \A j \in 1..Len(Result(kept)) :
                Result(kept)[j] = IF j <= n THEN kept[j] ELSE entries[j - prev]
      BY <1>1, <2>5, <2>6
    <3>2. end \in Nat /\ n \in Nat
      BY <1>0, <2>5
    <3>. QED  BY <2>6, <3>1, <3>2
  <2>9. new = Result(kept)
    BY <2>4
  <2>. HIDE DEF kept, n, Conflict, Result, new
  <2>10. MergedAt(n, l, prev, entries, new)
    BY <2>5, <2>7, <2>8, <2>9 DEF MergedAt
  <2>. QED  BY <2>5, <2>10 DEF new
<1>3. CASE ~\E i \in DOMAIN entries : Conflict(i)
  <2>1. new = Result(l)
    BY <1>3 DEF Merged, Result
  <2>2. \A i \in 1..Len(entries) : prev + i <= Len(l) => l[prev + i].term = entries[i].term
    BY <1>0, <1>3
  <2>3. Len(l) \in prev..Len(l)
    BY <1>0
  <2>4. /\ Result(l) \in Seq(Entry)
        /\ Len(Result(l)) = IF Len(l) < end THEN end ELSE Len(l)
        /\ \A i \in 1..Len(Result(l)) :
              Result(l)[i] = IF i <= Len(l) THEN l[i] ELSE entries[i - prev]
    <3>. HIDE DEF end
    <3>. QED  BY <1>1, <2>3
  <2>. HIDE DEF Conflict, Result, new
  <2>5. MergedAt(Len(l), l, prev, entries, new)
    <3>1. ASSUME NEW i \in 1..Len(entries), prev + i <= Len(l)
          PROVE  l[prev + i].term = entries[i].term
      BY <2>2, <3>1
    <3>2. ~(Len(l) < Len(l))
      BY <1>0
    <3>. QED  BY <2>1, <2>4, <3>1, <3>2 DEF MergedAt
  <2>. QED  BY <2>3, <2>5 DEF new
<1>. QED  BY <1>2, <1>3

\* With the log of the leader that sent them in front of the eyes: the log shares with it
\* all that the request holds and all that it shared before, and nothing else is new.
LEMMA MergedShares ==
    ASSUME NEW led \in [Terms -> Seq(Entry)],
           NEW l \in Seq(Entry), Copied(l, led), NEW k \in Seq(Entry), Copied(k, led),
           NEW m, LogMessage(m), m.rpc = "appendEntries", Repeats(m, k),
           m.prevLogIndex <= Len(l),
           m.prevLogIndex > 0 => l[m.prevLogIndex].term = m.prevLogTerm
    PROVE  LET new == Merged(l, m.prevLogIndex, m.entries)
           IN  /\ new \in Seq(Entry)
               /\ new = l \/ Shares(new, k, Len(new))
               /\ Shares(new, k, m.prevLogIndex + Len(m.entries))
               /\ \A i \in Nat : Shares(l, k, i) => Shares(new, k, i)
<1>. DEFINE prev == m.prevLogIndex
            entries == m.entries
            end == prev + Len(entries)
            new == Merged(l, prev, entries)
<1>1. /\ prev \in 0..Len(l) /\ prev \in Nat /\ entries \in Seq(Entry)
      /\ Len(entries) \in Nat /\ Len(l) \in Nat /\ Len(k) \in Nat /\ end \in Nat
  BY DEF LogMessage
<1>2. Shares(l, k, prev)
  <2>1. CASE prev = 0
    BY <1>1, <2>1 DEF Shares
  <2>2. CASE prev # 0
    <3>1. prev \in 1..Len(l) /\ Has(l, prev, m.prevLogTerm)
      BY <1>1, <2>2 DEF Has
    <3>2. m.prevLogTerm # 0
      BY <2>2, <3>1 DEF Copied, Has
    <3>3. Has(k, prev, m.prevLogTerm)
      BY <3>2 DEF Repeats
    <3>. QED  BY <1>1, <3>1, <3>3, CopiedShares DEF Has
  <2>. QED  BY <2>1, <2>2
<1>3. /\ \A i \in 1..Len(entries) : prev + i <= Len(k) /\ entries[i] = k[prev + i]
      /\ end <= Len(k)
  <2>1. \A i \in 1..Len(entries) : prev + i <= Len(k) /\ entries[i] = k[prev + i]
    BY DEF Repeats
  <2>2. CASE Len(entries) = 0
    BY <1>1, <1>2, <2>2 DEF Shares
  <2>3. CASE Len(entries) # 0
    BY <1>1, <2>1, <2>3
  <2>. QED  BY <2>1, <2>2, <2>3
<1>. HIDE DEF prev, entries
<1>3a. PICK n \in prev..Len(l) : MergedAt(n, l, prev, entries, new)
  BY <1>1, MergedLog
<1>4. /\ n < Len(l) => /\ n + 1 - prev \in 1..Len(entries)
                       /\ l[n + 1].term # entries[n + 1 - prev].term
      /\ \A i \in 1..Len(entries) : prev + i <= n => l[prev + i].term = entries[i].term
      /\ new \in Seq(Entry)
      /\ Len(new) = IF n < end THEN end ELSE n
      /\ \A i \in 1..Len(new) : new[i] = IF i <= n THEN l[i] ELSE entries[i - prev]
  BY <1>3a DEF MergedAt
<1>. HIDE DEF new
<1>5. n \in Nat /\ prev <= n /\ n <= Len(l)
  BY <1>1, <1>4
\* As far as the log is kept and the request reaches, the log is that of the leader.
<1>6. ASSUME NEW x \in Nat, x <= n, x <= end, prev <= x PROVE Shares(l, k, x)
  <2>1. CASE x = prev
    BY <1>2, <2>1
  <2>2. CASE x # prev
    <3>1. /\ x - prev \in 1..Len(entries) /\ prev + (x - prev) = x
          /\ x \in 1..Len(l) /\ x <= Len(k)
      BY <1>1, <1>3, <1>5, <1>6, <2>2
    <3>2. l[x].term = k[x].term
      BY <1>3, <1>4, <1>6, <3>1
    <3>. QED  BY <3>1, <3>2, CopiedShares
  <2>. QED  BY <2>1, <2>2
<1>7. Shares(new, k, end)
  <2>1. end <= Len(new) /\ end <= Len(k)
    BY <1>1, <1>3, <1>4, <1>5
  <2>2. ASSUME NEW i \in 1..end PROVE new[i] = k[i]
    <3>1. i \in 1..Len(new)
      BY <1>1, <1>4, <2>1
    <3>2. CASE i <= n
      <4>1. new[i] = l[i]
        BY <1>4, <3>1, <3>2
      <4>2. CASE i <= prev
        BY <1>2, <4>1, <4>2 DEF Shares
      <4>3. CASE i > prev
        <5>1. Shares(l, k, i)
          BY <1>1, <1>6, <3>2, <4>3
        <5>. QED  BY <4>1, <5>1 DEF Shares
      <4>. QED  BY <1>1, <4>2, <4>3
    <3>3. CASE i > n
      <4>1. i - prev \in 1..Len(entries) /\ prev + (i - prev) = i
        BY <1>1, <1>5, <3>3 DEF end
      <4>2. new[i] = entries[i - prev]
        BY <1>4, <1>5, <3>1, <3>3
      <4>. QED  BY <1>3, <4>1, <4>2
    <3>. QED  BY <1>5, <3>2, <3>3
  <2>. QED  BY <2>1, <2>2 DEF Shares
<1>8. new = l \/ Shares(new, k, Len(new))
  <2>1. CASE n < end
    BY <1>4, <1>7, <2>1
  <2>2. CASE n >= end
    <3>1. n = Len(l)
      BY <1>1, <1>4, <1>5, <2>2 DEF end
    <3>2. Len(new) = Len(l) /\ \A i \in 1..Len(l) : new[i] = l[i]
      BY <1>1, <1>4, <1>5, <2>2, <3>1
    <3>3. new = l
      BY <1>4, <3>2
    <3>. QED  BY <3>3
  <2>. QED  BY <1>1, <1>5, <2>1, <2>2
<1>9. ASSUME NEW i \in Nat, Shares(l, k, i) PROVE Shares(new, k, i)
  <2>1. i <= n
    <3>. SUFFICES ASSUME i > n PROVE FALSE
      BY <1>5
    <3>1. n < Len(l) /\ n + 1 \in 1..i
      BY <1>1, <1>5, <1>9 DEF Shares
    <3>2. n + 1 - prev \in 1..Len(entries) /\ prev + (n + 1 - prev) = n + 1
      BY <1>1, <1>4, <1>5, <3>1
    <3>3. entries[n + 1 - prev] = k[n + 1] /\ l[n + 1] = k[n + 1]
      BY <1>3, <1>9, <3>1, <3>2 DEF Shares
    <3>. QED  BY <1>4, <3>1, <3>3
  <2>2. i <= Len(new) /\ \A j \in 1..i : new[j] = l[j]
    <3>1. Len(new) \in Nat /\ n <= Len(new)
      BY <1>1, <1>4, <1>5
    <3>2. \A j \in 1..i : j \in 1..Len(new) /\ j <= n
      BY <1>5, <2>1, <3>1
    <3>. QED  BY <1>4, <1>5, <2>1, <3>1, <3>2
  <2>. QED  BY <1>9, <2>2 DEF Shares
<1>. QED  BY <1>4, <1>7, <1>8, <1>9 DEF new, prev, entries

LEMMA ConflictIndexType ==
    ASSUME NEW l \in Seq(Entry), \A i \in 1..Len(l) : l[i].term # 0, NEW prev \in Nat \ {0}
    PROVE  ConflictIndex(l, prev) \in Nat
<1>1. CASE prev > Len(l)
  BY <1>1 DEF ConflictIndex
<1>2. CASE prev <= Len(l)
  <2>. DEFINE Other(i) == TermAt(l, i) # TermAt(l, prev)
              back == {k \in 0..prev : Other(prev - k)}
  <2>1. Other(0)
    BY <1>2 DEF TermAt
  <2>2. back \subseteq Nat /\ prev \in back
    BY <2>1
  <2>. HIDE DEF Other
  <2>3. PICK k \in back : \A j \in back : k <= j
    <3>. HIDE DEF back
    <3>. QED  BY <2>2, LeastIndex
  <2>4. prev - k \in 0..prev /\ Other(prev - k)
    BY <2>3
  <2>5. \A j \in (prev - k + 1)..prev : ~Other(j)
    <3>. SUFFICES ASSUME NEW j \in (prev - k + 1)..prev, Other(j) PROVE FALSE
      OBVIOUS
    <3>1. prev - j \in 0..prev /\ prev - (prev - j) = j /\ prev - j < k
      BY <2>3
    <3>. QED  BY <2>3, <3>1
  <2>6. \E i \in 0..prev : Other(i) /\ \A j \in (i + 1)..prev : ~Other(j)
    BY <2>4, <2>5
  <2>7. (CHOOSE i \in 0..prev : Other(i) /\ \A j \in (i + 1)..prev : ~Other(j)) \in 0..prev
    BY <2>6
  <2>8. ConflictIndex(l, prev) = 1 + CHOOSE i \in 0..prev :
           Other(i) /\ \A j \in (i + 1)..prev : ~Other(j)
    <3>1. ~(prev > Len(l))
      BY <1>2
    <3>. QED  BY <3>1 DEF ConflictIndex, Other
  <2>. QED  BY <2>7, <2>8
<1>. QED  BY <1>1, <1>2

-----------------------------------------------------------------------------
\* The steps that leave the leaders' logs and all other logs alone

\* now[t] are the leaders' logs after the step.
LEMMA LedStep ==
    ASSUME IInv, NEW led, LedInv(led), LogTypes',
           NEW now \in [Terms -> Seq(Entry)], Extends(now, led),
           \A t \in Terms : now[t] = led[t] \/ (Copied(now[t], now) /\ UpToTerm(now[t], t)),
           \A t \in Terms : elected'[t] = {} => now[t] = <<>>,
           \A s \in Server : state'[s] = "LEADER" => now[currentTerm'[s]] = log'[s],
           \A s \in Server :
              /\ currentTerm'[s] \in Terms /\ currentTerm'[s] >= currentTerm[s]
              /\ \/ log'[s] = log[s]
                 \/ Copied(log'[s], now) /\ UpToTerm(log'[s], currentTerm'[s]),
           \A m \in msgs' : m.rpc = "appendEntries" => m \in msgs \/ Repeats(m, now[m.term])
    PROVE  LedInv(now)'
<1>1. /\ led \in [Terms -> Seq(Entry)] /\ LogTypes
      /\ currentTerm \in [Server -> Terms] /\ log \in [Server -> Seq(Entry)]
  BY DEF LedInv, LeadersLogs, LogTypes, IInv, ElectionTypes
<1>2. ASSUME NEW t \in Terms PROVE Copied(now[t], now) /\ UpToTerm(now[t], t)
  <2>1. led[t] \in Seq(Entry) /\ Copied(led[t], led) /\ UpToTerm(led[t], t)
    BY <1>1 DEF LedInv, LeadersLogs
  <2>. QED  BY <1>1, <2>1, CopiedExtends
<1>3. ASSUME NEW s \in Server PROVE Copied(log'[s], now) /\ UpToTerm(log'[s], currentTerm'[s])
  <2>1. CASE log'[s] = log[s]
    <3>1. /\ log[s] \in Seq(Entry) /\ Copied(log[s], led) /\ UpToTerm(log[s], currentTerm[s])
          /\ \A i \in 1..Len(log[s]) : log[s][i].term \in Terms
      BY <1>1 DEF LedInv, Copied
    <3>2. Copied(log[s], now)
      BY <1>1, <3>1, CopiedExtends
    <3>3. UpToTerm(log[s], currentTerm'[s])
      BY <1>1, <3>1 DEF UpToTerm, Terms
    <3>. QED  BY <2>1, <3>2, <3>3
  <2>. QED  BY <2>1
<1>4. ASSUME NEW m \in msgs', m.rpc = "appendEntries" PROVE Repeats(m, now[m.term])
  <2>1. CASE m \in msgs
    <3>1. /\ m.term \in Terms /\ m.entries \in Seq(Entry) /\ m.prevLogIndex \in Nat
          /\ Repeats(m, led[m.term])
      BY <1>1, <1>4, <2>1 DEF LedInv, LogTypes, LogMessage, IInv, ElectionTypes, WellFormed
    <3>2. Shares(now[m.term], led[m.term], Len(led[m.term]))
      BY <3>1 DEF Extends
    <3>. QED  BY <1>1, <3>1, <3>2, RepeatsExtends
  <2>. QED  BY <1>4, <2>1
<1>5. LeadersLogs(now)'
  BY <1>2 DEF LeadersLogs
<1>. QED  BY <1>3, <1>4, <1>5 DEF LedInv

LEMMA ExtendsReflexive ==
    ASSUME NEW led \in [Terms -> Seq(Entry)]
    PROVE  Extends(led, led)
BY DEF Extends, Shares

\* No log changes, and no node comes to power.
LEMMA QuietLogs ==
    ASSUME IInv, NEW led, LedInv(led), UNCHANGED <<log, elected>>,
           nextIndex' \in [Server -> [Server -> Nat \ {0}]],
           \A s \in Server :
              /\ currentTerm'[s] \in Terms /\ currentTerm'[s] >= currentTerm[s]
              /\ state'[s] = "LEADER" => state[s] = "LEADER" /\ currentTerm'[s] = currentTerm[s]
              /\ state'[s] # "FOLLOWER" => currentTerm'[s] # 0,
           \A m \in msgs' : m \in msgs \/
              (LogMessage(m) /\ (m.rpc = "appendEntries" => Repeats(m, led[m.term])))
    PROVE  LedInv(led)'
<1>1. led \in [Terms -> Seq(Entry)] /\ LogTypes /\ LeadersLogs(led)
  BY DEF LedInv, LeadersLogs
<1>2. LogTypes'
  <2>1. \A m \in msgs' : LogMessage(m)'
    BY <1>1 DEF LogTypes, LogMessage
  <2>. QED  BY <1>1, <2>1 DEF LogTypes
<1>3. Extends(led, led)
  BY <1>1, ExtendsReflexive
<1>4. /\ \A t \in Terms : elected'[t] = {} => led[t] = <<>>
      /\ \A s \in Server : state'[s] = "LEADER" => led[currentTerm'[s]] = log'[s]
  BY <1>1 DEF LeadersLogs
<1>5. \A s \in Server :
         /\ currentTerm'[s] \in Terms /\ currentTerm'[s] >= currentTerm[s]
         /\ \/ log'[s] = log[s]
            \/ Copied(log'[s], led) /\ UpToTerm(log'[s], currentTerm'[s])
  OBVIOUS
<1>6. \A m \in msgs' : m.rpc = "appendEntries" => m \in msgs \/ Repeats(m, led[m.term])
  OBVIOUS
<1>7. \A t \in Terms : led[t] = led[t] \/ (Copied(led[t], led) /\ UpToTerm(led[t], t))
  OBVIOUS
<1>. QED  BY <1>1, <1>2, <1>3, <1>4, <1>5, <1>6, <1>7, LedStep

\* The same when nextIndex stays, whoever holds an office keeps it, and no request to
\* append is sent.
LEMMA PassiveLogs ==
    ASSUME IInv, NEW led, LedInv(led), UNCHANGED <<log, nextIndex, elected>>,
           \A s \in Server :
              /\ currentTerm'[s] \in Terms /\ currentTerm'[s] >= currentTerm[s]
              /\ state'[s] # "FOLLOWER" => state'[s] = state[s] /\ currentTerm'[s] = currentTerm[s],
           \A m \in msgs' : m \in msgs \/ (LogMessage(m) /\ m.rpc # "appendEntries")
    PROVE  LedInv(led)'
<1>1. /\ nextIndex' \in [Server -> [Server -> Nat \ {0}]]
      /\ \A s \in Server :
            /\ state'[s] = "LEADER" => state[s] = "LEADER" /\ currentTerm'[s] = currentTerm[s]
            /\ state'[s] # "FOLLOWER" => currentTerm'[s] # 0
  BY DEF LedInv, LogTypes
<1>. QED  BY <1>1, QuietLogs

\* Messages and what this invariant does not read.
LEMMA UntouchedLogs ==
    ASSUME IInv, NEW led, LedInv(led), msgs' \subseteq msgs,
           UNCHANGED <<currentTerm, state, log, nextIndex, elected>>
    PROVE  LedInv(led)'
BY PassiveLogs DEF IInv, ElectionTypes, Terms

LEMMA TimeoutLogs ==
    ASSUME IInv, NEW led, LedInv(led), NEW s \in Server, ElectionTimeout(s)
    PROVE  LedInv(led)'
<1>1. CASE state[s] = "LEADER"
  BY <1>1, UntouchedLogs DEF ElectionTimeout
<1>2. CASE state[s] # "LEADER"
  <2>. DEFINE t == currentTerm[s] + 1
  <2>1. /\ t \in Terms /\ t # 0 /\ t > currentTerm[s]
        /\ state' = [state EXCEPT ![s] = "CANDIDATE"]
        /\ currentTerm' = [currentTerm EXCEPT ![s] = t]
        /\ msgs' = msgs \cup RequestVote(s, t)
        /\ UNCHANGED <<log, nextIndex, elected>>
    BY <1>2 DEF ElectionTimeout, IInv, ElectionTypes, Terms
  <2>2. \A m \in RequestVote(s, t) : LogMessage(m) /\ m.rpc # "appendEntries"
    BY DEF RequestVote, LogMessage
  <2>3. \A r \in Server :
           /\ currentTerm'[r] \in Terms /\ currentTerm'[r] >= currentTerm[r]
           /\ state'[r] = "LEADER" => state[r] = "LEADER" /\ currentTerm'[r] = currentTerm[r]
           /\ state'[r] # "FOLLOWER" => currentTerm'[r] # 0
    BY <2>1 DEF IInv, ElectionTypes, Terms, LedInv, LogTypes
  <2>4. nextIndex' \in [Server -> [Server -> Nat \ {0}]]
    BY <2>1 DEF LedInv, LogTypes
  <2>. HIDE DEF t
  <2>. QED  BY <2>1, <2>2, <2>3, <2>4, QuietLogs
<1>. QED  BY <1>1, <1>2

LEMMA VoteRequestLogs ==
    ASSUME IInv, NEW led, LedInv(led), NEW m \in msgs, handleVoteRequest(m)
    PROVE  LedInv(led)'
<1>1. m.to \in Server /\ m.term \in Terms /\ UNCHANGED <<log, nextIndex, elected>>
  BY DEF handleVoteRequest, IInv, ElectionTypes, WellFormed
<1>2. \A n \in msgs' : n \in msgs \/ (LogMessage(n) /\ n.rpc # "appendEntries")
  BY DEF handleVoteRequest, VoteResponse, LogMessage
<1>3. \/ UNCHANGED <<currentTerm, state>>
      \/ /\ ~(m.term < currentTerm[m.to])
         /\ currentTerm' = [currentTerm EXCEPT ![m.to] = m.term]
         /\ state' = [state EXCEPT ![m.to] =
                         IF m.term > currentTerm[m.to] THEN "FOLLOWER" ELSE @]
  BY Zenon DEF handleVoteRequest
<1>4. \A s \in Server :
         /\ currentTerm'[s] \in Terms /\ currentTerm'[s] >= currentTerm[s]
         /\ state'[s] # "FOLLOWER" => state'[s] = state[s] /\ currentTerm'[s] = currentTerm[s]
  BY <1>1, <1>3 DEF IInv, ElectionTypes, Terms
<1>. QED  BY <1>1, <1>2, <1>4, PassiveLogs

\* An election is won: the log of the winner is that of the leader of the term.
LEMMA VictoryLogs ==
    ASSUME IInv, NEW led, LedInv(led), NEW s \in Server, NEW t \in Terms, t = currentTerm[s],
           elected[t] = {}, NEW settled \in SUBSET msgs, convertToLeader(s, settled),
           state[s] = "CANDIDATE",
           UNCHANGED <<currentTerm, log>>,
           NEW now, now = [led EXCEPT ![t] = log[s]]
    PROVE  LedInv(now)' /\ Extends(now, led)
<1>. DEFINE next == NextAfterElection(s)
<1>1. /\ led \in [Terms -> Seq(Entry)] /\ log \in [Server -> Seq(Entry)] /\ LogTypes
      /\ LeadersLogs(led) /\ led[t] = <<>> /\ currentTerm \in [Server -> Terms]
      /\ state \in [Server -> {"FOLLOWER", "CANDIDATE", "LEADER"}] /\ elected \in [Terms -> SUBSET Server]
  BY DEF LedInv, LeadersLogs, LogTypes, IInv, ElectionTypes
<1>2. now \in [Terms -> Seq(Entry)] /\ now[t] = log[s] /\ Extends(now, led)
  <2>1. log[s] \in Seq(Entry) /\ Len(log[s]) \in Nat
    BY <1>1
  <2>. QED  BY <1>1, <2>1 DEF Extends, Shares
<1>3. /\ state' = [state EXCEPT ![s] = "LEADER"]
      /\ elected' = [elected EXCEPT ![t] = @ \cup {s}]
      /\ nextIndex' = [nextIndex EXCEPT ![s] = next]
      /\ msgs' = settled \cup Heartbeats(s, log[s], next)
  BY DEF convertToLeader
<1>4. log[s] \in Seq(Entry) /\ next \in [Server -> Nat \ {0}]
  BY <1>1 DEF NextAfterElection
<1>5. \A n \in Heartbeats(s, log[s], next) : LogMessage(n) /\ n.term = t /\ Repeats(n, log[s])
  BY <1>4, HeartbeatsRepeat
<1>6. LogTypes'
  <2>1. \A n \in msgs' : LogMessage(n)'
    BY <1>1, <1>3, <1>5 DEF LogTypes, LogMessage
  <2>2. /\ nextIndex' \in [Server -> [Server -> Nat \ {0}]]
        /\ \A r \in Server : state'[r] # "FOLLOWER" => currentTerm'[r] # 0
    BY <1>1, <1>3, <1>4 DEF LogTypes
  <2>. QED  BY <1>1, <2>1, <2>2 DEF LogTypes
<1>7. /\ \A u \in Terms : elected'[u] = {} => now[u] = <<>>
      /\ \A r \in Server : state'[r] = "LEADER" => now[currentTerm'[r]] = log'[r]
  <2>1. \A r \in Server : state[r] = "LEADER" => currentTerm[r] # t
    BY DEF IInv, VoteInv
  <2>. QED  BY <1>1, <1>2, <1>3, <2>1 DEF LeadersLogs
<1>8. /\ Copied(log[s], led) /\ UpToTerm(log[s], t)
  BY DEF LedInv
<1>9. Copied(now[t], now) /\ UpToTerm(now[t], t)
  BY <1>1, <1>2, <1>4, <1>8, CopiedExtends
<1>10. \A n \in msgs' : n.rpc = "appendEntries" => n \in msgs \/ Repeats(n, now[n.term])
  BY <1>2, <1>3, <1>5
<1>11. \A u \in Terms : now[u] = led[u] \/ (Copied(now[u], now) /\ UpToTerm(now[u], u))
  BY <1>1, <1>9
<1>12. \A r \in Server : currentTerm'[r] \in Terms /\ currentTerm'[r] >= currentTerm[r]
  BY <1>1 DEF Terms
<1>. QED  BY <1>2, <1>6, <1>7, <1>10, <1>11, <1>12, LedStep

LEMMA VoteResponseLogs ==
    ASSUME Timely, IInv, NEW led, LedInv(led), NEW m \in msgs, handleVoteResponse(m)
    PROVE  LET s == m.from
               t == m.election
           IN  \/ state'[s] # "LEADER" /\ LedInv(led)'
               \/ state[s] = "LEADER" /\ LedInv(led)'
               \/ /\ convertToLeader(s, msgs \ {m}) /\ UNCHANGED <<currentTerm, log>>
                  /\ s \in Server /\ t = currentTerm[s] /\ t \in Terms
                  /\ state[s] = "CANDIDATE" /\ elected[t] = {}
<1>. DEFINE s == m.from
            t == m.election
            received == votes[s][t] \cup {m.to}
<1>0. /\ m.rpc = "voteResponse" /\ t = currentTerm[s]
      /\ s \in Server /\ m.to \in Server /\ t \in Terms /\ m.term \in Terms
      /\ UNCHANGED log
  BY DEF handleVoteResponse, Delivered, Timely, IInv, ElectionTypes, WellFormed
<1>1. CASE /\ m.term > currentTerm[s]
           /\ convertToFollower(s, m.term)
           /\ msgs' = msgs \ {m}
           /\ UNCHANGED <<nextIndex, elected>>
  <2>1. \A r \in Server :
           /\ currentTerm'[r] \in Terms /\ currentTerm'[r] >= currentTerm[r]
           /\ state'[r] # "FOLLOWER" => state'[r] = state[r] /\ currentTerm'[r] = currentTerm[r]
    BY <1>0, <1>1 DEF convertToFollower, IInv, ElectionTypes, Terms
  <2>2. LedInv(led)'
    BY <1>0, <1>1, <2>1, PassiveLogs
  <2>3. state'[s] = "FOLLOWER"
    BY <1>0, <1>1 DEF convertToFollower, IInv, ElectionTypes
  <2>. QED  BY <2>2, <2>3
<1>2. CASE /\ m.granted
           /\ votes' = [votes EXCEPT ![s][t] = received]
           /\ Cardinality(received) >= Majority /\ state[s] = "CANDIDATE"
           /\ convertToLeader(s, msgs \ {m})
           /\ UNCHANGED <<currentTerm, votedFor>>
  <2>1. /\ received \in SUBSET Server
        /\ \A v \in received : Voted(v, s, t)
    BY <1>0, <1>2 DEF Voted, IInv, ElectionTypes
  <2>2. elected[t] = {}
    BY <1>0, <1>2, <2>1, OneMajority
  <2>. QED  BY <1>0, <1>2, <2>2
<1>3. CASE msgs' = msgs \ {m} /\ UNCHANGED <<currentTerm, state, nextIndex, elected>>
  BY <1>0, <1>3, UntouchedLogs
<1>. QED  BY <1>1, <1>2, <1>3 DEF handleVoteResponse

LEMMA AppendResponseLogs ==
    ASSUME IInv, NEW led, LedInv(led), NEW m \in msgs, handleAppendResponse(m)
    PROVE  LedInv(led)'
<1>. DEFINE s == m.from
            p == m.to
<1>0. /\ s \in Server /\ p \in Server /\ m.term \in Terms
      /\ m.success \in BOOLEAN /\ m.matchIndex \in Nat /\ m.conflictIndex \in Nat
      /\ msgs' = msgs \ {m} /\ UNCHANGED <<log, elected>>
  BY DEF handleAppendResponse, IInv, ElectionTypes, WellFormed, LedInv, LogTypes, LogMessage
<1>1. CASE /\ m.term > currentTerm[s] /\ convertToFollower(s, m.term)
           /\ UNCHANGED nextIndex
  <2>1. \A r \in Server :
           /\ currentTerm'[r] \in Terms /\ currentTerm'[r] >= currentTerm[r]
           /\ state'[r] # "FOLLOWER" => state'[r] = state[r] /\ currentTerm'[r] = currentTerm[r]
    BY <1>0, <1>1 DEF convertToFollower, IInv, ElectionTypes, Terms
  <2>. QED  BY <1>0, <1>1, <2>1, PassiveLogs
<1>2. CASE /\ nextIndex' = [nextIndex EXCEPT ![s][p] = NextIndex(s, p, m)]
           /\ UNCHANGED <<currentTerm, state>>
  <2>1. nextIndex[s][p] \in Nat \ {0}
    BY <1>0 DEF LedInv, LogTypes
  <2>2. NextIndex(s, p, m) \in Nat \ {0}
    BY <1>0, <2>1 DEF NextIndex
  <2>3. nextIndex' \in [Server -> [Server -> Nat \ {0}]]
    BY <1>0, <1>2, <2>2 DEF LedInv, LogTypes
  <2>4. \A r \in Server :
           /\ currentTerm'[r] \in Terms /\ currentTerm'[r] >= currentTerm[r]
           /\ state'[r] = "LEADER" => state[r] = "LEADER" /\ currentTerm'[r] = currentTerm[r]
           /\ state'[r] # "FOLLOWER" => currentTerm'[r] # 0
    BY <1>2 DEF IInv, ElectionTypes, Terms, LedInv, LogTypes
  <2>5. \A n \in msgs' : n \in msgs
    BY <1>0
  <2>. QED  BY <1>0, <2>3, <2>4, <2>5, QuietLogs
<1>. QED  BY <1>1, <1>2 DEF handleAppendResponse

LEMMA HeartbeatLogs ==
    ASSUME IInv, NEW led, LedInv(led), NEW s \in Server, SendHeartbeats(s)
    PROVE  LedInv(led)'
<1>. DEFINE round == Heartbeats(s, log[s], nextIndex[s])
<1>1. log[s] \in Seq(Entry) /\ nextIndex[s] \in [Server -> Nat \ {0}]
  BY DEF LedInv, LogTypes
<1>2. /\ state[s] = "LEADER" /\ msgs' = msgs \cup round
      /\ UNCHANGED <<currentTerm, state, log, nextIndex, elected>>
  BY DEF SendHeartbeats, nodeVars
<1>3. led[currentTerm[s]] = log[s]
  BY <1>2 DEF LedInv, LeadersLogs
<1>4. \A n \in round : LogMessage(n) /\ Repeats(n, led[n.term])
  BY <1>1, <1>3, HeartbeatsRepeat
<1>5. /\ nextIndex' \in [Server -> [Server -> Nat \ {0}]]
      /\ \A r \in Server :
           /\ currentTerm'[r] \in Terms /\ currentTerm'[r] >= currentTerm[r]
           /\ state'[r] = "LEADER" => state[r] = "LEADER" /\ currentTerm'[r] = currentTerm[r]
           /\ state'[r] # "FOLLOWER" => currentTerm'[r] # 0
  BY <1>2 DEF IInv, ElectionTypes, Terms, LedInv, LogTypes
<1>. HIDE DEF round
<1>. QED  BY <1>2, <1>4, <1>5, QuietLogs


-----------------------------------------------------------------------------
\* The steps that change a log

\* What is as far as it goes like a log that is copied is copied itself.
LEMMA CopiedPrefix ==
    ASSUME NEW led \in [Terms -> Seq(Entry)], NEW k \in Seq(Entry), Copied(k, led),
           NEW l \in Seq(Entry), Shares(l, k, Len(l)), NEW t \in Terms, UpToTerm(k, t)
    PROVE  Copied(l, led) /\ UpToTerm(l, t)
<1>. SUFFICES ASSUME NEW i \in 1..Len(l)
              PROVE  /\ l[i].term \in Terms \ {0} /\ Shares(l, led[l[i].term], i)
                     /\ l[i].term <= t
  BY DEF Copied, UpToTerm
<1>1. /\ Len(l) \in Nat /\ i \in Nat /\ i \in 1..Len(k) /\ l[i] = k[i]
      /\ Shares(l, k, i)
  BY DEF Shares
<1>2. /\ k[i].term \in Terms \ {0} /\ k[i].term <= t
      /\ led[k[i].term] \in Seq(Entry) /\ Shares(k, led[k[i].term], i)
  BY <1>1 DEF Copied, UpToTerm
<1>3. Shares(led[k[i].term], k, i)
  BY <1>1, <1>2 DEF Shares
<1>. QED  BY <1>1, <1>2, <1>3, SharesVia

\* A leader appends: its log, and with it that of the leader of the term, grows.
LEMMA ReplicateLogs ==
    ASSUME IInv, NEW led, LedInv(led), NEW s \in Server, NEW v \in Value,
           replicateCommand(s, v),
           NEW now, now = [led EXCEPT ![currentTerm[s]] = log'[s]]
    PROVE  LedInv(now)' /\ Extends(now, led)
<1>. DEFINE t == currentTerm[s]
            e == [term |-> t, command |-> v]
            l == Append(log[s], e)
            round == Heartbeats(s, l, nextIndex[s])
<1>1. /\ state[s] = "LEADER" /\ log' = [log EXCEPT ![s] = l] /\ msgs' = msgs \cup round
      /\ UNCHANGED <<currentTerm, state, nextIndex, elected>>
  BY DEF replicateCommand
<1>2. /\ led \in [Terms -> Seq(Entry)] /\ log \in [Server -> Seq(Entry)] /\ LogTypes
      /\ LeadersLogs(led) /\ currentTerm \in [Server -> Terms]
      /\ nextIndex[s] \in [Server -> Nat \ {0}]
      /\ elected \in [Terms -> SUBSET Server]
  BY DEF LedInv, LeadersLogs, LogTypes, IInv, ElectionTypes
<1>3. /\ t \in Terms \ {0} /\ led[t] = log[s] /\ s \in elected[t] /\ e \in Entry
  BY <1>1, <1>2 DEF LeadersLogs, LogTypes, IInv, VoteInv, Entry
<1>4. /\ l \in Seq(Entry) /\ Len(l) = Len(log[s]) + 1 /\ l[Len(l)].term = t
      /\ Len(log[s]) \in Nat
      /\ \A i \in 1..Len(log[s]) : l[i] = log[s][i]
      /\ log'[s] = l
  BY <1>1, <1>2, <1>3
<1>. HIDE DEF e, l
<1>5. /\ now \in [Terms -> Seq(Entry)] /\ now[t] = l
      /\ \A u \in Terms : u # t => now[u] = led[u]
      /\ Extends(now, led)
  <2>1. /\ now \in [Terms -> Seq(Entry)] /\ now[t] = l
        /\ \A u \in Terms : u # t => now[u] = led[u]
    BY <1>2, <1>3, <1>4
  <2>2. Shares(l, log[s], Len(log[s]))
    BY <1>4 DEF Shares
  <2>. QED  BY <1>2, <1>3, <2>1, <2>2 DEF Extends, Shares
<1>6. Copied(l, now) /\ UpToTerm(l, t)
  <2>1. log[s] \in Seq(Entry) /\ Copied(log[s], led) /\ UpToTerm(log[s], t)
    BY <1>2 DEF LedInv
  <2>2. Copied(log[s], now)
    BY <1>2, <1>5, <2>1, CopiedExtends
  <2>. SUFFICES ASSUME NEW i \in 1..Len(l)
                PROVE  /\ l[i].term \in Terms \ {0} /\ Shares(l, now[l[i].term], i)
                       /\ l[i].term <= t
    BY DEF Copied, UpToTerm
  <2>3. CASE i = Len(l)
    BY <1>3, <1>4, <1>5, <2>3 DEF Shares, Terms
  <2>4. CASE i # Len(l)
    <3>1. i \in 1..Len(log[s]) /\ l[i] = log[s][i]
      BY <1>4, <2>4
    <3>2. /\ l[i].term \in Terms \ {0} /\ l[i].term <= t
          /\ Shares(log[s], now[l[i].term], i)
      BY <2>1, <2>2, <3>1 DEF Copied, UpToTerm
    <3>. QED  BY <1>4, <3>1, <3>2 DEF Shares
  <2>. QED  BY <2>3, <2>4
<1>7. \A n \in round : LogMessage(n) /\ n.term = t /\ Repeats(n, l)
  <2>1. l \in Seq(Entry) /\ nextIndex[s] \in [Server -> Nat \ {0}]
    BY <1>2, <1>4
  <2>. QED  BY <2>1, HeartbeatsRepeat
<1>. HIDE DEF round
<1>8. LogTypes'
  <2>1. \A n \in msgs' : LogMessage(n)'
    BY <1>1, <1>2, <1>7 DEF LogTypes, LogMessage
  <2>2. log' \in [Server -> Seq(Entry)]
    BY <1>1, <1>2, <1>4
  <2>. QED  BY <1>1, <1>2, <2>1, <2>2 DEF LogTypes
<1>9. /\ \A u \in Terms : elected'[u] = {} => now[u] = <<>>
      /\ \A r \in Server : state'[r] = "LEADER" => now[currentTerm'[r]] = log'[r]
  <2>1. ASSUME NEW u \in Terms, elected'[u] = {} PROVE now[u] = <<>>
    BY <1>1, <1>2, <1>3, <1>5, <2>1 DEF LeadersLogs
  <2>2. ASSUME NEW r \in Server, state'[r] = "LEADER" PROVE now[currentTerm'[r]] = log'[r]
    <3>1. currentTerm[r] = t => r = s
      BY <1>1, <1>2, <1>3, <2>2 DEF IInv, VoteInv, ElectionSafety
    <3>. QED  BY <1>1, <1>2, <1>4, <1>5, <2>2, <3>1 DEF LeadersLogs
  <2>. QED  BY <2>1, <2>2
<1>10. \A u \in Terms : now[u] = led[u] \/ (Copied(now[u], now) /\ UpToTerm(now[u], u))
  BY <1>5, <1>6
<1>11. \A r \in Server :
          /\ currentTerm'[r] \in Terms /\ currentTerm'[r] >= currentTerm[r]
          /\ \/ log'[r] = log[r]
             \/ Copied(log'[r], now) /\ UpToTerm(log'[r], currentTerm'[r])
  <2>1. \A r \in Server : r # s => log'[r] = log[r]
    BY <1>1, <1>2
  <2>. QED  BY <1>1, <1>2, <1>4, <1>6, <2>1 DEF Terms
<1>12. \A n \in msgs' : n.rpc = "appendEntries" => n \in msgs \/ Repeats(n, now[n.term])
  <2>1. ASSUME NEW n \in round PROVE Repeats(n, now[n.term])
    <3>1. n.term = t /\ now[t] = l /\ Repeats(n, l)
      BY <1>5, <1>7
    <3>2. now[n.term] = l
      BY <3>1
    <3>. QED  BY <3>1, <3>2
  <2>. QED  BY <1>1, <2>1
<1>13. now \in [Terms -> Seq(Entry)] /\ Extends(now, led)
  BY <1>5
<1>. HIDE DEF t
<1>14. LedInv(now)'
  <2>1. \A u \in Terms : elected'[u] = {} => now[u] = <<>>
    BY <1>9
  <2>2. \A r \in Server : state'[r] = "LEADER" => now[currentTerm'[r]] = log'[r]
    BY <1>9
  <2>. QED  BY <1>8, <1>10, <1>11, <1>12, <1>13, <2>1, <2>2, LedStep, Zenon
<1>. QED  BY <1>13, <1>14

\* What handleAppendEntries() does to the office and the term of its node.
LEMMA AppendEntriesTerm ==
    ASSUME IInv, NEW m \in msgs, handleAppendEntries(m), ~(m.term < currentTerm[m.to])
    PROVE  /\ currentTerm' = [currentTerm EXCEPT ![m.to] = m.term]
           /\ state' = [state EXCEPT ![m.to] = "FOLLOWER"]
<1>. DEFINE s == m.to
<1>1. /\ s \in Server /\ m.term \in Terms /\ currentTerm \in [Server -> Terms]
      /\ state \in [Server -> {"FOLLOWER", "CANDIDATE", "LEADER"}]
  BY DEF IInv, ElectionTypes, WellFormed
<1>2. IF m.term > currentTerm[s] \/ state[s] # "FOLLOWER"
      THEN convertToFollower(s, m.term)
      ELSE UNCHANGED <<currentTerm, state>>
  BY Zenon DEF handleAppendEntries
<1>3. CASE m.term > currentTerm[s] \/ state[s] # "FOLLOWER"
  BY <1>2, <1>3 DEF convertToFollower
<1>4. CASE ~(m.term > currentTerm[s] \/ state[s] # "FOLLOWER")
  <2>1. m.term = currentTerm[s] /\ state[s] = "FOLLOWER" /\ UNCHANGED <<currentTerm, state>>
    BY <1>1, <1>2, <1>4 DEF Terms
  <2>. QED  BY <1>1, <2>1
<1>. QED  BY <1>3, <1>4

\* The log a follower is left with by a request that fits it.
LEMMA AppendedLog ==
    ASSUME IInv, NEW led, LedInv(led), NEW m \in msgs, m.rpc = "appendEntries",
           m.prevLogIndex <= Len(log[m.to]),
           m.prevLogIndex > 0 => log[m.to][m.prevLogIndex].term = m.prevLogTerm,
           currentTerm[m.to] <= m.term
    PROVE  LET l == log[m.to]
               k == led[m.term]
               new == Merged(l, m.prevLogIndex, m.entries)
           IN  /\ new \in Seq(Entry)
               /\ Copied(new, led) /\ UpToTerm(new, m.term)
               /\ Shares(new, k, m.prevLogIndex + Len(m.entries))
               /\ \A i \in Nat : Shares(l, k, i) => Shares(new, k, i)
               /\ new = l \/ Shares(new, k, Len(new))
<1>. DEFINE l == log[m.to]
            k == led[m.term]
            new == Merged(l, m.prevLogIndex, m.entries)
<1>1. /\ m.to \in Server /\ m.term \in Terms /\ currentTerm[m.to] \in Terms
      /\ led \in [Terms -> Seq(Entry)] /\ l \in Seq(Entry) /\ k \in Seq(Entry)
      /\ LogMessage(m) /\ Repeats(m, k)
      /\ Copied(l, led) /\ UpToTerm(l, currentTerm[m.to])
      /\ Copied(k, led) /\ UpToTerm(k, m.term)
  BY DEF LedInv, LeadersLogs, LogTypes, IInv, ElectionTypes, WellFormed
<1>2. /\ new \in Seq(Entry)
      /\ new = l \/ Shares(new, k, Len(new))
      /\ Shares(new, k, m.prevLogIndex + Len(m.entries))
      /\ \A i \in Nat : Shares(l, k, i) => Shares(new, k, i)
  BY <1>1, MergedShares
<1>. HIDE DEF new
<1>3. CASE new = l
  <2>1. UpToTerm(l, m.term)
    <3>1. \A i \in 1..Len(l) : l[i].term \in Terms
      BY <1>1 DEF Copied
    <3>. QED  BY <1>1, <3>1 DEF UpToTerm, Terms
  <2>. QED  BY <1>1, <1>2, <1>3, <2>1 DEF new
<1>4. CASE Shares(new, k, Len(new))
  BY <1>1, <1>2, <1>4, CopiedPrefix DEF new
<1>. QED  BY <1>2, <1>3, <1>4

LEMMA AppendEntriesLogs ==
    ASSUME IInv, NEW led, LedInv(led), NEW m \in msgs, handleAppendEntries(m)
    PROVE  LedInv(led)'
<1>. DEFINE s == m.to
            prev == m.prevLogIndex
            consistent == \/ prev = 0
                          \/ prev <= Len(log[s]) /\ log[s][prev].term = m.prevLogTerm
            new == Merged(log[s], prev, m.entries)
<1>1. /\ m.rpc = "appendEntries" /\ s \in Server /\ m.term \in Terms
      /\ currentTerm \in [Server -> Terms]
      /\ state \in [Server -> {"FOLLOWER", "CANDIDATE", "LEADER"}]
      /\ led \in [Terms -> Seq(Entry)] /\ log \in [Server -> Seq(Entry)]
      /\ LogMessage(m) /\ LogTypes /\ LeadersLogs(led)
      /\ UNCHANGED <<nextIndex, elected>>
  BY DEF handleAppendEntries, LedInv, LeadersLogs, LogTypes, IInv, ElectionTypes, WellFormed
<1>2. prev \in Nat /\ m.entries \in Seq(Entry)
  BY <1>1 DEF LogMessage
<1>3. CASE m.term < currentTerm[s]
  <2>. DEFINE reply == AppendResponse(m, currentTerm[s], FALSE, 0, 0)
  <2>1. msgs' = (msgs \ {m}) \cup {reply} /\ UNCHANGED <<currentTerm, state, log>>
    BY <1>3 DEF handleAppendEntries
  <2>2. LogMessage(reply) /\ reply.rpc # "appendEntries"
    BY DEF AppendResponse, LogMessage
  <2>. HIDE DEF reply
  <2>3. \A r \in Server :
           /\ currentTerm'[r] \in Terms /\ currentTerm'[r] >= currentTerm[r]
           /\ state'[r] # "FOLLOWER" => state'[r] = state[r] /\ currentTerm'[r] = currentTerm[r]
    BY <1>1, <2>1 DEF Terms
  <2>4. \A n \in msgs' : n \in msgs \/ (LogMessage(n) /\ n.rpc # "appendEntries")
    BY <2>1, <2>2
  <2>. QED  BY <1>1, <2>1, <2>3, <2>4, PassiveLogs
<1>4. CASE ~(m.term < currentTerm[s])
  <2>1. /\ currentTerm' = [currentTerm EXCEPT ![s] = m.term]
        /\ state' = [state EXCEPT ![s] = "FOLLOWER"]
    BY <1>4, AppendEntriesTerm
  <2>2. \A r \in Server :
           /\ currentTerm'[r] \in Terms /\ currentTerm'[r] >= currentTerm[r]
           /\ state'[r] # "FOLLOWER" => state'[r] = state[r] /\ currentTerm'[r] = currentTerm[r]
    BY <1>1, <1>4, <2>1 DEF Terms
  <2>3. CASE ~consistent
    <3>. DEFINE reply == AppendResponse(m, m.term, FALSE, 0, ConflictIndex(log[s], prev))
    <3>1. msgs' = (msgs \ {m}) \cup {reply} /\ UNCHANGED log
      BY <1>4, <2>3, Zenon DEF handleAppendEntries
    <3>2. ConflictIndex(log[s], prev) \in Nat
      <4>1. prev \in Nat \ {0} /\ log[s] \in Seq(Entry) /\ Copied(log[s], led)
        BY <1>1, <1>2, <2>3 DEF LedInv
      <4>. QED  BY <4>1, ConflictIndexType DEF Copied
    <3>3. LogMessage(reply) /\ reply.rpc # "appendEntries"
      BY <3>2 DEF AppendResponse, LogMessage
    <3>. HIDE DEF reply
    <3>. QED  BY <1>1, <2>2, <3>1, <3>3, PassiveLogs
  <2>4. CASE consistent
    <3>. DEFINE reply == AppendResponse(m, m.term, TRUE, prev + Len(m.entries), 0)
    <3>1. msgs' = (msgs \ {m}) \cup {reply} /\ log' = [log EXCEPT ![s] = new]
      BY <1>4, <2>4, Zenon DEF handleAppendEntries
    <3>2. LogMessage(reply) /\ reply.rpc # "appendEntries"
      BY <1>2 DEF AppendResponse, LogMessage
    <3>3. new \in Seq(Entry) /\ Copied(new, led) /\ UpToTerm(new, m.term)
      <4>1. /\ prev <= Len(log[s]) /\ (prev > 0 => log[s][prev].term = m.prevLogTerm)
            /\ currentTerm[s] <= m.term
        BY <1>1, <1>2, <1>4, <2>4 DEF Terms
      <4>. QED  BY <1>1, <4>1, AppendedLog
    <3>. HIDE DEF reply, new
    <3>4. \A n \in msgs' : n \in msgs \/ (LogMessage(n) /\ n.rpc # "appendEntries")
      BY <3>1, <3>2
    <3>5. LogTypes'
      <4>1. \A n \in msgs' : LogMessage(n)'
        BY <1>1, <3>4 DEF LogTypes, LogMessage
      <4>2. \A r \in Server : state'[r] # "FOLLOWER" => currentTerm'[r] # 0
        BY <1>1, <2>2 DEF LogTypes
      <4>. QED  BY <1>1, <3>1, <3>3, <4>1, <4>2 DEF LogTypes
    <3>6. /\ \A t \in Terms : elected'[t] = {} => led[t] = <<>>
          /\ \A r \in Server : state'[r] = "LEADER" => led[currentTerm'[r]] = log'[r]
      BY <1>1, <2>1, <3>1 DEF LeadersLogs
    <3>7. \A r \in Server :
             /\ currentTerm'[r] \in Terms /\ currentTerm'[r] >= currentTerm[r]
             /\ \/ log'[r] = log[r]
                \/ Copied(log'[r], led) /\ UpToTerm(log'[r], currentTerm'[r])
      BY <1>1, <2>1, <2>2, <3>1, <3>3
    <3>8. \A n \in msgs' : n.rpc = "appendEntries" => n \in msgs \/ Repeats(n, led[n.term])
      BY <3>4
    <3>9. \A t \in Terms : led[t] = led[t] \/ (Copied(led[t], led) /\ UpToTerm(led[t], t))
      OBVIOUS
    <3>. QED  BY <1>1, <3>5, <3>6, <3>7, <3>8, <3>9, ExtendsReflexive, LedStep
  <2>. QED  BY <2>3, <2>4
<1>. QED  BY <1>3, <1>4

-----------------------------------------------------------------------------
\* The theorem

LEMMA InitLogInv == Init => LogInv
<1>. SUFFICES ASSUME Init PROVE LogInv
  OBVIOUS
<1>. DEFINE none == [t \in Terms |-> <<>>]
<1>1. LogTypes
  BY DEF Init, LogTypes
<1>2. \A l : l = <<>> => Copied(l, none) /\ \A t : UpToTerm(l, t)
  BY DEF Copied, UpToTerm
<1>3. LeadersLogs(none)
  <2>1. none \in [Terms -> Seq(Entry)] /\ \A t \in Terms : none[t] = <<>>
    OBVIOUS
  <2>2. \A s \in Server : state[s] # "LEADER"
    BY DEF Init
  <2>. HIDE DEF none
  <2>. QED  BY <1>2, <2>1, <2>2 DEF LeadersLogs
<1>4. LedInv(none)
  <2>. HIDE DEF none
  <2>. QED  BY <1>1, <1>2, <1>3 DEF Init, LedInv
<1>. QED  BY <1>4 DEF LogInv

LEMMA NextLogInv == Timely /\ IInv /\ LogInv /\ [Next]_vars => LogInv'
<1>. SUFFICES ASSUME Timely, IInv, NEW led, LedInv(led), [Next]_vars
              PROVE  \E now : LedInv(now)'
  BY DEF LogInv
<1>1. ASSUME NEW s \in Server, ElectionTimeout(s) PROVE LedInv(led)'
  BY <1>1, TimeoutLogs
<1>2. ASSUME NEW s \in Server, SendHeartbeats(s) PROVE LedInv(led)'
  BY <1>2, HeartbeatLogs
<1>3. ASSUME NEW s \in Server, Restart(s) PROVE FALSE
  BY <1>3 DEF Restart, Timely, IInv, ElectionTypes
<1>4. ASSUME NEW s \in Server, NEW v \in Value, replicateCommand(s, v) PROVE \E now : LedInv(now)'
  BY <1>4, ReplicateLogs
<1>5. ASSUME \E v \in Value, b \in BOOLEAN : waitForCommit(v, b) PROVE LedInv(led)'
  BY <1>5, UntouchedLogs DEF waitForCommit, nodeVars
<1>6. ASSUME NEW m \in msgs, handleVoteRequest(m) PROVE LedInv(led)'
  BY <1>6, VoteRequestLogs
<1>7. ASSUME NEW m \in msgs, handleVoteResponse(m) PROVE \E now : LedInv(now)'
  <2>. DEFINE s == m.from
              t == m.election
              now == [led EXCEPT ![t] = log[s]]
  <2>1. CASE LedInv(led)'
    BY <2>1
  <2>2. CASE /\ convertToLeader(s, msgs \ {m}) /\ UNCHANGED <<currentTerm, log>>
             /\ s \in Server /\ t = currentTerm[s] /\ t \in Terms
             /\ state[s] = "CANDIDATE" /\ elected[t] = {}
    <3>1. LedInv(now)'
      BY <2>2, VictoryLogs
    <3>. QED  BY <3>1
  <2>. QED  BY <1>7, <2>1, <2>2, VoteResponseLogs
<1>8. ASSUME NEW m \in msgs, handleAppendEntries(m) PROVE LedInv(led)'
  BY <1>8, AppendEntriesLogs
<1>9. ASSUME NEW m \in msgs, handleAppendResponse(m) PROVE LedInv(led)'
  BY <1>9, AppendResponseLogs
<1>10. ASSUME NEW m \in msgs, RpcFails(m) PROVE LedInv(led)'
  BY <1>10, UntouchedLogs DEF RpcFails
<1>11. CASE UNCHANGED vars
  BY <1>11, UntouchedLogs DEF vars, nodeVars
<1>. QED  BY <1>1, <1>2, <1>3, <1>4, <1>5, <1>6, <1>7, <1>8, <1>9, <1>10, <1>11 DEF Next

LEMMA LogInvMatches == LogInv => LogMatching
<1>. SUFFICES ASSUME NEW led, LedInv(led), NEW p \in Server, NEW q \in Server,
                     NEW i \in DOMAIN log[p] \cap DOMAIN log[q],
                     log[p][i].term = log[q][i].term
              PROVE  SubSeq(log[p], 1, i) = SubSeq(log[q], 1, i)
  BY DEF LogInv, LogMatching
<1>1. /\ log[p] \in Seq(Entry) /\ log[q] \in Seq(Entry)
      /\ Copied(log[p], led) /\ Copied(log[q], led)
  BY DEF LedInv, LogTypes
<1>2. i \in 1..Len(log[p]) /\ i <= Len(log[q]) /\ i \in Nat
  BY <1>1
<1>3. Shares(log[p], log[q], i)
  BY <1>1, <1>2, CopiedShares
<1>. QED  BY <1>1, <1>2, <1>3 DEF Shares

\* With timely responses and no restarts, two logs that hold an entry of the same term at
\* an index are identical up to it, however requests are lost, delayed or reordered.
THEOREM LogsMatch ==
    ASSUME Timely
    PROVE  Spec => []LogMatching
<1>1. Init => IInv /\ LogInv
  BY InitIInv, InitLogInv
<1>2. IInv /\ LogInv /\ [Next]_vars => (IInv /\ LogInv)'
  BY NextIInv, NextLogInv
<1>. QED  BY <1>1, <1>2, LogInvMatches, PTL DEF Spec

=============================================================================
