-------------------------- MODULE RaftCommitProofs --------------------------
(***************************************************************************)
(* What RaftNode commits, for any number of nodes, terms, commands and     *)
(* messages, under the conditions of RaftNodeProofs and one more.  The     *)
(* code lets a follower commit as far as leaderCommit says and its log     *)
(* reaches, whether or not the request told it that its log is the         *)
(* leader's that far (the run raft_commit); Vouched says of the requests   *)
(* that they did.  It holds when every log fits in one request.            *)
(*                                                                         *)
(* An entry is chosen when a majority has acknowledged it to the leader of *)
(* its term.  The argument is that an entry that is chosen, or still may   *)
(* be, is never lost: those who hold it keep it, those who vote look for   *)
(* it in the log of the candidate, and so every later leader has it.       *)
(***************************************************************************)
EXTENDS RaftNodeProofs

USE ServerAssumption, BoundAssumption

Vouched ==
    \A m \in msgs : m.rpc = "appendEntries" =>
        m.leaderCommit <= m.prevLogIndex + Len(m.entries)

Quorum == {Q \in SUBSET Server : Cardinality(Q) >= Majority}

\* acked[t][p] is the highest index p has acknowledged to the leader of term t.
Acks == [Terms -> [Server -> Nat]]

Chosen(i, t, acked) == \E Q \in Quorum : \A q \in Q : acked[t][q] >= i

\* The leader of t has an entry of t at index i, and those that can no longer acknowledge
\* it do not keep a majority from having done so in the end.
MayChoose(i, t, led, acked) ==
    /\ Has(led[t], i, t)
    /\ \E Q \in Quorum : \A q \in Q : currentTerm[q] > t => acked[t][q] >= i

\* Of the first n entries of the leader of t, the log l has those of t that may be chosen.
Keeps(l, n, t, led, acked) ==
    \A i \in 1..n : MayChoose(i, t, led, acked) => Has(l, i, t)

CommitTypes ==
    /\ commitIndex \in [Server -> Nat]
    /\ matchIndex \in [Server -> [Server -> Nat]]
    /\ applied \in [Server -> Seq(Value)]
    /\ \A m \in msgs : m.rpc = "appendEntries" => m.leaderCommit \in Nat

\* What a node has acknowledged is in its log, and leaders count no more than that.
AckInv(led, acked) ==
    /\ acked \in Acks
    /\ \A t \in Terms, p \in Server :
          /\ acked[t][p] <= Len(led[t])
          /\ t > currentTerm[p] => acked[t][p] = 0
    /\ \A p \in Server : Shares(log[p], led[currentTerm[p]], acked[currentTerm[p]][p])
    /\ \A s \in Server : state[s] = "LEADER" =>
          /\ acked[currentTerm[s]][s] = Len(log[s])
          /\ \A p \in Server : matchIndex[s][p] <= acked[currentTerm[s]][p]
    /\ \A m \in msgs : m.rpc = "appendResponse" /\ m.success =>
          m.matchIndex <= acked[m.sentIn][m.to]

\* What may be chosen is kept by whoever acknowledged it and held by every later leader.
KeptInv(led, acked) ==
    /\ \A p \in Server, t \in Terms :
          t <= currentTerm[p] => Keeps(log[p], acked[t][p], t, led, acked)
    /\ \A t, u \in Terms :
          t < u /\ elected[u] # {} => Keeps(led[u], Len(led[t]), t, led, acked)

\* A candidate has whatever may be chosen that one of its voters acknowledged.  What it
\* asks with is its log as it is: a log does not change in an election.
BallotInv(led, acked) ==
    /\ \A s, q \in Server :
          (state[s] = "CANDIDATE" /\ Voted(q, s, currentTerm[s])) =>
             \A t \in Terms : t < currentTerm[s] => Keeps(log[s], acked[t][q], t, led, acked)
    /\ \A m \in msgs : m.rpc = "requestVote" =>
          /\ m.term <= currentTerm[m.from]
          /\ (state[m.from] = "CANDIDATE" /\ currentTerm[m.from] = m.term) =>
                m.lastLogIndex = Len(log[m.from]) /\ m.lastLogTerm = LastTerm(log[m.from])
    /\ \A q, s \in Server, t \in Terms : Voted(q, s, t) => t <= currentTerm[s]

\* The first c entries of l are chosen, or follow from one that is, of term u at most.
Committed(l, c, u, led, acked) ==
    \/ c = 0
    \/ \E t \in Terms : t <= u /\ \E j \in Nat :
          j >= c /\ Has(led[t], j, t) /\ Chosen(j, t, acked) /\ Shares(l, led[t], c)

CommitInv(led, acked) ==
    /\ \A s \in Server : Committed(log[s], commitIndex[s], currentTerm[s], led, acked)
    /\ \A m \in msgs : m.rpc = "appendEntries" =>
          Committed(led[m.term], m.leaderCommit, m.term, led, acked)
    /\ AppliedIsLogPrefix

Inv(led, acked) ==
    /\ IInv /\ LedInv(led) /\ CommitTypes /\ AckInv(led, acked) /\ KeptInv(led, acked)
    /\ BallotInv(led, acked) /\ CommitInv(led, acked)

-----------------------------------------------------------------------------
\* Majorities and logs

LEMMA QuorumsMeet ==
    ASSUME NEW P \in Quorum, NEW Q \in Quorum
    PROVE  \E q \in Server : q \in P /\ q \in Q
<1>1. /\ P \subseteq Server /\ Q \subseteq Server
      /\ Cardinality(P) + Cardinality(Q) > Cardinality(Server)
  BY FS_CardinalityType, FS_Subset DEF Quorum, Majority
<1>2. P \cap Q # {}
  BY <1>1, FS_MajoritiesIntersect
<1>. QED  BY <1>1, <1>2

\* A majority voted for the node elected in a term, and is not behind that term.
LEMMA Electorate ==
    ASSUME IInv, NEW u \in Terms, elected[u] # {}
    PROVE  \E Q \in Quorum : \A q \in Q : currentTerm[q] >= u
<1>1. PICK s \in Server : s \in elected[u]
  BY DEF IInv, ElectionTypes
<1>2. /\ votes[s][u] \in Quorum /\ currentTerm[s] >= u
  BY <1>1 DEF IInv, ElectionTypes, VoteInv, Quorum, Terms
<1>3. \A q \in votes[s][u] : currentTerm[q] >= u
  <2>1. ASSUME NEW q \in votes[s][u], q # s PROVE currentTerm[q] >= u
    <3>1. q \in Server /\ Voted(q, s, u)
      BY <1>1, <2>1 DEF Voted, IInv, ElectionTypes
    <3>. QED  BY <1>1, <2>1, <3>1 DEF IInv, VoteInv, ElectionTypes, Terms
  <2>. QED  BY <1>2, <2>1
<1>. QED  BY <1>2, <1>3

\* The terms of a log never fall.
LEMMA SortedLog ==
    ASSUME NEW led \in [Terms -> Seq(Entry)], NEW l \in Seq(Entry), Copied(l, led),
           \A t \in Terms : UpToTerm(led[t], t),
           NEW j \in 1..Len(l), NEW i \in 1..j
    PROVE  l[i].term \in Terms /\ l[j].term \in Terms /\ l[i].term <= l[j].term
<1>. DEFINE u == l[j].term
<1>1. /\ u \in Terms /\ Shares(l, led[u], j) /\ i \in 1..Len(l) /\ l[i].term \in Terms
      /\ UpToTerm(led[u], u) /\ led[u] \in Seq(Entry)
  BY DEF Copied
<1>2. i \in 1..Len(led[u]) /\ l[i] = led[u][i]
  BY <1>1 DEF Shares
<1>. QED  BY <1>1, <1>2 DEF UpToTerm

\* An entry of term t is in the log of the leader of t: there was one.
LEMMA LedEntry ==
    ASSUME NEW led, LedInv(led), NEW l \in Seq(Entry), Copied(l, led), NEW i, NEW t, Has(l, i, t)
    PROVE  /\ t \in Terms \ {0} /\ Shares(l, led[t], i) /\ Has(led[t], i, t)
           /\ elected[t] # {}
<1>1. /\ i \in 1..Len(l) /\ i \in Nat /\ l[i].term = t
      /\ led \in [Terms -> Seq(Entry)]
      /\ t \in Terms \ {0} /\ Shares(l, led[t], i)
  BY DEF Has, Copied, LedInv, LeadersLogs
<1>2. i \in 1..Len(led[t]) /\ led[t][i] = l[i]
  BY <1>1 DEF Shares
<1>3. elected[t] # {}
  BY <1>1, <1>2 DEF LedInv, LeadersLogs
<1>. QED  BY <1>1, <1>2, <1>3 DEF Has

\* What is chosen may be.
LEMMA ChosenMayChoose ==
    ASSUME NEW led, NEW acked, NEW i, NEW t, Has(led[t], i, t), Chosen(i, t, acked)
    PROVE  MayChoose(i, t, led, acked)
BY DEF Chosen, MayChoose

\* What is committed in a term is in the log of the leader of any later term.
LEMMA CommittedLed ==
    ASSUME NEW led, NEW acked, LedInv(led), KeptInv(led, acked),
           NEW l \in Seq(Entry), NEW c \in Nat, NEW u \in Terms, Committed(l, c, u, led, acked),
           NEW w \in Terms, u <= w, elected[w] # {}
    PROVE  /\ Shares(l, led[w], c)
           /\ Committed(led[w], c, w, led, acked)
<1>1. led \in [Terms -> Seq(Entry)] /\ \A t \in Terms : Copied(led[t], led)
  BY DEF LedInv, LeadersLogs
<1>2. CASE c = 0
  BY <1>1, <1>2 DEF Shares, Committed
<1>3. CASE c # 0
  <2>1. PICK t \in Terms, j \in Nat :
           /\ t <= u /\ j >= c /\ Has(led[t], j, t) /\ Chosen(j, t, acked)
           /\ Shares(l, led[t], c)
    BY <1>3 DEF Committed
  <2>2. Has(led[w], j, t)
    <3>1. CASE t = w
      BY <2>1, <3>1
    <3>2. CASE t # w
      <4>1. t < w
        BY <2>1, <3>2 DEF Terms
      <4>2. MayChoose(j, t, led, acked) /\ j \in 1..Len(led[t])
        BY <2>1, ChosenMayChoose DEF Has
      <4>3. Keeps(led[w], Len(led[t]), t, led, acked)
        BY <4>1 DEF KeptInv
      <4>. QED  BY <4>2, <4>3 DEF Keeps
    <3>. QED  BY <3>1, <3>2
  <2>3. Shares(led[w], led[t], j)
    <3>1. /\ j \in 1..Len(led[w]) /\ j <= Len(led[t]) /\ led[w][j].term = led[t][j].term
          /\ led[t] \in Seq(Entry) /\ led[w] \in Seq(Entry)
      BY <1>1, <2>1, <2>2 DEF Has
    <3>. QED  BY <1>1, <3>1, CopiedShares
  <2>4. c \in 0..j /\ led[t] \in Seq(Entry) /\ led[w] \in Seq(Entry)
    BY <1>1, <2>1
  <2>5. Shares(led[w], led[t], c)
    BY <2>1, <2>3, <2>4, SharesLess
  <2>6. Shares(l, led[w], c)
    BY <2>1, <2>4, <2>5, SharesVia
  <2>7. t <= w
    BY <2>1 DEF Terms
  <2>. QED  BY <2>1, <2>5, <2>6, <2>7 DEF Committed
<1>. QED  BY <1>2, <1>3

\* isLogUpToDate(): whoever is granted a vote has what its voter keeps.
LEMMA UpToDateKeeps ==
    ASSUME NEW led, NEW acked, LedInv(led), KeptInv(led, acked),
           NEW l \in Seq(Entry), Copied(l, led), NEW k \in Seq(Entry), Copied(k, led),
           IF LastTerm(k) # LastTerm(l) THEN LastTerm(l) > LastTerm(k) ELSE Len(l) >= Len(k),
           NEW i \in Nat, NEW t \in Terms, MayChoose(i, t, led, acked), Has(k, i, t)
    PROVE  Has(l, i, t)
<1>1. /\ led \in [Terms -> Seq(Entry)] /\ \A u \in Terms : Copied(led[u], led) /\ UpToTerm(led[u], u)
  BY DEF LedInv, LeadersLogs
<1>2. /\ i \in 1..Len(k) /\ Len(k) \in 1..Len(k) /\ k[i].term = t
      /\ LastTerm(k) = k[Len(k)].term
      /\ Len(k) \in Nat /\ Len(l) \in Nat
  BY DEF Has, LastTerm, TermAt
<1>3. t <= LastTerm(k) /\ LastTerm(k) \in Terms \ {0}
  BY <1>1, <1>2, SortedLog DEF Copied
<1>4. /\ Len(l) # 0 /\ LastTerm(l) = l[Len(l)].term /\ Len(l) \in 1..Len(l)
      /\ LastTerm(l) \in Terms /\ t <= LastTerm(l)
  <2>1. Len(l) # 0
    BY <1>2, <1>3 DEF LastTerm, TermAt, Terms
  <2>2. LastTerm(l) = l[Len(l)].term /\ Len(l) \in 1..Len(l)
    BY <1>2, <2>1 DEF LastTerm, TermAt
  <2>3. LastTerm(l) \in Terms
    BY <2>2 DEF Copied
  <2>. QED  BY <1>3, <2>1, <2>2, <2>3 DEF Terms
<1>. DEFINE w == LastTerm(l)
<1>5. Has(l, Len(l), w) /\ Shares(l, led[w], Len(l)) /\ Has(led[w], Len(l), w) /\ elected[w] # {}
  BY <1>4, LedEntry DEF Has
<1>. HIDE DEF w
<1>6. CASE LastTerm(k) = w
  <2>1. Has(k, Len(k), w)
    BY <1>2, <1>6 DEF Has
  <2>2. Shares(k, led[w], Len(k)) /\ Len(l) >= Len(k)
    BY <1>6, <2>1, LedEntry DEF w
  <2>3. l[i] = k[i] /\ i \in 1..Len(l)
    BY <1>2, <1>5, <2>2 DEF Shares
  <2>. QED  BY <1>2, <2>3 DEF Has
<1>7. CASE LastTerm(k) # w
  <2>1. t < w /\ w \in Terms /\ led[w] \in Seq(Entry)
    BY <1>1, <1>3, <1>4, <1>7 DEF w, Terms
  <2>2. Has(led[w], i, t)
    <3>1. i \in 1..Len(led[t])
      BY DEF MayChoose, Has
    <3>2. Keeps(led[w], Len(led[t]), t, led, acked)
      BY <1>5, <2>1 DEF KeptInv
    <3>. QED  BY <3>1, <3>2 DEF Keeps
  <2>3. i <= Len(l)
    <3>. SUFFICES ASSUME i > Len(l) PROVE FALSE
      BY <1>2
    <3>1. Len(l) \in 1..i /\ i \in 1..Len(led[w])
      BY <1>2, <1>4, <2>2 DEF Has
    <3>2. led[w][Len(l)].term <= led[w][i].term
      BY <1>1, <2>1, <3>1, SortedLog
    <3>3. led[w][Len(l)].term = w /\ led[w][i].term = t
      BY <1>5, <2>2 DEF Has
    <3>. QED  BY <2>1, <3>2, <3>3 DEF Terms
  <2>4. l[i] = led[w][i] /\ i \in 1..Len(l)
    BY <1>2, <1>5, <2>3 DEF Shares
  <2>. QED  BY <2>2, <2>4 DEF Has
<1>. QED  BY <1>6, <1>7

-----------------------------------------------------------------------------
\* Steps

\* Leaders' logs and acknowledgements grow, these for the current term only.
Advance(led, acked, now, acks) ==
    /\ now \in [Terms -> Seq(Entry)] /\ acks \in Acks
    /\ Extends(now, led)
    /\ \A p \in Server : currentTerm'[p] \in Terms /\ currentTerm'[p] >= currentTerm[p]
    /\ \A t \in Terms, p \in Server :
          acks[t][p] = acked[t][p] \/ (t = currentTerm'[p] /\ acks[t][p] >= acked[t][p])

\* An entry that was there may be chosen after a step only if it could be before.
LEMMA MayChooseBefore ==
    ASSUME NEW led, NEW acked, NEW now, NEW acks, Advance(led, acked, now, acks),
           IInv, LedInv(led), AckInv(led, acked),
           NEW t \in Terms, NEW i \in Nat, i <= Len(led[t]), MayChoose(i, t, now, acks)'
    PROVE  MayChoose(i, t, led, acked)
<1>1. Has(now[t], i, t) /\ \E Q \in Quorum : \A q \in Q : currentTerm'[q] > t => acks[t][q] >= i
  BY DEF MayChoose
<1>2. Has(led[t], i, t)
  <2>1. led[t] \in Seq(Entry) /\ now[t] \in Seq(Entry) /\ Shares(now[t], led[t], Len(led[t]))
    BY DEF Advance, Extends, LedInv, LeadersLogs
  <2>. QED  BY <1>1, <2>1 DEF Has, Shares
<1>3. PICK Q \in Quorum : \A q \in Q : currentTerm'[q] > t => acks[t][q] >= i
  BY <1>1
<1>4. ASSUME NEW q \in Q, currentTerm[q] > t PROVE acked[t][q] >= i
  <2>1. q \in Server
    BY DEF Quorum
  <2>2. /\ currentTerm[q] \in Terms /\ currentTerm'[q] \in Terms
        /\ currentTerm'[q] >= currentTerm[q]
        /\ acks[t][q] = acked[t][q] \/ t = currentTerm'[q]
    BY <2>1 DEF Advance, IInv, ElectionTypes
  <2>3. currentTerm'[q] > t /\ acks[t][q] = acked[t][q]
    BY <1>4, <2>2 DEF Terms
  <2>. QED  BY <1>3, <2>3
<1>. QED  BY <1>2, <1>4 DEF MayChoose

LEMMA KeepsStay ==
    ASSUME NEW led, NEW acked, NEW now, NEW acks, Advance(led, acked, now, acks),
           IInv, LedInv(led), AckInv(led, acked),
           NEW t \in Terms, NEW n \in Nat, n <= Len(led[t]),
           NEW l, Keeps(l, n, t, led, acked)
    PROVE  Keeps(l, n, t, now, acks)'
<1>. SUFFICES ASSUME NEW i \in 1..n, MayChoose(i, t, now, acks)' PROVE Has(l, i, t)
  BY DEF Keeps
<1>1. i \in Nat /\ i <= Len(led[t])
  BY DEF LedInv, LeadersLogs
<1>2. MayChoose(i, t, led, acked)
  BY <1>1, MayChooseBefore
<1>. QED  BY <1>2 DEF Keeps

LEMMA AckStep ==
    ASSUME NEW led, NEW acked, NEW now, NEW acks, Advance(led, acked, now, acks),
           IInv, LedInv(led), LedInv(now)', AckInv(led, acked),
           \A p \in Server :
              \/ log'[p] = log[p] /\ \A t \in Terms : acks[t][p] = acked[t][p]
              \/ Shares(log'[p], now[currentTerm'[p]], acks[currentTerm'[p]][p]),
           \A s \in Server : state'[s] = "LEADER" =>
              \/ /\ state[s] = "LEADER" /\ currentTerm'[s] = currentTerm[s]
                 /\ log'[s] = log[s] /\ matchIndex'[s] = matchIndex[s]
                 /\ \A t \in Terms : acks[t][s] = acked[t][s]
              \/ /\ acks[currentTerm'[s]][s] = Len(log'[s])
                 /\ \A p \in Server : matchIndex'[s][p] <= acks[currentTerm'[s]][p],
           matchIndex \in [Server -> [Server -> Nat]],
           \A m \in msgs' : m.rpc = "appendResponse" /\ m.success =>
              (m \in msgs /\ m.matchIndex \in Nat) \/ m.matchIndex <= acks[m.sentIn][m.to]
    PROVE  AckInv(now, acks)'
<1>1. /\ acks \in Acks /\ acked \in Acks /\ led \in [Terms -> Seq(Entry)]
      /\ now \in [Terms -> Seq(Entry)] /\ currentTerm \in [Server -> Terms]
      /\ log \in [Server -> Seq(Entry)] /\ log' \in [Server -> Seq(Entry)]
      /\ \A p \in Server : currentTerm'[p] \in Terms /\ currentTerm'[p] >= currentTerm[p]
      /\ \A t \in Terms, p \in Server :
            acks[t][p] = acked[t][p] \/ (t = currentTerm'[p] /\ acks[t][p] >= acked[t][p])
  BY DEF Advance, AckInv, IInv, ElectionTypes, LedInv, LeadersLogs, LogTypes
<1>2. \A t \in Terms : /\ Shares(now[t], led[t], Len(led[t]))
                       /\ Len(led[t]) <= Len(now[t])
  BY <1>1 DEF Advance, Extends, Shares
<1>3. \A t \in Terms, p \in Server :
         /\ acked[t][p] \in Nat /\ acks[t][p] \in Nat /\ acks[t][p] >= acked[t][p]
         /\ acked[t][p] <= Len(led[t])
         /\ t > currentTerm[p] => acked[t][p] = 0
  BY <1>1 DEF AckInv, Acks
<1>4. ASSUME NEW p \in Server
      PROVE  Shares(log'[p], now[currentTerm'[p]], acks[currentTerm'[p]][p])
  <2>. DEFINE t == currentTerm'[p]
  <2>1. CASE log'[p] = log[p] /\ acks[t][p] = acked[t][p]
    <3>1. t \in Terms /\ acked[t][p] \in Nat /\ log[p] \in Seq(Entry)
          /\ led[t] \in Seq(Entry) /\ now[t] \in Seq(Entry)
      BY <1>1, <1>3
    <3>2. Shares(log[p], led[t], acked[t][p])
      <4>1. CASE t = currentTerm[p]
        BY <4>1 DEF AckInv
      <4>2. CASE t # currentTerm[p]
        <5>1. acked[t][p] = 0
          <6>1. t > currentTerm[p]
            BY <1>1, <3>1, <4>2 DEF Terms
          <6>. QED  BY <1>3, <3>1, <6>1
        <5>. QED  BY <3>1, <5>1 DEF Shares
      <4>. QED  BY <4>1, <4>2
    <3>. HIDE DEF t
    <3>3. Shares(now[t], led[t], acked[t][p])
      <4>1. Shares(now[t], led[t], Len(led[t])) /\ acked[t][p] \in 0..Len(led[t])
        BY <1>2, <1>3, <3>1
      <4>. QED  BY <3>1, <4>1, SharesLess
    <3>4. Shares(log[p], now[t], acked[t][p])
      BY <3>1, <3>2, <3>3, SharesVia
    <3>. QED  BY <2>1, <3>4 DEF t
  <2>. QED  BY <1>1, <2>1
<1>5. ASSUME NEW t \in Terms, NEW p \in Server
      PROVE  /\ acks[t][p] <= Len(now[t])
             /\ t > currentTerm'[p] => acks[t][p] = 0
  <2>1. CASE t = currentTerm'[p]
    BY <1>1, <1>4, <2>1 DEF Shares, Terms
  <2>2. CASE t # currentTerm'[p]
    <3>1. acks[t][p] = acked[t][p]
      BY <1>1, <2>2
    <3>2. Len(led[t]) \in Nat /\ Len(now[t]) \in Nat
      BY <1>1
    <3>3. t > currentTerm'[p] => t > currentTerm[p]
      BY <1>1 DEF Terms
    <3>. QED  BY <1>2, <1>3, <3>1, <3>2, <3>3
  <2>. QED  BY <2>1, <2>2
<1>6. ASSUME NEW s \in Server, state'[s] = "LEADER"
      PROVE  /\ acks[currentTerm'[s]][s] = Len(log'[s])
             /\ \A p \in Server : matchIndex'[s][p] <= acks[currentTerm'[s]][p]
  <2>1. CASE /\ state[s] = "LEADER" /\ currentTerm'[s] = currentTerm[s]
             /\ log'[s] = log[s] /\ matchIndex'[s] = matchIndex[s]
             /\ \A t \in Terms : acks[t][s] = acked[t][s]
    <3>1. currentTerm[s] \in Terms
      BY <1>1
    <3>2. /\ acked[currentTerm[s]][s] = Len(log[s])
          /\ \A p \in Server : matchIndex[s][p] <= acked[currentTerm[s]][p]
      BY <2>1 DEF AckInv
    <3>3. \A p \in Server : matchIndex[s][p] \in Nat
      OBVIOUS
    <3>4. ASSUME NEW p \in Server PROVE matchIndex[s][p] <= acks[currentTerm[s]][p]
      <4>1. /\ acks[currentTerm[s]][p] >= acked[currentTerm[s]][p]
            /\ acks[currentTerm[s]][p] \in Nat /\ acked[currentTerm[s]][p] \in Nat
        BY <1>3, <3>1
      <4>. QED  BY <3>2, <3>3, <4>1
    <3>. QED  BY <2>1, <3>1, <3>2, <3>4
  <2>. QED  BY <1>6, <2>1
<1>7. ASSUME NEW m \in msgs', m.rpc = "appendResponse", m.success
      PROVE  m.matchIndex <= acks[m.sentIn][m.to]
  <2>1. CASE m \in msgs /\ m.matchIndex \in Nat
    <3>1. m.sentIn \in Terms /\ m.to \in Server
      BY <1>7, <2>1 DEF IInv, ElectionTypes, WellFormed
    <3>2. m.matchIndex <= acked[m.sentIn][m.to]
      BY <1>7, <2>1 DEF AckInv
    <3>. QED  BY <1>3, <2>1, <3>1, <3>2
  <2>. QED  BY <1>7, <2>1
<1>. QED  BY <1>1, <1>4, <1>5, <1>6, <1>7 DEF AckInv

LEMMA KeptStep ==
    ASSUME NEW led, NEW acked, NEW now, NEW acks, Advance(led, acked, now, acks),
           IInv, LedInv(led), AckInv(led, acked), AckInv(now, acks)', KeptInv(led, acked),
           \A p \in Server, t \in Terms, i \in Nat :
              t < currentTerm'[p] /\ Has(log[p], i, t) /\ MayChoose(i, t, led, acked) =>
                 Has(log'[p], i, t),
           \A t, u \in Terms : t < u /\ elected'[u] # {} =>
              \/ elected[u] # {} /\ Len(now[t]) = Len(led[t])
              \/ Keeps(now[u], Len(now[t]), t, now, acks)'
    PROVE  KeptInv(now, acks)'
<1>1. /\ acks \in Acks /\ acked \in Acks /\ led \in [Terms -> Seq(Entry)]
      /\ now \in [Terms -> Seq(Entry)] /\ currentTerm \in [Server -> Terms]
      /\ \A p \in Server : currentTerm'[p] \in Terms /\ currentTerm'[p] >= currentTerm[p]
      /\ \A t \in Terms, p \in Server : acks[t][p] = acked[t][p] \/ t = currentTerm'[p]
  BY DEF Advance, AckInv, IInv, ElectionTypes, LedInv, LeadersLogs
<1>2. ASSUME NEW p \in Server, NEW t \in Terms, t <= currentTerm'[p],
             NEW i \in 1..acks[t][p], MayChoose(i, t, now, acks)'
      PROVE  Has(log'[p], i, t)
  <2>0. acks[t][p] \in Nat /\ acked[t][p] \in Nat /\ i \in Nat
    BY <1>1 DEF Acks
  <2>1. CASE t = currentTerm'[p]
    <3>1. Shares(log'[p], now[t], acks[t][p])
      BY <2>1 DEF AckInv
    <3>2. Has(now[t], i, t)
      BY <1>2 DEF MayChoose
    <3>. QED  BY <2>0, <3>1, <3>2 DEF Has, Shares
  <2>2. CASE t # currentTerm'[p]
    <3>1. acks[t][p] = acked[t][p] /\ t < currentTerm'[p]
      BY <1>1, <1>2, <2>2 DEF Terms
    <3>2. acked[t][p] <= Len(led[t]) /\ (t > currentTerm[p] => acked[t][p] = 0)
      BY DEF AckInv
    <3>3. t <= currentTerm[p] /\ i <= Len(led[t])
      <4>1. Len(led[t]) \in Nat /\ currentTerm[p] \in Nat /\ t \in Nat
        BY <1>1 DEF Terms
      <4>. QED  BY <2>0, <3>1, <3>2, <4>1
    <3>4. MayChoose(i, t, led, acked)
      BY <1>2, <2>0, <3>3, MayChooseBefore
    <3>5. Has(log[p], i, t)
      BY <3>1, <3>3, <3>4 DEF KeptInv, Keeps
    <3>. QED  BY <2>0, <3>1, <3>4, <3>5
  <2>. QED  BY <2>1, <2>2
<1>3. ASSUME NEW t \in Terms, NEW u \in Terms, t < u, elected'[u] # {}
      PROVE  Keeps(now[u], Len(now[t]), t, now, acks)'
  <2>1. CASE elected[u] # {} /\ Len(now[t]) = Len(led[t])
    <3>1. Keeps(led[u], Len(led[t]), t, led, acked)
      BY <1>3, <2>1 DEF KeptInv
    <3>2. Keeps(led[u], Len(led[t]), t, now, acks)'
      <4>. DEFINE n == Len(led[t])
                  l == led[u]
      <4>1. n \in Nat /\ n <= Len(led[t]) /\ Keeps(l, n, t, led, acked)
        BY <1>1, <3>1
      <4>. HIDE DEF n, l
      <4>2. Keeps(l, n, t, now, acks)'
        BY <4>1, KeepsStay
      <4>. QED  BY <4>2 DEF n, l
    <3>3. Shares(now[u], led[u], Len(led[u])) /\ led[u] \in Seq(Entry) /\ now[u] \in Seq(Entry)
      BY <1>1 DEF Advance, Extends
    <3>4. \A i : Has(led[u], i, t) => Has(now[u], i, t)
      BY <3>3 DEF Has, Shares
    <3>. QED  BY <2>1, <3>2, <3>4 DEF Keeps
  <2>. QED  BY <1>3, <2>1
<1>4. ASSUME NEW p \in Server, NEW t \in Terms, t <= currentTerm'[p]
      PROVE  Keeps(log[p], acks[t][p], t, now, acks)'
  BY <1>2, <1>4 DEF Keeps
<1>. QED  BY <1>3, <1>4 DEF KeptInv

\* Whoever becomes or stays a candidate does so with the log it had.
LEMMA BallotStep ==
    ASSUME NEW led, NEW acked, NEW now, NEW acks, Advance(led, acked, now, acks),
           IInv, IInv', LedInv(led), AckInv(led, acked), KeptInv(led, acked),
           BallotInv(led, acked),
           \A s \in Server : state'[s] = "CANDIDATE" =>
              /\ log'[s] = log[s]
              /\ currentTerm'[s] = currentTerm[s] => state[s] = "CANDIDATE",
           \A q, s \in Server, t \in Terms : Voted(q, s, t)' =>
              \/ Voted(q, s, t)
              \/ q = s /\ t <= currentTerm'[s]
              \/ /\ t <= currentTerm[s] /\ acks = acked
                 /\ state[s] = "CANDIDATE" /\ t = currentTerm[s] =>
                       \A u \in Terms : u < t => Keeps(log[s], acked[u][q], u, led, acked),
           \A m \in msgs' : m.rpc = "requestVote" =>
              \/ m \in msgs
              \/ /\ m.term = currentTerm'[m.from]
                 /\ m.lastLogIndex = Len(log'[m.from])
                 /\ m.lastLogTerm = LastTerm(log'[m.from])
    PROVE  BallotInv(now, acks)'
<1>1. /\ acks \in Acks /\ acked \in Acks /\ currentTerm \in [Server -> Terms]
      /\ led \in [Terms -> Seq(Entry)]
      /\ \A p \in Server : currentTerm'[p] \in Terms /\ currentTerm'[p] >= currentTerm[p]
      /\ \A t \in Terms, p \in Server : acks[t][p] = acked[t][p] \/ t = currentTerm'[p]
      /\ \A t \in Terms, p \in Server :
            /\ acked[t][p] \in Nat /\ acked[t][p] <= Len(led[t])
            /\ t > currentTerm[p] => acked[t][p] = 0
  BY DEF Advance, AckInv, IInv, ElectionTypes, LedInv, LeadersLogs, Acks
<1>2. ASSUME NEW s \in Server, NEW q \in Server, state'[s] = "CANDIDATE",
             Voted(q, s, currentTerm[s])', NEW t \in Terms, t < currentTerm'[s]
      PROVE  Keeps(log[s], acks[t][q], t, now, acks)'
  <2>0. PICK l, n, w : l = log[s] /\ n = acked[t][q] /\ w = currentTerm'[s]
    OBVIOUS
  <2>1. /\ log'[s] = l /\ n \in Nat /\ n <= Len(led[t]) /\ w \in Terms /\ w >= currentTerm[s]
        /\ currentTerm[s] \in Terms /\ currentTerm[q] \in Terms /\ t < w
        /\ w = currentTerm[s] => state[s] = "CANDIDATE"
        /\ acks[t][q] = n \/ t = currentTerm'[q]
    BY <1>1, <1>2, <2>0
  <2>2. Voted(q, s, w)'
    BY <1>2, <2>0 DEF Voted
  <2>3. acks[t][q] = n /\ Keeps(l, n, t, led, acked)
    <3>1. CASE q = s
      <4>1. acks[t][q] = n
        BY <2>0, <2>1, <3>1 DEF Terms
      <4>2. CASE t <= currentTerm[s]
        BY <2>0, <3>1, <4>1, <4>2 DEF KeptInv
      <4>3. CASE ~(t <= currentTerm[s])
        <5>1. n = 0
          BY <1>1, <2>0, <2>1, <3>1, <4>3 DEF Terms
        <5>. QED  BY <4>1, <5>1 DEF Keeps
      <4>. QED  BY <4>2, <4>3
    <3>2. CASE q # s /\ Voted(q, s, w)
      <4>1. w = currentTerm[s] /\ state[s] = "CANDIDATE"
        <5>1. w <= currentTerm[s]
          BY <2>1, <3>2 DEF BallotInv
        <5>. QED  BY <2>1, <5>1 DEF Terms
      <4>2. w <= currentTerm[q]
        BY <2>1, <3>2 DEF IInv, VoteInv
      <4>3. currentTerm'[q] \in Terms /\ currentTerm'[q] >= currentTerm[q]
        BY <1>1
      <4>4. acks[t][q] = n
        BY <2>1, <4>2, <4>3 DEF Terms
      <4>5. Voted(q, s, currentTerm[s]) /\ t < currentTerm[s]
        BY <2>1, <3>2, <4>1
      <4>. QED  BY <2>0, <4>1, <4>4, <4>5 DEF BallotInv
    <3>3. CASE /\ w <= currentTerm[s] /\ acks = acked
               /\ state[s] = "CANDIDATE" /\ w = currentTerm[s] =>
                     \A u \in Terms : u < w => Keeps(log[s], acked[u][q], u, led, acked)
      <4>1. w = currentTerm[s] /\ state[s] = "CANDIDATE"
        BY <2>1, <3>3 DEF Terms
      <4>. QED  BY <2>0, <2>1, <3>3, <4>1
    <3>. QED  BY <2>1, <2>2, <3>1, <3>2, <3>3
  <2>4. Keeps(l, n, t, now, acks)'
    BY <2>1, <2>3, KeepsStay
  <2>. QED  BY <2>1, <2>3, <2>4 DEF Keeps
<1>3. ASSUME NEW m \in msgs', m.rpc = "requestVote"
      PROVE  /\ m.term <= currentTerm'[m.from]
             /\ (state'[m.from] = "CANDIDATE" /\ currentTerm'[m.from] = m.term) =>
                   /\ m.lastLogIndex = Len(log'[m.from])
                   /\ m.lastLogTerm = LastTerm(log'[m.from])
  <2>1. CASE m \in msgs
    <3>1. m.from \in Server /\ m.term \in Terms /\ m.term <= currentTerm[m.from]
      BY <1>3, <2>1 DEF IInv, ElectionTypes, WellFormed, BallotInv
    <3>2. m.term <= currentTerm'[m.from]
      BY <1>1, <3>1 DEF Terms
    <3>3. ASSUME state'[m.from] = "CANDIDATE", currentTerm'[m.from] = m.term
          PROVE  m.lastLogIndex = Len(log'[m.from]) /\ m.lastLogTerm = LastTerm(log'[m.from])
      <4>1. currentTerm'[m.from] = currentTerm[m.from]
        BY <1>1, <3>1, <3>3 DEF Terms
      <4>2. state[m.from] = "CANDIDATE" /\ log'[m.from] = log[m.from]
        BY <3>1, <3>3, <4>1
      <4>. QED  BY <1>3, <2>1, <3>3, <4>1, <4>2 DEF BallotInv
    <3>. QED  BY <3>2, <3>3
  <2>2. CASE /\ m.term = currentTerm'[m.from]
             /\ m.lastLogIndex = Len(log'[m.from])
             /\ m.lastLogTerm = LastTerm(log'[m.from])
    <3>1. m.from \in Server
      BY DEF IInv, ElectionTypes, WellFormed
    <3>. QED  BY <1>1, <2>2, <3>1 DEF Terms
  <2>. QED  BY <1>3, <2>1, <2>2
<1>4. ASSUME NEW q \in Server, NEW s \in Server, NEW t \in Terms, Voted(q, s, t)'
      PROVE  t <= currentTerm'[s]
  <2>1. currentTerm[s] \in Terms /\ currentTerm'[s] \in Terms /\ currentTerm'[s] >= currentTerm[s]
    BY <1>1
  <2>2. t <= currentTerm[s] \/ t <= currentTerm'[s]
    BY <1>4 DEF BallotInv
  <2>. QED  BY <2>1, <2>2 DEF Terms
<1>. QED  BY <1>2, <1>3, <1>4 DEF BallotInv

LEMMA CommittedStays ==
    ASSUME NEW led, NEW acked, NEW now, NEW acks, Advance(led, acked, now, acks),
           led \in [Terms -> Seq(Entry)], acked \in Acks,
           NEW l \in Seq(Entry), NEW k \in Seq(Entry), NEW c \in Nat, Shares(k, l, c),
           NEW u \in Terms, NEW w \in Terms, u <= w, Committed(l, c, u, led, acked)
    PROVE  Committed(k, c, w, now, acks)
<1>1. CASE c = 0
  BY <1>1 DEF Committed
<1>2. CASE c # 0
  <2>1. PICK t \in Terms, j \in Nat :
           t <= u /\ j >= c /\ Has(led[t], j, t) /\ Chosen(j, t, acked) /\ Shares(l, led[t], c)
    BY <1>2 DEF Committed
  <2>2. /\ led[t] \in Seq(Entry) /\ now[t] \in Seq(Entry)
        /\ Shares(now[t], led[t], Len(led[t]))
        /\ \A p \in Server : acked[t][p] \in Nat /\ acks[t][p] \in Nat /\ acks[t][p] >= acked[t][p]
    BY DEF Advance, Extends, Acks
  <2>3. Has(now[t], j, t)
    BY <2>1, <2>2 DEF Has, Shares
  <2>4. Chosen(j, t, acks)
    <3>1. PICK Q \in Quorum : \A q \in Q : acked[t][q] >= j
      BY <2>1 DEF Chosen
    <3>2. ASSUME NEW q \in Q PROVE acks[t][q] >= j
      <4>1. q \in Server
        BY DEF Quorum
      <4>2. acked[t][q] \in Nat /\ acks[t][q] \in Nat /\ acks[t][q] >= acked[t][q]
        BY <2>2, <4>1
      <4>3. acked[t][q] >= j
        BY <3>1
      <4>. QED  BY <4>2, <4>3
    <3>. QED  BY <3>2 DEF Chosen
  <2>5. Shares(k, now[t], c)
    <3>1. Shares(k, led[t], c)
      BY <2>1, <2>2 DEF Shares
    <3>2. Shares(now[t], led[t], c)
      <4>1. c \in 0..Len(led[t]) /\ Len(led[t]) \in Nat
        BY <2>1, <2>2 DEF Shares
      <4>. QED  BY <2>2, <4>1, SharesLess
    <3>. QED  BY <2>2, <3>1, <3>2, SharesVia
  <2>6. t <= w
    BY <2>1 DEF Terms
  <2>. QED  BY <2>1, <2>3, <2>4, <2>5, <2>6 DEF Committed
<1>. QED  BY <1>1, <1>2

LEMMA CommittedStep ==
    ASSUME NEW led, NEW acked, NEW now, NEW acks, Advance(led, acked, now, acks),
           IInv, LedInv(led), LedInv(now)', CommitTypes, AckInv(led, acked),
           CommitInv(led, acked),
           \A s \in Server :
              \/ /\ commitIndex'[s] = commitIndex[s] /\ applied'[s] = applied[s]
                 /\ Shares(log'[s], log[s], commitIndex[s])
              \/ /\ Committed(log'[s], commitIndex'[s], currentTerm'[s], now, acks)
                 /\ Len(applied'[s]) = commitIndex'[s] /\ commitIndex'[s] <= Len(log'[s])
                 /\ \A i \in DOMAIN applied'[s] : applied'[s][i] = log'[s][i].command,
           \A m \in msgs' : m.rpc = "appendEntries" =>
              m \in msgs \/ Committed(now[m.term], m.leaderCommit, m.term, now, acks)
    PROVE  CommitInv(now, acks)'
<1>1. /\ acked \in Acks /\ led \in [Terms -> Seq(Entry)] /\ now \in [Terms -> Seq(Entry)]
      /\ currentTerm \in [Server -> Terms]
      /\ log \in [Server -> Seq(Entry)] /\ log' \in [Server -> Seq(Entry)]
      /\ \A p \in Server : currentTerm'[p] \in Terms /\ currentTerm'[p] >= currentTerm[p]
      /\ commitIndex \in [Server -> Nat] /\ applied \in [Server -> Seq(Value)]
  BY DEF Advance, AckInv, IInv, ElectionTypes, LedInv, LeadersLogs, LogTypes, CommitTypes
<1>2. ASSUME NEW s \in Server
      PROVE  /\ Committed(log'[s], commitIndex'[s], currentTerm'[s], now, acks)
             /\ Len(applied'[s]) = commitIndex'[s] /\ commitIndex'[s] <= Len(log'[s])
             /\ \A i \in DOMAIN applied'[s] : applied'[s][i] = log'[s][i].command
  <2>1. CASE /\ commitIndex'[s] = commitIndex[s] /\ applied'[s] = applied[s]
             /\ Shares(log'[s], log[s], commitIndex[s])
    <3>. DEFINE l == log[s]
                k == log'[s]
                c == commitIndex[s]
                u == currentTerm[s]
                w == currentTerm'[s]
    <3>1. /\ l \in Seq(Entry) /\ k \in Seq(Entry) /\ c \in Nat /\ u \in Terms /\ w \in Terms
          /\ u <= w /\ Shares(k, l, c) /\ Committed(l, c, u, led, acked)
      BY <1>1, <2>1 DEF CommitInv, Terms
    <3>2. /\ Len(applied[s]) = c /\ c <= Len(l)
          /\ \A i \in DOMAIN applied[s] : applied[s][i] = l[i].command
      BY DEF CommitInv, AppliedIsLogPrefix
    <3>3. DOMAIN applied[s] = 1..c
      BY <1>1, <3>2
    <3>. HIDE DEF l, k, c, u, w
    <3>4. Committed(k, c, w, now, acks)
      BY <1>1, <3>1, CommittedStays
    <3>5. c <= Len(k) /\ \A i \in 1..c : applied[s][i] = k[i].command
      BY <3>1, <3>2, <3>3 DEF Shares
    <3>. QED  BY <2>1, <3>2, <3>3, <3>4, <3>5 DEF k, c, w
  <2>. QED  BY <2>1
<1>3. ASSUME NEW m \in msgs', m.rpc = "appendEntries"
      PROVE  Committed(now[m.term], m.leaderCommit, m.term, now, acks)
  <2>1. CASE m \in msgs
    <3>. DEFINE l == led[m.term]
                k == now[m.term]
                c == m.leaderCommit
    <3>1. /\ m.term \in Terms /\ l \in Seq(Entry) /\ k \in Seq(Entry) /\ c \in Nat
          /\ Committed(l, c, m.term, led, acked) /\ Shares(k, l, Len(l))
      BY <1>1, <1>3, <2>1
         DEF IInv, ElectionTypes, WellFormed, CommitTypes, CommitInv, Advance, Extends
    <3>2. c <= Len(l)
      BY <3>1 DEF Committed, Shares
    <3>. HIDE DEF l, k, c
    <3>3. Shares(k, l, c)
      BY <3>1, <3>2 DEF Shares
    <3>4. m.term <= m.term
      BY <3>1 DEF Terms
    <3>5. Committed(k, c, m.term, now, acks)
      BY <1>1, <3>1, <3>3, <3>4, CommittedStays
    <3>. QED  BY <3>5 DEF k, c
  <2>. QED  BY <1>3, <2>1
<1>4. AppliedIsLogPrefix'
  BY <1>2 DEF AppliedIsLogPrefix
<1>. QED  BY <1>2, <1>3, <1>4 DEF CommitInv

-----------------------------------------------------------------------------
\* The steps in which no log changes and nothing is acknowledged or committed

LEMMA SameAdvance ==
    ASSUME NEW led \in [Terms -> Seq(Entry)], NEW acked \in Acks,
           \A p \in Server : currentTerm'[p] \in Terms /\ currentTerm'[p] >= currentTerm[p]
    PROVE  Advance(led, acked, led, acked)
BY ExtendsReflexive DEF Advance

LEMMA QuietInv ==
    ASSUME NEW led, NEW acked, Inv(led, acked), IInv', LedInv(led)',
           UNCHANGED <<log, elected, commitIndex, applied>>,
           matchIndex' \in [Server -> [Server -> Nat]],
           \A p \in Server :
              /\ currentTerm'[p] \in Terms /\ currentTerm'[p] >= currentTerm[p]
              /\ state'[p] = "LEADER" =>
                    /\ state[p] = "LEADER" /\ currentTerm'[p] = currentTerm[p]
                    /\ matchIndex'[p] = matchIndex[p]
              /\ state'[p] = "CANDIDATE" =>
                    (currentTerm'[p] = currentTerm[p] => state[p] = "CANDIDATE"),
           \A q, s \in Server, t \in Terms : Voted(q, s, t)' =>
              \/ Voted(q, s, t)
              \/ q = s /\ t <= currentTerm'[s]
              \/ /\ t <= currentTerm[s]
                 /\ state[s] = "CANDIDATE" /\ t = currentTerm[s] =>
                       \A u \in Terms : u < t => Keeps(log[s], acked[u][q], u, led, acked),
           \A m \in msgs' :
              \/ m \in msgs
              \/ m.rpc = "voteResponse"
              \/ m.rpc = "appendResponse" /\ ~m.success
              \/ /\ m.rpc = "requestVote" /\ m.term = currentTerm'[m.from]
                 /\ m.lastLogIndex = Len(log[m.from]) /\ m.lastLogTerm = LastTerm(log[m.from])
              \/ /\ m.rpc = "appendEntries" /\ m.leaderCommit \in Nat
                 /\ Committed(led[m.term], m.leaderCommit, m.term, led, acked)
    PROVE  Inv(led, acked)'
<1>1. /\ led \in [Terms -> Seq(Entry)] /\ acked \in Acks
      /\ log \in [Server -> Seq(Entry)]
      /\ commitIndex \in [Server -> Nat]
      /\ \A s \in Server : commitIndex[s] <= Len(log[s])
      /\ IInv /\ LedInv(led) /\ CommitTypes /\ AckInv(led, acked) /\ KeptInv(led, acked)
      /\ BallotInv(led, acked) /\ CommitInv(led, acked)
      /\ \A m \in msgs : m.rpc = "appendResponse" => m.matchIndex \in Nat
      /\ \A m \in msgs : m.rpc = "appendEntries" => m.leaderCommit \in Nat
  BY DEF Inv, AckInv, CommitTypes, CommitInv, AppliedIsLogPrefix, LedInv, LeadersLogs,
         LogTypes, LogMessage
<1>2. Advance(led, acked, led, acked)
  BY <1>1, SameAdvance
<1>3. CommitTypes'
  <2>1. \A m \in msgs' : m.rpc = "appendEntries" => m.leaderCommit \in Nat
    BY <1>1
  <2>. QED  BY <1>1, <2>1 DEF CommitTypes
<1>4. AckInv(led, acked)'
  <2>1. \A p \in Server : log'[p] = log[p] /\ \A t \in Terms : acked[t][p] = acked[t][p]
    OBVIOUS
  <2>2. \A s \in Server : state'[s] = "LEADER" =>
           /\ state[s] = "LEADER" /\ currentTerm'[s] = currentTerm[s]
           /\ log'[s] = log[s] /\ matchIndex'[s] = matchIndex[s]
           /\ \A t \in Terms : acked[t][s] = acked[t][s]
    OBVIOUS
  <2>3. \A m \in msgs' : m.rpc = "appendResponse" /\ m.success => m \in msgs /\ m.matchIndex \in Nat
    BY <1>1
  <2>4. matchIndex \in [Server -> [Server -> Nat]]
    BY <1>1 DEF CommitTypes
  <2>. QED  BY <1>1, <1>2, <2>1, <2>2, <2>3, <2>4, AckStep
<1>5. KeptInv(led, acked)'
  <2>1. \A p \in Server, t \in Terms, i \in Nat :
           t < currentTerm'[p] /\ Has(log[p], i, t) /\ MayChoose(i, t, led, acked) =>
              Has(log'[p], i, t)
    OBVIOUS
  <2>2. \A t, u \in Terms : t < u /\ elected'[u] # {} =>
           elected[u] # {} /\ Len(led[t]) = Len(led[t])
    OBVIOUS
  <2>. QED  BY <1>1, <1>2, <1>4, <2>1, <2>2, KeptStep
<1>6. BallotInv(led, acked)'
  <2>1. \A s \in Server : state'[s] = "CANDIDATE" =>
           /\ log'[s] = log[s]
           /\ currentTerm'[s] = currentTerm[s] => state[s] = "CANDIDATE"
    OBVIOUS
  <2>2. \A q, s \in Server, t \in Terms : Voted(q, s, t)' =>
           \/ Voted(q, s, t)
           \/ q = s /\ t <= currentTerm'[s]
           \/ /\ t <= currentTerm[s] /\ acked = acked
              /\ state[s] = "CANDIDATE" /\ t = currentTerm[s] =>
                    \A u \in Terms : u < t => Keeps(log[s], acked[u][q], u, led, acked)
    OBVIOUS
  <2>3. \A m \in msgs' : m.rpc = "requestVote" =>
           \/ m \in msgs
           \/ /\ m.term = currentTerm'[m.from]
              /\ m.lastLogIndex = Len(log'[m.from])
              /\ m.lastLogTerm = LastTerm(log'[m.from])
    OBVIOUS
  <2>. QED  BY <1>1, <1>2, <2>1, <2>2, <2>3, BallotStep
<1>7. CommitInv(led, acked)'
  <2>1. \A s \in Server : /\ commitIndex'[s] = commitIndex[s] /\ applied'[s] = applied[s]
                          /\ Shares(log'[s], log[s], commitIndex[s])
    BY <1>1 DEF Shares
  <2>2. \A m \in msgs' : m.rpc = "appendEntries" =>
           m \in msgs \/ Committed(led[m.term], m.leaderCommit, m.term, led, acked)
    OBVIOUS
  <2>. QED  BY <1>1, <1>2, <2>1, <2>2, CommittedStep
<1>. QED  BY <1>3, <1>4, <1>5, <1>6, <1>7 DEF Inv

\* The same when no office is taken, no vote granted and no request sent.
LEMMA PassiveInv ==
    ASSUME NEW led, NEW acked, Inv(led, acked), IInv', LedInv(led)',
           UNCHANGED <<log, elected, commitIndex, applied, matchIndex>>,
           \A p \in Server :
              /\ currentTerm'[p] \in Terms /\ currentTerm'[p] >= currentTerm[p]
              /\ state'[p] # "FOLLOWER" => state'[p] = state[p] /\ currentTerm'[p] = currentTerm[p],
           \A q, s \in Server, t \in Terms : Voted(q, s, t)' => Voted(q, s, t),
           \A m \in msgs' :
              \/ m \in msgs
              \/ m.rpc = "voteResponse"
              \/ m.rpc = "appendResponse" /\ ~m.success
    PROVE  Inv(led, acked)'
<1>1. matchIndex' \in [Server -> [Server -> Nat]]
  BY DEF Inv, CommitTypes
<1>2. \A p \in Server :
         /\ currentTerm'[p] \in Terms /\ currentTerm'[p] >= currentTerm[p]
         /\ state'[p] = "LEADER" =>
               /\ state[p] = "LEADER" /\ currentTerm'[p] = currentTerm[p]
               /\ matchIndex'[p] = matchIndex[p]
         /\ state'[p] = "CANDIDATE" =>
               (currentTerm'[p] = currentTerm[p] => state[p] = "CANDIDATE")
  OBVIOUS
<1>. QED  BY <1>1, <1>2, QuietInv

LEMMA UntouchedInv ==
    ASSUME NEW led, NEW acked, Inv(led, acked), IInv', LedInv(led)', msgs' \subseteq msgs,
           UNCHANGED <<currentTerm, state, log, elected, commitIndex, applied, matchIndex, votes>>
    PROVE  Inv(led, acked)'
<1>1. \A p \in Server : currentTerm'[p] \in Terms /\ currentTerm'[p] >= currentTerm[p]
  BY DEF Inv, IInv, ElectionTypes, Terms
<1>2. \A q, s \in Server, t \in Terms : Voted(q, s, t)' => Voted(q, s, t)
  BY DEF Voted
<1>. QED  BY <1>1, <1>2, PassiveInv

LEMMA TimeoutInv ==
    ASSUME NEW led, NEW acked, Inv(led, acked), IInv', LedInv(led)',
           NEW s \in Server, ElectionTimeout(s)
    PROVE  Inv(led, acked)'
<1>1. CASE state[s] = "LEADER"
  BY <1>1, UntouchedInv DEF ElectionTimeout
<1>2. CASE state[s] # "LEADER"
  <2>. DEFINE t == currentTerm[s] + 1
  <2>1. /\ t \in Terms /\ t > currentTerm[s]
        /\ state' = [state EXCEPT ![s] = "CANDIDATE"]
        /\ currentTerm' = [currentTerm EXCEPT ![s] = t]
        /\ votes' = [votes EXCEPT ![s][t] = {s}]
        /\ msgs' = msgs \cup RequestVote(s, t)
        /\ UNCHANGED <<log, elected, commitIndex, applied, matchIndex>>
        /\ currentTerm \in [Server -> Terms] /\ votes \in [Server -> [Terms -> SUBSET Server]]
        /\ state \in [Server -> {"FOLLOWER", "CANDIDATE", "LEADER"}]
        /\ matchIndex' \in [Server -> [Server -> Nat]]
    BY <1>2 DEF ElectionTimeout, Inv, IInv, ElectionTypes, Terms, CommitTypes
  <2>2. \A m \in RequestVote(s, t) :
           /\ m.rpc = "requestVote" /\ m.from = s /\ m.term = t
           /\ m.lastLogIndex = Len(log[s]) /\ m.lastLogTerm = LastTerm(log[s])
    BY DEF RequestVote
  <2>. HIDE DEF t
  <2>3. \A m \in msgs' :
           \/ m \in msgs
           \/ /\ m.rpc = "requestVote" /\ m.term = currentTerm'[m.from]
              /\ m.lastLogIndex = Len(log[m.from]) /\ m.lastLogTerm = LastTerm(log[m.from])
    BY <2>1, <2>2
  <2>4. \A p \in Server :
           /\ currentTerm'[p] \in Terms /\ currentTerm'[p] >= currentTerm[p]
           /\ state'[p] = "LEADER" =>
                 /\ state[p] = "LEADER" /\ currentTerm'[p] = currentTerm[p]
                 /\ matchIndex'[p] = matchIndex[p]
           /\ state'[p] = "CANDIDATE" =>
                 (currentTerm'[p] = currentTerm[p] => state[p] = "CANDIDATE")
    BY <2>1 DEF Terms
  <2>5. ASSUME NEW q \in Server, NEW r \in Server, NEW u \in Terms, Voted(q, r, u)'
        PROVE  Voted(q, r, u) \/ (q = r /\ u <= currentTerm'[r])
    <3>1. CASE q \in votes'[r][u]
      <4>1. CASE r = s /\ u = t
        BY <2>1, <3>1, <4>1 DEF Terms
      <4>2. CASE ~(r = s /\ u = t)
        BY <2>1, <3>1, <4>2 DEF Voted
      <4>. QED  BY <4>1, <4>2
    <3>2. CASE ~(q \in votes'[r][u])
      BY <2>1, <2>2, <2>5, <3>2 DEF Voted
    <3>. QED  BY <3>1, <3>2
  <2>. QED  BY <2>1, <2>3, <2>4, <2>5, QuietInv
<1>. QED  BY <1>1, <1>2

-----------------------------------------------------------------------------
\* Votes

\* A vote goes to a candidate that has all its voter keeps.
LEMMA GrantKeeps ==
    ASSUME NEW led, NEW acked, Inv(led, acked), NEW m \in msgs, m.rpc = "requestVote",
           isLogUpToDate(m.to, m),
           state[m.from] = "CANDIDATE", currentTerm[m.from] = m.term,
           NEW t \in Terms
    PROVE  Keeps(log[m.from], acked[t][m.to], t, led, acked)
<1>. DEFINE s == m.to
            c == m.from
<1>. SUFFICES ASSUME NEW i \in 1..acked[t][s], MayChoose(i, t, led, acked)
              PROVE  Has(log[c], i, t)
  BY DEF Keeps
<1>1. /\ s \in Server /\ c \in Server /\ log[s] \in Seq(Entry) /\ log[c] \in Seq(Entry)
      /\ Copied(log[s], led) /\ Copied(log[c], led)
      /\ LedInv(led) /\ KeptInv(led, acked)
      /\ acked[t][s] \in Nat /\ currentTerm[s] \in Terms
  <2>1. IInv /\ LedInv(led) /\ KeptInv(led, acked) /\ AckInv(led, acked)
    BY DEF Inv
  <2>2. s \in Server /\ c \in Server /\ currentTerm[s] \in Terms
    BY <2>1 DEF IInv, ElectionTypes, WellFormed
  <2>3. log \in [Server -> Seq(Entry)] /\ \A p \in Server : Copied(log[p], led)
    BY <2>1 DEF LedInv, LogTypes
  <2>4. acked[t][s] \in Nat
    BY <2>1, <2>2 DEF AckInv, Acks
  <2>. QED  BY <2>1, <2>2, <2>3, <2>4
<1>2. m.lastLogIndex = Len(log[c]) /\ m.lastLogTerm = LastTerm(log[c])
  BY DEF Inv, BallotInv
<1>3. IF LastTerm(log[s]) # LastTerm(log[c]) THEN LastTerm(log[c]) > LastTerm(log[s])
      ELSE Len(log[c]) >= Len(log[s])
  BY <1>2 DEF isLogUpToDate
<1>4. t <= currentTerm[s]
  <2>. SUFFICES ASSUME ~(t <= currentTerm[s]) PROVE FALSE
    OBVIOUS
  <2>1. t > currentTerm[s]
    BY <1>1 DEF Terms
  <2>. QED  BY <1>1, <2>1 DEF Inv, AckInv
<1>5. Has(log[s], i, t) /\ i \in Nat
  BY <1>1, <1>4 DEF KeptInv, Keeps
<1>. HIDE DEF s, c
<1>. QED  BY <1>1, <1>3, <1>5, UpToDateKeeps

LEMMA VoteRequestInv ==
    ASSUME NEW led, NEW acked, Inv(led, acked), IInv', LedInv(led)',
           NEW m \in msgs, handleVoteRequest(m)
    PROVE  Inv(led, acked)'
<1>. DEFINE s == m.to
<1>1. /\ m.rpc = "requestVote" /\ s \in Server /\ m.from \in Server /\ m.term \in Terms
      /\ currentTerm \in [Server -> Terms]
      /\ state \in [Server -> {"FOLLOWER", "CANDIDATE", "LEADER"}]
      /\ UNCHANGED <<log, elected, commitIndex, applied, matchIndex, votes>>
      /\ matchIndex' \in [Server -> [Server -> Nat]]
  BY DEF handleVoteRequest, Inv, IInv, ElectionTypes, WellFormed, CommitTypes
<1>2. CASE m.term < currentTerm[s]
  <2>. DEFINE reply == VoteResponse(m, currentTerm[s], FALSE)
  <2>1. msgs' = (msgs \ {m}) \cup {reply} /\ UNCHANGED <<currentTerm, state>>
    BY <1>2 DEF handleVoteRequest
  <2>2. reply.rpc = "voteResponse" /\ ~reply.granted
    BY DEF VoteResponse
  <2>. HIDE DEF reply
  <2>3. \A q, r \in Server, t \in Terms : Voted(q, r, t)' => Voted(q, r, t)
    BY <1>1, <2>1, <2>2 DEF Voted
  <2>4. \A p \in Server :
           /\ currentTerm'[p] \in Terms /\ currentTerm'[p] >= currentTerm[p]
           /\ state'[p] # "FOLLOWER" => state'[p] = state[p] /\ currentTerm'[p] = currentTerm[p]
    BY <1>1, <2>1 DEF Terms
  <2>5. \A n \in msgs' : n \in msgs \/ n.rpc = "voteResponse"
    BY <2>1, <2>2
  <2>. QED  BY <1>1, <2>3, <2>4, <2>5, PassiveInv
<1>3. CASE ~(m.term < currentTerm[s])
  <2>. DEFINE canVote == CanVote(s, m)
              reply == VoteResponse(m, m.term, canVote)
  <2>1. /\ msgs' = (msgs \ {m}) \cup {reply}
        /\ currentTerm' = [currentTerm EXCEPT ![s] = m.term]
        /\ state' = [state EXCEPT ![s] = IF m.term > currentTerm[s] THEN "FOLLOWER" ELSE @]
    BY <1>3 DEF handleVoteRequest
  <2>2. /\ reply.rpc = "voteResponse" /\ reply.granted = canVote
        /\ reply.from = m.from /\ reply.to = s /\ reply.election = m.term
    BY DEF VoteResponse
  <2>. HIDE DEF reply
  <2>3. canVote => isLogUpToDate(s, m)
    BY DEF CanVote
  <2>. HIDE DEF canVote
  <2>4. ASSUME NEW q \in Server, NEW r \in Server, NEW t \in Terms, Voted(q, r, t)'
        PROVE  \/ Voted(q, r, t)
               \/ /\ t <= currentTerm[r]
                  /\ state[r] = "CANDIDATE" /\ t = currentTerm[r] =>
                        \A u \in Terms : u < t => Keeps(log[r], acked[u][q], u, led, acked)
    <3>1. Voted(q, r, t) \/ (canVote /\ q = s /\ r = m.from /\ t = m.term)
      BY <1>1, <2>1, <2>2, <2>4 DEF Voted
    <3>2. CASE canVote /\ q = s /\ r = m.from /\ t = m.term
      <4>1. t <= currentTerm[r]
        BY <1>1, <3>2 DEF Inv, BallotInv
      <4>2. ASSUME state[r] = "CANDIDATE", t = currentTerm[r], NEW u \in Terms
            PROVE  Keeps(log[r], acked[u][q], u, led, acked)
        <5>1. /\ isLogUpToDate(m.to, m) /\ state[m.from] = "CANDIDATE"
              /\ currentTerm[m.from] = m.term
          BY <2>3, <3>2, <4>2
        <5>. QED  BY <1>1, <3>2, <5>1, GrantKeeps
      <4>. QED  BY <4>1, <4>2
    <3>. QED  BY <3>1, <3>2
  <2>5. \A p \in Server :
           /\ currentTerm'[p] \in Terms /\ currentTerm'[p] >= currentTerm[p]
           /\ state'[p] = "LEADER" =>
                 /\ state[p] = "LEADER" /\ currentTerm'[p] = currentTerm[p]
                 /\ matchIndex'[p] = matchIndex[p]
           /\ state'[p] = "CANDIDATE" =>
                 (currentTerm'[p] = currentTerm[p] => state[p] = "CANDIDATE")
    <3>. SUFFICES ASSUME NEW p \in Server
                  PROVE  /\ currentTerm'[p] \in Terms /\ currentTerm'[p] >= currentTerm[p]
                         /\ \/ state'[p] = state[p] /\ currentTerm'[p] = currentTerm[p]
                            \/ state'[p] = "FOLLOWER"
      BY <1>1
    <3>1. CASE p # s
      BY <1>1, <2>1, <3>1 DEF Terms
    <3>2. CASE p = s /\ m.term > currentTerm[s]
      BY <1>1, <2>1, <3>2 DEF Terms
    <3>3. CASE p = s /\ m.term = currentTerm[s]
      BY <1>1, <2>1, <3>3 DEF Terms
    <3>4. m.term > currentTerm[s] \/ m.term = currentTerm[s]
      <4>1. m.term \in Int /\ currentTerm[s] \in Int
        BY <1>1 DEF Terms
      <4>. QED  BY <1>3, <4>1
    <3>. QED  BY <3>1, <3>2, <3>3, <3>4
  <2>6. \A n \in msgs' : n \in msgs \/ n.rpc = "voteResponse"
    BY <2>1, <2>2
  <2>. QED  BY <1>1, <2>4, <2>5, <2>6, QuietInv
<1>. QED  BY <1>2, <1>3

\* The winner of an election has whatever may be chosen of earlier terms.
LEMMA WinnerKeeps ==
    ASSUME NEW led, NEW acked, Inv(led, acked), NEW s \in Server, state[s] = "CANDIDATE",
           NEW received \in Quorum, \A v \in received : v = s \/ Voted(v, s, currentTerm[s]),
           NEW t \in Terms, t < currentTerm[s]
    PROVE  Keeps(log[s], Len(led[t]), t, led, acked)
<1>. SUFFICES ASSUME NEW i \in 1..Len(led[t]), MayChoose(i, t, led, acked)
              PROVE  Has(log[s], i, t)
  BY DEF Keeps
<1>1. PICK Q \in Quorum : \A q \in Q : currentTerm[q] > t => acked[t][q] >= i
  BY DEF MayChoose
<1>2. PICK q \in Server : q \in received /\ q \in Q
  BY QuorumsMeet
<1>3. q # s => currentTerm[s] <= currentTerm[q]
  BY <1>2 DEF Inv, IInv, ElectionTypes, VoteInv
<1>4. /\ currentTerm[q] \in Terms /\ currentTerm[s] \in Terms /\ acked[t][q] \in Nat
      /\ led[t] \in Seq(Entry)
  BY DEF Inv, IInv, ElectionTypes, AckInv, Acks, LedInv, LeadersLogs
<1>5. currentTerm[q] > t
  BY <1>3, <1>4 DEF Terms
<1>6. i \in 1..acked[t][q]
  BY <1>1, <1>2, <1>4, <1>5
<1>7. CASE q = s
  <2>1. t <= currentTerm[s]
    BY <1>4 DEF Terms
  <2>. QED  BY <1>6, <1>7, <2>1 DEF Inv, KeptInv, Keeps
<1>8. CASE q # s
  <2>1. Voted(q, s, currentTerm[s])
    BY <1>2, <1>8
  <2>2. Keeps(log[s], acked[t][q], t, led, acked)
    BY <2>1 DEF Inv, BallotInv
  <2>. QED  BY <1>6, <2>2 DEF Keeps
<1>. QED  BY <1>7, <1>8

\* The first round of heartbeats leaves with what is committed.
LEMMA HeartbeatCommits ==
    ASSUME NEW s \in Server, NEW l, NEW next, commitIndex[s] \in Nat, NEW m \in Heartbeats(s, l, next)
    PROVE  m.rpc = "appendEntries" /\ m.leaderCommit = commitIndex[s] /\ m.term = currentTerm[s]
BY DEF Heartbeats

LEMMA VictoryInv ==
    ASSUME NEW led, NEW acked, Inv(led, acked), IInv',
           NEW s \in Server, NEW t \in Terms, t = currentTerm[s], elected[t] = {},
           NEW received \in Quorum, \A v \in received : v = s \/ Voted(v, s, t),
           NEW settled \in SUBSET msgs, convertToLeader(s, settled), state[s] = "CANDIDATE",
           \A q, r \in Server, u \in Terms : Voted(q, r, u)' => Voted(q, r, u),
           UNCHANGED <<currentTerm, log, commitIndex, applied>>
    PROVE  \E now, acks : Inv(now, acks)'
<1>0. PICK now, acks : /\ now = [led EXCEPT ![t] = log[s]]
                       /\ acks = [acked EXCEPT ![t][s] = Len(log[s])]
  OBVIOUS
<1>. DEFINE next == NextAfterElection(s)
<1>1. /\ IInv /\ LedInv(led) /\ CommitTypes /\ AckInv(led, acked) /\ KeptInv(led, acked)
      /\ BallotInv(led, acked) /\ CommitInv(led, acked)
  BY DEF Inv
<1>2. /\ led \in [Terms -> Seq(Entry)] /\ acked \in Acks /\ log \in [Server -> Seq(Entry)]
      /\ currentTerm \in [Server -> Terms]
      /\ state \in [Server -> {"FOLLOWER", "CANDIDATE", "LEADER"}]
      /\ elected \in [Terms -> SUBSET Server]
      /\ commitIndex \in [Server -> Nat] /\ matchIndex \in [Server -> [Server -> Nat]]
      /\ led[t] = <<>>
  BY <1>1 DEF LedInv, LeadersLogs, LogTypes, IInv, ElectionTypes, AckInv, CommitTypes
<1>3. LedInv(now)' /\ Extends(now, led)
  BY <1>0, <1>1, VictoryLogs
<1>4. /\ state' = [state EXCEPT ![s] = "LEADER"]
      /\ matchIndex' = [matchIndex EXCEPT ![s] = [p \in Server |-> 0]]
      /\ elected' = [elected EXCEPT ![t] = @ \cup {s}]
      /\ msgs' = settled \cup Heartbeats(s, log[s], next)
  BY DEF convertToLeader
<1>5. /\ now \in [Terms -> Seq(Entry)] /\ now[t] = log[s] /\ Len(log[s]) \in Nat
      /\ \A u \in Terms : u # t => now[u] = led[u]
      /\ acks \in Acks /\ acks[t][s] = Len(log[s])
      /\ \A u \in Terms, p \in Server : ~(u = t /\ p = s) => acks[u][p] = acked[u][p]
      /\ \A u \in Terms, p \in Server : acked[u][p] \in Nat /\ acks[u][p] \in Nat
      /\ \A p \in Server : acked[t][p] = 0
  <2>1. \A p \in Server : acked[t][p] \in Nat /\ acked[t][p] <= Len(led[t])
    BY <1>1, <1>2 DEF AckInv, Acks
  <2>2. \A p \in Server : acked[t][p] = 0
    BY <1>2, <2>1
  <2>. QED  BY <1>0, <1>2, <2>2 DEF Acks
<1>6. Advance(led, acked, now, acks)
  <2>1. \A u \in Terms, p \in Server :
           acks[u][p] = acked[u][p] \/ (u = currentTerm'[p] /\ acks[u][p] >= acked[u][p])
    BY <1>5
  <2>2. \A p \in Server : currentTerm'[p] \in Terms /\ currentTerm'[p] >= currentTerm[p]
    BY <1>2 DEF Terms
  <2>. QED  BY <1>3, <1>5, <2>1, <2>2 DEF Advance
<1>7. \A n \in msgs' :
         \/ n \in msgs
         \/ n.rpc = "appendEntries" /\ n.leaderCommit = commitIndex[s] /\ n.term = t
  BY <1>2, <1>4, HeartbeatCommits
<1>8. CommitTypes'
  <2>1. \A n \in msgs' : n.rpc = "appendEntries" => n.leaderCommit \in Nat
    BY <1>1, <1>2, <1>7 DEF CommitTypes
  <2>2. matchIndex' \in [Server -> [Server -> Nat]]
    BY <1>2, <1>4
  <2>. QED  BY <1>1, <2>1, <2>2 DEF CommitTypes
<1>9. AckInv(now, acks)'
  <2>1. ASSUME NEW p \in Server
        PROVE  \/ log'[p] = log[p] /\ \A u \in Terms : acks[u][p] = acked[u][p]
               \/ Shares(log'[p], now[currentTerm'[p]], acks[currentTerm'[p]][p])
    <3>1. CASE p = s
      BY <1>5, <3>1 DEF Shares
    <3>2. CASE p # s
      BY <1>5, <3>2
    <3>. QED  BY <3>1, <3>2
  <2>2. ASSUME NEW r \in Server, state'[r] = "LEADER"
        PROVE  \/ /\ state[r] = "LEADER" /\ currentTerm'[r] = currentTerm[r]
                  /\ log'[r] = log[r] /\ matchIndex'[r] = matchIndex[r]
                  /\ \A u \in Terms : acks[u][r] = acked[u][r]
               \/ /\ acks[currentTerm'[r]][r] = Len(log'[r])
                  /\ \A p \in Server : matchIndex'[r][p] <= acks[currentTerm'[r]][p]
    <3>1. CASE r = s
      BY <1>2, <1>4, <1>5, <3>1
    <3>2. CASE r # s
      BY <1>2, <1>4, <1>5, <2>2, <3>2
    <3>. QED  BY <3>1, <3>2
  <2>3. \A m \in msgs' : m.rpc = "appendResponse" /\ m.success => m \in msgs /\ m.matchIndex \in Nat
    BY <1>1, <1>7 DEF LedInv, LogTypes, LogMessage
  <2>4. LedInv(now)' /\ matchIndex \in [Server -> [Server -> Nat]]
    BY <1>2, <1>3
  <2>. QED  BY <1>1, <1>6, <2>1, <2>2, <2>3, <2>4, AckStep
<1>10. KeptInv(now, acks)'
  <2>1. \A p \in Server, u \in Terms, i \in Nat :
           u < currentTerm'[p] /\ Has(log[p], i, u) /\ MayChoose(i, u, led, acked) =>
              Has(log'[p], i, u)
    OBVIOUS
  <2>2. ASSUME NEW u \in Terms, NEW w \in Terms, u < w, elected'[w] # {}
        PROVE  \/ elected[w] # {} /\ Len(now[u]) = Len(led[u])
               \/ Keeps(now[w], Len(now[u]), u, now, acks)'
    <3>1. CASE w = t
      <4>1. u # t /\ u < currentTerm[s] /\ now[u] = led[u]
        BY <1>5, <2>2, <3>1 DEF Terms
      <4>2. Keeps(log[s], Len(led[u]), u, led, acked)
        BY <4>1, WinnerKeeps
      <4>3. PICK l, n : l = log[s] /\ n = Len(led[u])
        OBVIOUS
      <4>4. n \in Nat /\ n <= Len(led[u]) /\ Keeps(l, n, u, led, acked)
        BY <1>2, <4>2, <4>3
      <4>5. Keeps(l, n, u, now, acks)'
        BY <1>1, <1>6, <4>4, KeepsStay
      <4>. QED  BY <1>5, <3>1, <4>1, <4>3, <4>5
    <3>2. CASE w # t
      <4>1. elected[w] # {}
        BY <1>2, <1>4, <2>2, <3>2
      <4>2. CASE u # t
        BY <1>5, <4>1, <4>2
      \* The log of the winner holds no entry of its term yet.
      <4>3. CASE u = t
        <5>1. \A i : ~Has(log[s], i, t)
          <6>. SUFFICES ASSUME NEW i, Has(log[s], i, t) PROVE FALSE
            OBVIOUS
          <6>1. log[s] \in Seq(Entry) /\ Copied(log[s], led)
            BY <1>1, <1>2 DEF LedInv
          <6>. QED  BY <1>1, <6>1, LedEntry
        <5>2. Keeps(now[w], Len(now[u]), u, now, acks)'
          BY <1>5, <4>3, <5>1 DEF Keeps, MayChoose
        <5>. QED  BY <5>2
      <4>. QED  BY <4>2, <4>3
    <3>. QED  BY <3>1, <3>2
  <2>. QED  BY <1>1, <1>6, <1>9, <2>1, <2>2, KeptStep
<1>11. BallotInv(now, acks)'
  <2>1. \A r \in Server : state'[r] = "CANDIDATE" =>
           /\ log'[r] = log[r]
           /\ currentTerm'[r] = currentTerm[r] => state[r] = "CANDIDATE"
    BY <1>2, <1>4
  <2>2. \A m \in msgs' : m.rpc = "requestVote" => m \in msgs
    BY <1>7
  <2>. QED  BY <1>1, <1>6, <2>1, <2>2, BallotStep
<1>12. CommitInv(now, acks)'
  <2>1. \A r \in Server : /\ commitIndex'[r] = commitIndex[r] /\ applied'[r] = applied[r]
                          /\ Shares(log'[r], log[r], commitIndex[r])
    BY <1>1, <1>2 DEF Shares, CommitInv, AppliedIsLogPrefix
  <2>2. Committed(log[s], commitIndex[s], t, now, acks)
    <3>1. Committed(log[s], commitIndex[s], t, led, acked) /\ t <= t
      BY <1>1 DEF CommitInv, Terms
    <3>2. Shares(log[s], log[s], commitIndex[s])
      BY <2>1
    <3>3. log[s] \in Seq(Entry) /\ commitIndex[s] \in Nat
      BY <1>2
    <3>. QED  BY <1>2, <1>6, <3>1, <3>2, <3>3, CommittedStays
  <2>3. \A n \in msgs' : n.rpc = "appendEntries" =>
           n \in msgs \/ Committed(now[n.term], n.leaderCommit, n.term, now, acks)
    BY <1>5, <1>7, <2>2
  <2>. QED  BY <1>1, <1>3, <1>6, <2>1, <2>3, CommittedStep
<1>. QED  BY <1>3, <1>8, <1>9, <1>10, <1>11, <1>12 DEF Inv

LEMMA VoteResponseInv ==
    ASSUME Timely, NEW led, NEW acked, Inv(led, acked), IInv', NEW m \in msgs, handleVoteResponse(m)
    PROVE  \E now, acks : Inv(now, acks)'
<1>. DEFINE s == m.from
            t == m.election
            received == votes[s][t] \cup {m.to}
<1>0. /\ IInv /\ LedInv(led) /\ m.rpc = "voteResponse" /\ t = currentTerm[s]
      /\ s \in Server /\ m.to \in Server /\ t \in Terms /\ m.term \in Terms
      /\ currentTerm \in [Server -> Terms]
      /\ state \in [Server -> {"FOLLOWER", "CANDIDATE", "LEADER"}]
      /\ votes \in [Server -> [Terms -> SUBSET Server]]
      /\ UNCHANGED <<log, commitIndex, applied>>
  BY DEF handleVoteResponse, Delivered, Timely, Inv, IInv, ElectionTypes, WellFormed
<1>1. \/ /\ convertToFollower(s, m.term) /\ m.term > currentTerm[s] /\ msgs' = msgs \ {m}
         /\ UNCHANGED <<matchIndex, votes, elected>>
      \/ /\ m.granted /\ votes' = [votes EXCEPT ![s][t] = received]
         /\ \/ /\ Cardinality(received) >= Majority /\ state[s] = "CANDIDATE"
               /\ convertToLeader(s, msgs \ {m})
            \/ msgs' = msgs \ {m} /\ UNCHANGED <<state, matchIndex, elected>>
         /\ UNCHANGED currentTerm
      \/ /\ msgs' = msgs \ {m}
         /\ UNCHANGED <<currentTerm, state, matchIndex, votes, elected>>
  BY DEF handleVoteResponse
\* The vote that is counted was on its way before.
<1>2. ASSUME \A n \in msgs' : n.rpc = "voteResponse" => n \in msgs,
             votes' = votes \/ (m.granted /\ votes' = [votes EXCEPT ![s][t] = received]),
             NEW q \in Server, NEW r \in Server, NEW u \in Terms, Voted(q, r, u)'
      PROVE  Voted(q, r, u)
  <2>1. m.granted => Voted(m.to, s, t)
    BY <1>0 DEF Voted
  <2>2. CASE q \in votes'[r][u]
    <3>1. q \in votes[r][u] \/ (m.granted /\ r = s /\ u = t /\ q = m.to)
      BY <1>0, <1>2, <2>2
    <3>. QED  BY <2>1, <3>1 DEF Voted
  <2>3. CASE ~(q \in votes'[r][u])
    BY <1>2, <2>3 DEF Voted
  <2>. QED  BY <2>2, <2>3
<1>3. CASE convertToLeader(s, msgs \ {m}) /\ m.granted /\ UNCHANGED currentTerm
           /\ Cardinality(received) >= Majority /\ state[s] = "CANDIDATE"
           /\ votes' = [votes EXCEPT ![s][t] = received]
  <2>1. received \in Quorum /\ \A v \in received : v = s \/ Voted(v, s, t)
    BY <1>0, <1>3 DEF Quorum, Voted
  <2>2. elected[t] = {}
    <3>1. received \in SUBSET Server
      BY <1>0
    <3>. QED  BY <1>0, <1>3, <2>1, <3>1, OneMajority
  <2>3. \A n \in msgs' : n.rpc = "voteResponse" => n \in msgs
    BY <1>3 DEF convertToLeader, Heartbeats
  <2>4. \A q, r \in Server, u \in Terms : Voted(q, r, u)' => Voted(q, r, u)
    BY <1>2, <1>3, <2>3
  <2>. HIDE DEF received
  <2>5. (msgs \ {m}) \in SUBSET msgs
    OBVIOUS
  <2>. QED  BY <1>0, <1>3, <2>1, <2>2, <2>4, <2>5, VictoryInv
<1>4. CASE msgs' = msgs \ {m} /\ UNCHANGED <<matchIndex, elected>>
           /\ (votes' = votes \/ (m.granted /\ votes' = [votes EXCEPT ![s][t] = received]))
           /\ \/ convertToFollower(s, m.term) /\ m.term > currentTerm[s]
              \/ UNCHANGED <<currentTerm, state>>
  <2>1. \A q, r \in Server, u \in Terms : Voted(q, r, u)' => Voted(q, r, u)
    BY <1>2, <1>4
  <2>2. \A p \in Server :
           /\ currentTerm'[p] \in Terms /\ currentTerm'[p] >= currentTerm[p]
           /\ state'[p] # "FOLLOWER" => state'[p] = state[p] /\ currentTerm'[p] = currentTerm[p]
    <3>1. CASE convertToFollower(s, m.term) /\ m.term > currentTerm[s]
      <4>1. /\ currentTerm' = [currentTerm EXCEPT ![s] = m.term]
            /\ state' = [state EXCEPT ![s] = "FOLLOWER"]
        BY <3>1 DEF convertToFollower
      <4>. QED  BY <1>0, <3>1, <4>1 DEF Terms
    <3>2. CASE UNCHANGED <<currentTerm, state>>
      BY <1>0, <3>2 DEF Terms
    <3>. QED  BY <1>4, <3>1, <3>2
  <2>3. LedInv(led)'
    <3>1. ~(state[s] = "CANDIDATE" /\ convertToLeader(s, msgs \ {m}))
      <4>. SUFFICES ASSUME state[s] = "CANDIDATE", state' = [state EXCEPT ![s] = "LEADER"]
                    PROVE  FALSE
        BY DEF convertToLeader
      <4>. QED  BY <1>0, <2>2
    <3>. QED  BY <1>0, <3>1, VoteResponseLogs
  <2>4. Inv(led, acked)'
    BY <1>0, <1>4, <2>1, <2>2, <2>3, PassiveInv
  <2>. QED  BY <2>4
<1>. QED  BY <1>1, <1>3, <1>4

-----------------------------------------------------------------------------
\* Replication

LEMMA HeartbeatInv ==
    ASSUME NEW led, NEW acked, Inv(led, acked), IInv', LedInv(led)',
           NEW s \in Server, SendHeartbeats(s)
    PROVE  Inv(led, acked)'
<1>. DEFINE round == Heartbeats(s, log[s], nextIndex[s])
<1>1. /\ state[s] = "LEADER" /\ msgs' = msgs \cup round
      /\ UNCHANGED <<currentTerm, state, votes, log, elected, commitIndex, applied, matchIndex>>
      /\ commitIndex[s] \in Nat /\ matchIndex' \in [Server -> [Server -> Nat]]
      /\ currentTerm \in [Server -> Terms]
  BY DEF SendHeartbeats, nodeVars, Inv, IInv, ElectionTypes, CommitTypes
<1>2. Committed(led[currentTerm[s]], commitIndex[s], currentTerm[s], led, acked)
  <2>1. led[currentTerm[s]] = log[s]
    BY <1>1 DEF Inv, LedInv, LeadersLogs
  <2>2. Committed(log[s], commitIndex[s], currentTerm[s], led, acked)
    BY DEF Inv, CommitInv
  <2>. QED  BY <2>1, <2>2
<1>3. \A m \in round : m.rpc = "appendEntries" /\ m.leaderCommit = commitIndex[s]
                       /\ m.term = currentTerm[s]
  BY <1>1, HeartbeatCommits
<1>. HIDE DEF round
<1>4. \A m \in msgs' :
         \/ m \in msgs
         \/ /\ m.rpc = "appendEntries" /\ m.leaderCommit \in Nat
            /\ Committed(led[m.term], m.leaderCommit, m.term, led, acked)
  BY <1>1, <1>2, <1>3
<1>5. \A q, r \in Server, t \in Terms : Voted(q, r, t)' => Voted(q, r, t)
  BY <1>1, <1>3 DEF Voted
<1>6. \A p \in Server : currentTerm'[p] \in Terms /\ currentTerm'[p] >= currentTerm[p]
  BY <1>1 DEF Terms
<1>. QED  BY <1>1, <1>4, <1>5, <1>6, QuietInv

\* The entry a leader appends is new: when its term is over, no majority can have it.
LEMMA NewEntry ==
    ASSUME IInv, NEW led, NEW acked, LedInv(led), AckInv(led, acked), NEW now, NEW acks,
           UNCHANGED currentTerm, NEW t \in Terms, NEW u \in Terms, t < u, elected[u] # {},
           NEW s \in Server, currentTerm[s] = t,
           \A p \in Server : p # s => acks[t][p] = acked[t][p],
           NEW i \in Nat, i > Len(led[t])
    PROVE  ~MayChoose(i, t, now, acks)'
<1>. SUFFICES ASSUME NEW P \in Quorum, \A q \in P : currentTerm[q] > t => acks[t][q] >= i
              PROVE  FALSE
  BY DEF MayChoose
<1>1. PICK Q \in Quorum : \A q \in Q : currentTerm[q] >= u
  BY Electorate
<1>2. PICK q \in Server : q \in P /\ q \in Q
  BY QuorumsMeet
<1>3. /\ currentTerm[q] \in Terms /\ acked[t][q] \in Nat /\ acked[t][q] <= Len(led[t])
      /\ Len(led[t]) \in Nat
  BY DEF IInv, ElectionTypes, AckInv, Acks, LedInv, LeadersLogs
<1>4. currentTerm[q] > t
  BY <1>1, <1>2, <1>3 DEF Terms
<1>5. q # s /\ acks[t][q] = acked[t][q]
  BY <1>2, <1>4 DEF Terms
<1>6. acks[t][q] >= i
  BY <1>2, <1>4
<1>. QED  BY <1>3, <1>5, <1>6

LEMMA ReplicateInv ==
    ASSUME NEW led, NEW acked, Inv(led, acked), IInv',
           NEW s \in Server, NEW v \in Value, replicateCommand(s, v)
    PROVE  \E now, acks : LedInv(now)' /\ Inv(now, acks)'
<1>0. PICK t, now, acks : /\ t = currentTerm[s]
                          /\ now = [led EXCEPT ![currentTerm[s]] = log'[s]]
                          /\ acks = [acked EXCEPT ![t][s] = Len(log'[s])]
  OBVIOUS
<1>. DEFINE l == Append(log[s], [term |-> t, command |-> v])
            round == Heartbeats(s, l, nextIndex[s])
<1>1. /\ IInv /\ LedInv(led) /\ CommitTypes /\ AckInv(led, acked) /\ KeptInv(led, acked)
      /\ BallotInv(led, acked) /\ CommitInv(led, acked)
  BY DEF Inv
<1>2. /\ led \in [Terms -> Seq(Entry)] /\ acked \in Acks /\ log \in [Server -> Seq(Entry)]
      /\ currentTerm \in [Server -> Terms] /\ t \in Terms /\ t = currentTerm[s]
      /\ elected \in [Terms -> SUBSET Server]
      /\ commitIndex \in [Server -> Nat] /\ matchIndex \in [Server -> [Server -> Nat]]
      /\ commitIndex[s] <= Len(log[s])
  BY <1>0, <1>1 DEF LedInv, LeadersLogs, LogTypes, IInv, ElectionTypes, AckInv, CommitTypes,
                   CommitInv, AppliedIsLogPrefix
<1>3. LedInv(now)' /\ Extends(now, led)
  BY <1>0, <1>1, ReplicateLogs
<1>4. /\ state[s] = "LEADER" /\ log' = [log EXCEPT ![s] = l] /\ msgs' = msgs \cup round
      /\ UNCHANGED <<currentTerm, state, votes, elected, commitIndex, applied, matchIndex>>
  BY <1>0 DEF replicateCommand
<1>5. /\ led[t] = log[s] /\ acked[t][s] = Len(log[s])
      /\ \A p \in Server : matchIndex[s][p] <= acked[t][p]
  BY <1>0, <1>1, <1>4 DEF LedInv, LeadersLogs, AckInv
<1>6. /\ log'[s] = l /\ l \in Seq(Entry) /\ Len(l) = Len(log[s]) + 1 /\ Len(log[s]) \in Nat
      /\ Shares(l, log[s], Len(log[s]))
  <2>1. [term |-> t, command |-> v] \in Entry
    BY <1>2 DEF Entry
  <2>. QED  BY <1>2, <1>4, <2>1 DEF Shares
<1>7. \A m \in round : m.rpc = "appendEntries" /\ m.leaderCommit = commitIndex[s] /\ m.term = t
  BY <1>2, HeartbeatCommits
<1>. HIDE DEF l, round
<1>8. /\ now \in [Terms -> Seq(Entry)] /\ now[t] = l
      /\ \A u \in Terms : u # t => now[u] = led[u]
      /\ acks \in Acks /\ acks[t][s] = Len(l)
      /\ \A u \in Terms, p \in Server : ~(u = t /\ p = s) => acks[u][p] = acked[u][p]
      /\ \A u \in Terms, p \in Server : acked[u][p] \in Nat /\ acks[u][p] >= acked[u][p]
  <2>1. now \in [Terms -> Seq(Entry)] /\ now[t] = l /\ \A u \in Terms : u # t => now[u] = led[u]
    BY <1>0, <1>2, <1>6
  <2>2. \A u \in Terms, p \in Server : acked[u][p] \in Nat
    BY <1>2 DEF Acks
  <2>3. /\ acks \in Acks /\ acks[t][s] = Len(l)
        /\ \A u \in Terms, p \in Server : ~(u = t /\ p = s) => acks[u][p] = acked[u][p]
    BY <1>0, <1>2, <1>6 DEF Acks
  <2>4. \A u \in Terms, p \in Server : acks[u][p] >= acked[u][p]
    BY <1>5, <1>6, <2>2, <2>3
  <2>. QED  BY <2>1, <2>2, <2>3, <2>4
<1>9. Advance(led, acked, now, acks)
  <2>1. \A u \in Terms, p \in Server :
           acks[u][p] = acked[u][p] \/ (u = currentTerm'[p] /\ acks[u][p] >= acked[u][p])
    BY <1>2, <1>4, <1>8
  <2>2. \A p \in Server : currentTerm'[p] \in Terms /\ currentTerm'[p] >= currentTerm[p]
    BY <1>2, <1>4 DEF Terms
  <2>. QED  BY <1>3, <1>8, <2>1, <2>2 DEF Advance
<1>10. CommitTypes'
  <2>1. \A n \in msgs' : n.rpc = "appendEntries" => n.leaderCommit \in Nat
    BY <1>1, <1>2, <1>4, <1>7 DEF CommitTypes
  <2>. QED  BY <1>1, <1>4, <2>1 DEF CommitTypes
<1>11. AckInv(now, acks)'
  <2>1. ASSUME NEW p \in Server
        PROVE  \/ log'[p] = log[p] /\ \A u \in Terms : acks[u][p] = acked[u][p]
               \/ Shares(log'[p], now[currentTerm'[p]], acks[currentTerm'[p]][p])
    <3>1. CASE p = s
      BY <1>2, <1>4, <1>6, <1>8, <3>1 DEF Shares
    <3>2. CASE p # s
      BY <1>2, <1>4, <1>8, <3>2
    <3>. QED  BY <3>1, <3>2
  <2>2. ASSUME NEW r \in Server, state'[r] = "LEADER"
        PROVE  \/ /\ state[r] = "LEADER" /\ currentTerm'[r] = currentTerm[r]
                  /\ log'[r] = log[r] /\ matchIndex'[r] = matchIndex[r]
                  /\ \A u \in Terms : acks[u][r] = acked[u][r]
               \/ /\ acks[currentTerm'[r]][r] = Len(log'[r])
                  /\ \A p \in Server : matchIndex'[r][p] <= acks[currentTerm'[r]][p]
    <3>1. CASE r = s
      <4>1. ASSUME NEW p \in Server PROVE matchIndex[s][p] <= acks[t][p]
        <5>1. matchIndex[s][p] \in Nat /\ acked[t][p] \in Nat /\ acks[t][p] \in Nat
          BY <1>2, <1>8 DEF Acks
        <5>2. acks[t][p] >= acked[t][p] /\ matchIndex[s][p] <= acked[t][p]
          BY <1>2, <1>5, <1>8
        <5>. QED  BY <5>1, <5>2
      <4>. QED  BY <1>2, <1>4, <1>6, <1>8, <3>1, <4>1
    <3>2. CASE r # s
      BY <1>2, <1>4, <1>8, <2>2, <3>2
    <3>. QED  BY <3>1, <3>2
  <2>3. \A m \in msgs' : m.rpc = "appendResponse" /\ m.success => m \in msgs /\ m.matchIndex \in Nat
    BY <1>1, <1>4, <1>7 DEF LedInv, LogTypes, LogMessage
  <2>4. LedInv(now)' /\ matchIndex \in [Server -> [Server -> Nat]]
    BY <1>2, <1>3
  <2>. QED  BY <1>1, <1>9, <2>1, <2>2, <2>3, <2>4, AckStep
<1>12. KeptInv(now, acks)'
  <2>1. \A p \in Server, u \in Terms, i \in Nat :
           u < currentTerm'[p] /\ Has(log[p], i, u) /\ MayChoose(i, u, led, acked) =>
              Has(log'[p], i, u)
    <3>1. \A i, u : Has(log[s], i, u) => Has(l, i, u)
      BY <1>2, <1>6 DEF Has, Shares
    <3>. QED  BY <1>2, <1>4, <1>6, <3>1
  <2>2. ASSUME NEW u \in Terms, NEW w \in Terms, u < w, elected'[w] # {}
        PROVE  \/ elected[w] # {} /\ Len(now[u]) = Len(led[u])
               \/ Keeps(now[w], Len(now[u]), u, now, acks)'
    <3>1. CASE u # t
      BY <1>4, <1>8, <2>2, <3>1
    <3>2. CASE u = t
      <4>1. w # t /\ now[w] = led[w] /\ elected[w] # {}
        BY <1>4, <1>8, <2>2, <3>2 DEF Terms
      <4>. SUFFICES ASSUME NEW i \in 1..Len(now[t]), MayChoose(i, t, now, acks)'
                    PROVE  Has(led[w], i, t)
        BY <3>2, <4>1 DEF Keeps
      <4>2. i \in Nat /\ i <= Len(led[t])
        <5>1. i \in Nat /\ Len(led[t]) \in Nat
          BY <1>5, <1>6, <1>8
        <5>2. ~(i > Len(led[t]))
          <6>. SUFFICES ASSUME i > Len(led[t]) PROVE FALSE
            OBVIOUS
          <6>1. /\ t < w /\ t = currentTerm[s] /\ UNCHANGED currentTerm
                /\ \A p \in Server : p # s => acks[t][p] = acked[t][p]
            BY <1>2, <1>4, <1>8, <2>2, <3>2
          <6>2. ~MayChoose(i, t, now, acks)'
            BY <1>1, <1>2, <4>1, <5>1, <6>1, NewEntry
          <6>. QED  BY <6>2
        <5>. QED  BY <5>1, <5>2
      <4>3. MayChoose(i, t, led, acked)
        BY <1>1, <1>2, <1>9, <4>2, MayChooseBefore
      <4>4. Keeps(led[w], Len(led[t]), t, led, acked)
        BY <1>1, <1>2, <2>2, <3>2, <4>1 DEF KeptInv
      <4>. QED  BY <4>2, <4>3, <4>4 DEF Keeps
    <3>. QED  BY <3>1, <3>2
  <2>. QED  BY <1>1, <1>9, <1>11, <2>1, <2>2, KeptStep
<1>13. BallotInv(now, acks)'
  <2>1. \A r \in Server : state'[r] = "CANDIDATE" =>
           /\ log'[r] = log[r]
           /\ currentTerm'[r] = currentTerm[r] => state[r] = "CANDIDATE"
    BY <1>2, <1>4
  <2>2. \A m \in msgs' : m.rpc = "requestVote" => m \in msgs
    BY <1>4, <1>7
  <2>3. \A q, r \in Server, u \in Terms : Voted(q, r, u)' => Voted(q, r, u)
    BY <1>4, <1>7 DEF Voted
  <2>. QED  BY <1>1, <1>9, <2>1, <2>2, <2>3, BallotStep
<1>14. CommitInv(now, acks)'
  <2>1. \A r \in Server : /\ commitIndex'[r] = commitIndex[r] /\ applied'[r] = applied[r]
                          /\ Shares(log'[r], log[r], commitIndex[r])
    <3>1. \A r \in Server : Shares(log[r], log[r], commitIndex[r])
      BY <1>1, <1>2 DEF Shares, CommitInv, AppliedIsLogPrefix
    <3>2. Shares(l, log[s], commitIndex[s])
      BY <1>2, <1>6 DEF Shares
    <3>. QED  BY <1>2, <1>4, <1>6, <3>1, <3>2
  <2>2. Committed(l, commitIndex[s], t, now, acks)
    <3>1. Committed(log[s], commitIndex[s], t, led, acked) /\ t <= t
      BY <1>1, <1>2 DEF CommitInv, Terms
    <3>2. Shares(l, log[s], commitIndex[s])
      BY <1>6, <2>1
    <3>3. log[s] \in Seq(Entry) /\ commitIndex[s] \in Nat
      BY <1>2
    <3>. QED  BY <1>2, <1>6, <1>9, <3>1, <3>2, <3>3, CommittedStays
  <2>3. \A n \in msgs' : n.rpc = "appendEntries" =>
           n \in msgs \/ Committed(now[n.term], n.leaderCommit, n.term, now, acks)
    BY <1>4, <1>7, <1>8, <2>2
  <2>. QED  BY <1>1, <1>3, <1>9, <2>1, <2>3, CommittedStep
<1>. QED  BY <1>3, <1>10, <1>11, <1>12, <1>13, <1>14 DEF Inv

\* What a node that applied a has applied after the entries of the log l up to index c.
Through(a, l, c) == a \o [i \in 1..(c - Len(a)) |-> l[Len(a) + i].command]

\* applyCommittedEntries(): the commands of the log, up to the commit index.
LEMMA Applying ==
    ASSUME NEW a \in Seq(Value), NEW l \in Seq(Entry), NEW c \in Nat, Len(a) <= c, c <= Len(l),
           \A i \in 1..Len(a) : a[i] = l[i].command
    PROVE  /\ Through(a, l, c) \in Seq(Value) /\ Len(Through(a, l, c)) = c
           /\ \A i \in 1..c : Through(a, l, c)[i] = l[i].command
<1>. DEFINE b == Through(a, l, c)
            rest == [i \in 1..(c - Len(a)) |-> l[Len(a) + i].command]
<1>1. Len(a) \in Nat /\ c - Len(a) \in Nat
  OBVIOUS
<1>2. \A i \in 1..(c - Len(a)) : l[Len(a) + i] \in Entry
  BY <1>1
<1>3. /\ rest \in Seq(Value) /\ Len(rest) = c - Len(a)
      /\ \A i \in 1..(c - Len(a)) : rest[i] = l[Len(a) + i].command
  <2>1. \A i \in 1..(c - Len(a)) : l[Len(a) + i].command \in Value
    BY <1>2 DEF Entry
  <2>. QED  BY <1>1, <2>1
<1>. HIDE DEF rest
<1>4. /\ b \in Seq(Value) /\ Len(b) = Len(a) + Len(rest)
      /\ \A i \in 1..(Len(a) + Len(rest)) :
            b[i] = IF i <= Len(a) THEN a[i] ELSE rest[i - Len(a)]
  <2>1. b = a \o rest
    BY DEF rest, Through
  <2>. HIDE DEF b
  <2>. QED  BY <1>3, <2>1, ConcatProperties
<1>. HIDE DEF b
<1>5. ASSUME NEW i \in 1..c PROVE b[i] = l[i].command
  <2>1. CASE i <= Len(a)
    <3>1. i \in 1..Len(a) /\ i \in 1..(Len(a) + Len(rest))
      BY <1>1, <1>3, <2>1
    <3>2. b[i] = a[i]
      BY <1>4, <2>1, <3>1
    <3>. QED  BY <3>1, <3>2
  <2>2. CASE i > Len(a)
    <3>1. i - Len(a) \in 1..(c - Len(a)) /\ Len(a) + (i - Len(a)) = i
      BY <1>1, <2>2
    <3>2. i \in 1..(Len(a) + Len(rest)) /\ ~(i <= Len(a))
      BY <1>1, <1>3, <2>2
    <3>3. b[i] = rest[i - Len(a)]
      BY <1>4, <3>2
    <3>. QED  BY <1>3, <3>1, <3>3
  <2>. QED  BY <1>1, <2>1, <2>2
<1>6. b \in Seq(Value) /\ Len(b) = c
  BY <1>1, <1>3, <1>4
<1>. QED  BY <1>5, <1>6 DEF b

\* A follower takes over what a request brings it, and commits what the request vouches for.
LEMMA AppendInv ==
    ASSUME NEW led, NEW acked, Inv(led, acked), Vouched, IInv', LedInv(led)',
           NEW m \in msgs, handleAppendEntries(m), ~(m.term < currentTerm[m.to]),
           \/ m.prevLogIndex = 0
           \/ /\ m.prevLogIndex <= Len(log[m.to])
              /\ log[m.to][m.prevLogIndex].term = m.prevLogTerm
    PROVE  /\ \E acks : Inv(led, acks)'
           /\ commitIndex'[m.to] >= commitIndex[m.to]
<1>0. PICK s, t, end, new, acks :
         /\ s = m.to /\ t = m.term /\ end = m.prevLogIndex + Len(m.entries)
         /\ new = Merged(log[s], m.prevLogIndex, m.entries)
         /\ acks = [acked EXCEPT ![t][s] = IF @ < end THEN end ELSE @]
  OBVIOUS
<1>. DEFINE c == NewCommitIndex(s, m, new)
            reply == AppendResponse(m, m.term, TRUE, m.prevLogIndex + Len(m.entries), 0)
<1>1. /\ IInv /\ LedInv(led) /\ CommitTypes /\ AckInv(led, acked) /\ KeptInv(led, acked)
      /\ BallotInv(led, acked) /\ CommitInv(led, acked)
  BY DEF Inv
<1>2. /\ led \in [Terms -> Seq(Entry)] /\ acked \in Acks /\ log \in [Server -> Seq(Entry)]
      /\ currentTerm \in [Server -> Terms]
      /\ state \in [Server -> {"FOLLOWER", "CANDIDATE", "LEADER"}]
      /\ commitIndex \in [Server -> Nat] /\ matchIndex \in [Server -> [Server -> Nat]]
      /\ applied \in [Server -> Seq(Value)]
  BY <1>1 DEF LedInv, LeadersLogs, LogTypes, IInv, ElectionTypes, AckInv, CommitTypes
<1>3. /\ m.rpc = "appendEntries" /\ s \in Server /\ t \in Terms /\ elected[t] # {}
      /\ m.prevLogIndex \in Nat /\ m.entries \in Seq(Entry) /\ end \in Nat
      /\ m.leaderCommit \in Nat /\ m.leaderCommit <= end
      /\ currentTerm[s] <= t
  <2>1. m.rpc = "appendEntries"
    BY DEF handleAppendEntries
  <2>2. s \in Server /\ t \in Terms /\ elected[t] # {}
    BY <1>0, <1>1, <2>1 DEF IInv, ElectionTypes, WellFormed
  <2>3. /\ m.prevLogIndex \in Nat /\ m.entries \in Seq(Entry) /\ m.leaderCommit \in Nat
        /\ Len(m.entries) \in Nat
    BY <1>1, <2>1 DEF LedInv, LogTypes, LogMessage, CommitTypes
  <2>4. m.leaderCommit <= end /\ end \in Nat
    BY <1>0, <2>1, <2>3 DEF Vouched
  <2>5. currentTerm[s] <= t
    BY <1>0, <1>2, <2>2 DEF Terms
  <2>. QED  BY <2>1, <2>2, <2>3, <2>4, <2>5
<1>4. /\ currentTerm' = [currentTerm EXCEPT ![s] = t]
      /\ state' = [state EXCEPT ![s] = "FOLLOWER"]
  BY <1>0, <1>1, AppendEntriesTerm
<1>5. /\ log' = [log EXCEPT ![s] = new]
      /\ commitIndex' = [commitIndex EXCEPT ![s] = c]
      /\ applyCommittedEntries(s, new, c)
      /\ msgs' = (msgs \ {m}) \cup {reply}
      /\ UNCHANGED <<matchIndex, votes, elected>>
  BY <1>0, Zenon DEF handleAppendEntries
<1>6. /\ reply.rpc = "appendResponse" /\ reply.success
      /\ reply.matchIndex = end /\ reply.sentIn = t /\ reply.to = s
  BY <1>0 DEF AppendResponse
<1>7. /\ new \in Seq(Entry)
      /\ Shares(new, led[t], end)
      /\ \A i \in Nat : Shares(log[s], led[t], i) => Shares(new, led[t], i)
  <2>1. /\ m.prevLogIndex <= Len(log[m.to])
        /\ m.prevLogIndex > 0 => log[m.to][m.prevLogIndex].term = m.prevLogTerm
        /\ currentTerm[m.to] <= m.term
    BY <1>0, <1>2, <1>3
  <2>. QED  BY <1>0, <1>1, <1>3, <2>1, AppendedLog
<1>. HIDE DEF reply, c
<1>8. /\ acks \in Acks
      /\ \A u \in Terms, p \in Server : ~(u = t /\ p = s) => acks[u][p] = acked[u][p]
      /\ acks[t][s] = IF acked[t][s] < end THEN end ELSE acked[t][s]
      /\ \A u \in Terms, p \in Server :
            acked[u][p] \in Nat /\ acks[u][p] \in Nat /\ acks[u][p] >= acked[u][p]
  <2>1. \A u \in Terms, p \in Server : acked[u][p] \in Nat
    BY <1>2 DEF Acks
  <2>2. /\ acks \in Acks
        /\ \A u \in Terms, p \in Server : ~(u = t /\ p = s) => acks[u][p] = acked[u][p]
        /\ acks[t][s] = IF acked[t][s] < end THEN end ELSE acked[t][s]
    BY <1>0, <1>2, <1>3, <2>1 DEF Acks
  <2>3. \A u \in Terms, p \in Server : acks[u][p] \in Nat
    BY <2>2 DEF Acks
  <2>4. acks[t][s] >= acked[t][s]
    <3>1. acked[t][s] \in Nat
      BY <1>3, <2>1
    <3>2. acks[t][s] = IF acked[t][s] < end THEN end ELSE acked[t][s]
      BY <2>2
    <3>. QED  BY <1>3, <3>1, <3>2
  <2>5. ASSUME NEW u \in Terms, NEW p \in Server PROVE acks[u][p] >= acked[u][p]
    <3>1. CASE u = t /\ p = s
      BY <2>4, <3>1
    <3>2. CASE ~(u = t /\ p = s)
      <4>1. acks[u][p] = acked[u][p] /\ acked[u][p] \in Nat
        BY <2>1, <2>2, <3>2
      <4>. QED  BY <4>1
    <3>. QED  BY <3>1, <3>2
  <2>. QED  BY <2>1, <2>2, <2>3, <2>5
<1>9. Advance(led, acked, led, acks)
  <2>1. ASSUME NEW p \in Server
        PROVE  currentTerm'[p] \in Terms /\ currentTerm'[p] >= currentTerm[p]
    <3>1. /\ currentTerm[p] \in Terms
          /\ currentTerm'[p] = IF p = s THEN t ELSE currentTerm[p]
      BY <1>2, <1>4
    <3>. QED  BY <1>3, <3>1 DEF Terms
  <2>2. \A u \in Terms, p \in Server :
           acks[u][p] = acked[u][p] \/ (u = currentTerm'[p] /\ acks[u][p] >= acked[u][p])
    BY <1>2, <1>3, <1>4, <1>8
  <2>. QED  BY <1>2, <1>8, <2>1, <2>2, ExtendsReflexive DEF Advance
\* What the follower had acknowledged to this leader, it still has.
<1>10. Shares(new, led[t], acks[t][s])
  <2>1. Shares(log[s], led[t], acked[t][s])
    <3>1. CASE t = currentTerm[s]
      BY <1>1, <1>3, <3>1 DEF AckInv
    <3>2. CASE t # currentTerm[s]
      <4>1. t > currentTerm[s]
        BY <1>2, <1>3, <3>2 DEF Terms
      <4>2. acked[t][s] = 0
        BY <1>1, <1>3, <4>1 DEF AckInv
      <4>3. log[s] \in Seq(Entry) /\ led[t] \in Seq(Entry)
        BY <1>2, <1>3
      <4>. QED  BY <4>2, <4>3 DEF Shares
    <3>. QED  BY <3>1, <3>2
  <2>. QED  BY <1>3, <1>7, <1>8, <2>1
<1>11. AckInv(led, acks)'
  <2>1. ASSUME NEW p \in Server
        PROVE  \/ log'[p] = log[p] /\ \A u \in Terms : acks[u][p] = acked[u][p]
               \/ Shares(log'[p], led[currentTerm'[p]], acks[currentTerm'[p]][p])
    <3>1. CASE p = s
      BY <1>2, <1>4, <1>5, <1>10, <3>1
    <3>2. CASE p # s
      BY <1>2, <1>5, <1>8, <3>2
    <3>. QED  BY <3>1, <3>2
  <2>2. ASSUME NEW r \in Server, state'[r] = "LEADER"
        PROVE  /\ state[r] = "LEADER" /\ currentTerm'[r] = currentTerm[r]
               /\ log'[r] = log[r] /\ matchIndex'[r] = matchIndex[r]
               /\ \A u \in Terms : acks[u][r] = acked[u][r]
    <3>1. r # s
      BY <1>2, <1>4, <2>2
    <3>. QED  BY <1>2, <1>4, <1>5, <1>8, <2>2, <3>1
  <2>3. \A n \in msgs' : n.rpc = "appendResponse" /\ n.success =>
           (n \in msgs /\ n.matchIndex \in Nat) \/ n.matchIndex <= acks[n.sentIn][n.to]
    <3>1. reply.matchIndex <= acks[reply.sentIn][reply.to]
      BY <1>3, <1>6, <1>8
    <3>2. \A n \in msgs : n.rpc = "appendResponse" => n.matchIndex \in Nat
      BY <1>1 DEF LedInv, LogTypes, LogMessage
    <3>. QED  BY <1>5, <3>1, <3>2
  <2>4. IInv /\ LedInv(led) /\ AckInv(led, acked)
    BY <1>1
  <2>5. matchIndex \in [Server -> [Server -> Nat]]
    BY <1>2
  <2>. QED  BY <1>9, <2>1, <2>2, <2>3, <2>4, <2>5, AckStep
<1>12. KeptInv(led, acks)'
  <2>1. ASSUME NEW p \in Server, NEW u \in Terms, NEW i \in Nat, u < currentTerm'[p],
               Has(log[p], i, u), MayChoose(i, u, led, acked)
        PROVE  Has(log'[p], i, u)
    <3>1. CASE p # s
      BY <1>2, <1>5, <2>1, <3>1
    <3>2. CASE p = s
      <4>1. u < t /\ Keeps(led[t], Len(led[u]), u, led, acked)
        BY <1>1, <1>2, <1>3, <1>4, <2>1, <3>2 DEF KeptInv
      <4>2. Has(led[t], i, u)
        BY <2>1, <4>1 DEF Keeps, MayChoose, Has
      <4>3. /\ i \in 1..Len(log[s]) /\ i <= Len(led[t]) /\ log[s][i].term = led[t][i].term
            /\ log[s] \in Seq(Entry) /\ led[t] \in Seq(Entry)
            /\ Copied(log[s], led) /\ Copied(led[t], led)
        BY <1>1, <1>2, <1>3, <2>1, <3>2, <4>2 DEF Has, LedInv, LeadersLogs
      <4>4. Shares(log[s], led[t], i)
        BY <4>3, CopiedShares
      <4>5. Shares(new, led[t], i)
        BY <1>7, <2>1, <4>4
      <4>6. Has(new, i, u)
        BY <1>7, <4>2, <4>3, <4>5 DEF Has, Shares
      <4>. QED  BY <1>2, <1>3, <1>5, <3>2, <4>6
    <3>. QED  BY <3>1, <3>2
  <2>2. \A u, w \in Terms : u < w /\ elected'[w] # {} =>
           elected[w] # {} /\ Len(led[u]) = Len(led[u])
    BY <1>5
  <2>. QED  BY <1>1, <1>9, <1>11, <2>1, <2>2, KeptStep
<1>13. BallotInv(led, acks)'
  <2>1. ASSUME NEW r \in Server, state'[r] = "CANDIDATE"
        PROVE  /\ log'[r] = log[r]
               /\ currentTerm'[r] = currentTerm[r] => state[r] = "CANDIDATE"
    <3>1. r # s
      BY <1>2, <1>4, <2>1
    <3>. QED  BY <1>2, <1>4, <1>5, <2>1, <3>1
  <2>2. \A n \in msgs' : n.rpc = "requestVote" => n \in msgs
    BY <1>5, <1>6
  <2>3. \A q, r \in Server, u \in Terms : Voted(q, r, u)' => Voted(q, r, u)
    BY <1>5, <1>6 DEF Voted
  <2>. QED  BY <1>1, <1>9, <2>1, <2>2, <2>3, BallotStep
\* The log is not cut below what is committed.
<1>14. Shares(log[s], led[t], commitIndex[s]) /\ Shares(new, led[t], commitIndex[s])
  <2>1. /\ log[s] \in Seq(Entry) /\ commitIndex[s] \in Nat /\ currentTerm[s] \in Terms
        /\ Committed(log[s], commitIndex[s], currentTerm[s], led, acked)
    BY <1>1, <1>2, <1>3 DEF CommitInv
  <2>2. Shares(log[s], led[t], commitIndex[s])
    BY <1>1, <1>3, <2>1, CommittedLed
  <2>. QED  BY <1>7, <2>1, <2>2
<1>15. /\ c \in Nat /\ c >= commitIndex[s] /\ c <= Len(new)
       /\ Committed(new, c, t, led, acks)
  <2>1. /\ commitIndex[s] \in Nat /\ Len(new) \in Nat /\ end <= Len(new)
        /\ commitIndex[s] <= Len(new)
    BY <1>2, <1>3, <1>7, <1>14 DEF Shares
  <2>2. CASE m.leaderCommit > commitIndex[s]
    <3>1. c = m.leaderCommit /\ m.leaderCommit <= Len(new)
      BY <1>3, <2>1, <2>2 DEF c, NewCommitIndex, Minimum
    <3>2. Committed(led[t], m.leaderCommit, t, led, acked)
      BY <1>0, <1>1, <1>3 DEF CommitInv
    <3>3. Shares(new, led[t], m.leaderCommit)
      <4>1. m.leaderCommit \in 0..end /\ led[t] \in Seq(Entry)
        BY <1>2, <1>3
      <4>. QED  BY <1>3, <1>7, <4>1, SharesLess
    <3>4. led[t] \in Seq(Entry) /\ t <= t
      BY <1>2, <1>3 DEF Terms
    <3>5. Committed(new, m.leaderCommit, t, led, acks)
      BY <1>2, <1>3, <1>7, <1>9, <3>2, <3>3, <3>4, CommittedStays
    <3>. QED  BY <1>3, <2>1, <2>2, <3>1, <3>5
  <2>3. CASE ~(m.leaderCommit > commitIndex[s])
    <3>1. c = commitIndex[s]
      BY <2>3 DEF c, NewCommitIndex
    <3>2. /\ log[s] \in Seq(Entry) /\ led[t] \in Seq(Entry) /\ currentTerm[s] \in Terms
          /\ Committed(log[s], commitIndex[s], currentTerm[s], led, acked)
      BY <1>1, <1>2, <1>3 DEF CommitInv
    <3>3. Shares(new, log[s], commitIndex[s])
      BY <1>7, <1>14, <2>1, <3>2, SharesVia
    <3>4. Committed(new, commitIndex[s], t, led, acks)
      BY <1>2, <1>3, <1>7, <1>9, <2>1, <3>2, <3>3, CommittedStays
    <3>. QED  BY <2>1, <3>1, <3>4
  <2>. QED  BY <2>2, <2>3
<1>16. /\ applied'[s] \in Seq(Value) /\ Len(applied'[s]) = c
       /\ \A i \in DOMAIN applied'[s] : applied'[s][i] = new[i].command
       /\ \A p \in Server : p # s => applied'[p] = applied[p]
  <2>. DEFINE a == applied[s]
  <2>1. /\ a \in Seq(Value) /\ Len(a) = commitIndex[s] /\ Len(a) \in Nat
        /\ \A i \in 1..Len(a) : a[i] = log[s][i].command
    <3>1. a \in Seq(Value) /\ Len(a) = commitIndex[s] /\ DOMAIN a = 1..Len(a)
      BY <1>1, <1>2, <1>3 DEF CommitInv, AppliedIsLogPrefix
    <3>2. \A i \in DOMAIN a : a[i] = log[s][i].command
      BY <1>1, <1>3 DEF CommitInv, AppliedIsLogPrefix
    <3>. QED  BY <3>1, <3>2
  <2>2. \A i \in 1..Len(a) : a[i] = new[i].command
    BY <1>14, <2>1 DEF Shares
  <2>3. /\ applied'[s] = Through(a, new, c)
        /\ \A p \in Server : p # s => applied'[p] = applied[p]
    BY <1>2, <1>3, <1>5 DEF applyCommittedEntries, Through
  <2>4. Len(a) <= c
    BY <1>15, <2>1
  <2>. HIDE DEF a
  <2>5. new \in Seq(Entry) /\ c \in Nat /\ c <= Len(new) /\ a \in Seq(Value)
    BY <1>7, <1>15, <2>1
  <2>6. /\ applied'[s] \in Seq(Value) /\ Len(applied'[s]) = c
        /\ \A i \in 1..c : applied'[s][i] = new[i].command
    BY <2>2, <2>3, <2>4, <2>5, Applying
  <2>. QED  BY <2>3, <2>6
<1>17. CommitTypes'
  <2>1. \A n \in msgs' : n.rpc = "appendEntries" => n.leaderCommit \in Nat
    BY <1>1, <1>5, <1>6 DEF CommitTypes
  <2>2. applied' \in [Server -> Seq(Value)]
    <3>1. applied' = [applied EXCEPT ![s] = applied'[s]]
      BY <1>2, <1>3, <1>5 DEF applyCommittedEntries
    <3>. QED  BY <1>2, <1>16, <3>1
  <2>3. commitIndex' \in [Server -> Nat]
    BY <1>2, <1>5, <1>15
  <2>. QED  BY <1>2, <1>5, <2>1, <2>2, <2>3 DEF CommitTypes
<1>18. CommitInv(led, acks)'
  <2>1. ASSUME NEW p \in Server
        PROVE  \/ /\ commitIndex'[p] = commitIndex[p] /\ applied'[p] = applied[p]
                  /\ Shares(log'[p], log[p], commitIndex[p])
               \/ /\ Committed(log'[p], commitIndex'[p], currentTerm'[p], led, acks)
                  /\ Len(applied'[p]) = commitIndex'[p] /\ commitIndex'[p] <= Len(log'[p])
                  /\ \A i \in DOMAIN applied'[p] : applied'[p][i] = log'[p][i].command
    <3>1. CASE p = s
      BY <1>2, <1>4, <1>5, <1>15, <1>16, <3>1
    <3>2. CASE p # s
      BY <1>1, <1>2, <1>5, <1>16, <3>2 DEF CommitInv, AppliedIsLogPrefix, Shares
    <3>. QED  BY <3>1, <3>2
  <2>2. \A n \in msgs' : n.rpc = "appendEntries" => n \in msgs
    BY <1>5, <1>6
  <2>. QED  BY <1>1, <1>9, <2>1, <2>2, CommittedStep
<1>19. Inv(led, acks)'
  BY <1>11, <1>12, <1>13, <1>17, <1>18 DEF Inv
<1>20. commitIndex'[s] >= commitIndex[s]
  BY <1>2, <1>3, <1>5, <1>15
<1>. QED  BY <1>0, <1>19, <1>20

LEMMA AppendEntriesInv ==
    ASSUME NEW led, NEW acked, Inv(led, acked), Vouched, IInv', LedInv(led)',
           NEW m \in msgs, handleAppendEntries(m)
    PROVE  /\ \E acks : Inv(led, acks)'
           /\ commitIndex'[m.to] >= commitIndex[m.to]
<1>. DEFINE s == m.to
            prev == m.prevLogIndex
            consistent == \/ prev = 0
                          \/ prev <= Len(log[s]) /\ log[s][prev].term = m.prevLogTerm
<1>1. /\ s \in Server /\ m.term \in Terms /\ currentTerm \in [Server -> Terms] /\ IInv
      /\ state \in [Server -> {"FOLLOWER", "CANDIDATE", "LEADER"}]
  BY DEF Inv, IInv, ElectionTypes, WellFormed
<1>2. CASE ~(m.term < currentTerm[s]) /\ consistent
  BY <1>2, AppendInv
<1>3. CASE m.term < currentTerm[s] \/ ~consistent
  <2>1. PICK reply : /\ msgs' = (msgs \ {m}) \cup {reply}
                     /\ reply.rpc = "appendResponse" /\ ~reply.success
    <3>1. CASE m.term < currentTerm[s]
      <4>. DEFINE reply == AppendResponse(m, currentTerm[s], FALSE, 0, 0)
      <4>1. msgs' = (msgs \ {m}) \cup {reply}
        BY <3>1, Zenon DEF handleAppendEntries
      <4>2. reply.rpc = "appendResponse" /\ ~reply.success
        BY DEF AppendResponse
      <4>. QED  BY <4>1, <4>2
    <3>2. CASE ~(m.term < currentTerm[s]) /\ ~consistent
      <4>. DEFINE reply == AppendResponse(m, m.term, FALSE, 0, ConflictIndex(log[s], prev))
      <4>1. msgs' = (msgs \ {m}) \cup {reply}
        BY <3>2, Zenon DEF handleAppendEntries
      <4>2. reply.rpc = "appendResponse" /\ ~reply.success
        BY DEF AppendResponse
      <4>. QED  BY <4>1, <4>2
    <3>. QED  BY <1>3, <3>1, <3>2
  <2>2. UNCHANGED <<log, commitIndex, applied, matchIndex, votes, elected>>
    BY <1>3, Zenon DEF handleAppendEntries
  <2>3. \/ m.term < currentTerm[s] /\ UNCHANGED <<currentTerm, state>>
        \/ /\ ~(m.term < currentTerm[s])
           /\ currentTerm' = [currentTerm EXCEPT ![s] = m.term]
           /\ state' = [state EXCEPT ![s] = "FOLLOWER"]
    <3>1. CASE m.term < currentTerm[s]
      BY <3>1 DEF handleAppendEntries
    <3>2. CASE ~(m.term < currentTerm[s])
      BY <1>1, <3>2, AppendEntriesTerm
    <3>. QED  BY <3>1, <3>2
  <2>4. \A p \in Server :
           /\ currentTerm'[p] \in Terms /\ currentTerm'[p] >= currentTerm[p]
           /\ state'[p] # "FOLLOWER" => state'[p] = state[p] /\ currentTerm'[p] = currentTerm[p]
    BY <1>1, <2>3 DEF Terms
  <2>5. \A q, r \in Server, u \in Terms : Voted(q, r, u)' => Voted(q, r, u)
    BY <2>1, <2>2 DEF Voted
  <2>6. \A n \in msgs' : n \in msgs \/ (n.rpc = "appendResponse" /\ ~n.success)
    BY <2>1
  <2>7. Inv(led, acked)'
    BY <2>2, <2>4, <2>5, <2>6, PassiveInv
  <2>8. commitIndex'[s] = commitIndex[s] /\ commitIndex[s] \in Nat
    BY <1>1, <2>2 DEF Inv, CommitTypes
  <2>. QED  BY <2>7, <2>8
<1>. QED  BY <1>2, <1>3


\* The sort in updateCommitIndex() finds an index, and a majority holds what it finds.
LEMMA MajorityReached ==
    ASSUME NEW s \in Server, Len(log[s]) \in Nat, NEW match \in [Server -> Nat],
           \A p \in Server : match[p] <= Len(log[s])
    PROVE  /\ MajorityIndex(s, match) \in Nat
           /\ \E Q \in Quorum : \A q \in Q : q = s \/ match[q] >= MajorityIndex(s, match)
<1>. DEFINE Holders(i) == {p \in Peers(s) : match[p] >= i}
            Indexes == {Len(log[s])} \cup {match[p] : p \in Peers(s)}
            Reached == {i \in Indexes :
                           (IF i <= Len(log[s]) THEN 1 ELSE 0) + Cardinality(Holders(i))
                               >= Majority}
            Highest(i) == i \in Reached /\ \A j \in Reached : j <= i
            back == {Len(log[s]) - i : i \in Reached}
<1>1. Indexes \subseteq Nat /\ Indexes # {} /\ \A i \in Indexes : i <= Len(log[s])
  BY DEF Peers
<1>2. /\ Cardinality(Server) \in Nat /\ Cardinality(Server) # 0
      /\ \A P \in SUBSET Peers(s) :
            /\ IsFiniteSet(P) /\ Cardinality(P) \in Nat
            /\ Cardinality(P \cup {s}) = Cardinality(P) + 1
      /\ Peers(s) \cup {s} = Server
  <2>1. ASSUME NEW P \in SUBSET Peers(s)
        PROVE  /\ IsFiniteSet(P) /\ Cardinality(P) \in Nat
               /\ Cardinality(P \cup {s}) = Cardinality(P) + 1
    <3>1. P \in SUBSET Server /\ s \notin P
      BY DEF Peers
    <3>2. IsFiniteSet(P)
      BY <3>1, FS_Subset
    <3>. QED  BY <3>1, <3>2, FS_AddElement, FS_CardinalityType
  <2>2. Cardinality(Server) \in Nat /\ Cardinality(Server) # 0
    BY FS_CardinalityType, FS_EmptySet
  <2>3. Peers(s) \cup {s} = Server
    BY DEF Peers
  <2>. QED  BY <2>1, <2>2, <2>3
<1>3. Reached # {}
  <2>1. PICK k \in Indexes : \A j \in Indexes : k <= j
    <3>. HIDE DEF Indexes
    <3>. QED  BY <1>1, LeastIndex
  <2>2. Holders(k) = Peers(s)
    BY <1>1, <2>1 DEF Peers
  <2>. HIDE DEF Holders
  <2>3. 1 + Cardinality(Holders(k)) = Cardinality(Server)
    <3>1. Cardinality(Peers(s)) \in Nat /\ Cardinality(Server) = Cardinality(Peers(s)) + 1
      <4>1. Peers(s) \in SUBSET Peers(s)
        OBVIOUS
      <4>. QED  BY <1>2, <4>1
    <3>. QED  BY <2>2, <3>1
  <2>4. Cardinality(Server) >= Majority
    BY <1>2 DEF Majority
  <2>5. k <= Len(log[s])
    BY <1>1, <2>1
  <2>. HIDE DEF Indexes
  <2>. QED  BY <2>1, <2>3, <2>4, <2>5
<1>4. \E i : Highest(i)
  <2>1. back \subseteq Nat /\ back # {}
    <3>1. \A i \in Reached : i \in Nat /\ i <= Len(log[s])
      BY <1>1
    <3>. HIDE DEF Reached
    <3>. QED  BY <1>3, <3>1
  <2>2. PICK k \in back : \A j \in back : k <= j
    <3>. HIDE DEF back
    <3>. QED  BY <2>1, LeastIndex
  <2>3. PICK i \in Reached : k = Len(log[s]) - i
    BY <2>2
  <2>4. \A j \in Reached : j \in Nat /\ j <= Len(log[s])
    BY <1>1
  <2>5. ASSUME NEW j \in Reached PROVE j <= i
    <3>1. Len(log[s]) - j \in back
      OBVIOUS
    <3>. HIDE DEF Reached, back
    <3>. QED  BY <2>2, <2>3, <2>4, <3>1
  <2>. QED  BY <2>3, <2>5
<1>5. PICK i : i = MajorityIndex(s, match)
  OBVIOUS
<1>6. i = CHOOSE j : Highest(j)
  BY <1>5 DEF MajorityIndex
<1>7. Highest(i)
  <2>. HIDE DEF Highest
  <2>. QED  BY <1>4, <1>6
<1>8. /\ i \in Nat /\ i <= Len(log[s])
      /\ (IF i <= Len(log[s]) THEN 1 ELSE 0) + Cardinality(Holders(i)) >= Majority
  BY <1>1, <1>7
<1>9. Holders(i) \in SUBSET Peers(s)
  OBVIOUS
<1>10. Holders(i) \cup {s} \in Quorum
  <2>1. Cardinality(Holders(i) \cup {s}) = Cardinality(Holders(i)) + 1
        /\ Cardinality(Holders(i)) \in Nat
    <3>. HIDE DEF Holders
    <3>. QED  BY <1>2, <1>9
  <2>2. Holders(i) \cup {s} \in SUBSET Server
    BY DEF Peers
  <2>3. Majority \in Nat
    BY <1>2 DEF Majority
  <2>. HIDE DEF Holders
  <2>. QED  BY <1>8, <2>1, <2>2, <2>3 DEF Quorum
<1>11. \A q \in Holders(i) \cup {s} : q = s \/ match[q] >= i
  OBVIOUS
<1>. HIDE DEF Holders
<1>. QED  BY <1>5, <1>8, <1>10, <1>11

\* A leader commits an entry of its own term that a majority has acknowledged.
LEMMA AppendResponseInv ==
    ASSUME Timely, NEW led, NEW acked, Inv(led, acked), IInv', LedInv(led)',
           NEW m \in msgs, handleAppendResponse(m)
    PROVE  Inv(led, acked)'
<1>0. PICK s, p, t, match :
         /\ s = m.from /\ p = m.to /\ t = currentTerm[s]
         /\ match = IF m.success THEN [matchIndex[s] EXCEPT ![p] = m.matchIndex]
                    ELSE matchIndex[s]
  OBVIOUS
<1>1. /\ IInv /\ LedInv(led) /\ CommitTypes /\ AckInv(led, acked) /\ KeptInv(led, acked)
      /\ BallotInv(led, acked) /\ CommitInv(led, acked)
  BY DEF Inv
<1>2. /\ led \in [Terms -> Seq(Entry)] /\ acked \in Acks /\ log \in [Server -> Seq(Entry)]
      /\ currentTerm \in [Server -> Terms]
      /\ state \in [Server -> {"FOLLOWER", "CANDIDATE", "LEADER"}]
      /\ commitIndex \in [Server -> Nat] /\ matchIndex \in [Server -> [Server -> Nat]]
      /\ applied \in [Server -> Seq(Value)]
  BY <1>1 DEF LedInv, LeadersLogs, LogTypes, IInv, ElectionTypes, AckInv, CommitTypes
<1>3. m.rpc = "appendResponse" /\ m.sentIn = currentTerm[m.from]
  BY DEF handleAppendResponse, Delivered, Timely
<1>4. /\ s \in Server /\ p \in Server /\ t \in Terms /\ m.term \in Terms
      /\ m.matchIndex \in Nat /\ match \in [Server -> Nat]
      /\ msgs' \subseteq msgs /\ UNCHANGED <<log, votes, elected>>
  <2>1. s \in Server /\ p \in Server /\ t \in Terms /\ m.term \in Terms
    BY <1>0, <1>1, <1>2 DEF IInv, ElectionTypes, WellFormed
  <2>2. m.matchIndex \in Nat
    BY <1>1, <1>3 DEF LedInv, LogTypes, LogMessage
  <2>3. match \in [Server -> Nat]
    BY <1>0, <1>2, <2>1, <2>2
  <2>4. msgs' \subseteq msgs /\ UNCHANGED <<log, votes, elected>>
    BY DEF handleAppendResponse
  <2>. QED  BY <2>1, <2>2, <2>3, <2>4
<1>5. \A q, r \in Server, u \in Terms : Voted(q, r, u)' => Voted(q, r, u)
  BY <1>4 DEF Voted
<1>6. CASE m.term > t
  <2>1. /\ currentTerm' = [currentTerm EXCEPT ![s] = m.term]
        /\ state' = [state EXCEPT ![s] = "FOLLOWER"]
        /\ UNCHANGED <<matchIndex, commitIndex, applied>>
    BY <1>0, <1>6 DEF handleAppendResponse, convertToFollower
  <2>2. ASSUME NEW q \in Server
        PROVE  /\ currentTerm'[q] \in Terms /\ currentTerm'[q] >= currentTerm[q]
               /\ state'[q] # "FOLLOWER" =>
                     state'[q] = state[q] /\ currentTerm'[q] = currentTerm[q]
    <3>1. CASE q = s
      BY <1>0, <1>2, <1>4, <1>6, <2>1, <3>1 DEF Terms
    <3>2. CASE q # s
      BY <1>2, <2>1, <3>2 DEF Terms
    <3>. QED  BY <3>1, <3>2
  <2>3. \A n \in msgs' : n \in msgs
    BY <1>4
  <2>. QED  BY <1>4, <1>5, <2>1, <2>2, <2>3, PassiveInv
<1>7. CASE ~(m.term > t)
  <2>1. /\ matchIndex' = [matchIndex EXCEPT ![s] = match]
        /\ updateCommitIndex(s, match)
        /\ UNCHANGED <<currentTerm, state>>
    BY <1>0, <1>7 DEF handleAppendResponse
  <2>2. Advance(led, acked, led, acked)
    <3>1. \A q \in Server : currentTerm'[q] \in Terms /\ currentTerm'[q] >= currentTerm[q]
      BY <1>2, <2>1 DEF Terms
    <3>. QED  BY <1>2, <3>1, SameAdvance
  \* The response was sent in the term of the leader, if it is one.
  <2>3. state[s] = "LEADER" =>
           /\ acked[t][s] = Len(log[s])
           /\ \A q \in Server : match[q] <= acked[t][q] /\ acked[t][q] <= Len(log[s])
    <3>. SUFFICES ASSUME state[s] = "LEADER", NEW q \in Server
                  PROVE  /\ acked[t][s] = Len(log[s])
                         /\ match[q] <= acked[t][q] /\ acked[t][q] <= Len(log[s])
      BY <1>4
    <3>1. acked[t][s] = Len(log[s]) /\ matchIndex[s][q] <= acked[t][q]
      BY <1>0, <1>1, <1>4 DEF AckInv
    <3>2. acked[t][q] <= Len(led[t]) /\ led[t] = log[s]
      BY <1>0, <1>1, <1>4 DEF AckInv, LedInv, LeadersLogs
    <3>3. m.success => m.matchIndex <= acked[t][p]
      BY <1>0, <1>1, <1>3 DEF AckInv
    <3>4. match[q] = matchIndex[s][q] \/ (m.success /\ q = p /\ match[q] = m.matchIndex)
      BY <1>0, <1>2, <1>4
    <3>. QED  BY <3>1, <3>2, <3>3, <3>4
  <2>4. AckInv(led, acked)'
    <3>1. \A q \in Server : log'[q] = log[q] /\ \A u \in Terms : acked[u][q] = acked[u][q]
      BY <1>4
    <3>2. ASSUME NEW r \in Server, state'[r] = "LEADER"
          PROVE  \/ /\ state[r] = "LEADER" /\ currentTerm'[r] = currentTerm[r]
                    /\ log'[r] = log[r] /\ matchIndex'[r] = matchIndex[r]
                    /\ \A u \in Terms : acked[u][r] = acked[u][r]
                 \/ /\ acked[currentTerm'[r]][r] = Len(log'[r])
                    /\ \A q \in Server : matchIndex'[r][q] <= acked[currentTerm'[r]][q]
      <4>1. CASE r = s
        BY <1>0, <1>2, <1>4, <2>1, <2>3, <3>2, <4>1
      <4>2. CASE r # s
        BY <1>2, <1>4, <2>1, <3>2, <4>2
      <4>. QED  BY <4>1, <4>2
    <3>3. \A n \in msgs' : n.rpc = "appendResponse" /\ n.success =>
             n \in msgs /\ n.matchIndex \in Nat
      BY <1>1, <1>4 DEF LedInv, LogTypes, LogMessage
    <3>4. IInv /\ LedInv(led) /\ AckInv(led, acked)
      BY <1>1
    <3>5. matchIndex \in [Server -> [Server -> Nat]]
      BY <1>2
    <3>. QED  BY <2>2, <3>1, <3>2, <3>3, <3>4, <3>5, AckStep
  <2>5. KeptInv(led, acked)'
    <3>1. \A q \in Server, u \in Terms, i \in Nat :
             u < currentTerm'[q] /\ Has(log[q], i, u) /\ MayChoose(i, u, led, acked) =>
                Has(log'[q], i, u)
      BY <1>4
    <3>2. \A u, w \in Terms : u < w /\ elected'[w] # {} =>
             elected[w] # {} /\ Len(led[u]) = Len(led[u])
      BY <1>4
    <3>. QED  BY <1>1, <2>2, <2>4, <3>1, <3>2, KeptStep
  <2>6. BallotInv(led, acked)'
    <3>1. \A r \in Server : state'[r] = "CANDIDATE" =>
             /\ log'[r] = log[r]
             /\ currentTerm'[r] = currentTerm[r] => state[r] = "CANDIDATE"
      BY <1>4, <2>1
    <3>2. \A n \in msgs' : n.rpc = "requestVote" => n \in msgs
      BY <1>4
    <3>. QED  BY <1>1, <1>5, <2>2, <3>1, <3>2, BallotStep
  <2>7. /\ commitIndex' \in [Server -> Nat] /\ applied' \in [Server -> Seq(Value)]
        /\ \A r \in Server :
             \/ /\ commitIndex'[r] = commitIndex[r] /\ applied'[r] = applied[r]
                /\ Shares(log'[r], log[r], commitIndex[r])
             \/ /\ Committed(log'[r], commitIndex'[r], currentTerm'[r], led, acked)
                /\ Len(applied'[r]) = commitIndex'[r] /\ commitIndex'[r] <= Len(log'[r])
                /\ \A i \in DOMAIN applied'[r] : applied'[r][i] = log'[r][i].command
    <3>1. \A r \in Server : Shares(log[r], log[r], commitIndex[r])
      BY <1>1, <1>2 DEF CommitInv, AppliedIsLogPrefix, Shares
    <3>. DEFINE i == MajorityIndex(s, match)
    <3>2. CASE UNCHANGED <<commitIndex, applied>>
      BY <1>2, <1>4, <3>1, <3>2
    <3>3. CASE /\ state[s] = "LEADER" /\ i > commitIndex[s] /\ i <= Len(log[s])
               /\ TermAt(log[s], i) = t
               /\ commitIndex' = [commitIndex EXCEPT ![s] = i]
               /\ applied' = [applied EXCEPT ![s] = Through(applied[s], log[s], i)]
      <4>1. /\ i \in Nat
            /\ \E Q \in Quorum : \A q \in Q : q = s \/ match[q] >= i
        <5>1. Len(log[s]) \in Nat /\ \A q \in Server : match[q] <= Len(log[s])
          <6>1. \A q \in Server : match[q] \in Nat /\ acked[t][q] \in Nat
            BY <1>2, <1>4 DEF Acks
          <6>2. Len(log[s]) \in Nat
            BY <1>2, <1>4
          <6>. QED  BY <2>3, <3>3, <6>1, <6>2
        <5>. QED  BY <1>4, <5>1, MajorityReached
      <4>2. Len(log[s]) \in Nat /\ log[s] \in Seq(Entry) /\ commitIndex[s] \in Nat
            /\ applied[s] \in Seq(Value) /\ led[t] = log[s]
        BY <1>0, <1>1, <1>2, <1>4, <3>3 DEF LedInv, LeadersLogs
      <4>. HIDE DEF i
      <4>3. Has(led[t], i, t)
        BY <3>3, <4>1, <4>2 DEF Has, TermAt
      <4>4. Chosen(i, t, acked)
        <5>1. PICK Q \in Quorum : \A q \in Q : q = s \/ match[q] >= i
          BY <4>1
        <5>2. ASSUME NEW q \in Q PROVE acked[t][q] >= i
          <6>1. q \in Server /\ match[q] \in Nat /\ acked[t][q] \in Nat
            BY <1>2, <1>4 DEF Quorum, Acks
          <6>2. match[q] <= acked[t][q] /\ acked[t][s] = Len(log[s])
            BY <2>3, <3>3, <6>1
          <6>. QED  BY <3>3, <4>1, <4>2, <5>1, <6>1, <6>2
        <5>. QED  BY <5>2 DEF Chosen
      <4>5. Committed(log[s], i, t, led, acked)
        <5>1. Shares(log[s], led[t], i) /\ t <= t /\ i >= i
          BY <1>4, <3>3, <4>1, <4>2 DEF Shares, Terms
        <5>. QED  BY <1>4, <4>1, <4>3, <4>4, <5>1 DEF Committed
      <4>6. /\ Len(applied[s]) = commitIndex[s]
            /\ \A j \in 1..Len(applied[s]) : applied[s][j] = log[s][j].command
        <5>1. DOMAIN applied[s] = 1..Len(applied[s])
          BY <4>2
        <5>. QED  BY <1>1, <1>4, <5>1 DEF CommitInv, AppliedIsLogPrefix
      <4>. DEFINE b == Through(applied[s], log[s], i)
      <4>7. /\ b \in Seq(Value) /\ Len(b) = i
            /\ \A j \in 1..i : b[j] = log[s][j].command
        <5>1. Len(applied[s]) <= i
          BY <3>3, <4>1, <4>2, <4>6
        <5>. QED  BY <3>3, <4>1, <4>2, <4>6, <5>1, Applying
      <4>. HIDE DEF b
      <4>8. applied' = [applied EXCEPT ![s] = b]
        BY <3>3 DEF b
      <4>9. commitIndex' \in [Server -> Nat] /\ applied' \in [Server -> Seq(Value)]
        <5>1. commitIndex' = [commitIndex EXCEPT ![s] = i]
          BY <3>3
        <5>2. commitIndex' \in [Server -> Nat]
          BY <1>2, <4>1, <5>1
        <5>3. applied' \in [Server -> Seq(Value)]
          BY <1>2, <4>7, <4>8
        <5>. QED  BY <5>2, <5>3
      <4>10. DOMAIN b = 1..i
        BY <4>7
      <4>11. ASSUME NEW r \in Server, r # s
             PROVE  commitIndex'[r] = commitIndex[r] /\ applied'[r] = applied[r]
        BY <1>2, <3>3, <4>8, <4>11
      <4>12. commitIndex'[s] = i /\ applied'[s] = b
        BY <1>2, <1>4, <3>3, <4>8
      <4>13. /\ Committed(log'[s], commitIndex'[s], currentTerm'[s], led, acked)
             /\ Len(applied'[s]) = commitIndex'[s] /\ commitIndex'[s] <= Len(log'[s])
             /\ \A j \in DOMAIN applied'[s] : applied'[s][j] = log'[s][j].command
        BY <1>0, <1>4, <2>1, <3>3, <4>5, <4>7, <4>10, <4>12
      <4>. QED  BY <1>4, <3>1, <4>9, <4>11, <4>13
    <3>. QED  BY <1>0, <2>1, <3>2, <3>3 DEF updateCommitIndex, applyCommittedEntries, Through
  <2>8. CommitTypes'
    <3>1. matchIndex' \in [Server -> [Server -> Nat]]
      BY <1>2, <1>4, <2>1
    <3>. QED  BY <1>1, <1>4, <2>7, <3>1 DEF CommitTypes
  <2>9. CommitInv(led, acked)'
    <3>1. \A n \in msgs' : n.rpc = "appendEntries" =>
             n \in msgs \/ Committed(led[n.term], n.leaderCommit, n.term, led, acked)
      BY <1>4
    <3>. QED  BY <1>1, <2>2, <2>7, <3>1, CommittedStep
  <2>. QED  BY <2>4, <2>5, <2>6, <2>8, <2>9 DEF Inv
<1>. QED  BY <1>6, <1>7

-----------------------------------------------------------------------------
\* The invariant

CommitLog == \E led, acked : Inv(led, acked)

LEMMA InitCommitLog == Init => CommitLog
<1>. SUFFICES ASSUME Init PROVE CommitLog
  OBVIOUS
<1>. DEFINE led == [t \in Terms |-> <<>>]
            acked == [t \in Terms |-> [p \in Server |-> 0]]
<1>1. IInv /\ LedInv(led)
  <2>1. LogTypes
    BY DEF Init, LogTypes
  <2>2. LeadersLogs(led)
    BY DEF Init, LeadersLogs, Copied, UpToTerm
  <2>3. LedInv(led)
    BY <2>1, <2>2 DEF Init, LedInv, Copied, UpToTerm
  <2>. QED  BY <2>3, InitIInv
<1>2. CommitTypes
  BY DEF Init, CommitTypes
<1>3. AckInv(led, acked)
  BY DEF Init, AckInv, Acks, Shares, Terms
<1>4. KeptInv(led, acked)
  BY DEF Init, KeptInv, Keeps, MayChoose, Has, Terms
<1>5. BallotInv(led, acked)
  BY DEF Init, BallotInv, Voted
<1>6. CommitInv(led, acked)
  BY DEF Init, CommitInv, Committed, AppliedIsLogPrefix
<1>7. Inv(led, acked)
  BY <1>1, <1>2, <1>3, <1>4, <1>5, <1>6 DEF Inv
<1>. QED  BY <1>7 DEF CommitLog

LEMMA NextInv ==
    ASSUME Timely, Vouched, NEW led, NEW acked, Inv(led, acked), [Next]_vars
    PROVE  /\ CommitLog'
           /\ \A s \in Server : commitIndex'[s] >= commitIndex[s]
<1>1. IInv /\ LedInv(led) /\ CommitTypes /\ commitIndex \in [Server -> Nat] /\ IInv'
      /\ \A s \in Server : commitIndex[s] >= commitIndex[s]
  BY NextIInv DEF Inv, CommitTypes
<1>2. ASSUME NEW s \in Server, ElectionTimeout(s)
      PROVE  CommitLog' /\ UNCHANGED commitIndex
  BY <1>1, <1>2, TimeoutLogs, TimeoutInv DEF CommitLog, ElectionTimeout
<1>3. ASSUME NEW s \in Server, SendHeartbeats(s)
      PROVE  CommitLog' /\ UNCHANGED commitIndex
  BY <1>1, <1>3, HeartbeatLogs, HeartbeatInv DEF CommitLog, SendHeartbeats, nodeVars
<1>4. ASSUME NEW s \in Server, Restart(s) PROVE FALSE
  BY <1>1, <1>4 DEF Restart, Timely, IInv, ElectionTypes
<1>5. ASSUME NEW s \in Server, NEW v \in Value, replicateCommand(s, v)
      PROVE  CommitLog' /\ UNCHANGED commitIndex
  BY <1>1, <1>5, ReplicateInv DEF CommitLog, replicateCommand
<1>6. CASE \/ \E v \in Value, b \in BOOLEAN : waitForCommit(v, b)
           \/ \E m \in msgs : RpcFails(m)
           \/ UNCHANGED vars
  <2>1. /\ msgs' \subseteq msgs
        /\ UNCHANGED <<currentTerm, state, log, nextIndex, elected, commitIndex, applied,
                       matchIndex, votes>>
    BY <1>6 DEF waitForCommit, RpcFails, vars, nodeVars
  <2>2. LedInv(led)'
    BY <1>1, <2>1, UntouchedLogs
  <2>3. Inv(led, acked)'
    BY <1>1, <2>1, <2>2, UntouchedInv
  <2>. QED  BY <1>1, <2>1, <2>3 DEF CommitLog
<1>7. ASSUME NEW m \in msgs, handleVoteRequest(m)
      PROVE  CommitLog' /\ UNCHANGED commitIndex
  BY <1>1, <1>7, VoteRequestLogs, VoteRequestInv DEF CommitLog, handleVoteRequest
<1>8. ASSUME NEW m \in msgs, handleVoteResponse(m)
      PROVE  CommitLog' /\ UNCHANGED commitIndex
  BY <1>1, <1>8, VoteResponseInv DEF CommitLog, handleVoteResponse
<1>9. ASSUME NEW m \in msgs, handleAppendEntries(m)
      PROVE  CommitLog' /\ \A s \in Server : commitIndex'[s] >= commitIndex[s]
  <2>1. LedInv(led)'
    BY <1>1, <1>9, AppendEntriesLogs
  <2>2. CommitLog' /\ commitIndex'[m.to] >= commitIndex[m.to]
    BY <1>1, <1>9, <2>1, AppendEntriesInv DEF CommitLog
  <2>3. \A s \in Server : s # m.to => commitIndex'[s] = commitIndex[s]
    BY <1>1, <1>9, Zenon DEF handleAppendEntries
  <2>. QED  BY <1>1, <2>2, <2>3
<1>10. ASSUME NEW m \in msgs, handleAppendResponse(m)
       PROVE  CommitLog' /\ \A s \in Server : commitIndex'[s] >= commitIndex[s]
  <2>1. LedInv(led)'
    BY <1>1, <1>10, AppendResponseLogs
  <2>2. Inv(led, acked)'
    BY <1>1, <1>10, <2>1, AppendResponseInv
  <2>3. commitIndex' \in [Server -> Nat]
    BY <2>2 DEF Inv, CommitTypes
  <2>4. \A s \in Server : commitIndex'[s] = commitIndex[s] \/ commitIndex'[s] > commitIndex[s]
    BY <1>1, <1>10 DEF handleAppendResponse, updateCommitIndex
  <2>. QED  BY <1>1, <2>2, <2>3, <2>4 DEF CommitLog
<1>11. (CommitLog' /\ UNCHANGED commitIndex) =>
          CommitLog' /\ \A s \in Server : commitIndex'[s] >= commitIndex[s]
  BY <1>1
<1>. QED  BY <1>2, <1>3, <1>4, <1>5, <1>6, <1>7, <1>8, <1>9, <1>10, <1>11 DEF Next

LEMMA NextCommitLog ==
    Timely /\ Vouched /\ CommitLog /\ [Next]_vars =>
       CommitLog' /\ \A s \in Server : commitIndex'[s] >= commitIndex[s]
BY NextInv DEF CommitLog

\* What two nodes have committed is the same: the later leader of the two they follow has both.
LEMMA Agree ==
    ASSUME NEW led, NEW acked, Inv(led, acked), NEW p \in Server, NEW q \in Server,
           NEW i \in 1..commitIndex[p], i <= commitIndex[q]
    PROVE  log[p][i] = log[q][i]
<1>1. /\ led \in [Terms -> Seq(Entry)] /\ log \in [Server -> Seq(Entry)]
      /\ currentTerm \in [Server -> Terms] /\ commitIndex \in [Server -> Nat]
      /\ LedInv(led) /\ KeptInv(led, acked) /\ IInv
      /\ \A s \in Server : Committed(log[s], commitIndex[s], currentTerm[s], led, acked)
  BY DEF Inv, LedInv, LeadersLogs, LogTypes, IInv, ElectionTypes, CommitTypes, CommitInv
<1>2. i \in Nat /\ commitIndex[p] # 0 /\ commitIndex[q] # 0
  BY <1>1
\* Each follows the leader of a term no later than its own.
<1>3. ASSUME NEW s \in Server, commitIndex[s] # 0
      PROVE  \E t \in Terms \ {0} :
                /\ t <= currentTerm[s] /\ elected[t] # {}
                /\ Committed(led[t], commitIndex[s], t, led, acked)
                /\ Shares(log[s], led[t], commitIndex[s])
  <2>1. PICK t \in Terms, j \in Nat :
           /\ t <= currentTerm[s] /\ j >= commitIndex[s] /\ Has(led[t], j, t)
           /\ Chosen(j, t, acked) /\ Shares(log[s], led[t], commitIndex[s])
    BY <1>1, <1>3 DEF Committed
  <2>2. t \in Terms \ {0} /\ elected[t] # {}
    BY <1>1, <2>1, LedEntry DEF LedInv, LeadersLogs
  <2>3. Shares(led[t], led[t], commitIndex[s])
    BY <1>1, <2>1 DEF Shares
  <2>4. Committed(led[t], commitIndex[s], t, led, acked)
    <3>1. t <= t
      BY DEF Terms
    <3>. QED  BY <2>1, <2>3, <3>1 DEF Committed
  <2>. QED  BY <2>1, <2>2, <2>4
<1>4. PICK t \in Terms : /\ elected[t] # {} /\ Shares(log[p], led[t], commitIndex[p])
                         /\ Committed(led[t], commitIndex[p], t, led, acked)
  BY <1>2, <1>3
<1>5. PICK u \in Terms : /\ elected[u] # {} /\ Shares(log[q], led[u], commitIndex[q])
                         /\ Committed(led[u], commitIndex[q], u, led, acked)
  BY <1>2, <1>3
<1>6. led[t][i] = led[u][i]
  <2>0. led[t] \in Seq(Entry) /\ led[u] \in Seq(Entry) /\ commitIndex[p] \in Nat /\ commitIndex[q] \in Nat
    BY <1>1
  <2>1. CASE t <= u
    <3>1. Shares(led[t], led[u], commitIndex[p])
      BY <1>1, <1>4, <1>5, <2>0, <2>1, CommittedLed
    <3>. QED  BY <3>1 DEF Shares
  <2>2. CASE u <= t
    <3>1. Shares(led[u], led[t], commitIndex[q])
      BY <1>1, <1>4, <1>5, <2>0, <2>2, CommittedLed
    <3>2. i \in 1..commitIndex[q]
      BY <1>2, <2>0
    <3>. QED  BY <3>1, <3>2 DEF Shares
  <2>. QED  BY <2>1, <2>2 DEF Terms
<1>7. i \in 1..commitIndex[q]
  BY <1>1, <1>2
<1>. QED  BY <1>4, <1>5, <1>6, <1>7 DEF Shares

LEMMA CommitLogSafe == CommitLog => StateMachineSafety
<1>. SUFFICES ASSUME NEW led, NEW acked, Inv(led, acked), NEW p \in Server, NEW q \in Server,
                     NEW i \in DOMAIN applied[p] \cap DOMAIN applied[q]
              PROVE  applied[p][i] = applied[q][i]
  BY DEF CommitLog, StateMachineSafety
<1>1. /\ applied \in [Server -> Seq(Value)] /\ commitIndex \in [Server -> Nat]
      /\ \A s \in Server : /\ Len(applied[s]) = commitIndex[s]
                           /\ \A j \in DOMAIN applied[s] : applied[s][j] = log[s][j].command
  BY DEF Inv, CommitTypes, CommitInv, AppliedIsLogPrefix
<1>2. i \in 1..commitIndex[p] /\ i \in 1..commitIndex[q] /\ i <= commitIndex[q]
  <2>1. \A s \in Server : DOMAIN applied[s] = 1..commitIndex[s]
    BY <1>1
  <2>. QED  BY <1>1, <2>1
<1>3. log[p][i] = log[q][i]
  BY <1>2, Agree
<1>. QED  BY <1>1, <1>3

LEMMA CommitLogComplete == CommitLog => LeaderCompleteness
<1>. SUFFICES ASSUME NEW led, NEW acked, Inv(led, acked), NEW p \in Server, NEW q \in Server,
                     state[p] = "LEADER", \A r \in Server : currentTerm[r] <= currentTerm[p]
              PROVE  /\ Len(applied[q]) <= Len(log[p])
                     /\ \A i \in DOMAIN applied[q] : log[p][i].command = applied[q][i]
  BY DEF CommitLog, LeaderCompleteness
<1>1. /\ applied[q] \in Seq(Value) /\ commitIndex[q] \in Nat /\ log[q] \in Seq(Entry)
      /\ Len(applied[q]) = commitIndex[q]
      /\ \A j \in DOMAIN applied[q] : applied[q][j] = log[q][j].command
      /\ LedInv(led) /\ KeptInv(led, acked)
      /\ currentTerm[p] \in Terms /\ currentTerm[q] \in Terms
      /\ led[currentTerm[p]] = log[p] /\ elected[currentTerm[p]] # {}
      /\ Committed(log[q], commitIndex[q], currentTerm[q], led, acked)
  <2>1. elected[currentTerm[p]] # {}
    BY DEF Inv, IInv, VoteInv, ElectionTypes
  <2>. QED  BY <2>1 DEF Inv, CommitTypes, CommitInv, AppliedIsLogPrefix, IInv, ElectionTypes,
       LedInv, LeadersLogs, LogTypes
<1>2. Shares(log[q], log[p], commitIndex[q])
  BY <1>1, CommittedLed
<1>3. DOMAIN applied[q] = 1..commitIndex[q]
  BY <1>1
<1>. QED  BY <1>1, <1>2, <1>3 DEF Shares

LEMMA CommitLogApplied == CommitLog => AppliedIsLogPrefix /\ LogTypes /\ IInv
BY DEF CommitLog, Inv, CommitInv, LedInv

-----------------------------------------------------------------------------
\* Few commands: when one request carries any log, every request vouches for what it says is
\* committed.

FewCommands == IsFiniteSet(Value) /\ Cardinality(Value) <= MaxEntries

RequestTypes ==
    requests \in [Value -> [status : {"new"}]
                     \cup [status : {"waiting", "committed", "failed"}, node : Server, index : Nat]]

\* The command v is at index i of a log or of a request's.
Placed(v, i) ==
    \/ \E p \in Server : i \in 1..Len(log[p]) /\ log[p][i].command = v
    \/ \E m \in msgs : /\ m.rpc = "appendEntries"
                       /\ \E k \in 1..Len(m.entries) :
                             i = m.prevLogIndex + k /\ m.entries[k].command = v

\* A command has one place, once it was given to a leader.
PlaceInv ==
    /\ RequestTypes
    /\ \A v \in Value, i, j \in Nat :
          Placed(v, i) => /\ requests[v].status # "new"
                          /\ Placed(v, j) => i = j

\* A log is no longer than there are commands.
LEMMA FewEntries ==
    ASSUME FewCommands, LogTypes, PlaceInv, NEW p \in Server
    PROVE  Len(log[p]) \in Nat /\ Len(log[p]) <= MaxEntries
<1>. DEFINE n == Len(log[p])
            f == [i \in 1..n |-> log[p][i].command]
<1>1. n \in Nat /\ \A i \in 1..n : log[p][i].command \in Value
  <2>1. log[p] \in Seq(Entry)
    BY DEF LogTypes
  <2>2. n \in Nat /\ \A i \in 1..n : log[p][i] \in Entry
    BY <2>1
  <2>. QED  BY <2>2 DEF Entry
<1>2. f \in [1..n -> Value]
  BY <1>1
<1>3. ASSUME NEW i \in 1..n, NEW j \in 1..n, f[i] = f[j] PROVE i = j
  <2>1. Placed(log[p][i].command, i) /\ Placed(log[p][i].command, j)
    BY <1>3 DEF Placed
  <2>. QED  BY <1>1, <2>1 DEF PlaceInv
<1>4. f \in Injection(1..n, Value)
  BY <1>2, <1>3 DEF Injection, IsInjective
<1>. HIDE DEF f
<1>5. Cardinality(1..n) <= Cardinality(Value)
  BY <1>4, FS_Injection DEF FewCommands
<1>6. Cardinality(1..n) = n
  <2>1. 1 \in Int /\ n \in Int
    BY <1>1
  <2>2. Cardinality(1..n) = IF 1 > n THEN 0 ELSE n - 1 + 1
    BY <2>1, FS_Interval
  <2>. QED  BY <1>1, <2>2
<1>7. Cardinality(Value) \in Nat
  BY FS_CardinalityType DEF FewCommands
<1>. QED  BY <1>1, <1>5, <1>6, <1>7 DEF FewCommands

\* A step sends the entries of the log it leaves.
Sends ==
    \A n \in msgs' : n.rpc = "appendEntries" =>
        \/ n \in msgs
        \/ \E s \in Server, next \in [Server -> Nat \ {0}] : n \in Heartbeats(s, log'[s], next)

LEMMA NextSends ==
    ASSUME Timely, IInv, LogTypes, [Next]_vars
    PROVE  Sends
<1>1. /\ log \in [Server -> Seq(Entry)] /\ nextIndex \in [Server -> [Server -> Nat \ {0}]]
      /\ \A m \in msgs : m.from \in Server
  BY DEF LogTypes, IInv, ElectionTypes, WellFormed
<1>2. ASSUME NEW s \in Server, ElectionTimeout(s) PROVE Sends
  BY <1>2 DEF ElectionTimeout, RequestVote, Sends
<1>3. ASSUME NEW s \in Server, SendHeartbeats(s) PROVE Sends
  <2>1. msgs' = msgs \cup Heartbeats(s, log'[s], nextIndex[s])
    BY <1>3 DEF SendHeartbeats, nodeVars
  <2>. QED  BY <1>1, <2>1 DEF Sends
<1>4. ASSUME NEW s \in Server, Restart(s) PROVE FALSE
  BY <1>4 DEF Restart, Timely, IInv, ElectionTypes
<1>5. ASSUME NEW s \in Server, NEW v \in Value, replicateCommand(s, v) PROVE Sends
  <2>1. msgs' = msgs \cup Heartbeats(s, log'[s], nextIndex[s])
    BY <1>1, <1>5 DEF replicateCommand
  <2>. QED  BY <1>1, <2>1 DEF Sends
<1>6. CASE \/ \E v \in Value, b \in BOOLEAN : waitForCommit(v, b)
           \/ \E m \in msgs : RpcFails(m)
           \/ UNCHANGED vars
  BY <1>6 DEF waitForCommit, RpcFails, vars, Sends
<1>7. ASSUME NEW m \in msgs, handleVoteRequest(m) PROVE Sends
  BY <1>7 DEF handleVoteRequest, VoteResponse, Sends
<1>8. ASSUME NEW m \in msgs, handleVoteResponse(m) PROVE Sends
  <2>. DEFINE s == m.from
              next == NextAfterElection(s)
  <2>1. s \in Server /\ next \in [Server -> Nat \ {0}] /\ log' = log
    BY <1>1, <1>8 DEF NextAfterElection, handleVoteResponse
  <2>2. msgs' = msgs \ {m} \/ msgs' = (msgs \ {m}) \cup Heartbeats(s, log[s], next)
    BY <1>8 DEF handleVoteResponse, convertToLeader
  <2>3. Heartbeats(s, log'[s], next) = Heartbeats(s, log[s], next)
    BY <2>1
  <2>. HIDE DEF next
  <2>. SUFFICES ASSUME NEW n \in msgs', n \notin msgs
                PROVE  n \in Heartbeats(s, log'[s], next)
    BY <2>1 DEF Sends
  <2>. QED  BY <2>2, <2>3
<1>9. ASSUME NEW m \in msgs, handleAppendEntries(m) PROVE Sends
  <2>. DEFINE s == m.to
              refused == AppendResponse(m, currentTerm[s], FALSE, 0, 0)
              conflict == AppendResponse(m, m.term, FALSE, 0,
                                         ConflictIndex(log[s], m.prevLogIndex))
              done == AppendResponse(m, m.term, TRUE, m.prevLogIndex + Len(m.entries), 0)
  <2>1. PICK r \in {refused, conflict, done} : msgs' = (msgs \ {m}) \cup {r}
    <3>1. \/ msgs' = (msgs \ {m}) \cup {refused}
          \/ msgs' = (msgs \ {m}) \cup {conflict}
          \/ msgs' = (msgs \ {m}) \cup {done}
      BY <1>9, Zenon DEF handleAppendEntries
    <3>. HIDE DEF refused, conflict, done
    <3>. QED  BY <3>1
  <2>2. /\ refused.rpc = "appendResponse" /\ conflict.rpc = "appendResponse"
        /\ done.rpc = "appendResponse"
    BY DEF AppendResponse
  <2>. HIDE DEF refused, conflict, done
  <2>3. r.rpc = "appendResponse"
    BY <2>1, <2>2
  <2>. QED  BY <2>1, <2>3 DEF Sends
<1>10. ASSUME NEW m \in msgs, handleAppendResponse(m) PROVE Sends
  BY <1>10 DEF handleAppendResponse, Sends
<1>. QED  BY <1>2, <1>3, <1>4, <1>5, <1>6, <1>7, <1>8, <1>9, <1>10 DEF Next

\* What a step leaves in place was there, or was added.
LEMMA PlacedBefore ==
    ASSUME LogTypes, LogTypes', Sends, NEW added,
           \A p \in Server : \A i \in 1..Len(log'[p]) :
              Placed(log'[p][i].command, i) \/ <<log'[p][i].command, i>> \in added,
           NEW v, NEW j, Placed(v, j)'
    PROVE  Placed(v, j) \/ <<v, j>> \in added
<1>1. CASE \E p \in Server : j \in 1..Len(log'[p]) /\ log'[p][j].command = v
  BY <1>1
<1>2. ASSUME NEW m \in msgs', m.rpc = "appendEntries", NEW k \in 1..Len(m.entries),
             j = m.prevLogIndex + k, m.entries[k].command = v
      PROVE  Placed(v, j) \/ <<v, j>> \in added
  <2>1. CASE m \in msgs
    BY <1>2, <2>1 DEF Placed
  <2>2. CASE \E s \in Server, next \in [Server -> Nat \ {0}] : m \in Heartbeats(s, log'[s], next)
    <3>1. PICK s \in Server : \E next \in [Server -> Nat \ {0}] : m \in Heartbeats(s, log'[s], next)
      BY <2>2
    <3>2. log'[s] \in Seq(Entry)
      BY DEF LogTypes
    <3>3. Repeats(m, log'[s]) /\ LogMessage(m)
      BY <3>1, <3>2, HeartbeatsRepeat
    <3>4. /\ j <= Len(log'[s]) /\ m.entries[k] = log'[s][j]
          /\ m.prevLogIndex \in Nat /\ m.entries \in Seq(Entry)
      BY <1>2, <3>3 DEF Repeats, LogMessage
    <3>5. j \in 1..Len(log'[s])
      BY <1>2, <3>2, <3>4
    <3>. QED  BY <1>2, <3>4, <3>5
  <2>. QED  BY <1>2, <2>1, <2>2 DEF Sends
<1>. QED  BY <1>1, <1>2 DEF Placed

\* The log a follower is left with has what its log or the request had there.
LEMMA MergedPlaces ==
    ASSUME LogTypes, NEW m \in msgs, handleAppendEntries(m), NEW p \in Server,
           NEW i \in 1..Len(log'[p]), m.to \in Server
    PROVE  Placed(log'[p][i].command, i)
<1>0. PICK s, l, prev, entries, new :
         /\ s = m.to /\ l = log[s] /\ prev = m.prevLogIndex /\ entries = m.entries
         /\ new = Merged(l, prev, entries)
  OBVIOUS
<1>1. l \in Seq(Entry) /\ log \in [Server -> Seq(Entry)] /\ m.rpc = "appendEntries"
      /\ prev \in Nat /\ entries \in Seq(Entry)
  BY <1>0 DEF handleAppendEntries, LogTypes, LogMessage
<1>2. \/ log'[p] = log[p]
      \/ /\ p = s /\ log'[p] = new
         /\ prev = 0 \/ prev <= Len(l)
  <2>1. log' = log \/ (log' = [log EXCEPT ![s] = new] /\ (prev = 0 \/ prev <= Len(l)))
    BY <1>0, Zenon DEF handleAppendEntries
  <2>. QED  BY <1>0, <1>1, <2>1
<1>3. CASE log'[p] = log[p]
  BY <1>3 DEF Placed
<1>4. CASE p = s /\ log'[p] = new /\ (prev = 0 \/ prev <= Len(l))
  <2>1. prev \in 0..Len(l)
    BY <1>1, <1>4
  <2>2. PICK n \in prev..Len(l) :
           /\ Len(new) = IF n < prev + Len(entries) THEN prev + Len(entries) ELSE n
           /\ \A k \in 1..Len(new) : new[k] = IF k <= n THEN l[k] ELSE entries[k - prev]
    <3>. DEFINE got == Merged(l, prev, entries)
    <3>1. PICK n \in prev..Len(l) : MergedAt(n, l, prev, entries, got)
      BY <1>1, <2>1, MergedLog
    <3>2. got = new
      BY <1>0
    <3>. HIDE DEF got
    <3>3. Len(got) = IF n < prev + Len(entries) THEN prev + Len(entries) ELSE n
      BY <3>1 DEF MergedAt
    <3>4. \A k \in 1..Len(got) : got[k] = IF k <= n THEN l[k] ELSE entries[k - prev]
      BY <3>1 DEF MergedAt
    <3>. QED  BY <3>2, <3>3, <3>4
  <2>3. i \in 1..Len(new) /\ n \in Nat /\ n <= Len(l) /\ n >= prev
        /\ Len(l) \in Nat /\ Len(entries) \in Nat
    BY <1>1, <1>4
  <2>4. CASE i <= n
    <3>1. i \in 1..Len(l) /\ new[i] = l[i]
      BY <2>2, <2>3, <2>4
    <3>. QED  BY <1>0, <1>4, <3>1 DEF Placed
  <2>5. CASE i > n
    <3>1. i - prev \in 1..Len(entries) /\ i = prev + (i - prev)
      BY <1>1, <2>2, <2>3, <2>5
    <3>2. new[i] = entries[i - prev]
      BY <2>2, <2>3, <2>5
    <3>. QED  BY <1>0, <1>1, <1>4, <3>1, <3>2 DEF Placed
  <2>. QED  BY <2>3, <2>4, <2>5
<1>. QED  BY <1>2, <1>3, <1>4

LEMMA NextPlaces ==
    ASSUME Timely, IInv, LogTypes, LogTypes', PlaceInv, [Next]_vars
    PROVE  PlaceInv'
<1>0. /\ Sends /\ log \in [Server -> Seq(Entry)] /\ RequestTypes
      /\ \A m \in msgs : m.to \in Server
  BY NextSends DEF LogTypes, PlaceInv, IInv, ElectionTypes, WellFormed
\* No step but replicateCommand() adds a place.
<1>1. ASSUME RequestTypes',
             \A v \in Value : requests[v].status # "new" => requests'[v].status # "new",
             \A p \in Server : \A i \in 1..Len(log'[p]) : Placed(log'[p][i].command, i)
      PROVE  PlaceInv'
  <2>1. ASSUME NEW v \in Value, NEW j \in Nat, Placed(v, j)' PROVE Placed(v, j)
    <3>0. PICK none : none = {}
      OBVIOUS
    <3>1. \A p \in Server : \A i \in 1..Len(log'[p]) :
             Placed(log'[p][i].command, i) \/ <<log'[p][i].command, i>> \in none
      BY <1>1
    <3>2. Placed(v, j) \/ <<v, j>> \in none
      BY <1>0, <2>1, <3>1, PlacedBefore
    <3>. QED  BY <3>0, <3>2
  <2>. QED  BY <1>1, <2>1 DEF PlaceInv
<1>2. CASE UNCHANGED <<log, requests>>
  <2>1. RequestTypes'
    BY <1>0, <1>2 DEF RequestTypes
  <2>2. \A p \in Server : \A i \in 1..Len(log'[p]) : Placed(log'[p][i].command, i)
    BY <1>2 DEF Placed
  <2>. QED  BY <1>1, <1>2, <2>1, <2>2
<1>3. ASSUME NEW s \in Server, Restart(s) PROVE FALSE
  BY <1>3 DEF Restart, Timely, IInv, ElectionTypes
<1>4. ASSUME NEW m \in msgs, handleAppendEntries(m) PROVE PlaceInv'
  <2>1. UNCHANGED requests
    BY <1>4, Zenon DEF handleAppendEntries
  <2>2. RequestTypes'
    BY <1>0, <2>1 DEF RequestTypes
  <2>3. \A p \in Server : \A i \in 1..Len(log'[p]) : Placed(log'[p][i].command, i)
    BY <1>0, <1>4, MergedPlaces
  <2>. QED  BY <1>1, <2>1, <2>2, <2>3
<1>5. ASSUME NEW v \in Value, NEW b \in BOOLEAN, waitForCommit(v, b) PROVE PlaceInv'
  <2>1. /\ requests[v].status = "waiting" /\ log' = log
        /\ requests' = [requests EXCEPT ![v].status = IF b THEN "committed" ELSE "failed"]
    BY <1>5 DEF waitForCommit, nodeVars
  <2>2. RequestTypes'
    BY <1>0, <2>1 DEF RequestTypes
  <2>3. \A w \in Value : requests[w].status # "new" => requests'[w].status # "new"
    BY <1>0, <2>1 DEF RequestTypes
  <2>4. \A p \in Server : \A i \in 1..Len(log'[p]) : Placed(log'[p][i].command, i)
    BY <2>1 DEF Placed
  <2>. QED  BY <1>1, <2>2, <2>3, <2>4
\* The command that replicateCommand() appends had no place yet.
<1>6. ASSUME NEW s \in Server, NEW v \in Value, replicateCommand(s, v) PROVE PlaceInv'
  <2>. DEFINE l == Append(log[s], [term |-> currentTerm[s], command |-> v])
  <2>1. /\ requests[v].status = "new" /\ log' = [log EXCEPT ![s] = l]
        /\ requests' = [requests EXCEPT ![v] =
                           [status |-> "waiting", node |-> s, index |-> Len(l)]]
    BY <1>6 DEF replicateCommand
  <2>2. /\ Len(l) = Len(log[s]) + 1 /\ Len(log[s]) \in Nat /\ l[Len(l)].command = v
        /\ \A i \in 1..Len(log[s]) : l[i] = log[s][i]
    BY <1>0
  <2>. HIDE DEF l
  <2>3. /\ RequestTypes' /\ requests'[v].status # "new"
        /\ \A w \in Value : requests[w].status # "new" => requests'[w].status # "new"
    BY <1>0, <2>1, <2>2 DEF RequestTypes
  <2>4. ASSUME NEW p \in Server, NEW i \in 1..Len(log'[p])
        PROVE  Placed(log'[p][i].command, i) \/ <<log'[p][i].command, i>> \in {<<v, Len(l)>>}
    <3>1. CASE i \in 1..Len(log[p]) /\ log'[p][i] = log[p][i]
      BY <3>1 DEF Placed
    <3>2. CASE i = Len(l) /\ log'[p][i].command = v
      BY <3>2
    <3>. QED  BY <1>0, <2>1, <2>2, <3>1, <3>2
  <2>5. ASSUME NEW w \in Value, NEW j \in Nat, Placed(w, j)'
        PROVE  Placed(w, j) \/ (w = v /\ j = Len(l))
    <3>1. \A p \in Server : \A i \in 1..Len(log'[p]) :
             Placed(log'[p][i].command, i) \/ <<log'[p][i].command, i>> \in {<<v, Len(l)>>}
      BY <2>4
    <3>2. Placed(w, j) \/ <<w, j>> \in {<<v, Len(l)>>}
      BY <1>0, <2>5, <3>1, PlacedBefore
    <3>. QED  BY <3>2
  <2>6. \A j \in Nat : ~Placed(v, j)
    BY <2>1 DEF PlaceInv
  <2>. QED  BY <2>3, <2>5, <2>6 DEF PlaceInv
<1>7. CASE \/ \E s \in Server : ElectionTimeout(s) \/ SendHeartbeats(s)
           \/ \E m \in msgs : \/ handleVoteRequest(m) \/ handleVoteResponse(m)
                              \/ handleAppendResponse(m) \/ RpcFails(m)
           \/ UNCHANGED vars
  <2>1. UNCHANGED <<log, requests>>
    BY <1>7 DEF ElectionTimeout, SendHeartbeats, handleVoteRequest, handleVoteResponse,
       handleAppendResponse, RpcFails, vars, nodeVars
  <2>. QED  BY <1>2, <2>1
<1>. QED  BY <1>3, <1>4, <1>5, <1>6, <1>7 DEF Next

Short == \A p \in Server : Len(log[p]) \in Nat /\ Len(log[p]) <= MaxEntries

\* A request that carries the rest of the log vouches for what its sender committed.
LEMMA NextVouched ==
    ASSUME Vouched, Sends, Short', LogTypes', AppliedIsLogPrefix',
           commitIndex \in [Server -> Nat],
           \A s \in Server : commitIndex'[s] >= commitIndex[s]
    PROVE  Vouched'
<1>. SUFFICES ASSUME NEW n \in msgs', n.rpc = "appendEntries"
              PROVE  n.leaderCommit <= n.prevLogIndex + Len(n.entries)
  BY DEF Vouched
<1>1. CASE n \in msgs
  BY <1>1 DEF Vouched
<1>2. ASSUME NEW s \in Server, NEW next \in [Server -> Nat \ {0}],
             n \in Heartbeats(s, log'[s], next)
      PROVE  n.leaderCommit <= n.prevLogIndex + Len(n.entries)
  <2>1. PICK p \in Server :
           /\ n.prevLogIndex = next[p] - 1 /\ n.leaderCommit = commitIndex[s]
           /\ n.entries = SubSeq(log'[s], next[p],
                                 Minimum(Len(log'[s]), next[p] - 1 + MaxEntries))
    <3>. DEFINE to == log'[s]
    <3>1. n \in Heartbeats(s, to, next)
      BY <1>2
    <3>. HIDE DEF to
    <3>. QED  BY <3>1, SMTT(20) DEF Heartbeats, Peers, to
  <2>2. PICK l, c, k : l = log'[s] /\ c = commitIndex[s] /\ k = next[p]
    OBVIOUS
  <2>3. /\ l \in Seq(Entry) /\ k \in Nat \ {0} /\ c \in Nat /\ MaxEntries \in Nat
        /\ Len(l) \in Nat /\ Len(l) <= MaxEntries
    BY <2>2 DEF Short, LogTypes
  <2>4. commitIndex'[s] <= Len(l) /\ Len(applied'[s]) = commitIndex'[s]
        /\ commitIndex'[s] >= c
    BY <2>2 DEF AppliedIsLogPrefix
  <2>5. c <= Len(l)
    BY <2>3, <2>4
  <2>6. Minimum(Len(l), k - 1 + MaxEntries) = Len(l)
    BY <2>3 DEF Minimum
  <2>7. n.entries = SubSeq(l, k, Len(l))
    BY <2>1, <2>2, <2>6
  <2>8. Len(n.entries) = IF k <= Len(l) THEN Len(l) - k + 1 ELSE 0
    <3>1. CASE k <= Len(l)
      BY <2>3, <2>7, <3>1, SubSeqProperties
    <3>2. CASE k > Len(l)
      BY <2>3, <2>7, <3>2, SubSeqProperties
    <3>. QED  BY <2>3, <3>1, <3>2
  <2>9. n.prevLogIndex = k - 1 /\ n.leaderCommit = c
    BY <2>1, <2>2
  <2>. QED  BY <2>3, <2>5, <2>8, <2>9
<1>. QED  BY <1>1, <1>2 DEF Sends

LEMMA InitPlaces == Init => PlaceInv /\ Vouched
<1>. SUFFICES ASSUME Init PROVE PlaceInv /\ Vouched
  OBVIOUS
<1>1. RequestTypes
  BY DEF Init, RequestTypes
<1>2. \A v \in Value, i \in Nat : ~Placed(v, i)
  BY DEF Init, Placed
<1>. QED  BY <1>1, <1>2 DEF Init, PlaceInv, Vouched

LEMMA CommitLogTypes == CommitLog => commitIndex \in [Server -> Nat]
BY DEF CommitLog, Inv, CommitTypes

-----------------------------------------------------------------------------
\* As long as no request says more is committed than it lets its receiver know, timely
\* responses and no restarts give what Raft promises of committed entries: two state machines
\* apply the same command at an index, they apply what their logs hold, a leader of the latest
\* term has all that was applied anywhere, and the commit index of a node never falls.
THEOREM VouchedCommits ==
    ASSUME Timely
    PROVE  Spec /\ []Vouched => /\ []StateMachineSafety /\ []AppliedIsLogPrefix
                                /\ []LeaderCompleteness /\ CommitMonotonic
<1>1. Init => CommitLog
  BY InitCommitLog
<1>2. Vouched /\ CommitLog /\ [Next]_vars => CommitLog'
  BY NextCommitLog
<1>3. Vouched /\ CommitLog /\ [Next]_vars =>
         [\A s \in Server : commitIndex'[s] >= commitIndex[s] \/ restarts' # restarts]_vars
  BY NextCommitLog
<1>4. CommitLog => StateMachineSafety /\ AppliedIsLogPrefix /\ LeaderCompleteness
  BY CommitLogSafe, CommitLogApplied, CommitLogComplete
<1>. QED  BY <1>1, <1>2, <1>3, <1>4, PTL DEF Spec, CommitMonotonic

\* When there are no more commands than one request carries, every request vouches for what
\* it says is committed.
THEOREM FewCommandsVouched ==
    ASSUME Timely, FewCommands
    PROVE  Spec => []Vouched
<1>. DEFINE Good == CommitLog /\ PlaceInv /\ Vouched
<1>1. Init => Good
  BY InitCommitLog, InitPlaces
<1>2. CommitLog => AppliedIsLogPrefix /\ LogTypes /\ IInv /\ commitIndex \in [Server -> Nat]
  BY CommitLogApplied, CommitLogTypes
<1>3. LogTypes /\ PlaceInv => Short
  BY FewEntries DEF Short
<1>4. Good /\ [Next]_vars =>
         CommitLog' /\ \A s \in Server : commitIndex'[s] >= commitIndex[s]
  BY NextCommitLog
<1>5. Good /\ [Next]_vars /\ LogTypes' => PlaceInv'
  BY <1>2, NextPlaces
<1>6. Good /\ [Next]_vars /\ CommitLog' /\ LogTypes' /\ Short' /\ AppliedIsLogPrefix' => Vouched'
  BY <1>2, <1>4, NextSends, NextVouched
<1>. QED  BY <1>1, <1>2, <1>3, <1>4, <1>5, <1>6, PTL DEF Spec

\* Then no two state machines apply different commands at an index.
THEOREM CommandsAgree ==
    ASSUME Timely, FewCommands
    PROVE  Spec => []StateMachineSafety
BY VouchedCommits, FewCommandsVouched, PTL

\* Then what a node applied is the start of its log, which is never cut below it.
THEOREM AppliedFollowsLog ==
    ASSUME Timely, FewCommands
    PROVE  Spec => []AppliedIsLogPrefix
BY VouchedCommits, FewCommandsVouched, PTL

\* Then the leader of the latest term holds whatever any node has applied.
THEOREM LeadersHaveCommitted ==
    ASSUME Timely, FewCommands
    PROVE  Spec => []LeaderCompleteness
BY VouchedCommits, FewCommandsVouched, PTL

\* Then no node takes back what it committed.
THEOREM CommitsStay ==
    ASSUME Timely, FewCommands
    PROVE  Spec => CommitMonotonic
BY VouchedCommits, FewCommandsVouched, PTL
=============================================================================
