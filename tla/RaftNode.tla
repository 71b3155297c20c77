------------------------------ MODULE RaftNode ------------------------------
(***************************************************************************)
(* The consensus node of packages/raft-consensus/src/raft-node.ts: leader  *)
(* election, log replication and replicateCommand(), for a cluster of      *)
(* RaftNode objects that call each other's handlers.                       *)
(*                                                                         *)
(* The code between two awaits is one step.  An RPC is a record in msgs: a *)
(* request until its handler runs at the callee, then a response until the *)
(* caller's closure resumes with it.  It leaves msgs either way it         *)
(* settles, so "the promise is pending" is "its record is in msgs".        *)
(*                                                                         *)
(* PeerClient is a placeholder in the source: RPCs may be slow, overtake   *)
(* one another and fail before or after the callee ran.  LateReplies says  *)
(* whether one may still deliver a response to a caller that has meanwhile *)
(* moved to another term; the node itself does not check.                  *)
(***************************************************************************)
EXTENDS Integers, Sequences, FiniteSets

CONSTANTS
    Server,        \* ids of the nodes; the peers of one are all the others
    Value,         \* commands given to replicateCommand(), each once
    Nil,           \* votedFor = null
    MaxEntries,    \* config.maxLogEntriesPerRequest
    LateReplies,   \* may a response outlive the term its request was sent in
    MaxTerm,       \* bound: no election starts beyond this term
    MaxRestarts,   \* bound on process restarts
    MaxInFlight    \* bound on RPCs in flight when a new round of them is sent

ASSUME ServerAssumption == IsFiniteSet(Server) /\ Nil \notin Server

ASSUME BoundAssumption ==
    /\ MaxEntries \in Nat \ {0}
    /\ LateReplies \in BOOLEAN
    /\ MaxTerm \in Nat /\ MaxRestarts \in Nat /\ MaxInFlight \in Nat

VARIABLES
    currentTerm, votedFor, log, state, commitIndex, nextIndex, matchIndex,
    electionTimer,  \* electionTimer[s]: the timeout of s is armed
    applied,        \* what the state machine of s was given; lastApplied is its length
    votes,          \* votes[s][t]: votesReceived of the election s started in term t
    msgs,           \* RPCs in flight
    requests,       \* callers of replicateCommand()
    elected,        \* history: the nodes that became LEADER in each term
    restarts        \* counts restarts against MaxRestarts

nodeVars == <<currentTerm, votedFor, log, state, commitIndex, nextIndex,
              matchIndex, electionTimer, applied, votes>>
vars == <<nodeVars, msgs, requests, elected, restarts>>

Terms == 0..MaxTerm
Peers(s) == Server \ {s}

\* Mutant: a majority too many.
mMajorityPlusOne == Cardinality(Server) \div 2 + 2

Majority == Cardinality(Server) \div 2 + 1

Minimum(a, b) == IF a < b THEN a ELSE b

\* The dummy entry at index 0 has term 0; log[i].term is undefined past the end.
TermAt(l, i) == IF i = 0 THEN 0 ELSE l[i].term
LastTerm(l) == TermAt(l, Len(l))

Init ==
    /\ currentTerm = [s \in Server |-> 0]
    /\ votedFor = [s \in Server |-> Nil]
    /\ log = [s \in Server |-> <<>>]
    /\ state = [s \in Server |-> "FOLLOWER"]
    /\ commitIndex = [s \in Server |-> 0]
    /\ nextIndex = [s \in Server |-> [p \in Server |-> 1]]
    /\ matchIndex = [s \in Server |-> [p \in Server |-> 0]]
    /\ electionTimer = [s \in Server |-> TRUE]
    /\ applied = [s \in Server |-> <<>>]
    /\ votes = [s \in Server |-> [t \in Terms |-> {}]]
    /\ msgs = {}
    /\ requests = [v \in Value |-> [status |-> "new"]]
    /\ elected = [t \in Terms |-> {}]
    /\ restarts = 0

-----------------------------------------------------------------------------
\* Requests and what is in flight

RequestVote(s, t) ==
    {[rpc |-> "requestVote", from |-> s, to |-> p, term |-> t,
      lastLogIndex |-> Len(log[s]), lastLogTerm |-> LastTerm(log[s])] : p \in Peers(s)}

\* One round of sendHeartbeats(): the AppendEntries built for every peer from
\* the log l and the next indexes next of s.
Heartbeats(s, l, next) ==
    {LET prev == next[p] - 1
     IN  [rpc |-> "appendEntries", from |-> s, to |-> p, term |-> currentTerm[s],
          prevLogIndex |-> prev,
          prevLogTerm |-> IF prev <= Len(l) THEN TermAt(l, prev) ELSE 0,
          entries |-> SubSeq(l, next[p], Minimum(Len(l), prev + MaxEntries)),
          leaderCommit |-> commitIndex[s]] : p \in Peers(s)}

\* The bound on the network, applied where a node starts a round of RPCs itself.
RoomFor(round) == Cardinality(msgs \cup round) <= MaxInFlight

\* The vote RPCs of the election of s in term t that have not settled.
Polling(s, t, inFlight) ==
    {m \in inFlight : /\ m.from = s
                      /\ \/ m.rpc = "requestVote" /\ m.term = t
                         \/ m.rpc = "voteResponse" /\ m.election = t}

\* PeerClient hands a response to its caller only when it is in time.
Delivered(m, sentIn) == LateReplies \/ sentIn = currentTerm[m.from]

-----------------------------------------------------------------------------
\* State changes shared by the handlers

\* convertToFollower() after adopting term t: forgets the vote, even when t is
\* the current term, and re-arms the election timer.
convertToFollower(s, t) ==
    /\ currentTerm' = [currentTerm EXCEPT ![s] = t]
    /\ votedFor' = [votedFor EXCEPT ![s] = Nil]
    /\ state' = [state EXCEPT ![s] = "FOLLOWER"]
    /\ electionTimer' = [electionTimer EXCEPT ![s] = TRUE]

\* applyCommittedEntries() up to index c of the log l.
applyCommittedEntries(s, l, c) ==
    applied' = [applied EXCEPT ![s] =
                   @ \o [i \in 1..(c - Len(@)) |-> l[Len(@) + i].command]]

\* The sort in updateCommitIndex(): the highest index that the leader s and
\* enough peers to make a majority hold, by the match indexes match.
MajorityIndex(s, match) ==
    LET Holders(i) == {p \in Peers(s) : match[p] >= i}
        Indexes == {Len(log[s])} \cup {match[p] : p \in Peers(s)}
        Reached == {i \in Indexes :
                       (IF i <= Len(log[s]) THEN 1 ELSE 0) + Cardinality(Holders(i))
                           >= Majority}
    IN  CHOOSE i \in Reached : \A j \in Reached : j <= i

\* updateCommitIndex() for a caller that may no longer be leader.  An index past
\* the end of the log makes it throw into the catch of sendHeartbeats().
updateCommitIndex(s, match) ==
    LET i == MajorityIndex(s, match)
    IN  IF /\ state[s] = "LEADER"
           /\ i > commitIndex[s]
           /\ i <= Len(log[s])
           /\ TermAt(log[s], i) = currentTerm[s]
        THEN /\ commitIndex' = [commitIndex EXCEPT ![s] = i]
             /\ applyCommittedEntries(s, log[s], i)
        ELSE UNCHANGED <<commitIndex, applied>>

-----------------------------------------------------------------------------
\* Elections

\* The election timeout: convertToCandidate() and requestVotes(), which arms no
\* new timer before every vote RPC has settled.  Without peers there is nothing
\* to settle and the lone vote is never counted.
ElectionTimeout(s) ==
    LET t == currentTerm[s] + 1
    IN  /\ electionTimer[s]
        /\ electionTimer' = [electionTimer EXCEPT ![s] = FALSE]
        /\ IF state[s] = "LEADER"
           THEN UNCHANGED <<currentTerm, votedFor, state, votes, msgs>>
           ELSE /\ t <= MaxTerm
                /\ RoomFor(RequestVote(s, t))
                /\ state' = [state EXCEPT ![s] = "CANDIDATE"]
                /\ currentTerm' = [currentTerm EXCEPT ![s] = t]
                /\ votedFor' = [votedFor EXCEPT ![s] = s]
                /\ votes' = [votes EXCEPT ![s][t] = {s}]
                /\ msgs' = msgs \cup RequestVote(s, t)
        /\ UNCHANGED <<log, commitIndex, nextIndex, matchIndex, applied,
                       requests, elected, restarts>>

\* Mutant: the candidate only has to hold what the voter knows to be committed.
misLogUpToDate(s, m) == m.lastLogIndex >= commitIndex[s]

\* isLogUpToDate(): the candidate's last entry against that of s.
isLogUpToDate(s, m) ==
    IF LastTerm(log[s]) # m.lastLogTerm
    THEN m.lastLogTerm > LastTerm(log[s])
    ELSE m.lastLogIndex >= Len(log[s])

VoteResponse(m, t, granted) ==
    [rpc |-> "voteResponse", from |-> m.from, to |-> m.to, election |-> m.term,
     term |-> t, granted |-> granted]

\* Mutant: votedFor is not looked at.
mCanVoteTwice(s, m) == isLogUpToDate(s, m)

\* A new term forgets the vote of the old one.
CanVote(s, m) ==
    /\ m.term > currentTerm[s] \/ votedFor[s] \in {Nil, m.from}
    /\ isLogUpToDate(s, m)

\* handleVoteRequest() at the callee m.to.
handleVoteRequest(m) ==
    LET s == m.to
        newTerm == m.term > currentTerm[s]
        canVote == CanVote(s, m)
    IN  /\ m \in msgs /\ m.rpc = "requestVote"
        /\ IF m.term < currentTerm[s]
           THEN /\ msgs' = (msgs \ {m}) \cup {VoteResponse(m, currentTerm[s], FALSE)}
                /\ UNCHANGED <<currentTerm, votedFor, state, electionTimer>>
           ELSE /\ currentTerm' = [currentTerm EXCEPT ![s] = m.term]
                /\ votedFor' = [votedFor EXCEPT ![s] =
                                   IF canVote THEN m.from ELSE IF newTerm THEN Nil ELSE @]
                /\ state' = [state EXCEPT ![s] = IF newTerm THEN "FOLLOWER" ELSE @]
                /\ electionTimer' = [electionTimer EXCEPT ![s] = @ \/ newTerm \/ canVote]
                /\ msgs' = (msgs \ {m}) \cup {VoteResponse(m, m.term, canVote)}
        /\ UNCHANGED <<log, commitIndex, nextIndex, matchIndex, applied, votes,
                       requests, elected, restarts>>

NextAfterElection(s) == [p \in Server |-> Len(log[s]) + 1]

\* convertToLeader(): its first round of heartbeats leaves with the step.
convertToLeader(s, settled) ==
    LET next == NextAfterElection(s)
    IN  /\ state' = [state EXCEPT ![s] = "LEADER"]
        /\ electionTimer' = [electionTimer EXCEPT ![s] = FALSE]
        /\ nextIndex' = [nextIndex EXCEPT ![s] = next]
        /\ matchIndex' = [matchIndex EXCEPT ![s] = [p \in Server |-> 0]]
        /\ elected' = [elected EXCEPT ![currentTerm[s]] = @ \cup {s}]
        /\ msgs' = settled \cup Heartbeats(s, log[s], next)

\* Mutant: requestVotes() ends without looking at what it received.
mRearmAfter(s, t, settled, received) == UNCHANGED electionTimer

\* The end of requestVotes(): when its last RPC settles short of a majority and
\* the node is (still, or again) a candidate, the timer is armed again.
RearmAfter(s, t, settled, received) ==
    electionTimer' = [electionTimer EXCEPT ![s] =
        @ \/ /\ Polling(s, t, settled) = {}
             /\ state[s] = "CANDIDATE"
             /\ Cardinality(received) < Majority]

\* The closure of requestVotes() resumes with the response m.  votesReceived
\* belongs to the election that asked (m.election); the state and the term it
\* acts on are the node's own by now.
handleVoteResponse(m) ==
    LET s == m.from
        t == m.election
        received == votes[s][t] \cup {m.to}
    IN  /\ m \in msgs /\ m.rpc = "voteResponse"
        /\ Delivered(m, t)
        /\ \/ /\ m.term > currentTerm[s]
              /\ convertToFollower(s, m.term)
              /\ msgs' = msgs \ {m}
              /\ UNCHANGED <<nextIndex, matchIndex, votes, elected>>
           \/ /\ m.term <= currentTerm[s] /\ m.granted
              /\ votes' = [votes EXCEPT ![s][t] = received]
              /\ IF Cardinality(received) >= Majority /\ state[s] = "CANDIDATE"
                 THEN convertToLeader(s, msgs \ {m})
                 ELSE /\ msgs' = msgs \ {m}
                      /\ RearmAfter(s, t, msgs \ {m}, received)
                      /\ UNCHANGED <<state, nextIndex, matchIndex, elected>>
              /\ UNCHANGED <<currentTerm, votedFor>>
           \/ /\ m.term <= currentTerm[s] /\ ~m.granted
              /\ msgs' = msgs \ {m}
              /\ RearmAfter(s, t, msgs \ {m}, votes[s][t])
              /\ UNCHANGED <<currentTerm, votedFor, state, nextIndex, matchIndex,
                             votes, elected>>
        /\ UNCHANGED <<log, commitIndex, applied, requests, restarts>>

-----------------------------------------------------------------------------
\* Log replication

\* sendHeartbeats() from the interval of a leader.
SendHeartbeats(s) ==
    LET round == Heartbeats(s, log[s], nextIndex[s])
    IN  /\ state[s] = "LEADER"
        /\ RoomFor(round)
        /\ msgs' = msgs \cup round
        /\ UNCHANGED <<nodeVars, requests, elected, restarts>>

\* replicateCommand(v): append, then a round of heartbeats; the caller waits.
replicateCommand(s, v) ==
    LET l == Append(log[s], [term |-> currentTerm[s], command |-> v])
        round == Heartbeats(s, l, nextIndex[s])
    IN  /\ state[s] = "LEADER"
        /\ requests[v].status = "new"
        /\ RoomFor(round)
        /\ log' = [log EXCEPT ![s] = l]
        /\ msgs' = msgs \cup round
        /\ requests' = [requests EXCEPT ![v] =
                           [status |-> "waiting", node |-> s, index |-> Len(l)]]
        /\ UNCHANGED <<currentTerm, votedFor, state, commitIndex, nextIndex, matchIndex,
                       electionTimer, applied, votes, elected, restarts>>

\* waitForCommit() resolves: true when a poll finds the index committed, false
\* when one finds it uncommitted on a node that is not leader, or on timeout.
waitForCommit(v, committed) ==
    LET r == requests[v]
    IN  /\ r.status = "waiting"
        /\ committed => r.index <= commitIndex[r.node]
        /\ requests' = [requests EXCEPT ![v].status =
                           IF committed THEN "committed" ELSE "failed"]
        /\ UNCHANGED <<nodeVars, msgs, elected, restarts>>

AppendResponse(m, t, success, match, conflict) ==
    [rpc |-> "appendResponse", from |-> m.from, to |-> m.to, sentIn |-> m.term,
     term |-> t, success |-> success, matchIndex |-> match, conflictIndex |-> conflict]

\* The conflictIndex of a rejected request: one past the last index before
\* prevLogIndex whose term differs from the one found there, and prevLogIndex + 1
\* when the log holds no entry there.
ConflictIndex(l, prev) ==
    IF prev > Len(l) THEN prev + 1
    ELSE 1 + CHOOSE i \in 0..prev : /\ TermAt(l, i) # TermAt(l, prev)
                                    /\ \A j \in (i + 1)..prev : TermAt(l, j) = TermAt(l, prev)

\* Mutant: existing entries are kept whatever their term.
mMergedKeepsConflict(l, prev, entries) ==
    l \o SubSeq(entries, Len(l) - prev + 1, Len(entries))

\* The log after the entries that follow index prev: the first one whose term
\* conflicts cuts the log there, the ones it already holds leave it as it is.
Merged(l, prev, entries) ==
    LET Conflict(i) == prev + i <= Len(l) /\ l[prev + i].term # entries[i].term
        kept == IF \E i \in DOMAIN entries : Conflict(i)
                THEN LET first == CHOOSE i \in DOMAIN entries :
                                      Conflict(i) /\ \A j \in 1..(i - 1) : ~Conflict(j)
                     IN  SubSeq(l, 1, prev + first - 1)
                ELSE l
    IN  kept \o SubSeq(entries, Len(kept) - prev + 1, Len(entries))

\* Mutant: without the test that leaderCommit is ahead.
mNewCommitIndex(s, m, l) == Minimum(m.leaderCommit, Len(l))

\* The commit index after the request m left the log l: as far as the leader
\* committed and l reaches, whether or not m vouched for those entries.
NewCommitIndex(s, m, l) ==
    IF m.leaderCommit > commitIndex[s] THEN Minimum(m.leaderCommit, Len(l))
    ELSE commitIndex[s]

\* handleAppendEntries() at the callee m.to.
handleAppendEntries(m) ==
    LET s == m.to
        consistent == \/ m.prevLogIndex = 0
                      \/ /\ m.prevLogIndex <= Len(log[s])
                         /\ log[s][m.prevLogIndex].term = m.prevLogTerm
        l == Merged(log[s], m.prevLogIndex, m.entries)
        c == NewCommitIndex(s, m, l)
        Reply(r) == msgs' = (msgs \ {m}) \cup {r}
    IN  /\ m \in msgs /\ m.rpc = "appendEntries"
        /\ IF m.term < currentTerm[s]
           THEN /\ Reply(AppendResponse(m, currentTerm[s], FALSE, 0, 0))
                /\ UNCHANGED <<currentTerm, votedFor, state, electionTimer,
                               log, commitIndex, applied>>
           ELSE /\ IF m.term > currentTerm[s] \/ state[s] # "FOLLOWER"
                   THEN convertToFollower(s, m.term)
                   ELSE /\ electionTimer' = [electionTimer EXCEPT ![s] = TRUE]
                        /\ UNCHANGED <<currentTerm, votedFor, state>>
                /\ IF ~consistent
                   THEN /\ Reply(AppendResponse(m, m.term, FALSE, 0,
                                                ConflictIndex(log[s], m.prevLogIndex)))
                        /\ UNCHANGED <<log, commitIndex, applied>>
                   ELSE /\ log' = [log EXCEPT ![s] = l]
                        /\ commitIndex' = [commitIndex EXCEPT ![s] = c]
                        /\ applyCommittedEntries(s, l, c)
                        /\ Reply(AppendResponse(m, m.term, TRUE,
                                                m.prevLogIndex + Len(m.entries), 0))
        /\ UNCHANGED <<nextIndex, matchIndex, votes, requests, elected, restarts>>

\* Where the leader s continues with p after the response m.
NextIndex(s, p, m) ==
    CASE m.success -> m.matchIndex + 1
      [] ~m.success /\ m.conflictIndex # 0 -> m.conflictIndex
      [] OTHER -> IF nextIndex[s][p] > 1 THEN nextIndex[s][p] - 1 ELSE 1

\* The closure of sendHeartbeats() resumes with the response m, in whatever
\* state and term the node is in by now.
handleAppendResponse(m) ==
    LET s == m.from
        p == m.to
        match == IF m.success THEN [matchIndex[s] EXCEPT ![p] = m.matchIndex]
                 ELSE matchIndex[s]
    IN  /\ m \in msgs /\ m.rpc = "appendResponse"
        /\ Delivered(m, m.sentIn)
        /\ msgs' = msgs \ {m}
        /\ IF m.term > currentTerm[s]
           THEN /\ convertToFollower(s, m.term)
                /\ UNCHANGED <<nextIndex, matchIndex, commitIndex, applied>>
           ELSE /\ nextIndex' = [nextIndex EXCEPT ![s][p] = NextIndex(s, p, m)]
                /\ matchIndex' = [matchIndex EXCEPT ![s] = match]
                /\ updateCommitIndex(s, match)
                /\ UNCHANGED <<currentTerm, votedFor, state, electionTimer>>
        /\ UNCHANGED <<log, votes, requests, elected, restarts>>

-----------------------------------------------------------------------------
\* The environment

\* An RPC rejects at its caller: the request or the response was lost, or the
\* client gave up on it.  Both closures swallow the error; the promise settles.
RpcFails(m) ==
    LET s == m.from
    IN  /\ m \in msgs
        /\ msgs' = msgs \ {m}
        /\ CASE m.rpc = "requestVote" ->
                  RearmAfter(s, m.term, msgs \ {m}, votes[s][m.term])
             [] m.rpc = "voteResponse" ->
                  RearmAfter(s, m.election, msgs \ {m}, votes[s][m.election])
             [] OTHER -> UNCHANGED electionTimer
        /\ UNCHANGED <<currentTerm, votedFor, log, state, commitIndex, nextIndex,
                       matchIndex, applied, votes, requests, elected, restarts>>

\* The process dies and a new RaftNode is constructed: persistState() stores
\* nothing, so term, vote and log start over with the rest.  The RPCs it had sent
\* and the callers waiting on it fail with its process; a request on its way to it
\* reaches the new one, or fails like any other.
Restart(s) ==
    /\ restarts < MaxRestarts
    /\ restarts' = restarts + 1
    /\ currentTerm' = [currentTerm EXCEPT ![s] = 0]
    /\ votedFor' = [votedFor EXCEPT ![s] = Nil]
    /\ log' = [log EXCEPT ![s] = <<>>]
    /\ state' = [state EXCEPT ![s] = "FOLLOWER"]
    /\ commitIndex' = [commitIndex EXCEPT ![s] = 0]
    /\ nextIndex' = [nextIndex EXCEPT ![s] = [p \in Server |-> 1]]
    /\ matchIndex' = [matchIndex EXCEPT ![s] = [p \in Server |-> 0]]
    /\ electionTimer' = [electionTimer EXCEPT ![s] = TRUE]
    /\ applied' = [applied EXCEPT ![s] = <<>>]
    /\ votes' = [votes EXCEPT ![s] = [t \in Terms |-> {}]]
    /\ msgs' = {m \in msgs : m.from # s}
    /\ requests' = [v \in Value |->
                       IF requests[v].status = "waiting" /\ requests[v].node = s
                       THEN [requests[v] EXCEPT !.status = "failed"] ELSE requests[v]]
    /\ UNCHANGED elected

Next ==
    \/ \E s \in Server : ElectionTimeout(s) \/ SendHeartbeats(s) \/ Restart(s)
    \/ \E s \in Server, v \in Value : replicateCommand(s, v)
    \/ \E v \in Value, b \in BOOLEAN : waitForCommit(v, b)
    \/ \E m \in msgs : \/ handleVoteRequest(m) \/ handleVoteResponse(m)
                       \/ handleAppendEntries(m) \/ handleAppendResponse(m)
                       \/ RpcFails(m)

Spec == Init /\ [][Next]_vars
-----------------------------------------------------------------------------
\* Properties

Entry == [term : Terms, command : Value]
Message ==
    [rpc : {"requestVote"}, from : Server, to : Server, term : Terms,
     lastLogIndex : Nat, lastLogTerm : Terms]
    \cup
    [rpc : {"voteResponse"}, from : Server, to : Server, election : Terms,
     term : Terms, granted : BOOLEAN]
    \cup
    [rpc : {"appendEntries"}, from : Server, to : Server, term : Terms,
     prevLogIndex : Nat, prevLogTerm : Terms, entries : Seq(Entry), leaderCommit : Nat]
    \cup
    [rpc : {"appendResponse"}, from : Server, to : Server, sentIn : Terms,
     term : Terms, success : BOOLEAN, matchIndex : Nat, conflictIndex : Nat]

TypeOK ==
    /\ currentTerm \in [Server -> Terms]
    /\ votedFor \in [Server -> Server \cup {Nil}]
    /\ log \in [Server -> Seq(Entry)]
    /\ state \in [Server -> {"FOLLOWER", "CANDIDATE", "LEADER"}]
    /\ commitIndex \in [Server -> Nat]
    /\ nextIndex \in [Server -> [Server -> Nat \ {0}]]
    /\ matchIndex \in [Server -> [Server -> Nat]]
    /\ electionTimer \in [Server -> BOOLEAN]
    /\ applied \in [Server -> Seq(Value)]
    /\ votes \in [Server -> [Terms -> SUBSET Server]]
    /\ msgs \in SUBSET Message
    /\ requests \in [Value -> [status : {"new"}]
                        \cup [status : {"waiting", "committed", "failed"},
                              node : Server, index : Nat \ {0}]]
    /\ elected \in [Terms -> SUBSET Server]
    /\ restarts \in 0..MaxRestarts

\* No two nodes ever become LEADER in the same term
\* (tests/raft-node.test.ts:204 expects at most one leader).
ElectionSafety == \A t \in Terms : \A p, q \in elected[t] : p = q

\* v voted for s in the election s started in term t: counted, or on its way.
Voted(v, s, t) ==
    \/ v \in votes[s][t]
    \/ \E m \in msgs : /\ m.rpc = "voteResponse" /\ m.granted
                       /\ m.from = s /\ m.to = v /\ m.election = t

\* The invariant behind ElectionSafety.  handleAppendEntries forgets the vote of a
\* node that is not FOLLOWER even within a term, so votedFor alone is not enough:
\* the vote a node cast for another is the one it can never take back, and a node
\* that was elected in a term has cast none in it.
VoteInv ==
    /\ \A s \in Server : state[s] # "FOLLOWER" => votedFor[s] = s
    /\ \A s \in Server : state[s] = "LEADER" => s \in elected[currentTerm[s]]
    /\ \A v, s \in Server, t \in Terms : (v # s /\ Voted(v, s, t)) =>
          /\ t <= currentTerm[v]
          /\ t = currentTerm[v] => votedFor[v] = s
          /\ \A r \in Server : (r # v /\ Voted(v, r, t)) => r = s
          /\ v \notin elected[t]
    /\ \A t \in Terms : \A s \in elected[t] :
          /\ t <= currentTerm[s]
          /\ t = currentTerm[s] => state[s] = "LEADER"
          /\ Cardinality(votes[s][t]) >= Majority
    /\ \A m \in msgs : m.rpc \in {"requestVote", "appendEntries"} => m.from # m.to
    /\ \A m \in msgs : m.rpc = "appendEntries" => m.from \in elected[m.term]

\* If two logs hold an entry of the same term at an index, they are identical up
\* to that index, although handleAppendEntries compares terms only and a log is
\* cut by whichever request arrives first.
LogMatching ==
    \A p, q \in Server : \A i \in DOMAIN log[p] \cap DOMAIN log[q] :
        log[p][i].term = log[q][i].term => SubSeq(log[p], 1, i) = SubSeq(log[q], 1, i)

\* Two state machines never apply different commands at the same index.
StateMachineSafety ==
    \A p, q \in Server : \A i \in DOMAIN applied[p] \cap DOMAIN applied[q] :
        applied[p][i] = applied[q][i]

\* A leader of a later term than any other leader's still holds everything that
\* was applied anywhere.
LeaderCompleteness ==
    \A p, q \in Server :
        (/\ state[p] = "LEADER"
         /\ \A r \in Server : currentTerm[r] <= currentTerm[p]) =>
            /\ Len(applied[q]) <= Len(log[p])
            /\ \A i \in DOMAIN applied[q] : log[p][i].command = applied[q][i]

\* A candidate that a majority of the cluster voted for in its current term is not
\* left a candidate (tests/raft-node.test.ts:66 "should become leader with
\* majority votes").
MajorityBecomesLeader ==
    \A s \in Server :
        state[s] = "CANDIDATE" =>
            2 * Cardinality(votes[s][currentTerm[s]]) <= Cardinality(Server)

\* What a node has applied is what its log holds up to its commit index: the log
\* is never cut below it.
AppliedIsLogPrefix ==
    \A s \in Server :
        /\ Len(applied[s]) = commitIndex[s]
        /\ commitIndex[s] <= Len(log[s])
        /\ \A i \in DOMAIN applied[s] : applied[s][i] = log[s][i].command

\* A node that is not leading will start an election by itself: its timer is
\* armed, or the RPC whose settling re-arms it is still in flight.
ElectionPending ==
    \A s \in Server :
        state[s] # "LEADER" =>
            \/ electionTimer[s]
            \/ state[s] = "CANDIDATE" /\ Polling(s, currentTerm[s], msgs) # {}

\* The commit index of a running node never moves backwards.
CommitMonotonic ==
    [][\A s \in Server : commitIndex'[s] >= commitIndex[s] \/ restarts' # restarts]_vars

=============================================================================
