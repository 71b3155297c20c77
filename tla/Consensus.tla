----------------------------- MODULE Consensus ------------------------------
(***************************************************************************)
(* Agreement among the nodes of the dashboard: its Raft, and its election  *)
(* of a leader by a lock. They share nothing; each has its own initial     *)
(* states, next-state relation and properties.                             *)
(***************************************************************************)
EXTENDS Integers, SequencesExt

(***************************************************************************)
(* src/lib/consensus/RaftConsensus.ts: one node of the dashboard's Raft.   *)
(* Its requests reach nobody: simulateRequestVote() and                    *)
(* simulateAppendEntries() answer for the peers by chance, within 100 ms.  *)
(* What other leaders and candidates ask comes in by handleAppendEntries() *)
(* and handleRequestVote().                                                *)
(*                                                                         *)
(* The log is the sequence of the terms of its entries; indices begin at   *)
(* 0, as in the code.  A leader keeps its election timer.                  *)
(***************************************************************************)

CONSTANTS
    Peer,
    TermLimit, MaxLog \* bounds

VARIABLES
    state, currentTerm, votedFor, votesReceived,
    log, commitIndex, lastApplied,
    nextIndex, matchIndex,
    heartbeatTimer,
    replies,       \* answers on their way
    applied        \* history: indices in the order they were applied

consensusVars == <<state, currentTerm, votedFor, votesReceived, log, commitIndex, lastApplied, nextIndex,
                   matchIndex, heartbeatTimer, replies, applied>>

election == <<state, currentTerm, votedFor, votesReceived, heartbeatTimer>>
progress == <<nextIndex, matchIndex>>
committed == <<commitIndex, lastApplied, applied>>

ConsensusInit ==
    /\ state = "follower" /\ currentTerm = 0 /\ votedFor = "null" /\ votesReceived = 0
    /\ log = <<>> /\ commitIndex = 0 /\ lastApplied = 0 /\ applied = <<>>
    /\ nextIndex = [p \in Peer |-> 0]
    /\ matchIndex = [p \in Peer \cup {"self"} |-> -1]
    /\ heartbeatTimer = FALSE
    /\ replies = {}

TermAt(i) == IF i >= 0 THEN log[i + 1] ELSE 0
Majority == (Cardinality(Peer) + 1) \div 2 + 1

\* The timer takes seconds: every answer to an earlier request is there.
startElection ==
    /\ replies = {} /\ currentTerm < TermLimit
    /\ state' = "candidate"
    /\ currentTerm' = currentTerm + 1
    /\ votedFor' = "self" /\ votesReceived' = 1
    /\ replies' = [kind : {"vote"}, peer : Peer, term : {currentTerm'}]
    /\ UNCHANGED <<log, heartbeatTimer, progress, committed>>

\* The old interval is replaced.
consensusBecomeLeader ==
    /\ state' = "leader"
    /\ nextIndex' = [p \in Peer |-> Len(log)]
    /\ matchIndex' = [p \in Peer \cup {"self"} |-> IF p = "self" THEN matchIndex[p] ELSE 0]
    /\ heartbeatTimer' = TRUE

\* The answer is granted or not by chance, and its term is that of the request.
handleRequestVoteResponse(r) ==
    /\ r \in replies /\ r.kind = "vote" /\ replies' = replies \ {r}
    /\ \/ /\ state = "candidate"
          /\ votesReceived' = votesReceived + 1
          /\ IF votesReceived' >= Majority
             THEN consensusBecomeLeader
             ELSE UNCHANGED <<state, heartbeatTimer, progress>>
       \/ UNCHANGED <<state, votesReceived, heartbeatTimer, progress>>
    /\ UNCHANGED <<currentTerm, votedFor, log, committed>>

becomeFollower(term) ==
    /\ state' = "follower" /\ currentTerm' = term /\ votedFor' = "null"
    /\ heartbeatTimer' = FALSE
    /\ UNCHANGED votesReceived

\* A second apart: the answers to the round before are there.
sendHeartbeats ==
    /\ heartbeatTimer /\ state = "leader"
    /\ \A r \in replies : r.kind # "append"
    /\ replies' = replies \cup
          {[kind |-> "append", peer |-> p, term |-> currentTerm, match |-> Len(log) - 1] : p \in Peer}
    /\ UNCHANGED <<log, election, progress, committed>>

Apply(to) ==
    /\ commitIndex' = to
    /\ lastApplied' = IF lastApplied < to THEN to ELSE lastApplied
    /\ applied' = applied \o [i \in 1..(lastApplied' - lastApplied) |-> lastApplied + i]

\* Its own entry counts for the leader a second time once it has proposed something.
Replicated(n, match) == Cardinality({p \in DOMAIN match : match[p] >= n}) + 1 >= Majority

updateCommitIndex(match) ==
    LET ready == {n \in (commitIndex + 1)..(Len(log) - 1) :
                     Replicated(n, match) /\ TermAt(n) = currentTerm}
    IN  IF ready = {} THEN UNCHANGED committed ELSE Apply(Max(ready))

handleAppendEntriesResponse(r) ==
    /\ r \in replies /\ r.kind = "append" /\ replies' = replies \ {r}
    /\ \/ /\ state = "leader"
          /\ matchIndex' = [matchIndex EXCEPT ![r.peer] = r.match]
          /\ nextIndex' = [nextIndex EXCEPT ![r.peer] = r.match + 1]
          /\ updateCommitIndex(matchIndex')
       \/ /\ state = "leader"
          /\ nextIndex' = [nextIndex EXCEPT ![r.peer] = IF @ = 0 THEN 0 ELSE @ - 1]
          /\ UNCHANGED <<matchIndex, committed>>
       \/ state # "leader" /\ UNCHANGED <<progress, committed>>
    /\ UNCHANGED <<log, election>>

propose ==
    /\ state = "leader" /\ Len(log) < MaxLog
    /\ log' = Append(log, currentTerm)
    /\ matchIndex' = [matchIndex EXCEPT !["self"] = Len(log)]
    /\ UNCHANGED <<election, nextIndex, committed, replies>>

\* logOk: the log of the candidate is at least as long and ends in at least the same term.
handleRequestVote(term, candidate, logOk) ==
    /\ log = <<>> => logOk
    /\ LET newer == term > currentTerm
           grant == /\ term >= currentTerm /\ logOk
                    /\ newer \/ votedFor \in {"null", candidate}
       IN  /\ IF newer
              THEN /\ state' = "follower" /\ currentTerm' = term /\ heartbeatTimer' = FALSE
              ELSE UNCHANGED <<state, currentTerm, heartbeatTimer>>
           /\ votedFor' = IF grant THEN candidate ELSE IF newer THEN "null" ELSE votedFor
    /\ UNCHANGED <<votesReceived, log, progress, committed, replies>>

\* conflict: the entry at prev has another term.  The entries from prev + 1 on are checked one by one; those behind them stay.
handleAppendEntries(term, prev, conflict, entries, leaderCommit) ==
    /\ term >= currentTerm
    /\ conflict => prev \in 0..(Len(log) - 1)
    /\ becomeFollower(term)
    /\ IF prev >= Len(log)
       THEN UNCHANGED <<log, committed>>
       ELSE IF conflict
       THEN log' = SubSeq(log, 1, prev) /\ UNCHANGED committed
       ELSE /\ log' = [i \in 1..Max({Len(log), prev + 1 + Len(entries)}) |->
                          IF i - prev - 1 \in DOMAIN entries THEN entries[i - prev - 1] ELSE log[i]]
            /\ IF leaderCommit > commitIndex
               THEN Apply(IF leaderCommit < Len(log') THEN leaderCommit ELSE Len(log') - 1)
               ELSE UNCHANGED committed
    /\ UNCHANGED <<progress, replies>>

ConsensusNext ==
    \/ startElection \/ sendHeartbeats \/ propose
    \/ \E r \in replies : handleRequestVoteResponse(r) \/ handleAppendEntriesResponse(r)
    \/ \E term \in 1..TermLimit, candidate \in {"c1", "c2"}, logOk \in BOOLEAN : handleRequestVote(term, candidate, logOk)
    \/ \E term \in 1..TermLimit, prev \in -1..(MaxLog - 2), conflict \in BOOLEAN, commit \in 0..1 :
          \E entries \in {<<>>} \cup {<<t>> : t \in 1..term} :
              handleAppendEntries(term, prev, conflict, entries, commit)

ConsensusSpec == ConsensusInit /\ [][ConsensusNext]_consensusVars

ConsensusTypeOK ==
    /\ state \in {"follower", "candidate", "leader"} /\ currentTerm \in 0..TermLimit
    /\ votedFor \in {"c1", "c2", "null", "self"} /\ votesReceived \in 0..(Cardinality(Peer) + 1)
    /\ log \in BoundedSeq(1..TermLimit, MaxLog) /\ commitIndex \in -1..(MaxLog - 1)
    /\ heartbeatTimer \in BOOLEAN

\* What a leader sends next to a peer follows an entry it has: sendHeartbeats() reads the term of
\* the entry before nextIndex, although answers to requests of an earlier leadership are taken
\* whatever their term, and logs were cut in between.
NextIndexInLog == state = "leader" => \A p \in Peer : nextIndex[p] <= Len(log)

\* No entry is applied twice, although commitIndex goes back when a leader's commit meets a log
\* that was cut.
AppliedOnce == \A i \in DOMAIN applied : \A j \in 1..(i - 1) : applied[j] < applied[i]

-----------------------------------------------------------------------------
(***************************************************************************)
(* src/lib/cluster/leaderElection.ts: nodes that hold a lock in Redis with *)
(* a time to live, refresh it, and believe themselves leaders meanwhile.   *)
(*                                                                         *)
(* Time passes in ticks.  A call of Redis is carried out and answered at   *)
(* most MaxDelay ticks after it was made.  The loop of the election asks   *)
(* whenever the node does not lead, whatever calls are still out.          *)
(***************************************************************************)

CONSTANTS
    Candidate,
    ttl, refreshInterval,
    MaxDelay,
    Slot           \* calls a node may have out at once

VARIABLES
    owner, left,   \* the key: who holds it, and the ticks it has left
    isLeader,
    refreshIn,     \* ticks to the next refresh of a leader
    isRunning,
    stopped,       \* nodes that were stopped; none is started again
    calls          \* calls[n][s]: kind, age and what came of it

electionVars == <<owner, left, isLeader, refreshIn, isRunning, stopped, calls>>

Free == [kind |-> "none", age |-> 0, result |-> "none"]

ElectionInit ==
    /\ owner = "none" /\ left = 0
    /\ isLeader = [n \in Candidate |-> FALSE]
    /\ refreshIn = [n \in Candidate |-> refreshInterval]
    /\ isRunning = [n \in Candidate |-> FALSE] /\ stopped = {}
    /\ calls = [n \in Candidate |-> [s \in Slot |-> Free]]

Send(n, kind) ==
    \E s \in Slot :
        /\ calls[n][s] = Free
        /\ calls' = [calls EXCEPT ![n][s] = [kind |-> kind, age |-> 0, result |-> "sent"]]

start(n) ==
    /\ ~isRunning[n] /\ n \notin stopped /\ isRunning' = [isRunning EXCEPT ![n] = TRUE]
    /\ UNCHANGED <<owner, left, isLeader, refreshIn, stopped, calls>>

tryAcquireLeadership(n) ==
    /\ isRunning[n] /\ ~isLeader[n]
    /\ Send(n, "acquire")
    /\ UNCHANGED <<owner, left, isLeader, refreshIn, isRunning, stopped>>

refreshLeadership(n) ==
    /\ isRunning[n] /\ isLeader[n] /\ refreshIn[n] = 0
    /\ Send(n, "refresh")
    /\ refreshIn' = [refreshIn EXCEPT ![n] = refreshInterval]
    /\ UNCHANGED <<owner, left, isLeader, isRunning, stopped>>

Finish(n, s, result) == calls' = [calls EXCEPT ![n][s].result = result]

\* SET NX PX
acquireRedisLock(n, s) ==
    /\ calls[n][s].kind = "acquire" /\ calls[n][s].result = "sent"
    /\ IF owner = "none"
       THEN owner' = n /\ left' = ttl /\ Finish(n, s, "yes")
       ELSE UNCHANGED <<owner, left>> /\ Finish(n, s, "no")
    /\ UNCHANGED <<isLeader, refreshIn, isRunning, stopped>>

\* Mutant: a refresh does not extend the time to live.
mrefreshNothing(n, s) ==
    /\ calls[n][s].kind = "refresh" /\ calls[n][s].result = "sent"
    /\ Finish(n, s, IF owner = n THEN "yes" ELSE "no")
    /\ UNCHANGED <<owner, left, isLeader, refreshIn, isRunning, stopped>>

\* PEXPIRE, if the value is the node's own.
refreshRedisLock(n, s) ==
    /\ calls[n][s].kind = "refresh" /\ calls[n][s].result = "sent"
    /\ IF owner = n
       THEN left' = ttl /\ Finish(n, s, "yes")
       ELSE UNCHANGED left /\ Finish(n, s, "no")
    /\ UNCHANGED <<owner, isLeader, refreshIn, isRunning, stopped>>

\* DEL, if the value is the node's own.
releaseRedisLock(n, s) ==
    /\ calls[n][s].kind = "release" /\ calls[n][s].result = "sent"
    /\ IF owner = n
       THEN owner' = "none" /\ left' = 0
       ELSE UNCHANGED <<owner, left>>
    /\ Finish(n, s, "yes")
    /\ UNCHANGED <<isLeader, refreshIn, isRunning, stopped>>

electionBecomeLeader(n) ==
    /\ isLeader' = [isLeader EXCEPT ![n] = TRUE]
    /\ refreshIn' = [refreshIn EXCEPT ![n] = refreshInterval]

loseLeadership(n) == isLeader' = [isLeader EXCEPT ![n] = FALSE] /\ UNCHANGED refreshIn

\* An answer to an earlier call that says no demotes a node that leads by a later one.
acquired(n, s) ==
    /\ calls[n][s].kind = "acquire"
    /\ IF calls[n][s].result = "yes" /\ ~isLeader[n] THEN electionBecomeLeader(n)
       ELSE IF calls[n][s].result = "no" /\ isLeader[n] THEN loseLeadership(n)
       ELSE UNCHANGED <<isLeader, refreshIn>>

refreshed(n, s) ==
    /\ calls[n][s].kind = "refresh"
    /\ IF calls[n][s].result = "no" THEN loseLeadership(n) ELSE UNCHANGED <<isLeader, refreshIn>>

released(n, s) == calls[n][s].kind = "release" /\ loseLeadership(n)

\* The promise settles.
answer(n, s) ==
    /\ calls[n][s].result \in {"yes", "no"}
    /\ acquired(n, s) \/ refreshed(n, s) \/ released(n, s)
    /\ calls' = [calls EXCEPT ![n][s] = Free]
    /\ UNCHANGED <<owner, left, isRunning, stopped>>

\* The call throws, carried out or not; a release that throws leaves the office.
callFails(n, s) ==
    /\ calls[n][s].kind \in {"acquire", "refresh"}
    /\ IF calls[n][s].kind = "refresh" THEN loseLeadership(n) ELSE UNCHANGED <<isLeader, refreshIn>>
    /\ calls' = [calls EXCEPT ![n][s] = Free]
    /\ UNCHANGED <<owner, left, isRunning, stopped>>

\* The timers end at once, an office after the lock was released.  An acquisition that is out
\* may still make a leader of the node, whom nobody asks.
stop(n) ==
    /\ isRunning[n]
    /\ isRunning' = [isRunning EXCEPT ![n] = FALSE] /\ stopped' = stopped \cup {n}
    /\ IF isLeader[n] THEN Send(n, "release") ELSE UNCHANGED calls
    /\ UNCHANGED <<owner, left, isLeader, refreshIn>>

\* A tick: no call is older than MaxDelay, and no refresh is overdue.
tick ==
    /\ \A n \in Candidate :
          /\ isLeader[n] /\ isRunning[n] => refreshIn[n] > 0
          /\ \A s \in Slot : calls[n][s] # Free => calls[n][s].age < MaxDelay
    /\ left' = IF left > 0 THEN left - 1 ELSE 0
    /\ owner' = IF left' = 0 THEN "none" ELSE owner
    /\ refreshIn' = [n \in Candidate |-> IF isLeader[n] /\ isRunning[n] /\ refreshIn[n] > 0 THEN refreshIn[n] - 1 ELSE refreshIn[n]]
    /\ calls' = [n \in Candidate |-> [s \in Slot |->
          IF calls[n][s] = Free THEN Free ELSE [calls[n][s] EXCEPT !.age = @ + 1]]]
    /\ UNCHANGED <<isLeader, isRunning, stopped>>

ElectionNext ==
    \/ \E n \in Candidate : start(n) \/ stop(n) \/ tryAcquireLeadership(n) \/ refreshLeadership(n)
    \/ \E n \in Candidate, s \in Slot :
          \/ acquireRedisLock(n, s) \/ refreshRedisLock(n, s) \/ releaseRedisLock(n, s)
          \/ answer(n, s) \/ callFails(n, s)
    \/ tick

ElectionSpec == ElectionInit /\ [][ElectionNext]_electionVars

ElectionTypeOK ==
    /\ owner \in Candidate \cup {"none"} /\ left \in 0..ttl
    /\ isLeader \in [Candidate -> BOOLEAN] /\ isRunning \in [Candidate -> BOOLEAN] /\ stopped \subseteq Candidate
    /\ refreshIn \in [Candidate -> 0..refreshInterval]
    /\ calls \in [Candidate -> [Slot -> [kind : {"none", "acquire", "refresh", "release"}, age : 0..MaxDelay,
                                         result : {"none", "sent", "yes", "no"}]]]

Leads(n) == isLeader[n] /\ isRunning[n]

\* A leader that misses its refresh learns so before the lock is gone.
DelaysAreShort == ttl > refreshInterval + 2 * MaxDelay

\* As long as calls of Redis are answered in time, no two running nodes believe that they lead,
\* although each learns of its lock, and of the loss of it, later than Redis.
OneElected == DelaysAreShort => \A m, n \in Candidate : Leads(m) /\ Leads(n) => m = n

=============================================================================
