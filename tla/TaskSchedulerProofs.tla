------------------------- MODULE TaskSchedulerProofs -------------------------
(***************************************************************************)
(* Proof that TaskScheduler sends no task twice, for any number of         *)
(* instances, nodes, tasks and overlapping runs, when claims are prompt    *)
(* and Redis is a Redis, and that HeartbeatMonitor beside it changes       *)
(* nothing in that.                                                        *)
(*                                                                         *)
(* The argument: whoever leads, and whoever is in the middle of a claim,   *)
(* holds the lock; so there is one claim at a time; so what a claim read   *)
(* from the queue is still there when it removes it; and a task enters the *)
(* queue once.                                                             *)
(*                                                                         *)
(* The types after it need none of these assumptions.                      *)
(*                                                                         *)
(* At the end, about NodeCalls: what is tried again, how often and with    *)
(* which client, and what is reserved on a node.                           *)
(***************************************************************************)
EXTENDS HeartbeatMonitor, NodeCalls, FiniteSetTheorems, TLAPS

USE SetAssumption

Run == [pc : PC, task : Task \cup {Nil}, node : Node \cup {Nil}]

Types ==
    /\ lock \in Instance \cup {Nil, Gone}
    /\ isLeader \in [Instance -> BOOLEAN]
    /\ status \in [Task -> {"NONE", "PENDING", "SCHEDULED", "RUNNING", "FAILED", "CANCELLED"}]
    /\ queue \in SUBSET Task
    /\ runs \in [Slot -> Run]
    /\ \A s \in Slot : runs[s].pc \notin {"idle", "look"} => runs[s].task \in Task
    /\ enqueues \in SUBSET [by : Instance, task : Task]
    /\ sent \in [Task -> Nat]

\* Leading and claiming both take the lock, and an instance claims once at a time.
LockInv ==
    /\ \A i \in Instance : isLeader[i] \/ Claiming(i) => lock = i
    /\ \A s, r \in Slot :
          runs[s].pc \in ClaimPC /\ runs[r].pc \in ClaimPC => s = r

\* Where an unsent task is: with its creator, in the queue, or in a claim.
QueueInv ==
    /\ \A t \in Task : status[t] = "NONE" => sent[t] = 0
    /\ \A e \in enqueues : sent[e.task] = 0 /\ status[e.task] # "NONE"
    /\ \A e, f \in enqueues : e.task = f.task => e = f
    /\ \A t \in queue : /\ sent[t] = 0 /\ status[t] # "NONE"
                        /\ \A e \in enqueues : e.task # t
    /\ \A s \in Slot :
          /\ runs[s].pc \in {"load", "place", "dequeue"} => runs[s].task \in queue
          /\ runs[s].pc = "assign" =>
                /\ runs[s].task \notin queue
                /\ sent[runs[s].task] = 0 /\ status[runs[s].task] # "NONE"
                /\ \A e \in enqueues : e.task # runs[s].task

IInv == Types /\ LockInv /\ QueueInv /\ SingleDispatch

-----------------------------------------------------------------------------
\* Steps outside claims

\* Leadership, the queue and the claims under way stay as they are; rows change,
\* but none disappears.
LEMMA QuietStep ==
    ASSUME IInv,
           UNCHANGED <<lock, isLeader, queue, enqueues, sent>>,
           status' \in [Task -> {"NONE", "PENDING", "SCHEDULED", "RUNNING", "FAILED",
                                 "CANCELLED"}],
           \A t \in Task : status'[t] = "NONE" => status[t] = "NONE",
           runs' \in [Slot -> Run],
           \A s \in Slot : \/ runs'[s] = runs[s]
                           \/ runs'[s].pc = "idle"
                           \/ runs'[s].pc \notin ClaimPC /\ runs'[s].task \in Task
    PROVE  IInv'
<1>1. Types'
  BY DEF IInv, Types, Run
<1>2. \A i \in Instance : Claiming(i)' => Claiming(i)
  BY DEF Claiming, ClaimPC
<1>3. LockInv'
  BY <1>2 DEF IInv, LockInv, Types, Run, ClaimPC
<1>4. QueueInv'
  BY DEF IInv, QueueInv, Types, Run, ClaimPC
<1>5. SingleDispatch'
  BY DEF IInv, SingleDispatch
<1>. QED  BY <1>1, <1>3, <1>4, <1>5 DEF IInv

\* Rows appear as PENDING, each with its enqueue() to come; runs may end.
LEMMA CreateStep ==
    ASSUME IInv, NEW i \in Instance, EnqueueCreated(i),
           UNCHANGED <<lock, isLeader, queue, sent>>,
           status' \in [Task -> {"NONE", "PENDING", "SCHEDULED", "RUNNING", "FAILED",
                                 "CANCELLED"}],
           \A t \in Task : status'[t] = "NONE" => status[t] = "NONE",
           \A s \in Slot : runs'[s] \in {runs[s], Idle},
           runs' \in [Slot -> Run]
    PROVE  IInv'
<1>1. \A e \in enqueues' : e \in enqueues \/ (e.task \in Created /\ e.by = i)
  BY DEF EnqueueCreated
<1>2. \A t \in Created : t \in Task /\ status[t] = "NONE" /\ status'[t] # "NONE"
  BY DEF Created
<1>3. Types'
  <2>1. \A t \in Created : [by |-> i, task |-> t] \in [by : Instance, task : Task]
    BY <1>2
  <2>2. enqueues' \in SUBSET [by : Instance, task : Task]
    BY <2>1 DEF IInv, Types, Run, EnqueueCreated
  <2>3. \A s \in Slot : runs'[s].pc \notin {"idle", "look"} => runs'[s].task \in Task
    BY DEF IInv, Types, Run, Idle
  <2>. QED  BY <2>2, <2>3 DEF IInv, Types, Run
<1>4. LockInv'
  <2>1. \A j \in Instance : Claiming(j)' => Claiming(j)
    BY DEF Claiming, ClaimPC, Idle
  <2>2. \A s \in Slot : runs'[s].pc \in ClaimPC => runs[s].pc \in ClaimPC
    BY DEF ClaimPC, Idle
  <2>. QED  BY <2>1, <2>2 DEF IInv, LockInv
<1>5. \A e, f \in enqueues' : e.task = f.task => e = f
  BY <1>1, <1>2 DEF IInv, QueueInv, EnqueueCreated
<1>6. QueueInv'
  <2>1. \A t \in Task : status'[t] = "NONE" => sent'[t] = 0
    BY DEF IInv, QueueInv
  <2>2. \A e \in enqueues' : sent'[e.task] = 0 /\ status'[e.task] # "NONE"
    BY <1>1, <1>2 DEF IInv, QueueInv, Types, Run
  <2>3. \A t \in queue' : /\ sent'[t] = 0 /\ status'[t] # "NONE"
                          /\ \A e \in enqueues' : e.task # t
    BY <1>1, <1>2 DEF IInv, QueueInv, Types, Run
  <2>4. ASSUME NEW s \in Slot
        PROVE  /\ runs'[s].pc \in {"load", "place", "dequeue"} => runs'[s].task \in queue'
               /\ runs'[s].pc = "assign" =>
                     /\ runs'[s].task \notin queue'
                     /\ sent'[runs'[s].task] = 0 /\ status'[runs'[s].task] # "NONE"
                     /\ \A e \in enqueues' : e.task # runs'[s].task
    <3>1. CASE runs'[s] = Idle
      BY <3>1 DEF Idle
    <3>2. CASE runs'[s] = runs[s]
      BY <1>1, <1>2, <3>2 DEF IInv, QueueInv, Types, Run
    <3>. QED  BY <3>1, <3>2
  <2>. QED  BY <1>5, <2>1, <2>2, <2>3, <2>4 DEF QueueInv
<1>7. SingleDispatch'
  BY DEF IInv, SingleDispatch
<1>. QED  BY <1>3, <1>4, <1>6, <1>7 DEF IInv

\* The lock and the beliefs about it change; runs may end.
LEMMA LeadershipStep ==
    ASSUME IInv, UNCHANGED <<status, queue, enqueues, sent>>,
           \A s \in Slot : runs'[s] \in {runs[s], Idle},
           runs' \in [Slot -> Run],
           lock' \in Instance \cup {Nil, Gone},
           isLeader' \in [Instance -> BOOLEAN],
           \A i \in Instance : isLeader'[i] \/ Claiming(i)' => lock' = i
    PROVE  IInv'
<1>1. Types'
  BY DEF IInv, Types, Run, Idle
<1>2. \A s \in Slot : runs'[s].pc \in ClaimPC => runs[s].pc \in ClaimPC
  BY DEF ClaimPC, Idle
<1>3. LockInv'
  BY <1>2 DEF IInv, LockInv
<1>4. QueueInv'
  BY DEF IInv, QueueInv, Types, Run, Idle
<1>5. SingleDispatch'
  BY DEF IInv, SingleDispatch
<1>. QED  BY <1>1, <1>3, <1>4, <1>5 DEF IInv

LEMMA MaintainLeadership ==
    ASSUME IInv, ~RedisMocked, NEW i \in Instance, maintainLeadership(i)
    PROVE  IInv'
<1>1. UNCHANGED <<status, queue, enqueues, sent, runs>>
  BY DEF maintainLeadership, taskVars
<1>2. \A j \in Instance : Claiming(j)' <=> Claiming(j)
  BY <1>1 DEF Claiming
<1>3. CASE tryBecomeLeader(i)
  <2>1. \A j \in Instance : ~isLeader[j] /\ ~Claiming(j)
    BY <1>3 DEF IInv, LockInv, tryBecomeLeader
  <2>2. /\ isLeader' \in [Instance -> BOOLEAN]
        /\ \A j \in Instance : isLeader'[j] => j = i
    BY <1>3, <2>1 DEF IInv, Types, Run, tryBecomeLeader
  <2>. QED  BY <1>1, <1>2, <1>3, <2>1, <2>2, LeadershipStep DEF IInv, Types, Run, tryBecomeLeader
<1>4. CASE isLeader' = [isLeader EXCEPT ![i] = FALSE] /\ lock' = lock
  <2>1. /\ isLeader' \in [Instance -> BOOLEAN]
        /\ \A j \in Instance : isLeader'[j] => isLeader[j]
    BY <1>4 DEF IInv, Types, Run
  <2>. QED  BY <1>1, <1>2, <1>4, <2>1, LeadershipStep DEF IInv, Types, Run, LockInv
<1>. QED  BY <1>3, <1>4 DEF maintainLeadership

\* The only place where the assumption on durations is needed, with Tick.
LEMMA LockExpiry ==
    ASSUME IInv, Prompt, LockExpires
    PROVE  IInv'
<1>1. UNCHANGED <<isLeader, status, queue, enqueues, sent, runs>> /\ lock' = Nil
  BY DEF LockExpires, taskVars
<1>2. \A j \in Instance : ~isLeader[j] /\ ~Claiming(j)
  BY DEF LockExpires, IInv, LockInv
<1>3. \A j \in Instance : Claiming(j)' <=> Claiming(j)
  BY <1>1 DEF Claiming
<1>. QED  BY <1>1, <1>2, <1>3, LeadershipStep DEF IInv, Types, Run

LEMMA RestartStep ==
    ASSUME IInv, NEW i \in Instance, NEW g \in BOOLEAN, Restart(i, g)
    PROVE  IInv'
<1>1. /\ UNCHANGED <<status, queue, sent>>
      /\ enqueues' \subseteq enqueues
      /\ isLeader' = [isLeader EXCEPT ![i] = FALSE]
      /\ runs' = [s \in Slot |-> IF s[1] = i THEN Idle ELSE runs[s]]
      /\ lock # i => lock' = lock
      /\ lock' \in {lock, Nil, Gone}
  BY DEF Restart, taskVars
<1>2. \A s \in Slot : runs'[s] \in {runs[s], Idle} /\ (s[1] = i => runs'[s] = Idle)
  BY <1>1
<1>3. runs' \in [Slot -> Run]
  BY <1>1 DEF IInv, Types, Run, Idle, PC
<1>4. Types'
  BY <1>1, <1>2, <1>3 DEF IInv, Types, Run, Idle
<1>5. LockInv'
  <2>1. \A j \in Instance : Claiming(j)' => Claiming(j) /\ j # i
    BY <1>2 DEF Claiming, ClaimPC, Idle
  <2>2. \A j \in Instance : isLeader'[j] => isLeader[j] /\ j # i
    BY <1>1 DEF IInv, Types, Run
  <2>3. \A s \in Slot : runs'[s].pc \in ClaimPC => runs[s].pc \in ClaimPC
    BY <1>2 DEF ClaimPC, Idle
  <2>. QED  BY <1>1, <2>1, <2>2, <2>3 DEF IInv, LockInv
<1>6. QueueInv'
  BY <1>1, <1>2 DEF IInv, QueueInv, Types, Run, Idle
<1>7. SingleDispatch'
  BY <1>1 DEF IInv, SingleDispatch
<1>. QED  BY <1>4, <1>5, <1>6, <1>7 DEF IInv

-----------------------------------------------------------------------------
\* Claims

\* A run in the middle of a claim is the only one, and stays in its claim or ends.
LEMMA ClaimStep ==
    ASSUME IInv, NEW s \in Slot, runs[s].pc \in ClaimPC,
           NEW r \in Run,
           runs' = [runs EXCEPT ![s] = r],
           UNCHANGED <<lock, isLeader>>
    PROVE  LockInv'
<1>1. \A q \in Slot : runs'[q].pc \in ClaimPC => q = s
  BY DEF IInv, LockInv, Types, Run
<1>2. \A i \in Instance : Claiming(i)' => Claiming(i)
  BY <1>1 DEF Claiming
<1>. QED  BY <1>1, <1>2 DEF IInv, LockInv

LEMMA TickStep ==
    ASSUME IInv, Prompt, NEW s \in Slot, Tick(s)
    PROVE  IInv'
<1>1. /\ UNCHANGED <<lock, isLeader, status, queue, enqueues, sent>>
      /\ runs' = [runs EXCEPT ![s].pc = "look"]
      /\ isLeader[s[1]] /\ ~Claiming(s[1]) /\ s[1] \in Instance
  BY DEF Tick, Goto, At, taskVars, leaderVars, Slot
<1>2. Types'
  BY <1>1 DEF IInv, Types, Run, PC
<1>3. \A r \in Slot : runs[r].pc \notin ClaimPC
  <2>. SUFFICES ASSUME NEW r \in Slot, runs[r].pc \in ClaimPC
                PROVE  FALSE
    OBVIOUS
  <2>1. r[1] \in Instance /\ Claiming(r[1])
    BY DEF Claiming, Slot
  <2>2. lock = r[1] /\ lock = s[1]
    BY <1>1, <2>1 DEF IInv, LockInv
  <2>. QED  BY <1>1, <2>1, <2>2
<1>4. \A r \in Slot : runs'[r].pc \in ClaimPC => r = s
  BY <1>1, <1>3 DEF IInv, Types, Run
<1>5. LockInv'
  <2>1. \A i \in Instance : Claiming(i)' => i = s[1]
    BY <1>4 DEF Claiming
  <2>. QED  BY <1>1, <1>4, <2>1 DEF IInv, LockInv
<1>6. QueueInv'
  BY <1>1 DEF IInv, QueueInv, Types, Run
<1>7. SingleDispatch'
  BY <1>1 DEF IInv, SingleDispatch
<1>. QED  BY <1>2, <1>5, <1>6, <1>7 DEF IInv

LEMMA LookStep ==
    ASSUME IInv, NEW s \in Slot, look(s)
    PROVE  IInv'
<1>1. /\ UNCHANGED <<lock, isLeader, status, queue, enqueues, sent>>
      /\ runs[s].pc = "look"
  BY DEF look, At, taskVars, leaderVars
<1>2. CASE End(s)
  BY <1>1, <1>2, QuietStep DEF End, Idle, IInv, Types, Run, PC
<1>3. ASSUME NEW t \in queue,
             runs' = [runs EXCEPT ![s] = [pc |-> "load", task |-> t, node |-> Nil]]
      PROVE  IInv'
  <2>1. Types'
    BY <1>1, <1>3 DEF IInv, Types, Run, PC
  <2>2. [pc |-> "load", task |-> t, node |-> Nil] \in Run /\ runs[s].pc \in ClaimPC
    BY <1>1 DEF IInv, Types, Run, PC, ClaimPC
  <2>3. LockInv'
    BY <1>1, <1>3, <2>2, ClaimStep
  <2>4. QueueInv'
    BY <1>1, <1>3 DEF IInv, QueueInv, Types, Run
  <2>5. SingleDispatch'
    BY <1>1 DEF IInv, SingleDispatch
  <2>. QED  BY <2>1, <2>3, <2>4, <2>5 DEF IInv
<1>. QED  BY <1>2, <1>3 DEF look

\* A run whose task is no longer PENDING removes it; no other run has its eye on it.
LEMMA LoadStep ==
    ASSUME IInv, NEW s \in Slot, load(s)
    PROVE  IInv'
<1>1. /\ UNCHANGED <<lock, isLeader, status, enqueues, sent>>
      /\ runs[s].pc = "load" /\ runs[s].task \in Task
      /\ queue' \subseteq queue
  BY DEF load, At, taskVars, leaderVars, IInv, Types
<1>2. \A q \in Slot : runs[q].pc \in ClaimPC => q = s
  BY <1>1 DEF IInv, LockInv, ClaimPC
<1>3. CASE Goto(s, "place") /\ queue' = queue
  <2>. DEFINE r == [runs[s] EXCEPT !.pc = "place"]
  <2>1. /\ r \in Run /\ runs' = [runs EXCEPT ![s] = r]
        /\ r.pc = "place" /\ r.task = runs[s].task /\ runs[s].pc \in ClaimPC
    BY <1>1, <1>3 DEF Goto, IInv, Types, Run, PC, ClaimPC
  <2>. HIDE DEF r
  <2>2. Types'
    BY <1>1, <1>3, <2>1 DEF IInv, Types
  <2>3. LockInv'
    BY <1>1, <2>1, ClaimStep
  <2>4. QueueInv'
    BY <1>1, <1>3, <2>1 DEF IInv, QueueInv, Types
  <2>5. SingleDispatch'
    BY <1>1 DEF IInv, SingleDispatch
  <2>. QED  BY <2>2, <2>3, <2>4, <2>5 DEF IInv
<1>4. CASE End(s)
  <2>1. Idle \in Run /\ runs[s].pc \in ClaimPC
    BY <1>1 DEF Idle, Run, PC, ClaimPC
  <2>2. Types'
    BY <1>1, <1>4, <2>1 DEF IInv, Types, End, Idle
  <2>3. LockInv'
    BY <1>1, <1>4, <2>1, ClaimStep DEF End
  <2>4. \A q \in Slot : runs'[q].pc \notin ClaimPC
    BY <1>2, <1>4 DEF End, Idle, ClaimPC, IInv, Types
  <2>5. QueueInv'
    BY <1>1, <2>4 DEF IInv, QueueInv, ClaimPC
  <2>6. SingleDispatch'
    BY <1>1 DEF IInv, SingleDispatch
  <2>. QED  BY <2>2, <2>3, <2>5, <2>6 DEF IInv
<1>. QED  BY <1>3, <1>4 DEF load

LEMMA FindNodeStep ==
    ASSUME IInv, NEW s \in Slot, findNode(s)
    PROVE  IInv'
<1>1. /\ UNCHANGED <<lock, isLeader, status, queue, enqueues, sent>>
      /\ runs[s].pc = "place" /\ runs[s].task \in Task
  BY DEF findNode, At, taskVars, leaderVars, IInv, Types
<1>2. PICK n \in Node : runs' = [runs EXCEPT ![s].pc = "dequeue", ![s].node = n]
  BY DEF findNode, Eligible
<1>. DEFINE r == [runs[s] EXCEPT !.pc = "dequeue", !.node = n]
<1>3. /\ r \in Run /\ runs' = [runs EXCEPT ![s] = r]
      /\ r.pc = "dequeue" /\ r.task = runs[s].task /\ runs[s].pc \in ClaimPC
  BY <1>1, <1>2 DEF IInv, Types, Run, PC, ClaimPC
<1>. HIDE DEF r
<1>4. Types'
  BY <1>1, <1>3 DEF IInv, Types
<1>5. LockInv'
  BY <1>1, <1>3, ClaimStep
<1>6. QueueInv'
  BY <1>1, <1>3 DEF IInv, QueueInv, Types
<1>7. SingleDispatch'
  BY <1>1 DEF IInv, SingleDispatch
<1>. QED  BY <1>4, <1>5, <1>6, <1>7 DEF IInv

LEMMA DequeueStep ==
    ASSUME IInv, NEW s \in Slot, dequeue(s)
    PROVE  IInv'
<1>1. /\ UNCHANGED <<lock, isLeader, status, enqueues, sent>>
      /\ runs[s].pc = "dequeue" /\ runs[s].task \in queue
      /\ queue' = queue \ {runs[s].task}
  BY DEF dequeue, At, taskVars, leaderVars, IInv, QueueInv
<1>. DEFINE r == [runs[s] EXCEPT !.pc = "assign"]
<1>2. /\ r \in Run /\ runs' = [runs EXCEPT ![s] = r]
      /\ r.pc = "assign" /\ r.task = runs[s].task /\ runs[s].pc \in ClaimPC
  BY <1>1 DEF dequeue, Goto, IInv, Types, Run, PC, ClaimPC
<1>. HIDE DEF r
<1>3. \A q \in Slot : q # s => runs'[q].pc \notin ClaimPC
  BY <1>2 DEF IInv, LockInv, Types
<1>4. Types'
  BY <1>1, <1>2 DEF IInv, Types
<1>5. LockInv'
  BY <1>1, <1>2, ClaimStep
<1>6. runs'[s] = r
  BY <1>2 DEF IInv, Types
<1>7. QueueInv'
  BY <1>1, <1>2, <1>3, <1>6 DEF IInv, QueueInv, ClaimPC
<1>8. SingleDispatch'
  BY <1>1 DEF IInv, SingleDispatch
<1>. QED  BY <1>4, <1>5, <1>7, <1>8 DEF IInv

\* The task sent is sent for the first time, and nothing can send it again.
LEMMA AssignStep ==
    ASSUME IInv, NEW s \in Slot, assignTask(s)
    PROVE  IInv'
<1>. DEFINE t == runs[s].task
<1>1. /\ UNCHANGED <<lock, isLeader, queue, enqueues>>
      /\ runs[s].pc = "assign" /\ t \in Task
      /\ status' = [status EXCEPT ![t] = "SCHEDULED"]
      /\ sent' = [sent EXCEPT ![t] = @ + 1]
  BY DEF assignTask, At, leaderVars, IInv, Types
<1>2. /\ sent[t] = 0 /\ t \notin queue
      /\ \A e \in enqueues : e.task # t
  BY <1>1 DEF IInv, QueueInv
<1>. DEFINE r == [runs[s] EXCEPT !.pc = "post"]
<1>3. /\ r \in Run /\ runs' = [runs EXCEPT ![s] = r]
      /\ r.pc = "post" /\ r.task = runs[s].task /\ runs[s].pc \in ClaimPC
  BY <1>1 DEF assignTask, Goto, IInv, Types, Run, PC, ClaimPC
<1>. HIDE DEF r, t
<1>4. \A q \in Slot : runs'[q].pc \notin ClaimPC
  BY <1>3 DEF IInv, LockInv, Types, ClaimPC
<1>5. /\ status' \in [Task -> {"NONE", "PENDING", "SCHEDULED", "RUNNING", "FAILED",
                               "CANCELLED"}]
      /\ sent' \in [Task -> Nat]
  BY <1>1 DEF IInv, Types
<1>6. Types'
  BY <1>1, <1>3, <1>5 DEF IInv, Types, t
<1>7. LockInv'
  BY <1>1, <1>3, ClaimStep
<1>8. sent'[t] = 1 /\ \A u \in Task : u # t => sent'[u] = sent[u] /\ status'[u] = status[u]
  BY <1>1, <1>2 DEF IInv, Types
<1>9. status'[t] = "SCHEDULED"
  BY <1>1 DEF IInv, Types
<1>10. QueueInv'
  <2>1. \A u \in Task : status'[u] = "NONE" => sent'[u] = 0
    BY <1>8, <1>9 DEF IInv, QueueInv
  <2>2. \A e \in enqueues' : sent'[e.task] = 0 /\ status'[e.task] # "NONE"
    BY <1>1, <1>2, <1>8 DEF IInv, QueueInv, Types
  <2>3. \A u \in queue' : /\ sent'[u] = 0 /\ status'[u] # "NONE"
                          /\ \A e \in enqueues' : e.task # u
    BY <1>1, <1>2, <1>8 DEF IInv, QueueInv, Types
  <2>. QED  BY <1>1, <1>4, <2>1, <2>2, <2>3 DEF IInv, QueueInv, ClaimPC
<1>11. SingleDispatch'
  BY <1>8 DEF IInv, SingleDispatch
<1>. QED  BY <1>6, <1>7, <1>10, <1>11 DEF IInv

LEMMA EnqueueStep ==
    ASSUME IInv, ~RedisMocked, NEW e \in enqueues, enqueue(e)
    PROVE  IInv'
<1>1. /\ UNCHANGED <<lock, isLeader, status, runs, sent>>
      /\ enqueues' = enqueues \ {e}
      /\ queue' = queue \cup {e.task}
      /\ e.task \in Task
  BY DEF enqueue, taskVars, leaderVars, IInv, Types
<1>2. Types'
  BY <1>1 DEF IInv, Types
<1>3. \A i \in Instance : Claiming(i)' <=> Claiming(i)
  BY <1>1 DEF Claiming
<1>4. LockInv'
  BY <1>1, <1>3 DEF IInv, LockInv
<1>5. \A f \in enqueues' : f.task # e.task
  BY <1>1 DEF IInv, QueueInv
<1>6. QueueInv'
  BY <1>1, <1>5 DEF IInv, QueueInv, Types
<1>7. SingleDispatch'
  BY <1>1 DEF IInv, SingleDispatch
<1>. QED  BY <1>2, <1>4, <1>6, <1>7 DEF IInv

-----------------------------------------------------------------------------
\* The whole

\* The steps of a run that has left its claim, and of the defer() that ends one.
LEMMA RunStep ==
    ASSUME IInv, NEW s \in Slot,
           \/ defer(s) \/ throws(s) \/ RunTask(s) \/ PostFails(s)
           \/ markRunning(s) \/ countRunning(s) \/ markFailed(s)
    PROVE  IInv'
<1>1. UNCHANGED <<lock, isLeader, queue, enqueues, sent>>
  BY DEF defer, throws, RunTask, PostFails, markRunning, countRunning, markFailed, leaderVars, taskVars
<1>2. status' \in [Task -> {"NONE", "PENDING", "SCHEDULED", "RUNNING", "FAILED", "CANCELLED"}]
  BY DEF defer, throws, RunTask, PostFails, markRunning, countRunning, markFailed, taskVars, IInv, Types
<1>3. ASSUME NEW t \in Task
      PROVE  status'[t] = "NONE" => status[t] = "NONE"
  BY DEF defer, throws, RunTask, PostFails, markRunning, countRunning, markFailed, taskVars, IInv, Types
<1>4. runs' \in [Slot -> Run] /\ \A q \in Slot : \/ runs'[q] = runs[q]
                                                \/ runs'[q].pc = "idle"
                                                \/ /\ runs'[q].pc \notin ClaimPC
                                                   /\ runs'[q].task \in Task
  BY DEF defer, throws, RunTask, PostFails, markRunning, countRunning, markFailed, IInv, Types, Run,
         At, Goto, End, Idle, PC, ClaimPC
<1>. QED  BY <1>1, <1>2, <1>3, <1>4, QuietStep

\* The steps that create a row, in a route or after a failure.
LEMMA CreatingStep ==
    ASSUME IInv, NEW i \in Instance,
           \/ createTask(i)
           \/ \E t \in Task : retryTask(i, t)
           \/ \E s \in Slot : s[1] = i /\ retryAfterFailure(s)
    PROVE  IInv'
<1>1. ASSUME NEW t, CreateRetry(t)
      PROVE  /\ status' \in [Task -> {"NONE", "PENDING", "SCHEDULED", "RUNNING", "FAILED",
                                      "CANCELLED"}]
             /\ \A u \in Task : status'[u] = "NONE" => status[u] = "NONE"
  <2>1. \/ UNCHANGED status
        \/ \E c \in Clones : status' = [status EXCEPT ![c] = "PENDING"]
    BY <1>1 DEF CreateRetry
  <2>. QED  BY <2>1 DEF IInv, Types
<1>2. CASE createTask(i)
  <2>1. \E t \in Task : status' = [status EXCEPT ![t] = "PENDING"]
    BY <1>2 DEF createTask, Task
  <2>2. /\ UNCHANGED <<lock, isLeader, queue, sent, runs>>
        /\ EnqueueCreated(i)
    BY <1>2 DEF createTask, leaderVars
  <2>. QED  BY <2>1, <2>2, CreateStep DEF IInv, Types, Run
<1>3. ASSUME NEW t \in Task, retryTask(i, t)
      PROVE  IInv'
  <2>1. /\ UNCHANGED <<lock, isLeader, queue, sent, runs>>
        /\ EnqueueCreated(i) /\ CreateRetry(t)
    BY <1>3 DEF retryTask, leaderVars
  <2>. QED  BY <1>1, <2>1, CreateStep DEF IInv, Types, Run
<1>4. ASSUME NEW s \in Slot, s[1] = i, retryAfterFailure(s)
      PROVE  IInv'
  <2>1. /\ UNCHANGED <<lock, isLeader, queue, sent>>
        /\ EnqueueCreated(i) /\ CreateRetry(runs[s].task)
        /\ runs' = [runs EXCEPT ![s] = Idle]
    BY <1>4 DEF retryAfterFailure, leaderVars, End
  <2>2. runs' \in [Slot -> Run] /\ \A q \in Slot : runs'[q] \in {runs[q], Idle}
    BY <2>1 DEF IInv, Types, Run, Idle, PC
  <2>. QED  BY <1>1, <2>1, <2>2, CreateStep DEF Run
<1>. QED  BY <1>2, <1>3, <1>4

\* The steps that leave leadership, the queue and the runs alone.
LEMMA OutsideStep ==
    ASSUME IInv,
           \/ \E t \in Task : cancelCheck(t) \/ cancelTask(t)
           \/ \E i \in Instance, n \in Node : reconcileTaskCounts(i, n)
           \/ \E n \in Node : heartbeat(n)
           \/ \E n \in Maintained, b \in BOOLEAN : setMaintenance(n, b)
    PROVE  IInv'
<1>1. UNCHANGED <<lock, isLeader, queue, enqueues, sent, runs>>
  BY DEF cancelCheck, cancelTask, reconcileTaskCounts, heartbeat, setMaintenance, leaderVars,
         taskVars
<1>2. \/ UNCHANGED status
      \/ \E t \in Task : status' = [status EXCEPT ![t] = "CANCELLED"]
  BY DEF cancelCheck, cancelTask, reconcileTaskCounts, heartbeat, setMaintenance, taskVars
<1>. QED  BY <1>1, <1>2, QuietStep DEF IInv, Types, Run

LEMMA ExecutionEnd ==
    ASSUME IInv, NEW n \in Node, NEW t \in Task, ExecutionEnds(n, t)
    PROVE  IInv'
<1>1. UNCHANGED <<lock, isLeader, queue, enqueues, sent, status>>
  BY DEF ExecutionEnds, leaderVars, taskVars
<1>2. \/ UNCHANGED runs
      \/ \E s \in Slot : /\ runs[s] = [pc |-> "running", task |-> t, node |-> n]
                         /\ runs' = [runs EXCEPT ![s].pc = "answered"]
  BY DEF ExecutionEnds, Goto
<1>3. runs' \in [Slot -> Run] /\ \A q \in Slot : \/ runs'[q] = runs[q]
                                                \/ /\ runs'[q].pc \notin ClaimPC
                                                   /\ runs'[q].task \in Task
  BY <1>2 DEF IInv, Types, Run, PC, ClaimPC
<1>. QED  BY <1>1, <1>3, QuietStep DEF IInv, Types, Run

LEMMA InitHolds == Init => IInv
<1>. SUFFICES ASSUME Init  PROVE IInv
  OBVIOUS
<1>1. Types
  BY DEF Init, Types, Run, Idle, PC
<1>2. LockInv
  BY DEF Init, LockInv, Claiming, ClaimPC, Idle
<1>3. QueueInv
  BY DEF Init, QueueInv, Idle
<1>4. SingleDispatch
  BY DEF Init, SingleDispatch
<1>. QED  BY <1>1, <1>2, <1>3, <1>4 DEF IInv

LEMMA NextStep ==
    ASSUME IInv, Prompt, ~RedisMocked, [Next]_vars
    PROVE  IInv'
<1>1. ASSUME NEW i \in Instance, maintainLeadership(i)  PROVE IInv'
  BY <1>1, MaintainLeadership
<1>2. ASSUME NEW i \in Instance, NEW g \in BOOLEAN, Restart(i, g)  PROVE IInv'
  BY <1>2, RestartStep
<1>3. ASSUME NEW i \in Instance, createTask(i)  PROVE IInv'
  BY <1>3, CreatingStep
<1>4. ASSUME NEW i \in Instance, NEW t \in Task, retryTask(i, t)  PROVE IInv'
  BY <1>4, CreatingStep
<1>5. CASE \/ \E t \in Task : cancelCheck(t) \/ cancelTask(t)
           \/ \E i \in Instance, n \in Node : reconcileTaskCounts(i, n)
           \/ \E n \in Node : heartbeat(n)
           \/ \E n \in Maintained, b \in BOOLEAN : setMaintenance(n, b)
  BY <1>5, OutsideStep
<1>6. CASE LockExpires
  BY <1>6, LockExpiry
<1>7. ASSUME NEW s \in Slot, Tick(s)  PROVE IInv'
  BY <1>7, TickStep
<1>8. ASSUME NEW s \in Slot, defer(s) \/ throws(s) \/ RunTask(s) \/ PostFails(s)  PROVE IInv'
  BY <1>8, RunStep
<1>9. ASSUME NEW s \in Slot, Step(s)  PROVE IInv'
  <2>1. s[1] \in Instance
    BY DEF Slot
  <2>2. CASE retryAfterFailure(s)
    BY <2>1, <2>2, CreatingStep
  <2>3. CASE markRunning(s) \/ countRunning(s) \/ markFailed(s)
    BY <2>3, RunStep
  <2>4. CASE look(s)
    BY <2>4, LookStep
  <2>5. CASE load(s)
    BY <2>5, LoadStep
  <2>6. CASE findNode(s)
    BY <2>6, FindNodeStep
  <2>7. CASE dequeue(s)
    BY <2>7, DequeueStep
  <2>8. CASE assignTask(s)
    BY <2>8, AssignStep
  <2>. QED  BY <1>9, <2>2, <2>3, <2>4, <2>5, <2>6, <2>7, <2>8 DEF Step
<1>10. ASSUME NEW e \in enqueues, enqueue(e)  PROVE IInv'
  BY <1>10, EnqueueStep
<1>11. ASSUME NEW n \in Node, NEW t \in Task, ExecutionEnds(n, t)  PROVE IInv'
  BY <1>11, ExecutionEnd
<1>12. CASE UNCHANGED vars
  <2>1. UNCHANGED <<lock, isLeader, queue, enqueues, sent, status, runs>>
    BY <1>12 DEF vars, leaderVars, taskVars
  <2>. QED  BY <2>1, QuietStep DEF IInv, Types, Run
<1>. QED  BY <1>1, <1>2, <1>3, <1>4, <1>5, <1>6, <1>7, <1>8, <1>9, <1>10, <1>11, <1>12 DEF Next, Serve

\* The inductive invariant holds as long as claims are prompt: no claim outlasts the
\* scheduling interval (setInterval in start()) or what is left of the lock's TTL.
THEOREM InductiveInvariant ==
    ASSUME Prompt, ~RedisMocked
    PROVE  Spec => []IInv
<1>1. IInv /\ [Next]_vars => IInv'
  BY NextStep
<1>. QED  BY <1>1, InitHolds, PTL DEF Spec

\* No two instances take themselves for the leader: tryBecomeLeader() sets the flag
\* of an instance only with the lock, and maintainLeadership() clears it in time.
THEOREM AtMostOneLeader ==
    ASSUME Prompt, ~RedisMocked
    PROVE  Spec => []OneLeader
<1>1. IInv => OneLeader
  BY DEF IInv, LockInv, OneLeader
<1>. QED  BY <1>1, InductiveInvariant, PTL

\* processQueue() sends no task to an agent twice, through any sequence of elections,
\* crashes, cancellations and retries.
THEOREM SentOnce ==
    ASSUME Prompt, ~RedisMocked
    PROVE  Spec => []SingleDispatch
<1>1. IInv => SingleDispatch
  BY DEF IInv
<1>. QED  BY <1>1, InductiveInvariant, PTL

\* Whoever assigns a task holds the lock at that moment, though it looked at its
\* isLeader several awaits ago.
THEOREM AssignsUnderLock ==
    ASSUME Prompt, ~RedisMocked
    PROVE  Spec => ClaimByLockHolder
<1>1. IInv /\ [Next]_vars => [\A s \in Slot : assignTask(s) => lock = s[1]]_vars
  <2>. SUFFICES ASSUME IInv, NEW s \in Slot, assignTask(s)
                PROVE  lock = s[1]
    BY DEF vars
  <2>1. s[1] \in Instance /\ Claiming(s[1])
    BY DEF assignTask, At, Claiming, ClaimPC, Slot
  <2>. QED  BY <2>1 DEF IInv, LockInv
<1>. QED  BY <1>1, InductiveInvariant, PTL DEF Spec, ClaimByLockHolder

-----------------------------------------------------------------------------
\* Retries

\* A run that may still write RUNNING into the row of its task, one that may write
\* anything, and one that has sent its task.
OpenPC == {"post", "running", "answered"}
LivePC == OpenPC \cup {"count", "failed"}
SentPC == LivePC \cup {"retry"}

\* t was sent, and whoever sent it will not make it RUNNING any more, or is no more.
Over(t) ==
    /\ t \in Task /\ sent[t] # 0
    /\ \A s \in Slot : runs[s].pc \in OpenPC => runs[s].task # t

\* One run per sent task; what is RUNNING, has failed or was retried is over.
RetryInv ==
    /\ retryOf \in [Task -> Task \cup {Nil}]
    /\ \A s \in Slot : runs[s].pc \in SentPC => sent[runs[s].task] # 0
    /\ \A s, r \in Slot :
          /\ runs[s].pc \in SentPC /\ runs[r].pc \in SentPC
          /\ runs[s].task = runs[r].task
          => s = r
    /\ \A s \in Slot :
          runs[s].pc = "retry" => status[runs[s].task] \in {"FAILED", "CANCELLED"}
    /\ \A t \in Task : status[t] \in {"RUNNING", "FAILED"} => Over(t)
    /\ \A t \in Task : status[t] = "SCHEDULED" => sent[t] # 0
    /\ \A t, c \in Task : retryOf[c] = t => Over(t)
    /\ RetriedIsOver

\* Runs go on or end, without a word about the outcome; a row may be cancelled.
LEMMA QuietRetry ==
    ASSUME IInv, RetryInv, UNCHANGED <<retryOf, sent>>,
           \/ UNCHANGED status
           \/ \E t \in Task : status' = [status EXCEPT ![t] = "CANCELLED"],
           \A s \in Slot : \/ runs'[s] = runs[s]
                           \/ runs'[s].pc \notin SentPC
                           \/ /\ runs[s].pc \in LivePC /\ runs'[s].pc \in LivePC
                              /\ runs'[s].pc \in OpenPC => runs[s].pc \in OpenPC
                              /\ runs'[s].task = runs[s].task
    PROVE  RetryInv'
<1>1. \A t \in Task : \/ status'[t] = status[t]
                      \/ status'[t] = "CANCELLED"
  BY DEF IInv, Types
<1>2. \A s \in Slot : runs'[s].pc \in SentPC =>
          runs[s].pc \in SentPC /\ runs'[s].task = runs[s].task /\ runs[s].task \in Task
  BY DEF IInv, Types, SentPC, LivePC, OpenPC
<1>3. \A s \in Slot : runs'[s].pc = "retry" => runs'[s] = runs[s]
  BY DEF SentPC, LivePC, OpenPC
<1>4. \A s \in Slot : runs'[s].pc \in OpenPC =>
          runs[s].pc \in OpenPC /\ runs'[s].task = runs[s].task
  BY DEF SentPC, LivePC, OpenPC
<1>5. \A t : Over(t) => Over(t)'
  BY <1>4 DEF Over
<1>6. \A s \in Slot :
          runs'[s].pc = "retry" => status'[runs'[s].task] \in {"FAILED", "CANCELLED"}
  BY <1>1, <1>2, <1>3 DEF RetryInv, SentPC
<1>7. \A t \in Task : status'[t] \in {"RUNNING", "FAILED"} => Over(t)'
  BY <1>1, <1>5 DEF RetryInv
<1>8. RetriedIsOver'
  BY <1>1 DEF RetryInv, RetriedIsOver
<1>9. \A t \in Task : status'[t] = "SCHEDULED" => sent'[t] # 0
  BY <1>1 DEF RetryInv
<1>. QED  BY <1>2, <1>5, <1>6, <1>7, <1>8, <1>9 DEF RetryInv

\* A row appears, perhaps as the retry of a task that is over; runs may end.
LEMMA CreateRow ==
    ASSUME IInv, RetryInv, UNCHANGED sent,
           NEW c \in Task, status[c] = "NONE", status' = [status EXCEPT ![c] = "PENDING"],
           \A s \in Slot : runs'[s] \in {runs[s], Idle},
           \/ UNCHANGED retryOf
           \/ \E t \in Task : /\ Over(t)' /\ status[t] \in {"FAILED", "CANCELLED"}
                             /\ retryOf' = [retryOf EXCEPT ![c] = t]
    PROVE  RetryInv'
<1>1. sent[c] = 0
  BY DEF IInv, QueueInv
<1>2. \A t \in Task : t # c => status'[t] = status[t]
  BY DEF IInv, Types
<1>3. status'[c] = "PENDING"
  BY DEF IInv, Types
<1>4. \A s \in Slot : runs'[s].pc \in SentPC => runs'[s] = runs[s] /\ runs[s].task \in Task
  BY DEF Idle, SentPC, LivePC, OpenPC, IInv, Types
<1>5. OpenPC \subseteq SentPC
  BY DEF SentPC, LivePC
<1>6. \A t : Over(t) => Over(t)'
  BY <1>4, <1>5 DEF Over
<1>7. \A t, d \in Task : retryOf'[d] = t => Over(t)' /\ status'[t] \in {"FAILED", "CANCELLED"}
  <2>. SUFFICES ASSUME NEW t \in Task, NEW d \in Task, retryOf'[d] = t
                PROVE  Over(t)' /\ status'[t] \in {"FAILED", "CANCELLED"}
    OBVIOUS
  <2>1. CASE retryOf[d] = t
    BY <1>1, <1>2, <1>6, <2>1 DEF RetryInv, RetriedIsOver, Over
  <2>2. CASE retryOf[d] # t
    <3>1. PICK u \in Task : /\ Over(u)' /\ status[u] \in {"FAILED", "CANCELLED"}
                            /\ retryOf' = [retryOf EXCEPT ![c] = u]
      BY <2>2
    <3>2. u = t
      BY <2>2, <3>1 DEF RetryInv
    <3>. QED  BY <1>2, <3>1, <3>2
  <2>. QED  BY <2>1, <2>2
<1>8. \A s \in Slot :
          runs'[s].pc = "retry" => status'[runs'[s].task] \in {"FAILED", "CANCELLED"}
  <2>. SUFFICES ASSUME NEW s \in Slot, runs'[s].pc = "retry"
                PROVE  status'[runs'[s].task] \in {"FAILED", "CANCELLED"}
    OBVIOUS
  <2>1. runs'[s] = runs[s] /\ runs[s].task \in Task
    BY <1>4 DEF SentPC
  <2>2. status[runs[s].task] \in {"FAILED", "CANCELLED"}
    BY <2>1 DEF RetryInv
  <2>. QED  BY <1>2, <2>1, <2>2
<1>9. \A t \in Task : status'[t] \in {"RUNNING", "FAILED"} => Over(t)'
  BY <1>2, <1>3, <1>6 DEF RetryInv
<1>10. retryOf' \in [Task -> Task \cup {Nil}]
  BY DEF RetryInv
<1>11. RetriedIsOver'
  BY <1>7 DEF RetriedIsOver
<1>12. \A t \in Task : status'[t] = "SCHEDULED" => sent'[t] # 0
  BY <1>2, <1>3 DEF RetryInv
<1>. QED  BY <1>4, <1>7, <1>8, <1>9, <1>10, <1>11, <1>12 DEF RetryInv

\* What is sent for the first time has neither failed nor been retried.
LEMMA AssignRetry ==
    ASSUME IInv, RetryInv, NEW s \in Slot, assignTask(s)
    PROVE  RetryInv'
<1>. DEFINE t == runs[s].task
<1>1. /\ UNCHANGED retryOf
      /\ t \in Task /\ sent[t] = 0
      /\ status' = [status EXCEPT ![t] = "SCHEDULED"]
      /\ sent' = [sent EXCEPT ![t] = @ + 1]
      /\ runs' = [runs EXCEPT ![s].pc = "post"]
  BY DEF assignTask, At, Goto, IInv, Types, QueueInv
<1>2. /\ runs'[s].pc = "post" /\ runs'[s].task = t
      /\ \A r \in Slot : r # s => runs'[r] = runs[r]
  BY <1>1 DEF IInv, Types, Run
<1>3. \A r \in Slot : runs[r].pc \in SentPC => runs[r].task \in Task /\ runs[r].task # t
  BY <1>1 DEF RetryInv, IInv, Types, SentPC, LivePC, OpenPC
<1>4. sent'[t] = 1 /\ \A u \in Task : u # t => sent'[u] = sent[u] /\ status'[u] = status[u]
  BY <1>1 DEF IInv, Types
<1>5. status'[t] = "SCHEDULED"
  BY <1>1 DEF IInv, Types
<1>. HIDE DEF t
<1>6. \A u : Over(u) => Over(u)' /\ u # t
  BY <1>1, <1>2, <1>4 DEF Over
<1>7. \A r \in Slot : runs'[r].pc \in SentPC => sent'[runs'[r].task] # 0
  BY <1>2, <1>3, <1>4 DEF RetryInv
<1>8. \A q, r \in Slot :
          /\ runs'[q].pc \in SentPC /\ runs'[r].pc \in SentPC
          /\ runs'[q].task = runs'[r].task
          => q = r
  BY <1>2, <1>3 DEF RetryInv
<1>9. \A r \in Slot :
          runs'[r].pc = "retry" => status'[runs'[r].task] \in {"FAILED", "CANCELLED"}
  BY <1>2, <1>3, <1>4 DEF RetryInv, SentPC
<1>10. \A u \in Task : status'[u] \in {"RUNNING", "FAILED"} => Over(u)'
  BY <1>4, <1>5, <1>6 DEF RetryInv
<1>11. \A u, c \in Task : retryOf'[c] = u => Over(u)'
  BY <1>1, <1>6 DEF RetryInv
<1>12. RetriedIsOver'
  BY <1>1, <1>4, <1>6 DEF RetryInv, RetriedIsOver
<1>13. \A u \in Task : status'[u] = "SCHEDULED" => sent'[u] # 0
  BY <1>4 DEF RetryInv
<1>. QED  BY <1>1, <1>7, <1>8, <1>9, <1>10, <1>11, <1>12, <1>13 DEF RetryInv

\* The outcome is written by the only run that holds the task.
LEMMA OutcomeRetry ==
    ASSUME IInv, RetryInv, NEW s \in Slot, markRunning(s) \/ markFailed(s)
    PROVE  RetryInv'
<1>0. PICK t \in Task : t = runs[s].task
  BY DEF markRunning, markFailed, At, IInv, Types
<1>1. /\ UNCHANGED <<retryOf, sent>>
      /\ runs[s].pc \in {"answered", "failed"} /\ runs[s].task = t /\ sent[t] # 0
  BY <1>0 DEF markRunning, markFailed, At, RetryInv, SentPC, LivePC, OpenPC
<1>2. /\ runs'[s].task = t
      /\ \A r \in Slot : r # s => runs'[r] = runs[r]
  BY <1>0 DEF markRunning, markFailed, Goto, IInv, Types, Run
<1>3. \A r \in Slot : r # s /\ runs[r].pc \in SentPC => runs[r].task \in Task /\ runs[r].task # t
  BY <1>1 DEF RetryInv, IInv, Types, SentPC, LivePC, OpenPC
<1>4. \A u \in Task : u # t => status'[u] = status[u]
  BY <1>0 DEF markRunning, markFailed, IInv, Types
<1>5. \/ /\ runs[s].pc = "answered" /\ runs'[s].pc = "count"
         /\ status'[t] = "RUNNING"
      \/ /\ runs[s].pc = "failed" /\ runs'[s].pc = "retry"
         /\ status'[t] = "FAILED"
  BY <1>0, <1>1 DEF markRunning, markFailed, At, Goto, IInv, Types, Run
<1>6. \A u : Over(u) => u # t \/ status'[t] = "FAILED"
  BY <1>1, <1>5 DEF Over, OpenPC
<1>7. \A u : Over(u) => Over(u)'
  BY <1>1, <1>2, <1>5 DEF Over, OpenPC
<1>8. Over(t)'
  BY <1>1, <1>2, <1>3, <1>5 DEF Over, SentPC, LivePC, OpenPC
<1>9. \A r \in Slot : runs'[r].pc \in SentPC => sent'[runs'[r].task] # 0
  BY <1>1, <1>2 DEF RetryInv
<1>10. \A q, r \in Slot :
          /\ runs'[q].pc \in SentPC /\ runs'[r].pc \in SentPC
          /\ runs'[q].task = runs'[r].task
          => q = r
  BY <1>2, <1>3 DEF RetryInv
<1>11. \A r \in Slot :
          runs'[r].pc = "retry" => status'[runs'[r].task] \in {"FAILED", "CANCELLED"}
  BY <1>2, <1>3, <1>4, <1>5 DEF RetryInv, SentPC
<1>12. \A u \in Task : status'[u] \in {"RUNNING", "FAILED"} => Over(u)'
  BY <1>4, <1>7, <1>8 DEF RetryInv
<1>13. \A u, c \in Task : retryOf'[c] = u => Over(u)'
  BY <1>1, <1>7 DEF RetryInv
<1>14. RetriedIsOver'
  BY <1>1, <1>4, <1>6 DEF RetryInv, RetriedIsOver
<1>15. \A u \in Task : status'[u] = "SCHEDULED" => sent'[u] # 0
  BY <1>1, <1>4 DEF RetryInv
<1>. QED  BY <1>1, <1>9, <1>10, <1>11, <1>12, <1>13, <1>14, <1>15 DEF RetryInv

\* createTask(), POST /tasks/:id/retry and the retry after a failure.
LEMMA CreatingRetry ==
    ASSUME IInv, RetryInv,
           \/ \E i \in Instance : createTask(i) \/ \E t \in Task : retryTask(i, t)
           \/ \E s \in Slot : retryAfterFailure(s)
    PROVE  RetryInv'
<1>1. ASSUME NEW i \in Instance, createTask(i)
      PROVE  RetryInv'
  <2>1. PICK t \in Submitted : status[t] = "NONE" /\ status' = [status EXCEPT ![t] = "PENDING"]
    BY <1>1 DEF createTask
  <2>2. UNCHANGED <<sent, retryOf, runs>> /\ t \in Task
    BY <1>1 DEF createTask, Task
  <2>. QED  BY <2>1, <2>2, CreateRow
<1>2. ASSUME NEW t \in Task, CreateRetry(t), Over(t)', status[t] \in {"FAILED", "CANCELLED"},
             UNCHANGED sent, \A s \in Slot : runs'[s] \in {runs[s], Idle}
      PROVE  RetryInv'
  <2>1. CASE UNCHANGED <<status, retryOf>>
    BY <1>2, <2>1, QuietRetry DEF Idle, SentPC, LivePC, OpenPC
  <2>2. ASSUME NEW c \in Clones, status[c] = "NONE",
               status' = [status EXCEPT ![c] = "PENDING"],
               retryOf' = [retryOf EXCEPT ![c] = t]
        PROVE  RetryInv'
    BY <1>2, <2>2, CreateRow DEF Task
  <2>. QED  BY <1>2, <2>1, <2>2 DEF CreateRetry
<1>3. ASSUME NEW i \in Instance, NEW t \in Task, retryTask(i, t)
      PROVE  RetryInv'
  <2>1. UNCHANGED <<sent, runs>> /\ CreateRetry(t) /\ status[t] = "FAILED"
    BY <1>3 DEF retryTask
  <2>2. Over(t)'
    BY <2>1 DEF RetryInv, Over
  <2>. QED  BY <1>2, <2>1, <2>2
<1>4. ASSUME NEW s \in Slot, retryAfterFailure(s)
      PROVE  RetryInv'
  <2>0. PICK t \in Task : t = runs[s].task
    BY <1>4 DEF retryAfterFailure, At, IInv, Types
  <2>1. /\ UNCHANGED sent /\ CreateRetry(t)
        /\ runs[s].pc = "retry" /\ runs' = [runs EXCEPT ![s] = Idle]
    BY <1>4, <2>0 DEF retryAfterFailure, At, End
  <2>2. sent[t] # 0 /\ status[t] \in {"FAILED", "CANCELLED"}
    BY <2>0, <2>1 DEF RetryInv, SentPC
  <2>3. \A r \in Slot : runs'[r] = IF r = s THEN Idle ELSE runs[r]
    BY <2>1 DEF IInv, Types
  <2>4. Over(t)'
    BY <2>0, <2>1, <2>2, <2>3 DEF Over, RetryInv, SentPC, LivePC, OpenPC, Idle
  <2>. QED  BY <1>2, <2>1, <2>2, <2>3, <2>4
<1>. QED  BY <1>1, <1>3, <1>4

\* Every other step leaves the outcomes alone.
LEMMA OtherRetry ==
    ASSUME IInv, RetryInv, NEW s \in Slot,
           \/ Tick(s) \/ defer(s) \/ look(s) \/ load(s) \/ findNode(s) \/ dequeue(s)
           \/ countRunning(s) \/ throws(s) \/ RunTask(s) \/ PostFails(s)
    PROVE  RetryInv'
<1>1. UNCHANGED <<status, retryOf, sent>>
  BY DEF Tick, defer, look, load, findNode, dequeue, countRunning, throws, RunTask, PostFails,
         taskVars
<1>2. \A r \in Slot : r # s => runs'[r] = runs[r]
  BY DEF Tick, defer, look, load, findNode, dequeue, countRunning, throws, RunTask, PostFails,
         Goto, End, IInv, Types
<1>3. \/ runs'[s].pc \notin SentPC
      \/ /\ runs[s].pc \in LivePC /\ runs'[s].pc \in LivePC
         /\ runs'[s].pc \in OpenPC => runs[s].pc \in OpenPC
         /\ runs'[s].task = runs[s].task
  <2>1. CASE Tick(s) \/ defer(s) \/ findNode(s) \/ dequeue(s) \/ countRunning(s)
    BY <2>1 DEF Tick, defer, findNode, dequeue, countRunning, Goto, End, Idle, IInv, Types, Run,
            SentPC, LivePC, OpenPC
  <2>2. CASE look(s) \/ load(s)
    BY <2>2 DEF look, load, Goto, End, Idle, IInv, Types, Run, SentPC, LivePC,
            OpenPC
  <2>3. CASE throws(s) \/ RunTask(s) \/ PostFails(s)
    BY <2>3 DEF throws, RunTask, PostFails, At, Goto, End, Idle, IInv, Types, Run, SentPC, LivePC,
            OpenPC
  <2>. QED  BY <2>1, <2>2, <2>3
<1>. QED  BY <1>1, <1>2, <1>3, QuietRetry

LEMMA RetryStep ==
    ASSUME IInv, RetryInv, [Next]_vars
    PROVE  RetryInv'
<1>1. CASE \/ \E i \in Instance : createTask(i) \/ \E t \in Task : retryTask(i, t)
           \/ \E s \in Slot : retryAfterFailure(s)
  BY <1>1, CreatingRetry
<1>2. ASSUME NEW s \in Slot, Tick(s) \/ defer(s) \/ throws(s) \/ RunTask(s) \/ PostFails(s)
      PROVE  RetryInv'
  BY <1>2, OtherRetry
<1>3. ASSUME NEW s \in Slot, Step(s)  PROVE RetryInv'
  <2>1. CASE look(s) \/ load(s) \/ findNode(s) \/ dequeue(s) \/ countRunning(s)
    BY <2>1, OtherRetry
  <2>2. CASE retryAfterFailure(s)
    BY <2>2, CreatingRetry
  <2>. QED  BY <1>3, <2>1, <2>2, AssignRetry, OutcomeRetry DEF Step
<1>4. CASE \/ \E i \in Instance : maintainLeadership(i)
           \/ \E t \in Task : cancelCheck(t) \/ cancelTask(t)
           \/ \E i \in Instance, n \in Node : reconcileTaskCounts(i, n)
           \/ LockExpires
           \/ \E e \in enqueues : enqueue(e)
           \/ \E n \in Node : heartbeat(n)
           \/ \E n \in Maintained, b \in BOOLEAN : setMaintenance(n, b)
           \/ UNCHANGED vars
  <2>1. UNCHANGED <<retryOf, sent, runs>>
    BY <1>4 DEF maintainLeadership, cancelCheck, cancelTask, reconcileTaskCounts, LockExpires,
            enqueue, heartbeat, setMaintenance, vars, taskVars
  <2>2. \/ UNCHANGED status
        \/ \E t \in Task : status' = [status EXCEPT ![t] = "CANCELLED"]
    BY <1>4 DEF maintainLeadership, cancelCheck, cancelTask, reconcileTaskCounts, LockExpires,
            enqueue, heartbeat, setMaintenance, vars, taskVars
  <2>. QED  BY <2>1, <2>2, QuietRetry
<1>5. ASSUME NEW i \in Instance, NEW g \in BOOLEAN, Restart(i, g)
      PROVE  RetryInv'
  <2>1. UNCHANGED <<status, retryOf, sent>>
    BY <1>5 DEF Restart, taskVars
  <2>2. \A s \in Slot : runs'[s] \in {runs[s], Idle}
    BY <1>5 DEF Restart
  <2>. QED  BY <2>1, <2>2, QuietRetry DEF Idle, SentPC, LivePC, OpenPC
<1>6. ASSUME NEW n \in Node, NEW t \in Task, ExecutionEnds(n, t)
      PROVE  RetryInv'
  <2>1. UNCHANGED <<status, retryOf, sent>>
    BY <1>6 DEF ExecutionEnds, taskVars
  <2>2. \/ UNCHANGED runs
        \/ \E s \in Slot : /\ runs[s] = [pc |-> "running", task |-> t, node |-> n]
                           /\ runs' = [runs EXCEPT ![s].pc = "answered"]
    BY <1>6 DEF ExecutionEnds, Goto
  <2>3. \A s \in Slot : \/ runs'[s] = runs[s]
                        \/ /\ runs[s].pc \in LivePC /\ runs'[s].pc \in LivePC
                           /\ runs'[s].pc \in OpenPC => runs[s].pc \in OpenPC
                           /\ runs'[s].task = runs[s].task
    BY <2>2 DEF IInv, Types, Run, LivePC, OpenPC
  <2>. QED  BY <2>1, <2>3, QuietRetry
<1>. QED  BY <1>1, <1>2, <1>3, <1>4, <1>5, <1>6 DEF Next, Serve

LEMMA RetryHolds == Init => RetryInv
<1>. SUFFICES ASSUME Init  PROVE RetryInv
  OBVIOUS
<1>1. /\ retryOf = [t \in Task |-> Nil] /\ Nil \notin Task
      /\ \A t \in Task : status[t] = "NONE"
      /\ \A s \in Slot : runs[s].pc = "idle"
  BY DEF Init, Idle, Task
<1>. QED  BY <1>1 DEF RetryInv, RetriedIsOver, SentPC, LivePC, OpenPC

LEMMA RetryAlways ==
    ASSUME Prompt, ~RedisMocked
    PROVE  Spec => [](IInv /\ RetryInv)
<1>1. IInv /\ RetryInv /\ [Next]_vars => RetryInv'
  BY RetryStep
<1>. QED  BY <1>1, RetryHolds, InductiveInvariant, PTL DEF Spec

\* createRetryTask() and POST /tasks/:id/retry copy only a task whose outcome nobody
\* will overwrite: its one run has written FAILED, and nothing can send it again.
THEOREM RetriesFollowFailures ==
    ASSUME Prompt, ~RedisMocked
    PROVE  Spec => []RetriedIsOver
<1>1. RetryInv => RetriedIsOver
  BY DEF RetryInv
<1>. QED  BY <1>1, RetryAlways, PTL

\* What processQueue() finds in task:queue was never assigned, through any sequence
\* of elections, crashes, cancellations and retries.
THEOREM QueuedIsUnsent ==
    ASSUME Prompt, ~RedisMocked
    PROVE  Spec => []QueuedIsPending
<1>1. IInv /\ RetryInv => QueuedIsPending
  <2>. SUFFICES ASSUME IInv, RetryInv, NEW t \in queue
                PROVE  status[t] \in {"PENDING", "CANCELLED"}
    BY DEF QueuedIsPending
  <2>1. t \in Task /\ sent[t] = 0 /\ status[t] # "NONE"
    BY DEF IInv, Types, QueueInv
  <2>2. status[t] \notin {"SCHEDULED", "RUNNING", "FAILED"}
    BY <2>1 DEF RetryInv, Over
  <2>. QED  BY <2>1, <2>2 DEF IInv, Types
<1>. QED  BY <1>1, RetryAlways, PTL

-----------------------------------------------------------------------------
\* Nothing is forgotten, promptly or not, while no process ends and no call fails

AttendedPC == {"post", "running", "answered", "failed"}

KeptInv == Types /\ crashes \in Nat /\ PendingIsQueued /\ ScheduledIsAttended

\* The runs are the steps of one run; nothing is created and no outcome is written.
LEMMA RunTypes ==
    ASSUME Types, NEW s \in Slot,
           \/ Tick(s) \/ defer(s) \/ look(s) \/ load(s) \/ findNode(s) \/ dequeue(s)
           \/ assignTask(s) \/ markRunning(s) \/ countRunning(s) \/ markFailed(s)
           \/ throws(s) \/ RunTask(s) \/ PostFails(s)
    PROVE  Types'
<1>1. UNCHANGED <<lock, isLeader, enqueues>> /\ queue' \in SUBSET queue
  BY DEF Tick, defer, look, load, findNode, dequeue, assignTask, markRunning, countRunning,
         markFailed, throws, RunTask, PostFails, leaderVars
<1>2. status' \in [Task -> {"NONE", "PENDING", "SCHEDULED", "RUNNING", "FAILED", "CANCELLED"}]
  BY DEF Tick, defer, look, load, findNode, dequeue, assignTask, markRunning, countRunning,
         markFailed, throws, RunTask, PostFails, taskVars, Types
<1>3. sent' \in [Task -> Nat]
  BY DEF Tick, defer, look, load, findNode, dequeue, assignTask, markRunning, countRunning,
         markFailed, throws, RunTask, PostFails, Types
<1>4. /\ runs' \in [Slot -> Run]
      /\ \A r \in Slot : runs'[r].pc \notin {"idle", "look"} => runs'[r].task \in Task
  <2>1. CASE Tick(s) \/ defer(s) \/ throws(s) \/ countRunning(s)
    BY <2>1 DEF Tick, defer, throws, countRunning, At, Goto, End, Idle, Types, Run, PC
  <2>2. CASE look(s)
    BY <2>2 DEF look, End, Idle, Types, Run, PC
  <2>3. CASE load(s)
    BY <2>3 DEF load, At, Goto, End, Idle, Types, Run, PC
  <2>4. CASE findNode(s)
    <3>1. PICK n \in Node : runs' = [runs EXCEPT ![s].pc = "dequeue", ![s].node = n]
      BY <2>4 DEF findNode, Eligible
    <3>2. runs[s].pc = "place" /\ runs[s] \in Run
      BY <2>4 DEF findNode, At, Types
    <3>. DEFINE r == runs[s]
                next == [r EXCEPT !.pc = "dequeue", !.node = n]
    <3>3. next \in Run /\ next.task = r.task
      <4>. HIDE DEF r
      <4>. QED  BY <3>2 DEF r, Run, PC
    <3>4. runs' = [runs EXCEPT ![s] = next]
      BY <3>1
    <3>5. runs[s].task \in Task
      BY <3>2 DEF Types
    <3>. HIDE DEF r, next
    <3>. QED  BY <3>3, <3>4, <3>5 DEF r, Types
  <2>5. CASE dequeue(s) \/ assignTask(s)
    BY <2>5 DEF dequeue, assignTask, At, Goto, Types, Run, PC
  <2>6. CASE markRunning(s) \/ markFailed(s)
    BY <2>6 DEF markRunning, markFailed, At, Goto, Types, Run, PC
  <2>7. CASE RunTask(s) \/ PostFails(s)
    BY <2>7 DEF RunTask, PostFails, At, Goto, Types, Run, PC
  <2>. QED  BY <2>1, <2>2, <2>3, <2>4, <2>5, <2>6, <2>7
<1>. QED  BY <1>1, <1>2, <1>3, <1>4 DEF Types

\* A row appears, and its enqueue() with it.
LEMMA KeptCreate ==
    ASSUME KeptInv, NEW i \in Instance, EnqueueCreated(i),
           UNCHANGED <<lock, isLeader, queue, sent, crashes>>,
           \/ UNCHANGED status
           \/ \E c \in Task : status[c] = "NONE" /\ status' = [status EXCEPT ![c] = "PENDING"],
           runs' \in [Slot -> Run],
           \A s \in Slot : \/ runs'[s] = runs[s]
                           \/ runs[s].pc = "retry" /\ runs'[s] = Idle
    PROVE  KeptInv'
<1>1. status' \in [Task -> {"NONE", "PENDING", "SCHEDULED", "RUNNING", "FAILED", "CANCELLED"}]
  BY DEF KeptInv, Types
<1>2. enqueues' = enqueues \cup {[by |-> i, task |-> t] : t \in Created}
  BY DEF EnqueueCreated
<1>3. Created \subseteq Task
  BY DEF Created
<1>4. Types'
  BY <1>1, <1>2, <1>3 DEF KeptInv, Types, Idle
<1>5. \A t \in Task : status'[t] # status[t] => t \in Created
  BY DEF Created, KeptInv, Types
<1>6. \A t \in Created : \E e \in enqueues' : e.task = t
  <2>1. \A t \in Created : [by |-> i, task |-> t] \in enqueues' /\ [by |-> i, task |-> t].task = t
    BY <1>2
  <2>. QED  BY <2>1
<1>7. PendingIsQueued'
  <2>. SUFFICES ASSUME NEW t \in Task, status'[t] = "PENDING"
                PROVE  \/ t \in queue'
                       \/ \E e \in enqueues' : e.task = t
                       \/ \E s \in Slot : At(s, "assign")' /\ runs'[s].task = t
    BY DEF PendingIsQueued
  <2>1. CASE status[t] = "PENDING"
    BY <1>2, <2>1 DEF KeptInv, PendingIsQueued, At, Idle
  <2>. QED  BY <1>5, <1>6, <2>1
<1>8. ScheduledIsAttended'
  <2>1. \A t \in Task : status'[t] = "SCHEDULED" => status[t] = "SCHEDULED"
    BY DEF KeptInv, Types
  <2>. QED  BY <2>1 DEF KeptInv, ScheduledIsAttended
<1>. QED  BY <1>4, <1>7, <1>8 DEF KeptInv

\* Rows keep what they say or are cancelled, runs that matter still do, and the queue
\* loses only what is not PENDING.
LEMMA KeptQuiet ==
    ASSUME KeptInv, Types', UNCHANGED <<enqueues, crashes>>,
           \A t \in Task : status'[t] \in {status[t], "CANCELLED"},
           \A t \in queue : t \in queue' \/ status[t] # "PENDING",
           \A s \in Slot : \/ runs'[s] = runs[s]
                           \/ runs[s].pc \notin AttendedPC \cup {"assign"}
                           \/ /\ runs[s].pc \in AttendedPC /\ runs'[s].pc \in AttendedPC
                              /\ runs'[s].task = runs[s].task
    PROVE  KeptInv'
<1>1. PendingIsQueued'
  <2>. SUFFICES ASSUME NEW t \in Task, status'[t] = "PENDING"
                PROVE  \/ t \in queue'
                       \/ \E e \in enqueues' : e.task = t
                       \/ \E s \in Slot : At(s, "assign")' /\ runs'[s].task = t
    BY DEF PendingIsQueued
  <2>1. status[t] = "PENDING"
    OBVIOUS
  <2>2. \A s \in Slot : runs[s].pc = "assign" => runs'[s] = runs[s]
    BY DEF AttendedPC
  <2>. QED  BY <2>1, <2>2 DEF KeptInv, PendingIsQueued, At
<1>2. ScheduledIsAttended'
  <2>1. \A s \in Slot : runs[s].pc \in AttendedPC =>
            runs'[s].pc \in AttendedPC /\ runs'[s].task = runs[s].task
    OBVIOUS
  <2>2. \A t \in Task : status'[t] = "SCHEDULED" => status[t] = "SCHEDULED"
    OBVIOUS
  <2>. QED  BY <2>1, <2>2 DEF KeptInv, ScheduledIsAttended, AttendedPC
<1>. QED  BY <1>1, <1>2 DEF KeptInv

\* The steps of a run: what it takes off the queue it holds, and what it holds it
\* lets go only with the row written.
LEMMA KeptRun ==
    ASSUME KeptInv, ~Faulty, NEW s \in Slot,
           \/ Tick(s) \/ defer(s) \/ look(s) \/ load(s) \/ findNode(s) \/ dequeue(s)
           \/ assignTask(s) \/ markRunning(s) \/ countRunning(s) \/ markFailed(s)
           \/ throws(s) \/ RunTask(s) \/ PostFails(s)
    PROVE  KeptInv'
<1>1. Types'
  BY RunTypes DEF KeptInv
<1>2. UNCHANGED <<enqueues, crashes>>
  BY DEF Tick, defer, look, load, findNode, dequeue, assignTask, markRunning, countRunning,
         markFailed, throws, RunTask, PostFails
<1>3. \A r \in Slot : r # s => runs'[r] = runs[r]
  BY DEF Tick, defer, look, load, findNode, dequeue, assignTask, markRunning, countRunning,
         markFailed, throws, RunTask, PostFails, Goto, End, KeptInv, Types
<1>4. CASE \/ Tick(s) \/ defer(s) \/ look(s) \/ load(s) \/ findNode(s) \/ countRunning(s)
           \/ throws(s) \/ RunTask(s) \/ PostFails(s)
  <2>1. UNCHANGED status
    BY <1>4 DEF Tick, defer, look, load, findNode, countRunning, throws, RunTask, PostFails,
            taskVars
  <2>2. \A t \in queue : t \in queue' \/ status[t] # "PENDING"
    BY <1>4 DEF Tick, defer, look, load, findNode, countRunning, throws, RunTask, PostFails
  <2>3. \/ runs[s].pc \notin AttendedPC \cup {"assign"}
        \/ /\ runs[s].pc \in AttendedPC /\ runs'[s].pc \in AttendedPC
           /\ runs'[s].task = runs[s].task
    BY <1>4 DEF Tick, defer, look, load, findNode, countRunning, throws, RunTask, PostFails,
            At, Goto, AttendedPC, KeptInv, Types, Run
  <2>. QED  BY <1>1, <1>2, <1>3, <2>1, <2>2, <2>3, KeptQuiet
<1>5. CASE dequeue(s)
  <2>1. /\ UNCHANGED status /\ queue' = queue \ {runs[s].task}
        /\ runs[s].pc = "dequeue"
        /\ runs'[s].pc = "assign" /\ runs'[s].task = runs[s].task
    BY <1>5 DEF dequeue, At, Goto, taskVars, KeptInv, Types, Run
  <2>2. PendingIsQueued'
    BY <1>2, <1>3, <2>1 DEF KeptInv, PendingIsQueued, At
  <2>3. ScheduledIsAttended'
    BY <1>3, <2>1 DEF KeptInv, ScheduledIsAttended
  <2>. QED  BY <1>1, <1>2, <2>2, <2>3 DEF KeptInv
<1>6. CASE assignTask(s)
  <2>0. PICK t \in Task : t = runs[s].task
    BY <1>6 DEF assignTask, At, KeptInv, Types
  <2>1. /\ UNCHANGED queue /\ runs[s].pc = "assign"
        /\ status' = [status EXCEPT ![t] = "SCHEDULED"]
        /\ runs'[s].pc = "post" /\ runs'[s].task = t
    BY <1>6, <2>0 DEF assignTask, At, Goto, KeptInv, Types, Run
  <2>2. status'[t] = "SCHEDULED" /\ \A u \in Task : u # t => status'[u] = status[u]
    BY <2>1 DEF KeptInv, Types
  <2>3. PendingIsQueued'
    BY <1>2, <1>3, <2>0, <2>1, <2>2 DEF KeptInv, PendingIsQueued, At
  <2>4. ScheduledIsAttended'
    BY <1>3, <2>1, <2>2 DEF KeptInv, ScheduledIsAttended
  <2>. QED  BY <1>1, <1>2, <2>3, <2>4 DEF KeptInv
<1>7. CASE markRunning(s) \/ markFailed(s)
  <2>0. PICK t \in Task : t = runs[s].task
    BY <1>7 DEF markRunning, markFailed, At, KeptInv, Types
  <2>1. /\ UNCHANGED queue /\ runs[s].pc \in {"answered", "failed"}
        /\ \E v \in {"RUNNING", "FAILED"} : status' = [status EXCEPT ![t] = v]
    BY <1>7, <2>0 DEF markRunning, markFailed, At
  <2>2. /\ status'[t] \in {"RUNNING", "FAILED"}
        /\ \A u \in Task : u # t => status'[u] = status[u]
    BY <2>1 DEF KeptInv, Types
  <2>3. PendingIsQueued'
    BY <1>2, <1>3, <2>1, <2>2 DEF KeptInv, PendingIsQueued, At
  <2>4. ScheduledIsAttended'
    BY <1>3, <2>0, <2>2 DEF KeptInv, ScheduledIsAttended
  <2>. QED  BY <1>1, <1>2, <2>3, <2>4 DEF KeptInv
<1>. QED  BY <1>4, <1>5, <1>6, <1>7

LEMMA KeptStep ==
    ASSUME KeptInv, ~RedisMocked, ~Faulty, MaxCrashes = 0, [Next]_vars
    PROVE  KeptInv'
<1>1. ASSUME NEW i \in Instance, createTask(i)  PROVE KeptInv'
  <2>1. \E c \in Task : status[c] = "NONE" /\ status' = [status EXCEPT ![c] = "PENDING"]
    BY <1>1 DEF createTask, Task
  <2>2. UNCHANGED <<lock, isLeader, queue, sent, crashes, runs>> /\ EnqueueCreated(i)
    BY <1>1 DEF createTask, leaderVars
  <2>. QED  BY <2>1, <2>2, KeptCreate DEF KeptInv, Types
<1>2. ASSUME NEW t, CreateRetry(t)
      PROVE  \/ UNCHANGED status
             \/ \E c \in Task : status[c] = "NONE" /\ status' = [status EXCEPT ![c] = "PENDING"]
  BY <1>2 DEF CreateRetry, Task
<1>3. ASSUME NEW i \in Instance, NEW t \in Task, retryTask(i, t)  PROVE KeptInv'
  <2>1. /\ UNCHANGED <<lock, isLeader, queue, sent, crashes, runs>>
        /\ EnqueueCreated(i) /\ CreateRetry(t)
    BY <1>3 DEF retryTask, leaderVars
  <2>. QED  BY <1>2, <2>1, KeptCreate DEF KeptInv, Types
<1>4. ASSUME NEW s \in Slot, retryAfterFailure(s)  PROVE KeptInv'
  <2>1. /\ UNCHANGED <<lock, isLeader, queue, sent, crashes>>
        /\ EnqueueCreated(s[1]) /\ s[1] \in Instance /\ CreateRetry(runs[s].task)
        /\ runs[s].pc = "retry" /\ runs' = [runs EXCEPT ![s] = Idle]
    BY <1>4 DEF retryAfterFailure, leaderVars, At, End, Slot
  <2>2. /\ runs' \in [Slot -> Run]
        /\ \A r \in Slot : \/ runs'[r] = runs[r]
                           \/ runs[r].pc = "retry" /\ runs'[r] = Idle
    BY <2>1 DEF KeptInv, Types, Run, Idle, PC
  <2>. QED  BY <1>2, <2>1, <2>2, KeptCreate
<1>5. ASSUME NEW s \in Slot,
             Tick(s) \/ defer(s) \/ throws(s) \/ RunTask(s) \/ PostFails(s) \/ Step(s)
      PROVE  KeptInv'
  BY <1>4, <1>5, KeptRun DEF Step
<1>6. CASE \/ \E i \in Instance : maintainLeadership(i)
           \/ \E t \in Task : cancelCheck(t) \/ cancelTask(t)
           \/ \E i \in Instance, n \in Node : reconcileTaskCounts(i, n)
           \/ LockExpires
           \/ \E n \in Node : heartbeat(n)
           \/ \E n \in Maintained, b \in BOOLEAN : setMaintenance(n, b)
           \/ UNCHANGED vars
  <2>1. UNCHANGED <<queue, enqueues, sent, runs, crashes>>
    BY <1>6 DEF maintainLeadership, cancelCheck, cancelTask, reconcileTaskCounts, LockExpires,
            heartbeat, setMaintenance, vars
  <2>2. \/ UNCHANGED status
        \/ \E t \in Task : status' = [status EXCEPT ![t] = "CANCELLED"]
    BY <1>6 DEF maintainLeadership, cancelCheck, cancelTask, reconcileTaskCounts, LockExpires,
            heartbeat, setMaintenance, vars, taskVars
  <2>3. lock' \in Instance \cup {Nil, Gone} /\ isLeader' \in [Instance -> BOOLEAN]
    BY <1>6 DEF maintainLeadership, tryBecomeLeader, cancelCheck, cancelTask, reconcileTaskCounts,
            LockExpires, heartbeat, setMaintenance, vars, leaderVars, KeptInv, Types
  <2>4. /\ status' \in [Task -> {"NONE", "PENDING", "SCHEDULED", "RUNNING", "FAILED",
                                 "CANCELLED"}]
        /\ \A t \in Task : status'[t] \in {status[t], "CANCELLED"}
    BY <2>2 DEF KeptInv, Types
  <2>5. Types'
    BY <2>1, <2>3, <2>4 DEF KeptInv, Types
  <2>. QED  BY <2>1, <2>4, <2>5, KeptQuiet
<1>7. ASSUME NEW e \in enqueues, enqueue(e)  PROVE KeptInv'
  <2>1. /\ UNCHANGED <<lock, isLeader, status, runs, sent, crashes>>
        /\ enqueues' = enqueues \ {e} /\ queue' = queue \cup {e.task}
        /\ e.task \in Task
    BY <1>7 DEF enqueue, taskVars, leaderVars, KeptInv, Types
  <2>2. Types'
    BY <2>1 DEF KeptInv, Types
  <2>3. PendingIsQueued'
    BY <2>1 DEF KeptInv, PendingIsQueued, At
  <2>4. ScheduledIsAttended'
    BY <2>1 DEF KeptInv, ScheduledIsAttended
  <2>. QED  BY <2>1, <2>2, <2>3, <2>4 DEF KeptInv
<1>8. ASSUME NEW n \in Node, NEW t \in Task, ExecutionEnds(n, t)  PROVE KeptInv'
  <2>1. UNCHANGED <<lock, isLeader, status, queue, enqueues, sent, crashes>>
    BY <1>8 DEF ExecutionEnds, leaderVars, taskVars
  <2>2. \/ UNCHANGED runs
        \/ \E s \in Slot : /\ runs[s] = [pc |-> "running", task |-> t, node |-> n]
                           /\ runs' = [runs EXCEPT ![s].pc = "answered"]
    BY <1>8 DEF ExecutionEnds, Goto
  <2>3. /\ runs' \in [Slot -> Run]
        /\ \A s \in Slot : \/ runs'[s] = runs[s]
                           \/ /\ runs[s].pc \in AttendedPC /\ runs'[s].pc \in AttendedPC
                              /\ runs'[s].task = runs[s].task /\ runs[s].task \in Task
    BY <2>2 DEF KeptInv, Types, Run, PC, AttendedPC
  <2>4. Types'
    BY <2>1, <2>3 DEF KeptInv, Types
  <2>. QED  BY <2>1, <2>3, <2>4, KeptQuiet
<1>9. ASSUME NEW i \in Instance, NEW g \in BOOLEAN, Restart(i, g)  PROVE KeptInv'
  BY <1>9 DEF Restart, KeptInv
<1>. QED  BY <1>1, <1>3, <1>5, <1>6, <1>7, <1>8, <1>9 DEF Next, Serve

LEMMA KeptInit == Init => KeptInv
<1>. SUFFICES ASSUME Init  PROVE KeptInv
  OBVIOUS
<1>1. Types
  BY DEF Init, Types, Run, Idle, PC
<1>. QED  BY <1>1 DEF Init, KeptInv, PendingIsQueued, ScheduledIsAttended

LEMMA KeptAlways ==
    ASSUME ~RedisMocked, ~Faulty, MaxCrashes = 0
    PROVE  Spec => []KeptInv
<1>1. KeptInv /\ [Next]_vars => KeptInv'
  BY KeptStep
<1>. QED  BY <1>1, KeptInit, PTL DEF Spec

\* Without crashes and failing calls no PENDING row is lost between POST /tasks,
\* enqueue() and processQueue(), however long the runs take and however many overlap.
THEOREM PendingIsKept ==
    ASSUME ~RedisMocked, ~Faulty, MaxCrashes = 0
    PROVE  Spec => []PendingIsQueued
<1>1. KeptInv => PendingIsQueued
  BY DEF KeptInv
<1>. QED  BY <1>1, KeptAlways, PTL

\* Under the same conditions whoever wrote SCHEDULED last is still there to write
\* what became of the POST of assignTask().
THEOREM ScheduledIsKept ==
    ASSUME ~RedisMocked, ~Faulty, MaxCrashes = 0
    PROVE  Spec => []ScheduledIsAttended
<1>1. KeptInv => ScheduledIsAttended
  BY DEF KeptInv
<1>. QED  BY <1>1, KeptAlways, PTL

-----------------------------------------------------------------------------
\* Beside the monitor

\* What is over and failed or cancelled.
Ended(t) == Over(t) /\ status[t] \in {"FAILED", "CANCELLED"}

\* A run that writes RUNNING later does so already, or has just sent its task.
LEMMA OpenRuns ==
    ASSUME IInv, NEW s \in Slot,
           \/ Tick(s) \/ defer(s) \/ look(s) \/ load(s) \/ findNode(s) \/ dequeue(s)
           \/ markRunning(s) \/ countRunning(s) \/ markFailed(s) \/ retryAfterFailure(s)
           \/ throws(s) \/ RunTask(s) \/ PostFails(s)
    PROVE  /\ UNCHANGED sent
           /\ \A r \in Slot : runs'[r].pc \in OpenPC =>
                  runs[r].pc \in OpenPC /\ runs'[r].task = runs[r].task
<1>1. UNCHANGED sent
  BY DEF Tick, defer, look, load, findNode, dequeue, markRunning, countRunning, markFailed,
         retryAfterFailure, throws, RunTask, PostFails
<1>2. \A r \in Slot : r # s => runs'[r] = runs[r]
  BY DEF Tick, defer, look, load, findNode, dequeue, markRunning, countRunning, markFailed,
         retryAfterFailure, throws, RunTask, PostFails, Goto, End, IInv, Types
<1>3. runs'[s].pc \in OpenPC => runs[s].pc \in OpenPC /\ runs'[s].task = runs[s].task
  <2>1. CASE Tick(s) \/ defer(s) \/ findNode(s) \/ dequeue(s) \/ countRunning(s)
    BY <2>1 DEF Tick, defer, findNode, dequeue, countRunning, Goto, End, Idle, IInv, Types, Run,
            OpenPC
  <2>2. CASE look(s) \/ load(s)
    BY <2>2 DEF look, load, Goto, End, Idle, IInv, Types, Run, OpenPC
  <2>3. CASE throws(s) \/ RunTask(s) \/ PostFails(s)
    BY <2>3 DEF throws, RunTask, PostFails, At, Goto, End, Idle, IInv, Types, Run, OpenPC
  <2>4. CASE markRunning(s) \/ markFailed(s) \/ retryAfterFailure(s)
    BY <2>4 DEF markRunning, markFailed, retryAfterFailure, Goto, End, Idle, IInv, Types, Run,
            OpenPC
  <2>. QED  BY <2>1, <2>2, <2>3, <2>4
<1>. QED  BY <1>1, <1>2, <1>3

\* What is over stays so.
LEMMA OverStays ==
    ASSUME IInv, NEW t, Over(t), [Next]_vars
    PROVE  Over(t)'
<1>1. CASE UNCHANGED <<sent, runs>>
  BY <1>1 DEF Over
<1>2. ASSUME UNCHANGED sent,
             \A r \in Slot : runs'[r].pc \in OpenPC =>
                 runs[r].pc \in OpenPC /\ runs'[r].task = runs[r].task
      PROVE  Over(t)'
  BY <1>2 DEF Over
<1>3. ASSUME NEW s \in Slot, assignTask(s)  PROVE Over(t)'
  <2>1. /\ runs[s].task \in Task /\ sent[runs[s].task] = 0
        /\ sent' = [sent EXCEPT ![runs[s].task] = @ + 1]
        /\ runs' = [runs EXCEPT ![s].pc = "post"]
    BY <1>3 DEF assignTask, At, Goto, IInv, Types, QueueInv
  <2>2. runs[s].task # t
    BY <2>1 DEF Over
  <2>3. sent'[t] # 0
    BY <2>1, <2>2 DEF Over, IInv, Types
  <2>4. \A r \in Slot : r # s => runs'[r] = runs[r]
    BY <2>1 DEF IInv, Types
  <2>5. runs'[s].task = runs[s].task
    BY <2>1 DEF IInv, Types, Run
  <2>. QED  BY <2>2, <2>3, <2>4, <2>5 DEF Over
<1>4. ASSUME NEW s \in Slot,
             Tick(s) \/ defer(s) \/ Step(s) \/ throws(s) \/ RunTask(s) \/ PostFails(s)
      PROVE  Over(t)'
  BY <1>2, <1>3, <1>4, OpenRuns DEF Step
<1>5. CASE \/ \E i \in Instance : maintainLeadership(i) \/ createTask(i)
           \/ \E i \in Instance, u \in Task : retryTask(i, u)
           \/ \E u \in Task : cancelCheck(u) \/ cancelTask(u)
           \/ \E i \in Instance, n \in Node : reconcileTaskCounts(i, n)
           \/ LockExpires
           \/ \E e \in enqueues : enqueue(e)
           \/ \E n \in Node : heartbeat(n)
           \/ \E n \in Maintained, b \in BOOLEAN : setMaintenance(n, b)
           \/ UNCHANGED vars
  <2>1. UNCHANGED <<sent, runs>>
    BY <1>5 DEF maintainLeadership, createTask, retryTask, cancelCheck, cancelTask,
            reconcileTaskCounts, LockExpires, enqueue, heartbeat, setMaintenance, vars
  <2>. QED  BY <1>1, <2>1
<1>6. ASSUME NEW i \in Instance, NEW g \in BOOLEAN, Restart(i, g)  PROVE Over(t)'
  BY <1>2, <1>6 DEF Restart, Idle, OpenPC
<1>7. ASSUME NEW n \in Node, NEW u \in Task, ExecutionEnds(n, u)  PROVE Over(t)'
  <2>1. UNCHANGED sent
    BY <1>7 DEF ExecutionEnds
  <2>2. \/ UNCHANGED runs
        \/ \E s \in Slot : /\ runs[s] = [pc |-> "running", task |-> u, node |-> n]
                           /\ runs' = [runs EXCEPT ![s].pc = "answered"]
    BY <1>7 DEF ExecutionEnds, Goto
  <2>3. \A r \in Slot : runs'[r].pc \in OpenPC =>
            runs[r].pc \in OpenPC /\ runs'[r].task = runs[r].task
    BY <2>2 DEF IInv, Types, Run, OpenPC
  <2>. QED  BY <1>2, <2>1, <2>3
<1>. QED  BY <1>4, <1>5, <1>6, <1>7 DEF Next, Serve

\* Rows that are created were not there; those that are over are not among them.
LEMMA NewRows ==
    ASSUME IInv, NEW t \in Task, status[t] # "NONE",
           \/ \E i \in Instance : createTask(i) \/ \E u \in Task : retryTask(i, u)
           \/ \E s \in Slot : retryAfterFailure(s)
    PROVE  status'[t] = status[t]
<1>1. ASSUME NEW u, CreateRetry(u)  PROVE status'[t] = status[t]
  BY <1>1 DEF CreateRetry, IInv, Types
<1>. QED  BY <1>1 DEF createTask, retryTask, retryAfterFailure, IInv, Types

LEMMA EndedStays ==
    ASSUME IInv, NEW t, Ended(t), [Next]_vars
    PROVE  Ended(t)'
<1>1. Over(t)'
  BY OverStays DEF Ended
<1>. SUFFICES status'[t] \in {"FAILED", "CANCELLED"}
  BY <1>1 DEF Ended
<1>2. /\ t \in Task /\ sent[t] # 0 /\ status[t] \in {"FAILED", "CANCELLED"}
      /\ \A s \in Slot : runs[s].pc \in OpenPC => runs[s].task # t
  BY DEF Ended, Over
<1>3. CASE UNCHANGED status
  BY <1>2, <1>3
<1>4. CASE \/ \E i \in Instance : createTask(i) \/ \E u \in Task : retryTask(i, u)
           \/ \E s \in Slot : retryAfterFailure(s)
  BY <1>2, <1>4, NewRows
<1>5. ASSUME NEW u, NEW v \in {"FAILED", "CANCELLED"}, status' = [status EXCEPT ![u] = v]
      PROVE  status'[t] \in {"FAILED", "CANCELLED"}
  BY <1>2, <1>5 DEF IInv, Types
<1>6. ASSUME NEW s \in Slot, assignTask(s) \/ markRunning(s)
      PROVE  status'[t] = status[t]
  <2>1. runs[s].task # t
    BY <1>2, <1>6 DEF assignTask, markRunning, At, OpenPC, IInv, QueueInv
  <2>. QED  BY <1>2, <1>6, <2>1 DEF assignTask, markRunning, IInv, Types
<1>7. ASSUME NEW s \in Slot, Step(s)  PROVE status'[t] \in {"FAILED", "CANCELLED"}
  <2>1. CASE look(s) \/ load(s) \/ findNode(s) \/ dequeue(s) \/ countRunning(s)
    BY <1>2, <2>1 DEF look, load, findNode, dequeue, countRunning, taskVars
  <2>2. CASE markFailed(s)
    BY <1>5, <2>2 DEF markFailed
  <2>. QED  BY <1>2, <1>4, <1>6, <1>7, <2>1, <2>2 DEF Step
<1>8. ASSUME \/ \E i \in Instance : maintainLeadership(i)
             \/ \E u \in Task : cancelCheck(u) \/ cancelTask(u)
             \/ \E i \in Instance, n \in Node : reconcileTaskCounts(i, n)
             \/ LockExpires
             \/ \E s \in Slot : Tick(s) \/ defer(s) \/ throws(s) \/ RunTask(s) \/ PostFails(s)
             \/ \E e \in enqueues : enqueue(e)
             \/ \E n \in Node, u \in Task : ExecutionEnds(n, u)
             \/ \E n \in Node : heartbeat(n)
             \/ \E n \in Maintained, b \in BOOLEAN : setMaintenance(n, b)
             \/ \E i \in Instance, g \in BOOLEAN : Restart(i, g)
             \/ UNCHANGED vars
      PROVE  \/ UNCHANGED status
             \/ \E u : status' = [status EXCEPT ![u] = "CANCELLED"]
  BY <1>8 DEF maintainLeadership, cancelCheck, cancelTask, reconcileTaskCounts, LockExpires, Tick,
          defer, throws, RunTask, PostFails, enqueue, ExecutionEnds, heartbeat, setMaintenance,
          Restart, vars, taskVars
<1>. QED  BY <1>3, <1>4, <1>5, <1>7, <1>8 DEF Next, Serve

Check == [pc : {"idle", "stale", "running", "tasks", "retry", "degraded", "recovered"},
          silent : SUBSET Node, nodes : SUBSET Node, tasks : SUBSET Task,
          node : Node \cup {Nil}, task : Task \cup {Nil}]

\* What a round of checkNodes() is about to fail is over, and what it is about to
\* retry has ended.
CheckInv ==
    /\ check \in [Instance -> Check] /\ stale \in SUBSET Node
    /\ \A i \in Instance : /\ \A t \in check[i].tasks : Over(t)
                           /\ check[i].pc = "retry" => Ended(check[i].task)

MonitorInv == IInv /\ RetryInv /\ CheckInv

\* The scheduler goes on while the rounds stay where they are, are dropped, or hear of
\* a heartbeat.
LEMMA BesideMonitor ==
    ASSUME MonitorInv, Prompt, ~RedisMocked, [Next]_vars, stale' \in SUBSET Node,
           \/ UNCHANGED check
           \/ \E i \in Instance : check' = [check EXCEPT ![i] = NoCheck]
           \/ \E n \in Node : check' = [i \in Instance |-> [check[i] EXCEPT !.silent = @ \ {n}]]
    PROVE  MonitorInv'
<1>1. IInv' /\ RetryInv'
  BY NextStep, RetryStep DEF MonitorInv
<1>2. \A t : (Over(t) => Over(t)') /\ (Ended(t) => Ended(t)')
  BY OverStays, EndedStays DEF MonitorInv
<1>3. \A i \in Instance : \/ /\ check'[i].tasks = check[i].tasks
                             /\ check'[i].task = check[i].task /\ check'[i].pc = check[i].pc
                          \/ check'[i] = NoCheck
  BY DEF MonitorInv, CheckInv, Check
<1>4. NoCheck.tasks = {} /\ NoCheck.pc = "idle"
  BY DEF NoCheck
<1>5. check' \in [Instance -> Check]
  BY DEF MonitorInv, CheckInv, Check, NoCheck
<1>6. CheckInv'
  BY <1>2, <1>3, <1>4, <1>5 DEF MonitorInv, CheckInv
<1>. QED  BY <1>1, <1>6 DEF MonitorInv

\* A step of a round that touches no task.
LEMMA QuietCheck ==
    ASSUME MonitorInv, NEW i \in Instance,
           \/ findStale(i) \/ markOffline(i) \/ findRunning(i) \/ findDegraded(i)
           \/ markDegraded(i) \/ findRecovered(i) \/ markRecovered(i) \/ endCheck(i)
           \/ checkThrows(i)
    PROVE  MonitorInv'
<1>1. UNCHANGED <<lock, isLeader, queue, runs, enqueues, sent, status, retryOf, stale>>
  BY DEF findStale, markOffline, findRunning, findDegraded, markDegraded, findRecovered,
         markRecovered, endCheck, checkThrows, beyondRows, leaderVars, taskVars
<1>2. IInv'
  BY <1>1, QuietStep DEF MonitorInv, IInv, Types
<1>3. RetryInv'
  BY <1>1, QuietRetry DEF MonitorInv
<1>4. \A t : (Over(t) <=> Over(t)') /\ (Ended(t) <=> Ended(t)')
  BY <1>1 DEF Over, Ended
<1>5. ASSUME NEW c \in Check, Continue(i, c), c.pc # "retry", \A t \in c.tasks : Over(t)
      PROVE  MonitorInv'
  <2>1. CheckInv'
    BY <1>1, <1>4, <1>5 DEF Continue, MonitorInv, CheckInv
  <2>. QED  BY <1>2, <1>3, <2>1 DEF MonitorInv
<1>6. /\ check[i].pc \in {"idle", "stale", "running", "tasks", "retry", "degraded", "recovered"}
      /\ check[i].silent \in SUBSET Node /\ check[i].nodes \in SUBSET Node
      /\ check[i].tasks \in SUBSET Task
      /\ check[i].node \in Node \cup {Nil} /\ check[i].task \in Task \cup {Nil}
      /\ \A t \in check[i].tasks : Over(t)
      /\ check[i] \in Check
  BY DEF MonitorInv, CheckInv, Check
<1>7. CASE findRunning(i)
  <2>. DEFINE tasks == {t \in Task : assigned[t] = check[i].node /\ status[t] = "RUNNING"}
  <2>1. \A t \in tasks : Over(t)
    BY DEF MonitorInv, RetryInv
  <2>2. Continue(i, [check[i] EXCEPT !.pc = AfterTask(tasks), !.tasks = tasks])
    BY <1>7 DEF findRunning
  <2>3. tasks \in SUBSET Task /\ AfterTask(tasks) \in {"stale", "tasks"}
    BY DEF AfterTask
  <2>. HIDE DEF tasks
  <2>. DEFINE c == [check[i] EXCEPT !.pc = AfterTask(tasks), !.tasks = tasks]
  <2>4. c \in Check /\ c.pc # "retry" /\ c.tasks = tasks
    BY <1>6, <2>3 DEF Check
  <2>. HIDE DEF c
  <2>5. Continue(i, c)
    BY <2>2 DEF c
  <2>. QED  BY <1>5, <2>1, <2>4, <2>5
<1>8. ASSUME NEW c, c \in Check /\ c.pc # "retry", c.tasks \in {{}, check[i].tasks},
             Continue(i, c)
      PROVE  MonitorInv'
  BY <1>5, <1>6, <1>8
<1>9. CASE findStale(i)
  <2>. DEFINE c == [NoCheck EXCEPT
          !.pc = "stale", !.silent = stale,
          !.nodes = {n \in stale : nodeStatus[n] = "ONLINE" /\ n \notin maintenance}]
  <2>1. Continue(i, c) /\ stale \subseteq Node
    BY <1>9 DEF findStale, MonitorInv, CheckInv
  <2>2. c \in Check /\ c.pc # "retry" /\ c.tasks = {}
    BY <2>1 DEF NoCheck, Check
  <2>. QED  BY <1>8, <2>1, <2>2
<1>10. CASE markOffline(i)
  <2>1. PICK n \in Node :
           Continue(i, [check[i] EXCEPT !.pc = "running", !.nodes = @ \ {n}, !.node = n])
    BY <1>6, <1>10 DEF markOffline
  <2>. DEFINE c == [check[i] EXCEPT !.pc = "running", !.nodes = @ \ {n}, !.node = n]
  <2>2. c \in Check /\ c.pc # "retry" /\ c.tasks = check[i].tasks
    BY <1>6 DEF Check
  <2>. QED  BY <1>8, <2>1, <2>2
<1>11. CASE markDegraded(i) \/ markRecovered(i)
  <2>1. PICK n \in Node : /\ Continue(i, [check[i] EXCEPT !.nodes = @ \ {n}])
                          /\ check[i].pc # "retry"
    BY <1>6, <1>11 DEF markDegraded, markRecovered
  <2>. DEFINE c == [check[i] EXCEPT !.nodes = @ \ {n}]
  <2>2. c \in Check /\ c.pc # "retry" /\ c.tasks = check[i].tasks
    BY <1>6, <2>1 DEF Check
  <2>. QED  BY <1>8, <2>1, <2>2
<1>12. CASE findDegraded(i) \/ findRecovered(i)
  <2>1. PICK pc \in {"degraded", "recovered"}, N \in SUBSET Node, m \in {Nil, check[i].node} :
           Continue(i, [check[i] EXCEPT !.pc = pc, !.node = m, !.nodes = N])
    BY <1>6, <1>12 DEF findDegraded, findRecovered, Continue, Check
  <2>. DEFINE c == [check[i] EXCEPT !.pc = pc, !.node = m, !.nodes = N]
  <2>2. c \in Check /\ c.pc # "retry" /\ c.tasks = check[i].tasks
    BY <1>6, <2>1 DEF Check
  <2>. QED  BY <1>8, <2>1, <2>2
<1>13. CASE endCheck(i) \/ checkThrows(i)
  <2>1. Continue(i, NoCheck)
    BY <1>13 DEF endCheck, checkThrows
  <2>2. NoCheck \in Check /\ NoCheck.pc # "retry" /\ NoCheck.tasks = {}
    BY DEF NoCheck, Check
  <2>. QED  BY <1>8, <2>1, <2>2
<1>. QED  BY <1>7, <1>9, <1>10, <1>11, <1>12, <1>13

\* A task that is over is failed.
LEMMA FailTask ==
    ASSUME MonitorInv, NEW i \in Instance, failTask(i)
    PROVE  MonitorInv'
<1>1. PICK t \in check[i].tasks :
          /\ status' = [status EXCEPT ![t] = "FAILED"]
          /\ check' = [check EXCEPT ![i] = [check[i] EXCEPT !.pc = "retry", !.tasks = @ \ {t},
                                                          !.task = t]]
  BY DEF failTask, Continue
<1>2. UNCHANGED <<lock, isLeader, queue, runs, enqueues, sent, retryOf, stale>>
  BY DEF failTask, beyondRows, leaderVars
<1>3. Over(t) /\ t \in Task
  BY DEF MonitorInv, CheckInv, Over
<1>4. /\ status'[t] = "FAILED"
      /\ \A u \in Task : u # t => status'[u] = status[u]
      /\ status' \in [Task -> {"NONE", "PENDING", "SCHEDULED", "RUNNING", "FAILED", "CANCELLED"}]
  BY <1>1, <1>3 DEF MonitorInv, IInv, Types
<1>5. IInv'
  BY <1>2, <1>4, QuietStep DEF MonitorInv, IInv, Types
<1>6. \A u : Over(u) <=> Over(u)'
  BY <1>2 DEF Over
<1>7. RetryInv'
  <2>1. \A s \in Slot : runs[s].pc = "retry" =>
            runs[s].task \in Task /\ status'[runs[s].task] \in {"FAILED", "CANCELLED"}
    BY <1>4 DEF MonitorInv, RetryInv, IInv, Types
  <2>2. \A u \in Task : status'[u] \in {"RUNNING", "FAILED"} => Over(u)'
    BY <1>3, <1>4, <1>6 DEF MonitorInv, RetryInv
  <2>3. \A u \in Task : status'[u] = "SCHEDULED" => sent'[u] # 0
    BY <1>2, <1>4 DEF MonitorInv, RetryInv
  <2>4. RetriedIsOver'
    BY <1>2, <1>4 DEF MonitorInv, RetryInv, RetriedIsOver
  <2>. QED  BY <1>2, <1>6, <2>1, <2>2, <2>3, <2>4 DEF MonitorInv, RetryInv
<1>8. \A u : Ended(u) => Ended(u)'
  BY <1>4, <1>6 DEF Ended, Over
<1>9. Ended(t)'
  BY <1>3, <1>4, <1>6 DEF Ended
<1>. DEFINE k == check[i]
            c == [k EXCEPT !.pc = "retry", !.tasks = @ \ {t}, !.task = t]
<1>10. c \in Check /\ c.tasks \subseteq k.tasks /\ c.task = t
  <2>1. k \in Check
    BY DEF MonitorInv, CheckInv
  <2>. HIDE DEF k
  <2>. QED  BY <1>3, <2>1 DEF Check
<1>11. check' = [check EXCEPT ![i] = c]
  BY <1>1
<1>. HIDE DEF c
<1>12. CheckInv'
  BY <1>2, <1>6, <1>8, <1>9, <1>10, <1>11 DEF MonitorInv, CheckInv
<1>. QED  BY <1>5, <1>7, <1>12 DEF MonitorInv

\* The row of a retry, which nobody enqueues.
LEMMA RetryFailedTask ==
    ASSUME MonitorInv, NEW i \in Instance, retryAfterNodeFailure(i)
    PROVE  MonitorInv'
<1>1. PICK t : t = check[i].task
  OBVIOUS
<1>2. /\ CreateRetry(t) /\ Ended(t) /\ t \in Task
      /\ check' = [check EXCEPT ![i] = [check[i] EXCEPT !.pc = AfterTask(check[i].tasks),
                                                      !.task = Nil]]
      /\ AfterTask(check[i].tasks) \in {"stale", "tasks"}
  BY <1>1 DEF retryAfterNodeFailure, Continue, AfterTask, MonitorInv, CheckInv, Ended, Over
<1>3. UNCHANGED <<lock, isLeader, queue, runs, enqueues, sent, stale>>
  BY DEF retryAfterNodeFailure, beyondRows, leaderVars
<1>4. \/ UNCHANGED <<status, retryOf>>
      \/ \E c \in Clones : /\ status[c] = "NONE"
                           /\ status' = [status EXCEPT ![c] = "PENDING"]
                           /\ retryOf' = [retryOf EXCEPT ![c] = t]
  BY <1>2 DEF CreateRetry
<1>5. /\ \A u \in Task : status[u] # "NONE" => status'[u] = status[u]
      /\ status' \in [Task -> {"NONE", "PENDING", "SCHEDULED", "RUNNING", "FAILED", "CANCELLED"}]
  BY <1>4 DEF MonitorInv, IInv, Types
<1>6. IInv'
  BY <1>3, <1>5, QuietStep DEF MonitorInv, IInv, Types
<1>7. \A u : Over(u) <=> Over(u)'
  BY <1>3 DEF Over
<1>8. RetryInv'
  <2>1. CASE UNCHANGED <<status, retryOf>>
    BY <1>3, <2>1, QuietRetry DEF MonitorInv
  <2>2. ASSUME NEW c \in Clones, status[c] = "NONE",
               status' = [status EXCEPT ![c] = "PENDING"],
               retryOf' = [retryOf EXCEPT ![c] = t]
        PROVE  RetryInv'
    <3>1. c \in Task
      BY DEF Task
    <3>2. Over(t)' /\ status[t] \in {"FAILED", "CANCELLED"}
      BY <1>2, <1>7 DEF Ended
    <3>. QED  BY <1>2, <1>3, <2>2, <3>1, <3>2, CreateRow DEF MonitorInv
  <2>. QED  BY <1>4, <2>1, <2>2
<1>9. \A u : Ended(u) => Ended(u)'
  BY <1>5, <1>7 DEF Ended, Over
<1>. DEFINE k == check[i]
            pc == AfterTask(k.tasks)
            c == [k EXCEPT !.pc = pc, !.task = Nil]
<1>10. c \in Check /\ c.tasks = k.tasks /\ c.pc # "retry"
  <2>1. k \in Check
    BY DEF MonitorInv, CheckInv
  <2>2. pc \in {"stale", "tasks"}
    BY <1>2
  <2>. HIDE DEF k, pc
  <2>. QED  BY <2>1, <2>2 DEF Check
<1>11. check' = [check EXCEPT ![i] = c]
  BY <1>2
<1>. HIDE DEF c
<1>12. CheckInv'
  BY <1>3, <1>7, <1>9, <1>10, <1>11 DEF MonitorInv, CheckInv
<1>. QED  BY <1>6, <1>8, <1>12 DEF MonitorInv

LEMMA MonitorInit == Init /\ InitMonitor => MonitorInv
<1>. SUFFICES ASSUME Init, InitMonitor  PROVE MonitorInv
  OBVIOUS
<1>1. CheckInv
  BY DEF InitMonitor, NoCheck, CheckInv, Check
<1>. QED  BY <1>1, InitHolds, RetryHolds DEF MonitorInv

LEMMA MonitorStep ==
    ASSUME MonitorInv, Prompt, ~RedisMocked, [NextMonitor]_allVars
    PROVE  MonitorInv'
<1>1. CASE Serve /\ UNCHANGED monitorVars
  BY <1>1, BesideMonitor DEF Next, monitorVars, MonitorInv, CheckInv
<1>2. ASSUME NEW i \in Instance, CheckStep(i) \/ checkThrows(i)  PROVE MonitorInv'
  BY <1>2, QuietCheck, FailTask, RetryFailedTask DEF CheckStep
<1>3. ASSUME NEW i \in Instance, NEW g \in BOOLEAN, RestartBackend(i, g)  PROVE MonitorInv'
  BY <1>3, BesideMonitor DEF RestartBackend, Next, MonitorInv, CheckInv
<1>4. ASSUME NEW n \in Node, Heartbeat(n)  PROVE MonitorInv'
  BY <1>4, BesideMonitor DEF Heartbeat, Next, MonitorInv, CheckInv
<1>5. ASSUME NEW n \in Node, GoesSilent(n)  PROVE MonitorInv'
  BY <1>5, BesideMonitor DEF GoesSilent, MonitorInv, CheckInv
<1>6. CASE UNCHANGED allVars
  BY <1>6, BesideMonitor DEF allVars, monitorVars, MonitorInv, CheckInv
<1>. QED  BY <1>1, <1>2, <1>3, <1>4, <1>5, <1>6 DEF NextMonitor

LEMMA MonitorAlways ==
    ASSUME Prompt, ~RedisMocked
    PROVE  MonitorSpec => []MonitorInv
<1>1. MonitorInv /\ [NextMonitor]_allVars => MonitorInv'
  BY MonitorStep
<1>. QED  BY <1>1, MonitorInit, PTL DEF MonitorSpec

\* handleNodeFailure() retries only tasks that were answered for: however many monitors
\* find the same node silent, and whatever the runs that sent its tasks still write, none
\* of them runs on beside its retry.
THEOREM NodeFailuresAreOver ==
    ASSUME Prompt, ~RedisMocked
    PROVE  MonitorSpec => []RetriedIsOver
<1>1. MonitorInv => RetriedIsOver
  BY DEF MonitorInv, RetryInv
<1>. QED  BY <1>1, MonitorAlways, PTL

\* The monitors write task rows that processQueue() goes by, and still there is one
\* leader and no task is sent twice.
THEOREM SentOnceMonitored ==
    ASSUME Prompt, ~RedisMocked
    PROVE  MonitorSpec => []OneLeader /\ []SingleDispatch
<1>1. MonitorInv => OneLeader /\ SingleDispatch
  BY DEF MonitorInv, IInv, LockInv, OneLeader
<1>. QED  BY <1>1, MonitorAlways, PTL

-----------------------------------------------------------------------------
\* Types

\* A run has its task from load() on, and its node from dequeue() on.
RunOK(r) ==
    /\ r \in Run
    /\ r.pc \notin {"idle", "look"} => r.task # Nil
    /\ r.pc \notin {"idle", "look", "load", "place"} => r.node # Nil

RunsOK == runs \in [Slot -> Run] /\ \A s \in Slot : RunOK(runs[s])

RowsOK ==
    /\ status \in [Task -> {"NONE", "PENDING", "SCHEDULED", "RUNNING", "FAILED", "CANCELLED"}]
    /\ assigned \in [Task -> Node \cup {Nil}]
    /\ retryOf \in [Task -> Task \cup {Nil}]
    /\ enqueues \in SUBSET [by : Instance, task : Task]

NodesOK ==
    /\ nodeStatus \in [Node -> {"ONLINE", "OFFLINE", "DEGRADED", "MAINTENANCE"}]
    /\ maintenance \in SUBSET Node
    /\ tasksRunning \in [Node -> Nat]
    /\ executing \in [Node -> [Task -> Nat]]

RestOK ==
    /\ lock \in Instance \cup {Nil, Gone}
    /\ isLeader \in [Instance -> BOOLEAN]
    /\ queue \in SUBSET Task
    /\ cancels \in SUBSET Task
    /\ sent \in [Task -> Nat]
    /\ crashes \in 0..MaxCrashes

LEMMA TypeParts == TypeOK <=> RunsOK /\ RowsOK /\ NodesOK /\ RestOK
BY DEF TypeOK, RunsOK, RunOK, Run, RowsOK, NodesOK, RestOK

LEMMA TypePartsNext == RunsOK' /\ RowsOK' /\ NodesOK' /\ RestOK' => TypeOK'
BY TypeParts, PTL

\* What an agent reports is a number.
LEMMA ExecutionsAreFinite ==
    ASSUME IsFiniteSet(Task), executing \in [Node -> [Task -> Nat]], NEW n \in Node
    PROVE  Cardinality(Executions(n)) \in Nat
<1>. DEFINE Parts == {{t} \X (1..executing[n][t]) : t \in Task}
            part == [t \in Task |-> {t} \X (1..executing[n][t])]
<1>1. part \in Surjection(Task, Parts)
  BY DEF Surjection
<1>2. IsFiniteSet(Parts)
  BY <1>1, FS_Surjection
<1>3. ASSUME NEW t \in Task  PROVE IsFiniteSet({t} \X (1..executing[n][t]))
  <2>1. IsFiniteSet({t})
    BY FS_Singleton
  <2>2. executing[n][t] \in Int
    OBVIOUS
  <2>3. IsFiniteSet(1..executing[n][t])
    BY <2>2, FS_Interval
  <2>. QED  BY <2>1, <2>3, FS_Product
<1>4. IsFiniteSet(UNION Parts)
  BY <1>2, <1>3, FS_UNION
<1>. QED  BY <1>4, FS_CardinalityType DEF Executions

LEMMA GotoTyped ==
    ASSUME RunsOK, NEW s \in Slot, NEW pc \in PC, Goto(s, pc),
           pc \notin {"idle", "look"} => runs[s].task # Nil,
           pc \notin {"idle", "look", "load", "place"} => runs[s].node # Nil
    PROVE  RunsOK'
<1>1. RunOK([runs[s] EXCEPT !.pc = pc])
  BY DEF RunsOK, RunOK, Run
<1>. QED  BY <1>1 DEF RunsOK, RunOK, Goto

LEMMA EndTyped ==
    ASSUME RunsOK, NEW s \in Slot, End(s)
    PROVE  RunsOK'
<1>1. RunOK(Idle)
  BY DEF RunOK, Run, Idle, PC
<1>. QED  BY <1>1 DEF RunsOK, RunOK, End

LEMMA RunsStay == ASSUME RunsOK, UNCHANGED runs PROVE RunsOK'
BY DEF RunsOK

LEMMA RowsStay == ASSUME RowsOK, UNCHANGED <<status, assigned, retryOf, enqueues>> PROVE RowsOK'
BY DEF RowsOK

LEMMA NodesStay ==
    ASSUME NodesOK, UNCHANGED <<nodeStatus, maintenance, tasksRunning, executing>>
    PROVE  NodesOK'
BY DEF NodesOK

\* A row that is created, with the enqueue() that follows or without one.
LEMMA RetryTyped ==
    ASSUME RowsOK, NEW t \in Task, CreateRetry(t), UNCHANGED assigned,
           \/ UNCHANGED enqueues
           \/ \E i \in Instance : EnqueueCreated(i)
    PROVE  RowsOK'
<1>1. /\ status' \in [Task -> {"NONE", "PENDING", "SCHEDULED", "RUNNING", "FAILED", "CANCELLED"}]
      /\ retryOf' \in [Task -> Task \cup {Nil}]
  BY DEF RowsOK, CreateRetry, Task
<1>2. enqueues' \in SUBSET [by : Instance, task : Task]
  BY DEF RowsOK, EnqueueCreated, Created
<1>. QED  BY <1>1, <1>2 DEF RowsOK

\* The steps of a run.
LEMMA RunTyped ==
    ASSUME TypeOK, NEW s \in Slot,
           \/ Tick(s) \/ defer(s) \/ Step(s) \/ throws(s) \/ RunTask(s) \/ PostFails(s)
    PROVE  TypeOK'
<1>1. /\ RunsOK /\ RowsOK /\ NodesOK /\ RestOK
      /\ runs[s] \in Run
      /\ runs[s].pc \notin {"idle", "look"} => runs[s].task \in Task
      /\ runs[s].pc \notin {"idle", "look", "load", "place"} => runs[s].node \in Node
  BY TypeParts DEF RunsOK, RunOK, Run
<1>2. s[1] \in Instance
  BY DEF Slot
<1>3. Nil \notin Task /\ Nil \notin Node
  BY DEF Task
<1>4. CASE Tick(s) \/ defer(s) \/ PostFails(s) \/ throws(s)
  <2>1. RunsOK'
    BY <1>1, <1>3, <1>4, GotoTyped, EndTyped DEF Tick, defer, PostFails, throws, At, PC
  <2>2. UNCHANGED <<lock, isLeader, status, assigned, retryOf, queue, enqueues, cancels,
                    nodeStatus, maintenance, tasksRunning, executing, sent, crashes>>
    BY <1>4 DEF Tick, defer, PostFails, throws, leaderVars, taskVars, nodeVars
  <2>. QED  BY <1>1, <2>1, <2>2, TypePartsNext, RowsStay, NodesStay DEF RestOK
<1>5. CASE look(s)
  <2>1. UNCHANGED <<lock, isLeader, status, assigned, retryOf, queue, enqueues, cancels,
                    nodeStatus, maintenance, tasksRunning, executing, sent, crashes>>
    BY <1>5 DEF look, leaderVars, taskVars, nodeVars
  <2>2. CASE End(s)
    BY <1>1, <2>1, <2>2, EndTyped, TypePartsNext, RowsStay, NodesStay DEF RestOK
  <2>3. ASSUME NEW t \in queue,
               runs' = [runs EXCEPT ![s] = [pc |-> "load", task |-> t, node |-> Nil]]
        PROVE  TypeOK'
    <3>1. RunOK([pc |-> "load", task |-> t, node |-> Nil])
      BY <1>1, <1>3 DEF RunOK, Run, PC, RestOK
    <3>2. RunsOK'
      BY <1>1, <2>3, <3>1 DEF RunsOK, RunOK
    <3>. QED  BY <1>1, <2>1, <3>2, TypePartsNext, RowsStay, NodesStay DEF RestOK
  <2>. QED  BY <1>5, <2>2, <2>3 DEF look
<1>6. CASE load(s) \/ dequeue(s)
  <2>1. RunsOK'
    BY <1>1, <1>3, <1>6, GotoTyped, EndTyped DEF load, dequeue, At, PC
  <2>2. /\ UNCHANGED <<lock, isLeader, status, assigned, retryOf, enqueues, cancels,
                       nodeStatus, maintenance, tasksRunning, executing, sent, crashes>>
        /\ queue' \subseteq queue
    BY <1>6 DEF load, dequeue, leaderVars, taskVars, nodeVars
  <2>. QED  BY <1>1, <2>1, <2>2, TypePartsNext, RowsStay, NodesStay DEF RestOK
<1>7. CASE findNode(s)
  <2>1. PICK n \in Eligible : runs' = [runs EXCEPT ![s].pc = "dequeue", ![s].node = n]
    BY <1>7 DEF findNode
  <2>2. RunOK([runs[s] EXCEPT !.pc = "dequeue", !.node = n])
    BY <1>1, <1>3, <1>7 DEF findNode, At, Eligible, RunOK, Run, PC
  <2>3. RunsOK'
    BY <1>1, <2>1, <2>2 DEF RunsOK, RunOK
  <2>4. UNCHANGED <<lock, isLeader, status, assigned, retryOf, queue, enqueues, cancels,
                    nodeStatus, maintenance, tasksRunning, executing, sent, crashes>>
    BY <1>7 DEF findNode, leaderVars, taskVars, nodeVars
  <2>. QED  BY <1>1, <2>3, <2>4, TypePartsNext, RowsStay, NodesStay DEF RestOK
<1>8. CASE assignTask(s)
  <2>1. RunsOK'
    BY <1>1, <1>3, <1>8, GotoTyped DEF assignTask, At, PC
  <2>2. RowsOK' /\ sent' \in [Task -> Nat]
    BY <1>1, <1>8 DEF assignTask, At, RowsOK, RestOK
  <2>3. UNCHANGED <<lock, isLeader, queue, cancels, nodeStatus, maintenance, tasksRunning,
                    executing, crashes>>
    BY <1>8 DEF assignTask, leaderVars, nodeVars
  <2>. QED  BY <1>1, <2>1, <2>2, <2>3, TypePartsNext, NodesStay DEF RestOK
<1>9. CASE markRunning(s) \/ markFailed(s)
  <2>1. RunsOK'
    BY <1>1, <1>3, <1>9, GotoTyped DEF markRunning, markFailed, At, PC
  <2>2. RowsOK'
    BY <1>1, <1>9 DEF markRunning, markFailed, At, RowsOK
  <2>3. UNCHANGED <<lock, isLeader, queue, cancels, nodeStatus, maintenance, tasksRunning,
                    executing, sent, crashes>>
    BY <1>9 DEF markRunning, markFailed, leaderVars, nodeVars
  <2>. QED  BY <1>1, <2>1, <2>2, <2>3, TypePartsNext, NodesStay DEF RestOK
<1>10. CASE countRunning(s)
  <2>1. RunsOK'
    BY <1>1, <1>10, EndTyped DEF countRunning
  <2>2. NodesOK'
    BY <1>1, <1>10 DEF countRunning, At, NodesOK
  <2>3. UNCHANGED <<lock, isLeader, status, assigned, retryOf, queue, enqueues, cancels,
                    sent, crashes>>
    BY <1>10 DEF countRunning, leaderVars, taskVars
  <2>. QED  BY <1>1, <2>1, <2>2, <2>3, TypePartsNext, RowsStay DEF RestOK
<1>11. CASE retryAfterFailure(s)
  <2>1. RunsOK'
    BY <1>1, <1>11, EndTyped DEF retryAfterFailure
  <2>2. RowsOK'
    BY <1>1, <1>2, <1>11, RetryTyped DEF retryAfterFailure, At
  <2>3. UNCHANGED <<lock, isLeader, queue, cancels, nodeStatus, maintenance, tasksRunning,
                    executing, sent, crashes>>
    BY <1>11 DEF retryAfterFailure, leaderVars, nodeVars
  <2>. QED  BY <1>1, <2>1, <2>2, <2>3, TypePartsNext, NodesStay DEF RestOK
<1>12. CASE RunTask(s)
  <2>1. RunsOK'
    BY <1>1, <1>3, <1>12, GotoTyped DEF RunTask, At, PC
  <2>2. NodesOK'
    BY <1>1, <1>12 DEF RunTask, At, NodesOK, nodeVars
  <2>3. UNCHANGED <<lock, isLeader, status, assigned, retryOf, queue, enqueues, cancels,
                    sent, crashes>>
    BY <1>12 DEF RunTask, leaderVars, taskVars
  <2>. QED  BY <1>1, <2>1, <2>2, <2>3, TypePartsNext, RowsStay DEF RestOK
<1>. QED
  BY <1>4, <1>5, <1>6, <1>7, <1>8, <1>9, <1>10, <1>11, <1>12 DEF Step

LEMMA TypesBegin == Init => TypeOK
<1>. SUFFICES ASSUME Init  PROVE TypeOK
  OBVIOUS
<1>1. RunsOK
  BY DEF Init, RunsOK, RunOK, Run, Idle, PC
<1>2. RowsOK /\ NodesOK /\ RestOK
  BY NumberAssumption DEF Init, RowsOK, NodesOK, RestOK
<1>. QED  BY <1>1, <1>2, TypeParts

\* A process ends: its runs and its enqueues are gone, nobody's types are.
LEMMA RestartTyped ==
    ASSUME TypeOK, NEW i \in Instance, NEW g \in BOOLEAN, Restart(i, g)
    PROVE  TypeOK'
<1>1. RunsOK /\ RowsOK /\ NodesOK /\ RestOK
  BY TypeParts
<1>2. RunOK(Idle)
  BY DEF RunOK, Run, Idle, PC
<1>3. RunsOK'
  BY <1>1, <1>2 DEF Restart, RunsOK, RunOK
<1>4. UNCHANGED <<status, assigned, retryOf, queue, cancels, nodeStatus, maintenance, tasksRunning,
                  executing, sent>>
  BY DEF Restart, taskVars, nodeVars
<1>5. RowsOK'
  BY <1>1, <1>4 DEF Restart, RowsOK
<1>6. RestOK'
  BY <1>1, <1>4, NumberAssumption DEF Restart, RestOK
<1>. QED  BY <1>1, <1>3, <1>4, <1>5, <1>6, TypePartsNext, NodesStay

LEMMA HeartbeatTyped ==
    ASSUME IsFiniteSet(Task), TypeOK, NEW n \in Node, heartbeat(n)
    PROVE  TypeOK'
<1>1. RunsOK /\ RowsOK /\ NodesOK /\ RestOK
  BY TypeParts
<1>2. Cardinality(Executions(n)) \in Nat
  BY <1>1, ExecutionsAreFinite DEF NodesOK
<1>3. NodesOK'
  BY <1>1, <1>2 DEF heartbeat, NodesOK
<1>4. UNCHANGED <<lock, isLeader, status, assigned, retryOf, queue, runs, enqueues, cancels,
                  sent, crashes>>
  BY DEF heartbeat, leaderVars, taskVars
<1>. QED  BY <1>1, <1>3, <1>4, TypePartsNext, RunsStay, RowsStay DEF RestOK

LEMMA ServeTyped ==
    ASSUME IsFiniteSet(Task), TypeOK, Serve
    PROVE  TypeOK'
<1>1. RunsOK /\ RowsOK /\ NodesOK /\ RestOK
  BY TypeParts
<1>2. ASSUME NEW s \in Slot,
             Tick(s) \/ defer(s) \/ Step(s) \/ throws(s) \/ RunTask(s) \/ PostFails(s)
      PROVE  TypeOK'
  BY <1>2, RunTyped
<1>3. ASSUME NEW i \in Instance, maintainLeadership(i)  PROVE TypeOK'
  <2>1. UNCHANGED <<status, assigned, retryOf, queue, runs, enqueues, cancels, nodeStatus,
                    maintenance, tasksRunning, executing, sent, crashes>>
    BY <1>3 DEF maintainLeadership, taskVars, nodeVars
  <2>2. RestOK'
    BY <1>1, <1>3, <2>1 DEF maintainLeadership, tryBecomeLeader, RestOK
  <2>. QED  BY <1>1, <2>1, <2>2, TypePartsNext, RunsStay, RowsStay, NodesStay
<1>4. ASSUME NEW i \in Instance, createTask(i)  PROVE TypeOK'
  <2>1. RowsOK'
    <3>1. /\ status' \in [Task -> {"NONE", "PENDING", "SCHEDULED", "RUNNING", "FAILED", "CANCELLED"}]
          /\ UNCHANGED <<assigned, retryOf>>
      BY <1>1, <1>4 DEF createTask, RowsOK
    <3>2. enqueues' \in SUBSET [by : Instance, task : Task]
      BY <1>1, <1>4 DEF createTask, RowsOK, EnqueueCreated, Created
    <3>. QED  BY <1>1, <3>1, <3>2 DEF RowsOK
  <2>2. UNCHANGED <<lock, isLeader, queue, runs, cancels, nodeStatus, maintenance, tasksRunning,
                    executing, sent, crashes>>
    BY <1>4 DEF createTask, leaderVars, nodeVars
  <2>. QED  BY <1>1, <2>1, <2>2, TypePartsNext, RunsStay, NodesStay DEF RestOK
<1>5. ASSUME NEW i \in Instance, NEW t \in Task, retryTask(i, t)  PROVE TypeOK'
  <2>1. RowsOK'
    BY <1>1, <1>5, RetryTyped DEF retryTask
  <2>2. UNCHANGED <<lock, isLeader, queue, runs, cancels, nodeStatus, maintenance, tasksRunning,
                    executing, sent, crashes>>
    BY <1>5 DEF retryTask, leaderVars, nodeVars
  <2>. QED  BY <1>1, <2>1, <2>2, TypePartsNext, RunsStay, NodesStay DEF RestOK
<1>6. ASSUME NEW t \in Task, cancelCheck(t) \/ cancelTask(t)  PROVE TypeOK'
  <2>1. RowsOK' /\ cancels' \in SUBSET Task
    BY <1>1, <1>6 DEF cancelCheck, cancelTask, taskVars, RowsOK, RestOK
  <2>2. UNCHANGED <<lock, isLeader, queue, runs, nodeStatus, maintenance, tasksRunning,
                    executing, sent, crashes>>
    BY <1>6 DEF cancelCheck, cancelTask, leaderVars, nodeVars
  <2>. QED  BY <1>1, <2>1, <2>2, TypePartsNext, RunsStay, NodesStay DEF RestOK
<1>7. ASSUME NEW i \in Instance, NEW n \in Node, reconcileTaskCounts(i, n)  PROVE TypeOK'
  <2>. DEFINE counted == {t \in Task : assigned[t] = n /\ status[t] \in {"RUNNING", "SCHEDULED"}}
  <2>1. Cardinality(counted) \in Nat
    BY FS_Subset, FS_CardinalityType
  <2>2. NodesOK'
    BY <1>1, <1>7, <2>1 DEF reconcileTaskCounts, NodesOK
  <2>3. UNCHANGED <<lock, isLeader, status, assigned, retryOf, queue, runs, enqueues, cancels,
                    sent, crashes>>
    BY <1>7 DEF reconcileTaskCounts, leaderVars, taskVars
  <2>. QED  BY <1>1, <2>2, <2>3, TypePartsNext, RunsStay, RowsStay DEF RestOK
<1>8. CASE LockExpires
  <2>1. UNCHANGED <<isLeader, status, assigned, retryOf, queue, runs, enqueues, cancels, nodeStatus,
                    maintenance, tasksRunning, executing, sent, crashes>>
    BY <1>8 DEF LockExpires, taskVars, nodeVars
  <2>2. RestOK'
    BY <1>1, <1>8, <2>1 DEF LockExpires, RestOK
  <2>. QED  BY <1>1, <2>1, <2>2, TypePartsNext, RunsStay, RowsStay, NodesStay
<1>9. ASSUME NEW e \in enqueues, enqueue(e)  PROVE TypeOK'
  <2>1. RowsOK' /\ queue' \in SUBSET Task
    BY <1>1, <1>9 DEF enqueue, taskVars, RowsOK, RestOK
  <2>2. UNCHANGED <<lock, isLeader, runs, cancels, nodeStatus, maintenance, tasksRunning,
                    executing, sent, crashes>>
    BY <1>9 DEF enqueue, leaderVars, nodeVars
  <2>. QED  BY <1>1, <2>1, <2>2, TypePartsNext, RunsStay, NodesStay DEF RestOK
<1>10. ASSUME NEW n \in Node, NEW t \in Task, ExecutionEnds(n, t)  PROVE TypeOK'
  <2>1. RunsOK'
    <3>1. ASSUME NEW s \in Slot, runs[s] = [pc |-> "running", task |-> t, node |-> n],
                 Goto(s, "answered")
          PROVE  RunsOK'
      <4>1. Nil \notin Task /\ Nil \notin Node
        BY DEF Task
      <4>. QED  BY <1>1, <3>1, <4>1, GotoTyped DEF PC
    <3>. QED  BY <1>1, <1>10, <3>1, RunsStay DEF ExecutionEnds
  <2>2. executing' \in [Node -> [Task -> Nat]]
    <3>1. /\ executing[n][t] \in Nat /\ executing[n][t] > 0
          /\ executing' = [executing EXCEPT ![n][t] = executing[n][t] - 1]
      BY <1>1, <1>10 DEF ExecutionEnds, NodesOK
    <3>. QED  BY <1>1, <3>1 DEF NodesOK
  <2>3. UNCHANGED <<lock, isLeader, status, assigned, retryOf, queue, enqueues, cancels,
                    nodeStatus, maintenance, tasksRunning, sent, crashes>>
    BY <1>10 DEF ExecutionEnds, leaderVars, taskVars, nodeVars
  <2>. QED  BY <1>1, <2>1, <2>2, <2>3, TypePartsNext, RowsStay DEF RestOK, NodesOK
<1>11. ASSUME NEW n \in Maintained, NEW b \in BOOLEAN, setMaintenance(n, b)  PROVE TypeOK'
  <2>1. n \in Node
    OBVIOUS
  <2>2. NodesOK'
    BY <1>1, <1>11, <2>1 DEF setMaintenance, NodesOK
  <2>3. UNCHANGED <<lock, isLeader, status, assigned, retryOf, queue, runs, enqueues, cancels,
                    sent, crashes>>
    BY <1>11 DEF setMaintenance, leaderVars, taskVars
  <2>. QED  BY <1>1, <2>2, <2>3, TypePartsNext, RunsStay, RowsStay DEF RestOK
<1>. QED
  BY <1>2, <1>3, <1>4, <1>5, <1>6, <1>7, <1>8, <1>9, <1>10, <1>11 DEF Serve

\* The rows, the queue and the runs keep their types: every run has its task and its node
\* where processQueue() goes by them, and the counters of the nodes are never negative.
THEOREM SchedulerTypes ==
    ASSUME IsFiniteSet(Task)
    PROVE  Spec => []TypeOK
<1>1. TypeOK /\ [Next]_vars => TypeOK'
  <2>1. CASE UNCHANGED vars
    BY <2>1 DEF vars, leaderVars, taskVars, nodeVars, TypeOK
  <2>. QED  BY <2>1, ServeTyped, RestartTyped, HeartbeatTyped DEF Next
<1>. QED  BY <1>1, TypesBegin, PTL DEF Spec

\* What a round of checkNodes() holds.
RoundOK(c) ==
    /\ c \in Check
    /\ c.pc = "tasks" => c.tasks # {}
    /\ c.pc = "retry" => c.task # Nil

RoundsOK ==
    /\ stale \in SUBSET Node
    /\ usage \in [Node -> {"low", "between", "high"}]
    /\ check \in [Instance -> Check]
    /\ \A i \in Instance : RoundOK(check[i])

LEMMA MonitorParts == MonitorTypeOK <=> TypeOK /\ RoundsOK
BY DEF MonitorTypeOK, RoundsOK, RoundOK, Check

LEMMA RoundMoves ==
    ASSUME RoundsOK, NEW i \in Instance, NEW c, RoundOK(c), Continue(i, c),
           UNCHANGED <<stale, usage>>
    PROVE  RoundsOK'
BY DEF RoundsOK, RoundOK, Continue

LEMMA NoRound == RoundOK(NoCheck)
BY DEF RoundOK, NoCheck, Check

\* The steps of a round.
LEMMA CheckTyped ==
    ASSUME TypeOK, RoundsOK, NEW i \in Instance, CheckStep(i) \/ checkThrows(i)
    PROVE  TypeOK' /\ RoundsOK'
<1>1. /\ RunsOK /\ RowsOK /\ NodesOK /\ RestOK
      /\ check[i] \in Check /\ RoundOK(check[i])
  BY TypeParts DEF RoundsOK
<1>2. Nil \notin Task /\ Nil \notin Node
  BY DEF Task
<1>3. UNCHANGED <<lock, isLeader, queue, runs, enqueues, cancels, executing, sent, crashes,
                  stale, usage, assigned, maintenance, tasksRunning>>
  BY DEF CheckStep, findStale, markOffline, findRunning, failTask, retryAfterNodeFailure,
         findDegraded, markDegraded, findRecovered, markRecovered, endCheck, checkThrows,
         beyondRows, leaderVars, taskVars, nodeVars
<1>4. RunsOK' /\ RestOK'
  BY <1>1, <1>3, RunsStay DEF RestOK
<1>5. NodesOK'
  BY <1>1, <1>3 DEF CheckStep, findStale, markOffline, findRunning, failTask,
     retryAfterNodeFailure, findDegraded, markDegraded, findRecovered, markRecovered, endCheck,
     checkThrows, nodeVars, NodesOK, Check
<1>6. RowsOK'
  <2>1. CASE failTask(i)
    BY <1>1, <1>3, <2>1 DEF failTask, RowsOK, Check
  <2>2. CASE retryAfterNodeFailure(i)
    BY <1>1, <1>2, <1>3, <2>2, RetryTyped DEF retryAfterNodeFailure, RoundOK, Check
  <2>3. CASE ~failTask(i) /\ ~retryAfterNodeFailure(i)
    BY <1>1, <1>3, <2>3, RowsStay DEF CheckStep, findStale, markOffline, findRunning, findDegraded,
       markDegraded, findRecovered, markRecovered, endCheck, checkThrows, taskVars
  <2>. QED  BY <2>1, <2>2, <2>3
<1>7. RoundsOK'
  <2>1. CASE findStale(i)
    <3>1. RoundOK([NoCheck EXCEPT
             !.pc = "stale", !.silent = stale,
             !.nodes = {n \in stale : nodeStatus[n] = "ONLINE" /\ n \notin maintenance}])
      BY DEF RoundsOK, RoundOK, NoCheck, Check
    <3>. QED  BY <1>3, <2>1, <3>1, RoundMoves DEF findStale
  <2>2. CASE markOffline(i)
    <3>1. PICK n \in check[i].nodes : Continue(i, [check[i] EXCEPT
             !.pc = "running", !.nodes = check[i].nodes \ {n}, !.node = n])
      BY <2>2 DEF markOffline
    <3>2. RoundOK([check[i] EXCEPT !.pc = "running", !.nodes = check[i].nodes \ {n}, !.node = n])
      BY <1>1 DEF RoundOK, Check
    <3>. QED  BY <1>3, <3>1, <3>2, RoundMoves
  <2>3. CASE findRunning(i)
    <3>. DEFINE tasks == {t \in Task : assigned[t] = check[i].node /\ status[t] = "RUNNING"}
    <3>1. Continue(i, [check[i] EXCEPT !.pc = AfterTask(tasks), !.tasks = tasks])
      BY <2>3 DEF findRunning
    <3>2. RoundOK([check[i] EXCEPT !.pc = AfterTask(tasks), !.tasks = tasks])
      BY <1>1 DEF RoundOK, Check, AfterTask
    <3>. QED  BY <1>3, <3>1, <3>2, RoundMoves
  <2>4. CASE failTask(i)
    <3>1. PICK t \in check[i].tasks : Continue(i, [check[i] EXCEPT
             !.pc = "retry", !.tasks = check[i].tasks \ {t}, !.task = t])
      BY <2>4 DEF failTask
    <3>2. t \in Task /\ check[i].tasks \ {t} \in SUBSET Task
      BY <1>1 DEF Check
    <3>3. RoundOK([check[i] EXCEPT !.pc = "retry", !.tasks = check[i].tasks \ {t}, !.task = t])
      BY <1>1, <1>2, <3>2 DEF RoundOK, Check
    <3>. QED  BY <1>3, <3>1, <3>3, RoundMoves
  <2>5. CASE retryAfterNodeFailure(i)
    <3>1. Continue(i, [check[i] EXCEPT !.pc = AfterTask(check[i].tasks), !.task = Nil])
      BY <2>5 DEF retryAfterNodeFailure
    <3>2. RoundOK([check[i] EXCEPT !.pc = AfterTask(check[i].tasks), !.task = Nil])
      BY <1>1 DEF RoundOK, Check, AfterTask
    <3>. QED  BY <1>3, <3>1, <3>2, RoundMoves
  <2>6. CASE findDegraded(i)
    <3>. DEFINE nodes == {n \in Node : nodeStatus[n] = "ONLINE" /\ usage[n] = "high"}
    <3>1. Continue(i, [check[i] EXCEPT !.pc = "degraded", !.node = Nil, !.nodes = nodes])
      BY <2>6 DEF findDegraded
    <3>2. RoundOK([check[i] EXCEPT !.pc = "degraded", !.node = Nil, !.nodes = nodes])
      BY <1>1 DEF RoundOK, Check
    <3>. QED  BY <1>3, <3>1, <3>2, RoundMoves
  <2>7. CASE markDegraded(i) \/ markRecovered(i)
    <3>1. PICK n \in check[i].nodes : Continue(i, [check[i] EXCEPT !.nodes = check[i].nodes \ {n}])
      BY <2>7 DEF markDegraded, markRecovered
    <3>2. RoundOK([check[i] EXCEPT !.nodes = check[i].nodes \ {n}])
      BY <1>1 DEF RoundOK, Check
    <3>. QED  BY <1>3, <3>1, <3>2, RoundMoves
  <2>8. CASE findRecovered(i)
    <3>. DEFINE nodes == {n \in Node \ check[i].silent :
                             nodeStatus[n] = "DEGRADED" /\ usage[n] = "low"}
    <3>1. Continue(i, [check[i] EXCEPT !.pc = "recovered", !.nodes = nodes])
      BY <2>8 DEF findRecovered
    <3>2. RoundOK([check[i] EXCEPT !.pc = "recovered", !.nodes = nodes])
      BY <1>1 DEF RoundOK, Check
    <3>. QED  BY <1>3, <3>1, <3>2, RoundMoves
  <2>9. CASE endCheck(i) \/ checkThrows(i)
    BY <1>3, <2>9, NoRound, RoundMoves DEF endCheck, checkThrows
  <2>. QED
    BY <2>1, <2>2, <2>3, <2>4, <2>5, <2>6, <2>7, <2>8, <2>9 DEF CheckStep
<1>. QED  BY <1>4, <1>5, <1>6, <1>7, TypePartsNext

\* Beside the monitors they keep their types too, and a round has tasks where
\* handleNodeFailure() takes the next one, and a task where it retries one.
THEOREM MonitorTypes ==
    ASSUME IsFiniteSet(Task)
    PROVE  MonitorSpec => []MonitorTypeOK
<1>. DEFINE Typed == TypeOK /\ RoundsOK
<1>1. Init /\ InitMonitor => Typed
  BY TypesBegin, NoRound DEF InitMonitor, RoundsOK, RoundOK
<1>2. ASSUME Typed, [NextMonitor]_allVars  PROVE Typed'
  <2>1. CASE Serve /\ UNCHANGED monitorVars
    BY <1>2, <2>1, ServeTyped DEF monitorVars, RoundsOK, RoundOK
  <2>2. ASSUME NEW i \in Instance, CheckStep(i) \/ checkThrows(i)  PROVE Typed'
    BY <1>2, <2>2, CheckTyped
  <2>3. ASSUME NEW i \in Instance, NEW g \in BOOLEAN, RestartBackend(i, g)  PROVE Typed'
    BY <1>2, <2>3, RestartTyped, NoRound, RoundMoves DEF RestartBackend, Continue
  <2>4. ASSUME NEW n \in Node, Heartbeat(n)  PROVE Typed'
    <3>1. TypeOK'
      BY <1>2, <2>4, HeartbeatTyped DEF Heartbeat
    <3>2. stale' \in SUBSET Node /\ usage' \in [Node -> {"low", "between", "high"}]
      BY <1>2, <2>4 DEF Heartbeat, RoundsOK
    <3>3. \A i \in Instance :
              RoundOK([check[i] EXCEPT !.silent = check[i].silent \ {n}])
      BY <1>2 DEF RoundsOK, RoundOK, Check
    <3>4. check' = [i \in Instance |-> [check[i] EXCEPT !.silent = check[i].silent \ {n}]]
      BY <2>4 DEF Heartbeat
    <3>. QED  BY <3>1, <3>2, <3>3, <3>4 DEF RoundsOK, RoundOK
  <2>5. ASSUME NEW n \in Node, GoesSilent(n)  PROVE Typed'
    <3>1. UNCHANGED vars /\ UNCHANGED <<usage, check>> /\ stale' = stale \cup {n}
      BY <2>5 DEF GoesSilent
    <3>. QED  BY <1>2, <3>1 DEF vars, leaderVars, taskVars, nodeVars, TypeOK, RoundsOK, RoundOK
  <2>6. CASE UNCHANGED allVars
    BY <1>2, <2>6 DEF allVars, vars, leaderVars, taskVars, nodeVars, monitorVars, TypeOK,
       RoundsOK, RoundOK
  <2>. QED  BY <1>2, <2>1, <2>2, <2>3, <2>4, <2>5, <2>6 DEF NextMonitor
<1>3. Typed => MonitorTypeOK
  BY MonitorParts
<1>. QED  BY <1>1, <1>2, <1>3, PTL DEF MonitorSpec

-----------------------------------------------------------------------------
\* The connection to an agent

\* Whoever waits for another attempt has used clients that were created before, as many as
\* its attempts; any new one is another.
PoolInv ==
    /\ created \in Nat
    /\ connection # Nothing => connection \in [client : 1..created, failureCount : Nat, isHealthy : BOOLEAN]
    /\ state \in [Call -> {"new", "sent", "delayed", "done", "failed"}]
    /\ poolAttempt \in [Call -> Nat]
    /\ used \in [Call -> SUBSET (1..created)]
    /\ \A c \in Call :
          /\ state[c] = "new" => used[c] = {} /\ poolAttempt[c] = 0
          /\ IsFiniteSet(used[c])
    /\ HealthyIsUntroubled
    /\ TriesAnother

PoolAssumption == maxFailures \in Nat \ {0}

LEMMA PoolBegins == PoolInit => PoolInv
BY FS_EmptySet DEF PoolInit, PoolInv, HealthyIsUntroubled, TriesAnother

\* An attempt with a client it has not used before.
LEMMA SendKeeps ==
    ASSUME PoolAssumption, PoolInv, NEW c \in Call, NEW entry,
           entry \in {connection, GivenUp}, send(c, entry),
           \/ state[c] = "new" /\ UNCHANGED poolAttempt
           \/ entry = GivenUp /\ state[c] # "new" /\ poolAttempt' = [poolAttempt EXCEPT ![c] = poolAttempt[c] + 1]
    PROVE  PoolInv'
<1>. DEFINE chosen == getClient(entry)
<1>1. \/ chosen = createConnection
      \/ chosen = connection /\ chosen # Nothing /\ entry = connection /\ entry # GivenUp
  <2>1. CASE entry = connection /\ entry # GivenUp
    BY <2>1 DEF getClient
  <2>2. CASE entry = GivenUp
    <3>1. CASE connection = Nothing
      BY <2>2, <3>1 DEF GivenUp, getClient
    <3>2. CASE connection # Nothing
      BY <2>2, <3>2 DEF GivenUp, getClient, PoolInv
    <3>. QED  BY <3>1, <3>2
  <2>. QED  BY <2>1, <2>2
<1>2. /\ chosen \in [client : 1..(created + 1), failureCount : Nat, isHealthy : BOOLEAN]
      /\ chosen.isHealthy => chosen.failureCount < maxFailures
      /\ chosen = createConnection => chosen.client = created + 1
      /\ created \in Nat
  <2>1. created \in Nat /\ 0 < maxFailures
    BY DEF PoolInv, PoolAssumption
  <2>2. CASE chosen = createConnection
    BY <2>1, <2>2 DEF createConnection
  <2>3. CASE chosen = connection /\ chosen # Nothing /\ chosen # createConnection
    <3>1. connection \in [client : 1..created, failureCount : Nat, isHealthy : BOOLEAN]
      BY <2>3 DEF PoolInv
    <3>2. connection.isHealthy => connection.failureCount < maxFailures
      BY <2>3 DEF PoolInv, HealthyIsUntroubled
    <3>. QED  BY <2>1, <2>3, <3>1, <3>2
  <2>. QED  BY <1>1, <2>2, <2>3
<1>3. /\ connection' = chosen
      /\ created' = IF chosen.client > created THEN chosen.client ELSE created
      /\ used' = [used EXCEPT ![c] = used[c] \cup {chosen.client}]
      /\ state' = [state EXCEPT ![c] = "sent"]
  BY DEF send
<1>4. /\ created' \in Nat /\ created <= created' /\ chosen.client \in 1..created'
      /\ chosen = createConnection => chosen.client \notin used[c]
  BY <1>2, <1>3 DEF PoolInv
<1>5. /\ used[c] \in SUBSET (1..created) /\ IsFiniteSet(used[c])
      /\ chosen.client \notin used[c]
      /\ Cardinality(used[c]) = poolAttempt'[c]
  <2>1. CASE state[c] = "new"
    <3>1. used[c] = {} /\ poolAttempt'[c] = 0
      BY <2>1 DEF PoolInv
    <3>. QED  BY <3>1, FS_EmptySet
  <2>2. CASE state[c] # "new"
    BY <2>2, <1>1, <1>4 DEF PoolInv, TriesAnother
  <2>. QED  BY <2>1, <2>2
<1>. HIDE DEF chosen
<1>6. IsFiniteSet(used'[c]) /\ Cardinality(used'[c]) = poolAttempt'[c] + 1
  <2>1. used'[c] = used[c] \cup {chosen.client}
    BY <1>3 DEF PoolInv
  <2>. DEFINE U == used[c]
              x == chosen.client
  <2>2. IsFiniteSet(U) /\ x \notin U /\ Cardinality(U) = poolAttempt'[c]
    BY <1>5
  <2>3. IsFiniteSet(U \cup {x}) /\ Cardinality(U \cup {x}) = poolAttempt'[c] + 1
    <3>. HIDE DEF U, x
    <3>. QED  BY <2>2, FS_AddElement
  <2>. QED  BY <2>1, <2>3
<1>7. poolAttempt' \in [Call -> Nat] /\ \A d \in Call : d # c => poolAttempt'[d] = poolAttempt[d]
  BY DEF PoolInv
<1>8. used' \in [Call -> SUBSET (1..created')]
  BY <1>3, <1>4 DEF PoolInv
<1>9. /\ \A d \in Call : state'[d] = "new" => used'[d] = {} /\ poolAttempt'[d] = 0
      /\ \A d \in Call : IsFiniteSet(used'[d])
      /\ TriesAnother'
  <2>. SUFFICES ASSUME NEW d \in Call
                PROVE  /\ state'[d] = "new" => used'[d] = {} /\ poolAttempt'[d] = 0
                       /\ IsFiniteSet(used'[d])
                       /\ state'[d] # "new" => Cardinality(used'[d]) = poolAttempt'[d] + 1
    BY DEF TriesAnother
  <2>1. CASE d = c
    BY <2>1, <1>3, <1>6 DEF PoolInv
  <2>2. CASE d # c
    <3>1. used'[d] = used[d] /\ state'[d] = state[d] /\ poolAttempt'[d] = poolAttempt[d]
      BY <2>2, <1>3, <1>7 DEF PoolInv
    <3>. QED  BY <3>1 DEF PoolInv, TriesAnother
  <2>. QED  BY <2>1, <2>2
<1>10. connection' \in [client : 1..created', failureCount : Nat, isHealthy : BOOLEAN]
  BY <1>2, <1>3, <1>4
<1>11. HealthyIsUntroubled'
  BY <1>2, <1>3 DEF HealthyIsUntroubled
<1>12. state' \in [Call -> {"new", "sent", "delayed", "done", "failed"}]
  BY <1>3 DEF PoolInv
<1>. QED  BY <1>4, <1>7, <1>8, <1>9, <1>10, <1>11, <1>12 DEF PoolInv

LEMMA Told ==
    ASSUME NEW n, NEW f \in Nat, NEW h \in BOOLEAN,
           NEW k \in [client : 1..n, failureCount : Nat, isHealthy : BOOLEAN],
           NEW m, m = [k EXCEPT !.failureCount = f, !.isHealthy = h]
    PROVE  /\ m \in [client : 1..n, failureCount : Nat, isHealthy : BOOLEAN]
           /\ m.failureCount = f /\ m.isHealthy = h
OBVIOUS

LEMMA PoolKeeps ==
    ASSUME PoolAssumption
    PROVE  PoolInv /\ [PoolNext]_poolVars => PoolInv'
<1>. SUFFICES ASSUME PoolInv, [PoolNext]_poolVars  PROVE PoolInv'
  OBVIOUS
<1>1. CASE UNCHANGED poolVars
  BY <1>1 DEF poolVars, PoolInv, HealthyIsUntroubled, TriesAnother
<1>2. CASE cleanup \/ resetPool
  BY <1>2 DEF cleanup, resetPool, PoolInv, HealthyIsUntroubled, TriesAnother
<1>3. ASSUME NEW c \in Call, begin(c)  PROVE PoolInv'
  BY <1>3, SendKeeps DEF begin
<1>4. ASSUME NEW c \in Call, retry(c)  PROVE PoolInv'
  BY <1>4, SendKeeps DEF retry
<1>5. ASSUME NEW c \in Call, recordSuccess(c) \/ recordFailure(c)  PROVE PoolInv'
  <2>1. /\ UNCHANGED <<created, poolAttempt, used>>
        /\ state[c] = "sent"
        /\ \E s \in {"done", "failed", "delayed"} : state' = [state EXCEPT ![c] = s]
        /\ connection = Nothing => connection' = Nothing
    BY <1>5 DEF recordSuccess, recordFailure
  <2>2. CASE connection # Nothing
    <3>. DEFINE k == connection
    <3>1. k \in [client : 1..created, failureCount : Nat, isHealthy : BOOLEAN]
      BY <2>2 DEF PoolInv
    <3>2. /\ connection' \in [client : 1..created, failureCount : Nat, isHealthy : BOOLEAN]
          /\ connection'.isHealthy => connection'.failureCount < maxFailures
      <4>1. CASE recordSuccess(c)
        <5>1. connection' = [k EXCEPT !.failureCount = 0, !.isHealthy = TRUE]
          BY <4>1, <2>2 DEF recordSuccess, Forgiven
        <5>. HIDE DEF k
        <5>2. /\ connection' \in [client : 1..created, failureCount : Nat, isHealthy : BOOLEAN]
              /\ connection'.failureCount = 0
          BY <5>1, <3>1, Told
        <5>. QED  BY <5>2 DEF PoolAssumption
      <4>2. CASE recordFailure(c)
        <5>. DEFINE healthy == k.isHealthy /\ k.failureCount + 1 < maxFailures
        <5>1. connection' = [k EXCEPT !.failureCount = k.failureCount + 1, !.isHealthy = healthy]
          BY <4>2, <2>2 DEF recordFailure
        <5>2. healthy \in BOOLEAN /\ (healthy => k.failureCount + 1 < maxFailures)
          OBVIOUS
        <5>. HIDE DEF k, healthy
        <5>3. k.failureCount + 1 \in Nat
          BY <3>1
        <5>. QED  BY <5>1, <5>2, <5>3, <3>1, Told
      <4>. QED  BY <4>1, <4>2, <1>5
    <3>3. TriesAnother' /\ HealthyIsUntroubled'
      BY <2>1, <3>2 DEF PoolInv, TriesAnother, HealthyIsUntroubled
    <3>. QED  BY <2>1, <3>2, <3>3 DEF PoolInv
  <2>3. CASE connection = Nothing
    BY <2>1, <2>3 DEF PoolInv, TriesAnother, HealthyIsUntroubled
  <2>. QED  BY <2>2, <2>3
<1>. QED  BY <1>1, <1>2, <1>3, <1>4, <1>5 DEF PoolNext

\* A connection is taken for healthy only while its failures in a row are few, and no call
\* tries one a second time (agent-pool.ts), for any callers, retries and replacements.
THEOREM AnotherIsTried ==
    ASSUME PoolAssumption
    PROVE  PoolSpec => []HealthyIsUntroubled /\ []TriesAnother
<1>1. PoolInv => HealthyIsUntroubled /\ TriesAnother
  BY DEF PoolInv
<1>. QED  BY <1>1, PoolBegins, PoolKeeps, PTL DEF PoolSpec

-----------------------------------------------------------------------------
\* Retries, their budget and their checkpoints

RetryNumbers ==
    /\ IsFiniteSet(Caller) /\ maxAttempts \in Nat \ {0} /\ maxRetriesPerWindow \in Nat \ {0}
    /\ Steps \in Nat

InProgress == {c \in Caller : calls[c].pc = "running"}

\* What a call saved, and how far it is, is never less than where it failed last; every call
\* that runs passed the check of the budget, and may still add one retry to it.
CheckedInv ==
    /\ DOMAIN calls = Caller
    /\ \A c \in Caller :
          /\ DOMAIN calls[c] = {"pc", "attempt", "errors", "delay"}
          /\ calls[c].pc \in {"idle", "running", "waiting", "done", "exhausted", "refused"}
          /\ calls[c].attempt \in 0..maxAttempts
          /\ calls[c].pc \in {"idle", "waiting"} => calls[c].attempt < maxAttempts
    /\ progress \in [Caller -> 0..Steps] /\ checkpoint \in [Caller -> 0..Steps]
    /\ failedAt \in [Caller -> 0..Steps]
    /\ \A c \in Caller : failedAt[c] <= progress[c] /\ failedAt[c] <= checkpoint[c]
    /\ retryCount \in Nat /\ breaker \in {"OPEN", "CLOSED"}
    /\ retryCount + Cardinality(InProgress) <= maxRetriesPerWindow + Cardinality(Caller) - 1

LEMMA CheckedBegins ==
    ASSUME RetryNumbers, RetryInit
    PROVE  CheckedInv
<1>1. InProgress = {}
  BY DEF RetryInit, InProgress
<1>2. Cardinality(InProgress) = 0 /\ Cardinality(Caller) \in Nat
  BY <1>1, FS_EmptySet, FS_CardinalityType DEF RetryNumbers
<1>. QED  BY <1>2 DEF RetryInit, RetryNumbers, CheckedInv

\* How many calls run.
LEMMA RunningIsFinite ==
    ASSUME RetryNumbers
    PROVE  /\ IsFiniteSet(InProgress) /\ Cardinality(InProgress) \in Nat
           /\ Cardinality(InProgress) <= Cardinality(Caller) /\ Cardinality(Caller) \in Nat
BY FS_Subset, FS_CardinalityType DEF RetryNumbers, InProgress

\* A call that stops running.
LEMMA StopsRunning ==
    ASSUME RetryNumbers, CheckedInv, NEW c \in Caller, calls[c].pc = "running",
           DOMAIN calls' = Caller, calls'[c].pc # "running",
           \A d \in Caller : d # c => calls'[d] = calls[d]
    PROVE  Cardinality(InProgress') \in Nat /\ Cardinality(InProgress') + 1 = Cardinality(InProgress)
<1>. DEFINE R == InProgress
<1>1. InProgress' = R \ {c} /\ c \in R
  BY DEF InProgress
<1>2. IsFiniteSet(R) /\ Cardinality(R) \in Nat
  BY RunningIsFinite
<1>3. /\ IsFiniteSet(R \ {c})
      /\ Cardinality(R \ {c}) = Cardinality(R) - 1
  <2>. HIDE DEF R
  <2>. QED  BY <1>1, <1>2, FS_RemoveElement
<1>4. Cardinality(R \ {c}) \in Nat
  <2>. HIDE DEF R
  <2>. QED  BY <1>3, FS_CardinalityType
<1>. QED  BY <1>1, <1>2, <1>3, <1>4

\* An attempt begins, or is refused.
LEMMA ExecuteKeeps ==
    ASSUME RetryNumbers, CheckedInv, NEW c \in Caller, execute(c)
    PROVE  CheckedInv'
<1>1. /\ calls[c].pc \in {"idle", "waiting"} /\ calls[c].attempt < maxAttempts
      /\ calls[c].attempt \in 0..maxAttempts /\ maxAttempts \in Nat
      /\ UNCHANGED <<breaker, checkpoint, failedAt>>
  BY DEF execute, CheckedInv, RetryNumbers
<1>2. CASE calls' = [calls EXCEPT ![c].pc = "refused"]
  <2>0. UNCHANGED progress /\ (UNCHANGED retryCount \/ retryCount' = 0)
    <3>1. calls'[c].pc = "refused"
      BY <1>2 DEF CheckedInv
    <3>2. [calls EXCEPT ![c].pc = "running", ![c].attempt = calls[c].attempt + 1, ![c].delay = 0][c].pc = "running"
      BY DEF CheckedInv
    <3>. QED  BY <3>1, <3>2 DEF execute, checkRetryBudget, Budget
  <2>1. /\ DOMAIN calls' = Caller
        /\ \A d \in Caller : d # c => calls'[d] = calls[d]
        /\ DOMAIN calls'[c] = {"pc", "attempt", "errors", "delay"}
        /\ calls'[c].pc = "refused" /\ calls'[c].attempt = calls[c].attempt
    BY <1>2 DEF CheckedInv
  <2>2. InProgress' = InProgress
    BY <1>1, <2>1 DEF InProgress
  <2>3. retryCount' \in Nat /\ retryCount' <= retryCount
    BY <2>0 DEF CheckedInv
  <2>4. retryCount' + Cardinality(InProgress') <= maxRetriesPerWindow + Cardinality(Caller) - 1
    BY <2>2, <2>3, RunningIsFinite DEF CheckedInv, RetryNumbers
  <2>. QED  BY <1>1, <2>0, <2>1, <2>3, <2>4 DEF CheckedInv
<1>3. CASE ~(calls' = [calls EXCEPT ![c].pc = "refused"])
  <2>0. /\ HasBudget(retryCount') /\ (UNCHANGED retryCount \/ retryCount' = 0)
        /\ calls' = [calls EXCEPT ![c].pc = "running", ![c].attempt = calls[c].attempt + 1, ![c].delay = 0]
        /\ progress' = [progress EXCEPT ![c] = checkpoint[c]]
    BY <1>3 DEF execute, checkRetryBudget, Budget
  <2>1. /\ DOMAIN calls' = Caller
        /\ \A d \in Caller : d # c => calls'[d] = calls[d]
        /\ DOMAIN calls'[c] = {"pc", "attempt", "errors", "delay"}
        /\ calls'[c].pc = "running" /\ calls'[c].attempt = calls[c].attempt + 1
    BY <2>0 DEF CheckedInv
  <2>2. retryCount' \in Nat /\ retryCount' < maxRetriesPerWindow
    BY <2>0 DEF CheckedInv, HasBudget
  <2>3. Cardinality(InProgress') \in Nat /\ Cardinality(InProgress') <= Cardinality(Caller) /\ Cardinality(Caller) \in Nat
    BY FS_Subset, FS_CardinalityType DEF RetryNumbers, InProgress
  <2>4. retryCount' + Cardinality(InProgress') <= maxRetriesPerWindow + Cardinality(Caller) - 1
    BY <2>2, <2>3 DEF RetryNumbers
  <2>5. progress' \in [Caller -> 0..Steps] /\ \A d \in Caller : failedAt[d] <= progress'[d]
    BY <2>0 DEF CheckedInv
  <2>6. \A d \in Caller :
          /\ DOMAIN calls'[d] = {"pc", "attempt", "errors", "delay"}
          /\ calls'[d].pc \in {"idle", "running", "waiting", "done", "exhausted", "refused"}
          /\ calls'[d].attempt \in 0..maxAttempts
          /\ calls'[d].pc \in {"idle", "waiting"} => calls'[d].attempt < maxAttempts
    BY <1>1, <2>1 DEF CheckedInv
  <2>. QED  BY <1>1, <2>1, <2>2, <2>4, <2>5, <2>6 DEF CheckedInv
<1>. QED  BY <1>2, <1>3

\* A call succeeds or fails, and its state is saved.
LEMMA AttemptEndsKeeps ==
    ASSUME RetryNumbers, CheckedInv, NEW c \in Caller, succeed(c) \/ fail(c)
    PROVE  CheckedInv'
<1>1. /\ calls[c].pc = "running" /\ calls[c].attempt \in 0..maxAttempts /\ maxAttempts \in Nat
      /\ UNCHANGED <<breaker, progress>>
      /\ checkpoint' = [checkpoint EXCEPT ![c] = progress[c]]
      /\ failedAt' = failedAt \/ failedAt' = [failedAt EXCEPT ![c] = progress[c]]
      /\ retryCount' \in {retryCount, retryCount + 1}
  BY DEF succeed, fail, Save, Budget, CheckedInv, RetryNumbers
<1>2. /\ DOMAIN calls' = Caller
      /\ \A d \in Caller : d # c => calls'[d] = calls[d]
      /\ DOMAIN calls'[c] = {"pc", "attempt", "errors", "delay"}
      /\ calls'[c].pc \in {"done", "exhausted", "waiting"} /\ calls'[c].attempt = calls[c].attempt
      /\ calls'[c].pc = "waiting" => calls[c].attempt < maxAttempts
  <2>1. CASE calls' = [calls EXCEPT ![c].pc = "done"]
    BY <2>1 DEF CheckedInv
  <2>2. CASE calls' = [calls EXCEPT ![c].pc = "exhausted", ![c].errors = calls[c].errors + 1]
    BY <2>2 DEF CheckedInv
  <2>3. CASE /\ calls[c].attempt < maxAttempts
             /\ \E delay : calls' = [calls EXCEPT ![c] = [pc |-> "waiting", attempt |-> calls[c].attempt,
                                                          errors |-> calls[c].errors + 1, delay |-> delay]]
    BY <2>3 DEF CheckedInv
  <2>. QED  BY <2>1, <2>2, <2>3 DEF succeed, fail
<1>3. Cardinality(InProgress') \in Nat /\ Cardinality(InProgress') + 1 = Cardinality(InProgress)
  BY <1>1, <1>2, StopsRunning
<1>4. retryCount' \in Nat /\ retryCount' + Cardinality(InProgress') <= maxRetriesPerWindow + Cardinality(Caller) - 1
  BY <1>1, <1>3, RunningIsFinite DEF CheckedInv, RetryNumbers
<1>5. /\ checkpoint' \in [Caller -> 0..Steps] /\ failedAt' \in [Caller -> 0..Steps]
      /\ \A d \in Caller : failedAt'[d] <= progress'[d] /\ failedAt'[d] <= checkpoint'[d]
  <2>1. \A d \in Caller : progress[d] \in Int /\ progress[d] <= progress[d]
    BY DEF CheckedInv, RetryNumbers
  <2>. QED  BY <1>1, <2>1 DEF CheckedInv
<1>6. \A d \in Caller :
        /\ DOMAIN calls'[d] = {"pc", "attempt", "errors", "delay"}
        /\ calls'[d].pc \in {"idle", "running", "waiting", "done", "exhausted", "refused"}
        /\ calls'[d].attempt \in 0..maxAttempts
        /\ calls'[d].pc \in {"idle", "waiting"} => calls'[d].attempt < maxAttempts
  BY <1>1, <1>2 DEF CheckedInv
<1>. QED  BY <1>1, <1>2, <1>4, <1>5, <1>6 DEF CheckedInv

LEMMA CheckedKeeps ==
    ASSUME RetryNumbers
    PROVE  CheckedInv /\ [RetryNext]_retryVars => CheckedInv'
<1>. SUFFICES ASSUME CheckedInv, [RetryNext]_retryVars  PROVE CheckedInv'
  OBVIOUS
<1>1. CASE UNCHANGED retryVars \/ windowEnds \/ breakerMoves \/ \E c \in Caller : start(c) \/ stop(c)
  <2>1. UNCHANGED <<calls, progress, checkpoint, failedAt, retryCount>> /\ breaker' \in {"OPEN", "CLOSED"}
    BY <1>1 DEF retryVars, windowEnds, breakerMoves, start, stop, Budget, CheckedInv
  <2>. QED  BY <2>1 DEF CheckedInv, InProgress
<1>2. ASSUME NEW c \in Caller, work(c) \/ tick(c) \/ deleteCheckpoint(c)  PROVE CheckedInv'
  <2>1. UNCHANGED <<calls, retryCount, breaker>> /\ InProgress' = InProgress
    BY <1>2 DEF work, tick, deleteCheckpoint, Budget, InProgress
  <2>2. /\ progress' \in [Caller -> 0..Steps] /\ checkpoint' \in [Caller -> 0..Steps]
        /\ failedAt' \in [Caller -> 0..Steps]
        /\ \A d \in Caller : failedAt'[d] <= progress'[d] /\ failedAt'[d] <= checkpoint'[d]
    <3>1. CASE work(c)
      BY <3>1 DEF work, CheckedInv, RetryNumbers
    <3>2. CASE tick(c)
      BY <3>2 DEF tick, Save, CheckedInv, RetryNumbers
    <3>3. CASE deleteCheckpoint(c)
      BY <3>3 DEF deleteCheckpoint, CheckedInv, RetryNumbers
    <3>. QED  BY <1>2, <3>1, <3>2, <3>3
  <2>. QED  BY <2>1, <2>2 DEF CheckedInv
<1>. QED  BY <1>1, <1>2, ExecuteKeeps, AttemptEndsKeeps DEF RetryNext

\* An attempt begins no earlier than where the last one failed, and calls that pass the check
\* of the budget together exceed it by no more than one retry each (checkpoint.ts:121-136,
\* retry.ts:60, 109), for any number of calls, attempts, steps and any budget.
THEOREM RetriesAreBudgeted ==
    ASSUME RetryNumbers
    PROVE  RetrySpec => []RetryTypeOK /\ []ResumesWhereItFailed /\ []BudgetOvershootIsBounded
<1>1. RetryInit => CheckedInv
  BY CheckedBegins
<1>2. CheckedInv => RetryTypeOK /\ ResumesWhereItFailed
  BY DEF CheckedInv, RetryTypeOK, ResumesWhereItFailed, RetryNumbers
<1>3. CheckedInv => BudgetOvershootIsBounded
  BY RunningIsFinite DEF CheckedInv, BudgetOvershootIsBounded, RetryNumbers
<1>. QED  BY <1>1, <1>2, <1>3, CheckedKeeps, PTL DEF RetrySpec

-----------------------------------------------------------------------------
\* Reservations of a node

Reserved == [node : ReservedNode, status : {"PENDING", "CONFIRMED"}]

ReservedInv ==
    /\ reservations \in [Reservation -> Reserved \cup {Nothing}]
    /\ nodeReservations \in [ReservedNode -> SUBSET Reservation]
    /\ timers \subseteq Reservation
    /\ ReservedIsCounted

LEMMA ReservedKeeps ==
    ASSUME Nothing \notin Reserved
    PROVE  ReservedInv /\ [ReservationNext]_reservationVars => ReservedInv'
<1>. SUFFICES ASSUME ReservedInv, [ReservationNext]_reservationVars  PROVE ReservedInv'
  OBVIOUS
<1>1. CASE UNCHANGED reservationVars
  BY <1>1 DEF reservationVars, ReservedInv, ReservedIsCounted
<1>2. ASSUME NEW r \in Reservation, createReservation(r)  PROVE ReservedInv'
  <2>1. PICK n \in ReservedNode :
          /\ reservations' = [reservations EXCEPT ![r] = [node |-> n, status |-> "PENDING"]]
          /\ nodeReservations' = [nodeReservations EXCEPT ![n] = nodeReservations[n] \cup {r}]
    BY <1>2 DEF createReservation
  <2>. DEFINE k == [node |-> n, status |-> "PENDING"]
  <2>2. k \in Reserved /\ k # Nothing /\ k.node = n
    BY DEF Reserved
  <2>. HIDE DEF k
  <2>3. /\ reservations[r] = Nothing /\ timers' = timers \cup {r}
        /\ reservations' = [reservations EXCEPT ![r] = k]
    BY <1>2, <2>1 DEF createReservation, k
  <2>4. ReservedIsCounted'
    BY <2>1, <2>2, <2>3 DEF ReservedInv, ReservedIsCounted
  <2>. QED  BY <2>1, <2>2, <2>3, <2>4 DEF ReservedInv
<1>3. ASSUME NEW r \in Reservation, confirmReservation(r)  PROVE ReservedInv'
  <2>. DEFINE k == [reservations[r] EXCEPT !.status = "CONFIRMED"]
  <2>1. reservations[r] \in Reserved
    BY <1>3 DEF confirmReservation, ReservedInv
  <2>2. k \in Reserved /\ k # Nothing /\ k.node = reservations[r].node
    BY <2>1 DEF Reserved
  <2>. HIDE DEF k
  <2>3. /\ reservations' = [reservations EXCEPT ![r] = k] /\ reservations[r] # Nothing
        /\ UNCHANGED <<nodeReservations, timers>>
    BY <1>3 DEF confirmReservation, k
  <2>4. ReservedIsCounted'
    BY <2>2, <2>3 DEF ReservedInv, ReservedIsCounted
  <2>. QED  BY <2>2, <2>3, <2>4 DEF ReservedInv
<1>4. ASSUME NEW r \in Reservation, releaseReservation(r) \/ expired(r)  PROVE ReservedInv'
  <2>1. /\ Release(r)
        /\ \/ timers' = timers /\ reservations[r] # Nothing
           \/ timers' = timers \ {r}
    BY <1>4 DEF releaseReservation, expired
  <2>2. CASE reservations[r] = Nothing
    BY <2>1, <2>2 DEF Release, ReservedInv, ReservedIsCounted
  <2>3. CASE reservations[r] # Nothing
    <3>. DEFINE n == reservations[r].node
    <3>1. n \in ReservedNode
      BY <2>3 DEF ReservedInv, Reserved
    <3>2. /\ nodeReservations' = [nodeReservations EXCEPT ![n] = nodeReservations[n] \ {r}]
          /\ reservations' = [reservations EXCEPT ![r] = Nothing]
      BY <2>1, <2>3 DEF Release, Kept
    <3>3. timers' \subseteq Reservation /\ \A s \in timers : s # r => s \in timers'
      BY <2>1 DEF ReservedInv
    <3>4. ReservedIsCounted'
      BY <3>1, <3>2, <3>3 DEF ReservedInv, ReservedIsCounted
    <3>. QED  BY <3>1, <3>2, <3>3, <3>4 DEF ReservedInv
  <2>. QED  BY <2>2, <2>3
<1>. QED  BY <1>1, <1>2, <1>3, <1>4 DEF ReservationNext

\* What a node is said to have reserved is what is reserved on it, and a timer will take back
\* each of it (advanced-scheduling.ts), for any reservations and nodes: the value of an id that
\* is not there is no reservation.
THEOREM ReservationsAgree ==
    ASSUME Nothing \notin Reserved
    PROVE  ReservationSpec => []ReservationTypeOK /\ []ReservedIsCounted
<1>1. ReservationInit => ReservedInv
  BY DEF ReservationInit, ReservedInv, ReservedIsCounted
<1>2. ReservedInv => ReservationTypeOK /\ ReservedIsCounted
  BY DEF ReservedInv, ReservationTypeOK, Reserved
<1>. QED  BY <1>1, <1>2, ReservedKeeps, PTL DEF ReservationSpec

=============================================================================
