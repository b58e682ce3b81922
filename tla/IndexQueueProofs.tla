-------------------------- MODULE IndexQueueProofs --------------------------
(* For every number of repositories, requests, workers and tasks, every      *)
(* batch size and every combination of faults: the types; without repeated   *)
(* commands, the exclusive work of workers, the lifecycle of a task and the  *)
(* admission of tasks; and with them, the causes of a stuck task, and, as    *)
(* long as the statements that change the tables and the stream succeed, the *)
(* evidence of every unfinished one.                                         *)
EXTENDS IndexQueue, FiniteSetTheorems, TLAPS

USE IndexQueueAssumption

-----------------------------------------------------------------------------
(* The inductive invariant.                                                  *)

Rows == \A t \in Tasks : t > created <=> status[t] = "none"

\* A request about to enqueue owns a pending task of which no message exists.
Enqueuing ==
  /\ \A c \in Clients : rpc[c] = "enqueue" =>
       /\ rtask[c] \in 1..created
       /\ status[rtask[c]] = "pending"
       /\ \A p \in 1..Len(stream) : stream[p] # rtask[c]
  /\ \A c, d \in Clients :
       c # d /\ rpc[c] = "enqueue" /\ rpc[d] = "enqueue" => rtask[c] # rtask[d]

\* What a request saw stays true of the rows it saw: they end or get stale.
Admitting ==
  \A c \in Clients :
    /\ rseen[c] <= created
    /\ rpc[c] = "create" =>
         \A t \in 1..rseen[c] :
           repoOf[t] = rrepo[c] /\ status[t] \in Active => t <= aged

\* A task has one message, and is pending until the message is delivered.
Messages ==
  /\ \A p \in 1..Len(stream) : stream[p] <= created
  /\ \A p, q \in 1..Len(stream) : p # q => stream[p] # stream[q]
  /\ \A p \in 1..Len(stream) : p > cursor => status[stream[p]] = "pending"

\* A worker holds a stretch of delivered messages, its first may have begun.
Batches ==
  \A w \in Consumers : wpc[w] \in Working =>
    /\ next[w] <= last[w]
    /\ \A p \in next[w]..last[w] :
         p > next[w] \/ wpc[w] = "start" => status[stream[p]] = "pending"
    /\ wpc[w] = "run" => status[stream[next[w]]] = "running"

\* The stretches of two workers do not meet.
Apart ==
  \A v, w \in Consumers :
    v # w /\ wpc[v] \in Working /\ wpc[w] \in Working =>
      last[v] < next[w] \/ last[w] < next[v]

IInv == /\ StateTypes /\ Rows /\ Enqueuing /\ Admitting /\ Messages
        /\ Batches /\ Apart /\ NoOverlapWithoutRace

\* Without it a task may have two messages, and be run twice.
NoRetry == "retry" \notin Faults

-----------------------------------------------------------------------------
(* What a worker has in hand.                                                *)

LEMMA MessageIsTask ==
  ASSUME IInv, NEW p \in 1..Len(stream)
  PROVE  stream[p] \in Tasks
<1>1. stream \in Seq(Tasks)
  BY DEF IInv, StateTypes
<1>. QED BY <1>1

\* The message a worker is at is delivered, its task exists, and no other
\* message and no request is about the same task.
LEMMA JobInHand ==
  ASSUME IInv, NEW w \in Consumers, wpc[w] \in Working
  PROVE  /\ next[w] \in 1..Len(stream) /\ next[w] <= last[w]
         /\ last[w] <= cursor /\ last[w] \in Nat
         /\ Job(w) \in Tasks /\ Job(w) <= created
         /\ wpc[w] = "start" => status[Job(w)] = "pending"
         /\ wpc[w] = "run" => status[Job(w)] = "running"
         /\ status[Job(w)] # "none"
         /\ \A p \in 1..Len(stream) : p # next[w] => stream[p] # Job(w)
<1>1. next[w] \in 1..Len(stream) /\ next[w] <= last[w] /\ last[w] <= cursor
      /\ last[w] \in Nat
  BY DEF IInv, StateTypes, Batches
<1>2. Job(w) \in Tasks /\ Job(w) <= created
  BY <1>1, MessageIsTask DEF IInv, Messages, Job
<1>3. status[Job(w)] # "none"
  BY <1>2 DEF IInv, StateTypes, Rows, Tasks
<1>4. wpc[w] = "start" => status[Job(w)] = "pending"
  BY <1>1 DEF IInv, StateTypes, Batches, Job
<1>5. wpc[w] = "run" => status[Job(w)] = "running"
  BY DEF IInv, Batches, Job
<1>6. \A p \in 1..Len(stream) : p # next[w] => stream[p] # Job(w)
  BY <1>1 DEF IInv, Messages, Job
<1>. QED BY <1>1, <1>2, <1>3, <1>4, <1>5, <1>6

\* The batch of another worker is about other tasks.
LEMMA OtherBatch ==
  ASSUME IInv, NEW w \in Consumers, wpc[w] \in Working,
         NEW v \in Consumers, v # w, wpc[v] \in Working,
         NEW p \in next[v]..last[v]
  PROVE  p \in 1..Len(stream) /\ stream[p] # Job(w)
<1>1. p \in 1..Len(stream)
  BY JobInHand DEF IInv, StateTypes
<1>2. last[v] < next[w] \/ last[w] < next[v]
  BY DEF IInv, Apart
<1>3. next[w] \in Nat /\ last[w] \in Nat /\ next[v] \in Nat /\ last[v] \in Nat
  BY DEF IInv, StateTypes
<1>4. p # next[w]
  BY <1>2, <1>3, JobInHand
<1>. QED BY <1>1, <1>4, JobInHand

\* A statement on tasks moves the task in hand.
LEMMA StatusMoves ==
  ASSUME IInv, NEW w \in Consumers, wpc[w] \in {"start", "run"},
         NEW s \in {"running"} \cup Terminal, NEW l \in {"run", "ack"},
         l = "run" => s = "running",
         SetStatus(Job(w), s), Step(w, l),
         UNCHANGED <<clientVars, redisVars, next, last>>
  PROVE  IInv'
<1>w. wpc[w] \in Working /\ wpc' = [wpc EXCEPT ![w] = l] /\ wpc \in [Consumers -> WorkerStates]
  BY DEF Working, Step, IInv, StateTypes
<1>j. /\ Job(w) \in Tasks /\ Job(w) <= created
      /\ status[Job(w)] \in Active
      /\ status \in [Tasks -> Statuses]
  BY <1>w, JobInHand DEF Active, IInv, StateTypes
<1>s. status' = [status EXCEPT ![Job(w)] = s]
  BY DEF SetStatus
<1>u. UNCHANGED <<created, repoOf, aged, seen, rpc, rrepo, rtask, rseen,
                  group, stream, skipped, cursor, owner, next, last>>
  BY DEF SetStatus, clientVars, redisVars
<1>1. StateTypes'
  <2>1. status' \in [Tasks -> Statuses]
    BY <1>j, <1>s DEF Statuses, Active
  <2>2. wpc' \in [Consumers -> WorkerStates]
    BY <1>w DEF WorkerStates
  <2>. QED BY <2>1, <2>2, <1>u DEF IInv, StateTypes
<1>2. Rows'
  <2>1. s # "none" /\ created \in Nat
    BY DEF Terminal, IInv, StateTypes
  <2>2. ASSUME NEW t \in Tasks PROVE t > created <=> status'[t] = "none"
    <3>1. CASE t = Job(w)
      BY <3>1, <2>1, <1>j, <1>s DEF Tasks
    <3>2. CASE t # Job(w)
      BY <3>2, <1>j, <1>s DEF IInv, Rows
    <3>. QED BY <3>1, <3>2
  <2>. QED BY <2>2, <1>u DEF Rows
<1>a. \A t \in Tasks : status'[t] \in Active => status[t] \in Active
  BY <1>j, <1>s
<1>3. Enqueuing'
  <2>1. \A c \in Clients : rpc[c] = "enqueue" => rtask[c] # Job(w)
    BY <1>w, JobInHand DEF IInv, Enqueuing, Job
  <2>2. \A c \in Clients : rpc[c] = "enqueue" => rtask[c] \in Tasks
    BY DEF IInv, Enqueuing, StateTypes, Tasks
  <2>. QED BY <2>1, <2>2, <1>j, <1>s, <1>u DEF IInv, Enqueuing
<1>4. Admitting'
  <2>1. \A c \in Clients : \A t \in 1..rseen[c] : t \in Tasks
    BY DEF IInv, StateTypes, Tasks
  <2>. QED BY <2>1, <1>a, <1>u DEF IInv, Admitting
<1>5. Messages'
  <2>1. ASSUME NEW p \in 1..Len(stream), p > cursor
        PROVE  status'[stream[p]] = "pending"
    <3>1. p # next[w] /\ stream[p] \in Tasks
      BY <1>w, <2>1, JobInHand, MessageIsTask DEF IInv, StateTypes
    <3>2. stream[p] # Job(w)
      BY <1>w, <3>1, JobInHand
    <3>. QED BY <3>1, <3>2, <1>s, <1>j, <2>1 DEF IInv, Messages
  <2>. QED BY <2>1, <1>u DEF IInv, Messages
<1>6. Batches'
  <2>1. ASSUME NEW v \in Consumers, wpc'[v] \in Working
        PROVE  /\ next[v] <= last[v]
               /\ \A p \in next[v]..last[v] :
                    p > next[v] \/ wpc'[v] = "start" =>
                      status'[stream[p]] = "pending"
               /\ wpc'[v] = "run" => status'[stream[next[v]]] = "running"
    <3>1. CASE v = w
      <4>1. next[w] <= last[w]
        BY <1>w, JobInHand
      <4>2. ASSUME NEW p \in next[w]..last[w], p > next[w]
            PROVE  status'[stream[p]] = "pending"
        <5>1. p \in 1..Len(stream)
          BY <1>w, <4>2, JobInHand DEF IInv, StateTypes
        <5>4. p # next[w]
          BY <4>2 DEF IInv, StateTypes
        <5>2. stream[p] \in Tasks /\ stream[p] # Job(w)
          BY <1>w, <5>1, <5>4, JobInHand, MessageIsTask
        <5>3. status[stream[p]] = "pending"
          BY <1>w, <4>2 DEF IInv, Batches
        <5>. QED BY <5>2, <5>3, <1>s, <1>j
      <4>3. wpc'[w] = "run" => status'[stream[next[w]]] = "running"
        BY <1>w, <1>s, <1>j DEF Job
      <4>. QED BY <3>1, <4>1, <4>2, <4>3, <1>w
    <3>2. CASE v # w
      <4>1. wpc'[v] = wpc[v]
        BY <3>2, <1>w
      <4>2. \A p \in next[v]..last[v] :
              /\ stream[p] \in Tasks
              /\ status'[stream[p]] = status[stream[p]]
        <5>1. TAKE p \in next[v]..last[v]
        <5>2. p \in 1..Len(stream) /\ stream[p] # Job(w)
          BY <1>w, <2>1, <3>2, <4>1, OtherBatch
        <5>3. stream[p] \in Tasks
          BY <5>2, MessageIsTask
        <5>. QED BY <5>2, <5>3, <1>s, <1>j
      <4>3. next[v] <= last[v] /\ next[v] \in next[v]..last[v]
        BY <2>1, <4>1, JobInHand DEF IInv, StateTypes
      <4>. QED BY <2>1, <4>1, <4>2, <4>3 DEF IInv, Batches
    <3>. QED BY <3>1, <3>2
  <2>. QED BY <2>1, <1>u DEF Batches
<1>7. Apart'
  BY <1>w, <1>u DEF IInv, Apart, Working
<1>8. NoOverlapWithoutRace'
  <2>1. \A t \in 1..created : t \in Tasks
    BY DEF IInv, StateTypes, Tasks
  <2>. QED BY <2>1, <1>a, <1>u DEF IInv, NoOverlapWithoutRace
<1>. QED BY <1>1, <1>2, <1>3, <1>4, <1>5, <1>6, <1>7, <1>8 DEF IInv

\* A worker that goes on to acknowledge, stops or dies changes nothing else.
LEMMA LoopLeaves ==
  ASSUME IInv, NEW w \in Consumers, NEW l \in {"ack", "stopped", "gone"},
         l = "ack" => wpc[w] \in Working, Step(w, l),
         UNCHANGED <<rowVars, clientVars, redisVars, next, last>>
  PROVE  IInv'
<1>w. wpc' = [wpc EXCEPT ![w] = l] /\ wpc \in [Consumers -> WorkerStates]
  BY DEF Step, IInv, StateTypes
<1>u. UNCHANGED <<created, status, repoOf, aged, seen, rpc, rrepo, rtask,
                  rseen, group, stream, skipped, cursor, owner, next, last>>
  BY DEF rowVars, clientVars, redisVars
<1>v. \A v \in Consumers : /\ wpc'[v] \in Working => wpc[v] \in Working
                           /\ wpc'[v] = "run" => wpc[v] = "run"
                           /\ wpc'[v] = "start" => wpc[v] = "start"
  BY <1>w DEF Working
<1>1. StateTypes'
  <2>1. wpc' \in [Consumers -> WorkerStates]
    BY <1>w DEF WorkerStates
  <2>. QED BY <2>1, <1>u DEF IInv, StateTypes
<1>2. Rows' /\ Enqueuing' /\ Admitting' /\ Messages' /\ NoOverlapWithoutRace'
  BY <1>u DEF IInv, Rows, Enqueuing, Admitting, Messages, NoOverlapWithoutRace
<1>3. Batches' /\ Apart'
  BY <1>u, <1>v DEF IInv, Batches, Apart
<1>. QED BY <1>1, <1>2, <1>3 DEF IInv

\* Going on to the next message of the batch, whatever becomes of the PEL.
LEMMA Advances ==
  ASSUME IInv, NEW w \in Consumers, wpc[w] = "ack", Advance(w),
         owner' \in [Positions -> Consumers \cup {NoOne}],
         UNCHANGED <<rowVars, clientVars, group, stream, skipped, cursor>>
  PROVE  IInv'
<1>w. /\ wpc' = [wpc EXCEPT ![w] =
                   IF next[w] < last[w] THEN "start" ELSE "reading"]
      /\ wpc \in [Consumers -> WorkerStates] /\ wpc[w] \in Working
  BY DEF Step, Advance, IInv, StateTypes, Working
<1>n. /\ next' = [next EXCEPT ![w] = next[w] + 1]
      /\ next \in [Consumers -> 1..MaxTasks + 1]
      /\ last \in [Consumers -> 0..MaxTasks]
  BY DEF Advance, IInv, StateTypes
<1>u. UNCHANGED <<created, status, repoOf, aged, seen, rpc, rrepo, rtask,
                  rseen, group, stream, skipped, cursor, last>>
  BY DEF rowVars, clientVars, Advance
<1>l. next[w] <= last[w] /\ next[w] \in Nat /\ last[w] \in Nat
      /\ last[w] <= MaxTasks
  BY <1>w, <1>n, JobInHand
<1>o. \A v \in Consumers : v # w => wpc'[v] = wpc[v] /\ next'[v] = next[v]
  BY <1>w, <1>n
<1>1. StateTypes'
  <2>1. wpc' \in [Consumers -> WorkerStates]
    BY <1>w DEF WorkerStates
  <2>2. next' \in [Consumers -> 1..MaxTasks + 1]
    BY <1>n, <1>l
  <2>. QED BY <2>1, <2>2, <1>u DEF IInv, StateTypes
<1>2. Rows' /\ Enqueuing' /\ Admitting' /\ Messages' /\ NoOverlapWithoutRace'
  BY <1>u DEF IInv, Rows, Enqueuing, Admitting, Messages, NoOverlapWithoutRace
<1>3. wpc'[w] \in Working =>
        wpc'[w] = "start" /\ next'[w] = next[w] + 1 /\ next'[w] <= last[w]
  BY <1>w, <1>n, <1>l DEF Working
<1>4. Batches'
  <2>1. ASSUME NEW v \in Consumers, wpc'[v] \in Working
        PROVE  /\ next'[v] <= last[v]
               /\ \A p \in next'[v]..last[v] :
                    p > next'[v] \/ wpc'[v] = "start" =>
                      status[stream[p]] = "pending"
               /\ wpc'[v] = "run" => status[stream[next'[v]]] = "running"
    <3>1. CASE v = w
      <4>1. \A p \in next'[w]..last[w] : p \in next[w]..last[w] /\ p > next[w]
        BY <1>3, <1>l, <2>1, <3>1
      <4>. QED BY <1>3, <1>w, <2>1, <3>1, <4>1 DEF IInv, Batches
    <3>2. CASE v # w
      BY <1>o, <2>1, <3>2 DEF IInv, Batches
    <3>. QED BY <3>1, <3>2
  <2>. QED BY <2>1, <1>u DEF Batches
<1>5. Apart'
  <2>1. ASSUME NEW v \in Consumers, NEW x \in Consumers, v # x,
               wpc'[v] \in Working, wpc'[x] \in Working
        PROVE  last[v] < next'[x] \/ last[x] < next'[v]
    <3>1. wpc[v] \in Working /\ wpc[x] \in Working
      BY <1>w, <1>o, <2>1
    <3>2. last[v] < next[x] \/ last[x] < next[v]
      BY <2>1, <3>1 DEF IInv, Apart
    <3>3. next'[x] >= next[x] /\ next'[v] >= next[v]
      BY <1>n, <1>l
    <3>4. next'[x] \in Nat /\ next'[v] \in Nat
      BY <1>n, <1>l
    <3>. QED BY <3>2, <3>3, <3>4, <1>n
  <2>. QED BY <2>1, <1>u DEF Apart
<1>. QED BY <1>1, <1>2, <1>4, <1>5 DEF IInv

\* A row is inserted, with the request's own view of the older rows.
LEMMA Inserts ==
  ASSUME IInv, NEW c \in Clients, rpc[c] = "create", InsertTask(c),
         NEW l \in {"enqueue", "error"}, Goto(c, l),
         UNCHANGED <<rrepo, rseen, redisVars, workerVars>>
  PROVE  IInv'
<1> DEFINE n == created + 1
<1>n. /\ created \in Nat /\ n \in Tasks /\ created' = n /\ n \in Nat
      /\ \A t \in 1..created : t \in Tasks /\ t # n
      /\ rseen \in [Clients -> 0..MaxTasks] /\ MaxTasks \in Nat
  BY DEF InsertTask, IInv, StateTypes, Tasks
<1>u. UNCHANGED <<aged, rrepo, rseen, group, stream, skipped, cursor, owner,
                  wpc, next, last>>
  BY DEF InsertTask, redisVars, workerVars
<1>p. rpc' = [rpc EXCEPT ![c] = l] /\ rpc \in [Clients -> ReqStates]
  BY DEF Goto, IInv, StateTypes
<1>k. rtask' = [rtask EXCEPT ![c] = n] /\ rtask \in [Clients -> 0..MaxTasks]
  BY <1>n DEF InsertTask, IInv, StateTypes
<1>s. /\ status' = [status EXCEPT ![n] = "pending"]
      /\ repoOf' = [repoOf EXCEPT ![n] = rrepo[c]]
      /\ seen' = [seen EXCEPT ![n] = rseen[c]]
      /\ status \in [Tasks -> Statuses]
      /\ repoOf \in [Tasks -> Repos \cup {NoRepo}]
      /\ seen \in [Tasks -> 0..MaxTasks]
  BY <1>n DEF InsertTask, IInv, StateTypes
<1>o. \A t \in 1..created : /\ status'[t] = status[t]
                            /\ repoOf'[t] = repoOf[t] /\ seen'[t] = seen[t]
  BY <1>n, <1>s
<1>m. \A p \in 1..Len(stream) : stream[p] \in 1..created
  <2>1. ASSUME NEW p \in 1..Len(stream) PROVE stream[p] \in 1..created
    <3>1. stream[p] \in Tasks /\ stream[p] <= created
      BY MessageIsTask DEF IInv, Messages
    <3>. QED BY <3>1, <1>n DEF Tasks
  <2>. QED BY <2>1
<1>1. StateTypes'
  <2>1. created' \in 0..MaxTasks /\ aged' \in 0..created'
    BY <1>n, <1>u DEF IInv, StateTypes, Tasks
  <2>2. /\ status' \in [Tasks -> Statuses]
        /\ repoOf' \in [Tasks -> Repos \cup {NoRepo}]
        /\ seen' \in [Tasks -> 0..MaxTasks]
    BY <1>n, <1>s DEF IInv, StateTypes, Statuses, Active
  <2>3. rpc' \in [Clients -> ReqStates] /\ rtask' \in [Clients -> 0..MaxTasks]
    BY <1>n, <1>p, <1>k DEF ReqStates, Tasks
  <2>. QED BY <2>1, <2>2, <2>3, <1>u DEF IInv, StateTypes
<1>2. Rows'
  <2>1. ASSUME NEW t \in Tasks PROVE t > n <=> status'[t] = "none"
    <3>1. CASE t = n
      BY <3>1, <1>n, <1>s
    <3>2. CASE t # n
      BY <3>2, <1>n, <1>s DEF IInv, Rows, Tasks
    <3>. QED BY <3>1, <3>2
  <2>. QED BY <2>1, <1>n DEF Rows
<1>3. Enqueuing'
  <2>1. \A d \in Clients : d # c => rpc'[d] = rpc[d] /\ rtask'[d] = rtask[d]
    BY <1>p, <1>k
  <2>2. rtask'[c] = n /\ status'[n] = "pending" /\ n \in 1..created'
    BY <1>k, <1>s, <1>n
  <2>3. \A p \in 1..Len(stream) : stream[p] # n
    BY <1>m, <1>n
  <2>4. \A d \in Clients : d # c /\ rpc'[d] = "enqueue" =>
          rtask[d] \in 1..created /\ rtask[d] # n
    BY <2>1, <1>n DEF IInv, Enqueuing
  <2>5. 1..created \subseteq 1..created'
    BY <1>n
  <2>6. ASSUME NEW d \in Clients, rpc'[d] = "enqueue"
        PROVE  /\ rtask'[d] \in 1..created'
               /\ status'[rtask'[d]] = "pending"
               /\ \A p \in 1..Len(stream) : stream[p] # rtask'[d]
    <3>1. CASE d = c
      BY <3>1, <2>2, <2>3
    <3>2. CASE d # c
      BY <3>2, <2>6, <2>1, <2>4, <2>5, <1>o DEF IInv, Enqueuing
    <3>. QED BY <3>1, <3>2
  <2>7. ASSUME NEW d \in Clients, NEW e \in Clients, d # e,
               rpc'[d] = "enqueue", rpc'[e] = "enqueue"
        PROVE  rtask'[d] # rtask'[e]
    BY <2>7, <2>1, <2>2, <2>4 DEF IInv, Enqueuing
  <2>. QED BY <2>6, <2>7, <1>u DEF Enqueuing
<1>4. Admitting'
  <2>1. ASSUME NEW d \in Clients
        PROVE  /\ rseen[d] <= n
               /\ rpc'[d] = "create" =>
                    \A t \in 1..rseen[d] :
                      repoOf'[t] = rrepo[d] /\ status'[t] \in Active => t <= aged
    <3>1. rseen[d] <= created /\ rseen[d] \in Nat
      BY <1>n DEF IInv, Admitting
    <3>2. \A t \in 1..rseen[d] : t \in 1..created
      BY <3>1, <1>n
    <3>3. rpc'[d] = "create" => rpc[d] = "create"
      BY <1>p
    <3>. QED BY <3>1, <3>2, <3>3, <1>n, <1>o DEF IInv, Admitting
  <2>. QED BY <2>1, <1>n, <1>u DEF Admitting
<1>5. Messages'
  BY <1>m, <1>o, <1>n, <1>u DEF IInv, Messages
<1>6. Batches'
  <2>1. ASSUME NEW w \in Consumers, wpc[w] \in Working, NEW p \in next[w]..last[w]
        PROVE  status'[stream[p]] = status[stream[p]]
    <3>1. p \in 1..Len(stream)
      BY <2>1, JobInHand DEF IInv, StateTypes
    <3>. QED BY <3>1, <1>m, <1>o
  <2>2. \A w \in Consumers : wpc[w] \in Working =>
          next[w] <= last[w] /\ next[w] \in next[w]..last[w]
    BY JobInHand DEF IInv, StateTypes
  <2>. QED BY <2>1, <2>2, <1>u DEF IInv, Batches
<1>7. Apart'
  BY <1>u DEF IInv, Apart
<1>8. NoOverlapWithoutRace'
  <2>1. ASSUME NEW t \in 1..n, NEW u \in 1..n, t < u,
               repoOf'[t] = repoOf'[u], status'[t] \in Active, t > aged
        PROVE  t > seen'[u]
    <3>0. t \in 1..created
      BY <2>1, <1>n
    <3>1. CASE u = n
      <4>1. seen'[u] = rseen[c] /\ repoOf'[u] = rrepo[c] /\ rseen[c] \in Nat
        BY <3>1, <1>n, <1>s
      <4>2. ~(t \in 1..rseen[c])
        BY <2>1, <3>0, <4>1, <1>o DEF IInv, Admitting, StateTypes
      <4>. QED BY <3>0, <4>1, <4>2, <1>n
    <3>2. CASE u # n
      <4>1. u \in 1..created
        BY <3>2, <1>n
      <4>. QED BY <2>1, <3>0, <4>1, <1>o DEF IInv, NoOverlapWithoutRace
    <3>. QED BY <3>1, <3>2
  <2>. QED BY <2>1, <1>n, <1>u DEF NoOverlapWithoutRace
<1>. QED BY <1>1, <1>2, <1>3, <1>4, <1>5, <1>6, <1>7, <1>8 DEF IInv

\* One message per task, so the stream is no longer than the table.
LEMMA RoomInStream ==
  ASSUME IInv, NEW c \in Clients, rpc[c] = "enqueue"
  PROVE  Len(stream) + 1 <= MaxTasks
<1> DEFINE D == 1..Len(stream) + 1
           f == [p \in D |-> IF p <= Len(stream) THEN stream[p] ELSE rtask[c]]
<1>1. Len(stream) \in Nat /\ created \in Nat /\ created <= MaxTasks
  BY DEF IInv, StateTypes
<1>2. \A p \in 1..Len(stream) : stream[p] \in Tasks /\ stream[p] # rtask[c]
  BY MessageIsTask DEF IInv, Enqueuing
<1>3. rtask[c] \in Tasks
  BY <1>1 DEF IInv, Enqueuing, Tasks
<1>4. f \in [D -> Tasks]
  BY <1>1, <1>2, <1>3
<1>5. ASSUME NEW p \in D, NEW q \in D, f[p] = f[q] PROVE p = q
  <2>1. CASE p <= Len(stream) /\ q <= Len(stream)
    <3>1. p \in 1..Len(stream) /\ q \in 1..Len(stream) /\ stream[p] = stream[q]
      BY <2>1, <1>5, <1>1
    <3>. QED BY <3>1 DEF IInv, Messages
  <2>2. CASE p <= Len(stream) /\ ~(q <= Len(stream))
    BY <2>2, <1>1, <1>2, <1>5
  <2>3. CASE ~(p <= Len(stream)) /\ q <= Len(stream)
    BY <2>3, <1>1, <1>2, <1>5
  <2>4. CASE ~(p <= Len(stream)) /\ ~(q <= Len(stream))
    BY <2>4, <1>1
  <2>. QED BY <2>1, <2>2, <2>3, <2>4
<1>6. f \in Injection(D, Tasks)
  BY <1>4, <1>5 DEF Injection, IsInjective
<1>7. IsFiniteSet(Tasks) /\ Cardinality(Tasks) = MaxTasks
  BY FS_Interval DEF Tasks
<1>8. Cardinality(D) = Len(stream) + 1
  BY <1>1, FS_Interval
<1>9. Cardinality(D) <= Cardinality(Tasks)
  BY <1>6, <1>7, FS_Injection
<1>. QED BY <1>7, <1>8, <1>9

\* A message is added for the task of the request.
LEMMA Appends ==
  ASSUME IInv, NEW c \in Clients, rpc[c] = "enqueue", XAdd(rtask[c]),
         NEW l \in {"accepted", "error"}, Goto(c, l),
         UNCHANGED <<rowVars, rrepo, rtask, rseen, group, skipped, cursor,
                     owner, workerVars>>
  PROVE  IInv'
<1> DEFINE n == Len(stream) + 1
<1>t. /\ rtask[c] \in Tasks /\ rtask[c] \in 1..created
      /\ status[rtask[c]] = "pending" /\ created \in Nat
      /\ \A p \in 1..Len(stream) : stream[p] # rtask[c]
  BY DEF IInv, Enqueuing, StateTypes, Tasks
<1>q. stream \in Seq(Tasks) /\ Len(stream) \in Nat
  BY DEF IInv, StateTypes
<1>s. /\ stream' \in Seq(Tasks) /\ Len(stream') = n
      /\ \A p \in 1..Len(stream) : stream'[p] = stream[p]
      /\ stream'[n] = rtask[c]
      /\ \A p \in 1..n : p \in 1..Len(stream) \/ p = n
      /\ \A p \in 1..Len(stream) : p # n /\ p \in 1..n
  BY <1>q, <1>t DEF XAdd
<1>u. UNCHANGED <<created, status, repoOf, aged, seen, rrepo, rtask, rseen,
                  group, skipped, cursor, owner, wpc, next, last>>
  BY DEF rowVars, workerVars
<1>p. rpc' = [rpc EXCEPT ![c] = l] /\ rpc \in [Clients -> ReqStates]
  BY DEF Goto, IInv, StateTypes
<1>1. StateTypes'
  <2>1. rpc' \in [Clients -> ReqStates]
    BY <1>p DEF ReqStates
  <2>2. Len(stream') <= MaxTasks
    BY <1>s, RoomInStream
  <2>3. cursor \in 0..Len(stream')
    BY <1>s, <1>q DEF IInv, StateTypes
  <2>. QED BY <2>1, <2>2, <2>3, <1>s, <1>u DEF IInv, StateTypes
<1>2. Rows' /\ NoOverlapWithoutRace' /\ Apart'
  BY <1>u DEF IInv, Rows, NoOverlapWithoutRace, Apart
<1>3. Enqueuing'
  <2>1. \A d \in Clients : rpc'[d] = "enqueue" => d # c /\ rpc[d] = "enqueue"
    BY <1>p
  <2>2. \A d \in Clients : rpc'[d] = "enqueue" =>
          \A p \in 1..n : stream'[p] # rtask[d]
    BY <2>1, <1>s DEF IInv, Enqueuing
  <2>. QED BY <2>1, <2>2, <1>s, <1>u DEF IInv, Enqueuing
<1>4. Admitting'
  BY <1>p, <1>u DEF IInv, Admitting
<1>5. Messages'
  <2>1. \A p \in 1..n : stream'[p] <= created
    BY <1>s, <1>t DEF IInv, Messages
  <2>2. \A p, r \in 1..n : p # r => stream'[p] # stream'[r]
    BY <1>s, <1>t DEF IInv, Messages
  <2>3. \A p \in 1..n : p > cursor => status[stream'[p]] = "pending"
    BY <1>s, <1>t DEF IInv, Messages
  <2>. QED BY <2>1, <2>2, <2>3, <1>s, <1>u DEF Messages
<1>6. Batches'
  <2>1. ASSUME NEW w \in Consumers, wpc[w] \in Working, NEW p \in next[w]..last[w]
        PROVE  stream'[p] = stream[p]
    <3>1. p \in 1..Len(stream)
      BY <2>1, JobInHand DEF IInv, StateTypes
    <3>. QED BY <3>1, <1>s
  <2>2. \A w \in Consumers : wpc[w] \in Working =>
          next[w] <= last[w] /\ next[w] \in next[w]..last[w]
    BY JobInHand DEF IInv, StateTypes
  <2>. QED BY <2>1, <2>2, <1>u DEF IInv, Batches
<1>. QED BY <1>1, <1>2, <1>3, <1>4, <1>5, <1>6 DEF IInv

-----------------------------------------------------------------------------
(* The actions.                                                              *)

\* Steps of a request that write nothing.
LEMMA RequestInv ==
  ASSUME IInv, NEW c \in Clients, NEW r \in Repos, Request(c, r)
  PROVE  IInv'
<1>u. UNCHANGED <<rowVars, rtask, rseen, redisVars, workerVars>>
  BY DEF Request, taskVars
<1>p. /\ rpc' = [rpc EXCEPT ![c] = "check"] /\ rpc \in [Clients -> ReqStates]
      /\ rrepo' = [rrepo EXCEPT ![c] = r]
  BY DEF Request, Goto, IInv, StateTypes
<1>1. StateTypes'
  <2>1. rpc' \in [Clients -> ReqStates]
    BY <1>p DEF ReqStates
  <2>. QED BY <2>1, <1>p, <1>u
           DEF IInv, StateTypes, rowVars, redisVars, workerVars
<1>2. Enqueuing' /\ Admitting'
  BY <1>p, <1>u DEF IInv, StateTypes, Enqueuing, Admitting, rowVars, redisVars
<1>3. Rows' /\ Messages' /\ Batches' /\ Apart' /\ NoOverlapWithoutRace'
  BY <1>u DEF IInv, Rows, Messages, Batches, Apart, NoOverlapWithoutRace,
              rowVars, redisVars, workerVars
<1>. QED BY <1>1, <1>2, <1>3 DEF IInv

LEMMA CheckActiveInv ==
  ASSUME IInv, NEW c \in Clients, CheckActive(c)
  PROVE  IInv'
<1> DEFINE l == IF GetActiveTask(rrepo[c]) = {} THEN "create" ELSE "conflict"
<1>u. UNCHANGED <<rowVars, rrepo, rtask, redisVars, workerVars>>
  BY DEF CheckActive, taskVars
<1>p. /\ rpc' = [rpc EXCEPT ![c] = l] /\ rpc \in [Clients -> ReqStates]
      /\ rseen' = [rseen EXCEPT ![c] = created]
      /\ rseen \in [Clients -> 0..MaxTasks] /\ created \in 0..MaxTasks
  BY DEF CheckActive, Goto, IInv, StateTypes
<1>1. StateTypes'
  <2>1. rpc' \in [Clients -> ReqStates] /\ rseen' \in [Clients -> 0..MaxTasks]
    BY <1>p DEF ReqStates
  <2>. QED BY <2>1, <1>u DEF IInv, StateTypes, rowVars, redisVars, workerVars
<1>2. Enqueuing'
  BY <1>p, <1>u DEF IInv, Enqueuing, rowVars, redisVars
<1>3. Admitting'
  <2>1. ASSUME l = "create", NEW t \in 1..created,
               repoOf[t] = rrepo[c], status[t] \in Active
        PROVE  t <= aged
    <3>1. t \notin GetActiveTask(rrepo[c])
      BY <2>1
    <3>2. ~(t > aged)
      BY <2>1, <3>1 DEF GetActiveTask, TasksOf
    <3>. QED BY <3>2, <1>p DEF IInv, StateTypes
  <2>2. ASSUME NEW d \in Clients
        PROVE  /\ rseen'[d] <= created
               /\ rpc'[d] = "create" =>
                    \A t \in 1..rseen'[d] :
                      repoOf[t] = rrepo[d] /\ status[t] \in Active => t <= aged
    <3>1. CASE d = c
      BY <3>1, <2>1, <1>p
    <3>2. CASE d # c
      BY <3>2, <1>p DEF IInv, Admitting
    <3>. QED BY <3>1, <3>2
  <2>. QED BY <2>2, <1>u DEF Admitting, rowVars
<1>4. Rows' /\ Messages' /\ Batches' /\ Apart' /\ NoOverlapWithoutRace'
  BY <1>u DEF IInv, Rows, Messages, Batches, Apart, NoOverlapWithoutRace,
              rowVars, redisVars, workerVars
<1>. QED BY <1>1, <1>2, <1>3, <1>4 DEF IInv

\* A request gives up: Abort, and an INSERT that is refused.
LEMMA GivesUp ==
  ASSUME IInv, NEW c \in Clients, Goto(c, "error"),
         UNCHANGED <<rowVars, rrepo, rtask, rseen, redisVars, workerVars>>
  PROVE  IInv'
<1>p. rpc' = [rpc EXCEPT ![c] = "error"] /\ rpc \in [Clients -> ReqStates]
  BY DEF Goto, IInv, StateTypes
<1>1. StateTypes'
  <2>1. rpc' \in [Clients -> ReqStates]
    BY <1>p DEF ReqStates
  <2>. QED BY <2>1 DEF IInv, StateTypes, rowVars, redisVars, workerVars
<1>2. Enqueuing' /\ Admitting'
  BY <1>p DEF IInv, Enqueuing, Admitting, rowVars, redisVars
<1>3. Rows' /\ Messages' /\ Batches' /\ Apart' /\ NoOverlapWithoutRace'
  BY DEF IInv, Rows, Messages, Batches, Apart, NoOverlapWithoutRace,
         rowVars, redisVars, workerVars
<1>. QED BY <1>1, <1>2, <1>3 DEF IInv

\* The statement did nothing, and the request goes to error.
LEMMA EnqueueRefused ==
  ASSUME IInv, NEW c \in Clients, EnqueueFails(c), UNCHANGED stream
  PROVE  IInv'
<1>1. Goto(c, "error")
  BY DEF EnqueueFails
<1>2. UNCHANGED <<rowVars, rrepo, rtask, rseen, redisVars, workerVars>>
  BY DEF EnqueueFails, redisVars, taskVars
<1>. QED BY <1>1, <1>2, GivesUp

LEMMA AgeInv == ASSUME IInv, Age PROVE IInv'
<1>u. UNCHANGED <<created, status, repoOf, seen, clientVars, redisVars,
                  workerVars>>
  BY DEF Age
<1>a. aged \in Nat /\ created \in Nat /\ aged' = aged + 1 /\ aged' \in 0..created
  BY DEF Age, IInv, StateTypes
<1>1. StateTypes'
  BY <1>u, <1>a DEF IInv, StateTypes, clientVars, redisVars, workerVars
<1>2. Rows' /\ Enqueuing' /\ Messages' /\ Batches' /\ Apart'
  BY <1>u DEF IInv, Rows, Enqueuing, Messages, Batches, Apart,
              clientVars, redisVars, workerVars
<1>3. Admitting'
  <2>1. \A c \in Clients : rseen[c] \in Nat
    BY DEF IInv, StateTypes
  <2>. QED BY <2>1, <1>u, <1>a DEF IInv, Admitting, clientVars
<1>4. NoOverlapWithoutRace'
  BY <1>u, <1>a DEF IInv, NoOverlapWithoutRace
<1>. QED BY <1>1, <1>2, <1>3, <1>4 DEF IInv

LEMMA StartWorkerInv ==
  ASSUME IInv, NEW w \in Consumers, StartWorker(w)
  PROVE  IInv'
<1>u. UNCHANGED <<rowVars, clientVars, stream, owner, next, last>>
  BY DEF StartWorker, taskVars
<1>w. wpc' = [wpc EXCEPT ![w] = "reading"] /\ wpc \in [Consumers -> WorkerStates]
  BY DEF StartWorker, Step, IInv, StateTypes
<1>c. /\ cursor' \in 0..Len(stream) /\ cursor' >= cursor
      /\ skipped' \in 0..cursor' /\ group' = TRUE
      /\ cursor \in Nat /\ cursor' \in Nat
  BY DEF StartWorker, IInv, StateTypes
<1>v. \A v \in Consumers : /\ wpc'[v] \in Working => wpc[v] \in Working
                           /\ wpc'[v] = "run" => wpc[v] = "run"
                           /\ wpc'[v] = "start" => wpc[v] = "start"
  BY <1>w DEF Working
<1>1. StateTypes'
  <2>1. wpc' \in [Consumers -> WorkerStates]
    BY <1>w DEF WorkerStates
  <2>2. \A v \in Consumers : last[v] <= cursor'
    BY <1>c DEF IInv, StateTypes
  <2>. QED BY <2>1, <2>2, <1>u, <1>c DEF IInv, StateTypes, rowVars, clientVars
<1>2. Rows' /\ Enqueuing' /\ Admitting' /\ NoOverlapWithoutRace'
  BY <1>u DEF IInv, Rows, Enqueuing, Admitting, NoOverlapWithoutRace,
              rowVars, clientVars
<1>3. Messages'
  BY <1>u, <1>c DEF IInv, Messages, rowVars
<1>4. Batches' /\ Apart'
  BY <1>u, <1>v DEF IInv, Batches, Apart, rowVars
<1>. QED BY <1>1, <1>2, <1>3, <1>4 DEF IInv

\* What XREADGROUP hands over: a non-empty stretch right after the cursor.
LEMMA Delivered ==
  ASSUME StateTypes, NEW w \in Consumers, Deliver(w)
  PROVE  /\ cursor \in Nat /\ cursor' \in Nat
         /\ cursor + 1 <= cursor' /\ cursor' <= Len(stream)
         /\ owner' \in [Positions -> Consumers \cup {NoOne}]
<1>1. cursor \in Nat /\ Len(stream) \in Nat /\ cursor < Len(stream)
  BY DEF Deliver, StateTypes
<1>2. cursor' = cursor + (IF Len(stream) - cursor < BatchSize
                          THEN Len(stream) - cursor ELSE BatchSize)
  BY DEF Deliver
<1>3. owner \in [Positions -> Consumers \cup {NoOne}]
  BY DEF StateTypes
<1>4. owner' \in [Positions -> Consumers \cup {NoOne}]
  BY <1>3 DEF Deliver
<1>. QED BY <1>1, <1>2, <1>4

LEMMA XReadGroupInv ==
  ASSUME IInv, NEW w \in Consumers, XReadGroup(w)
  PROVE  IInv'
<1>u. UNCHANGED <<rowVars, clientVars, group, stream, skipped>>
  BY DEF XReadGroup, taskVars
<1>w. /\ wpc' = [wpc EXCEPT ![w] = "start"]
      /\ wpc \in [Consumers -> WorkerStates] /\ wpc[w] = "reading"
  BY DEF XReadGroup, Step, IInv, StateTypes
<1>d. /\ cursor \in Nat /\ cursor' \in Nat
      /\ cursor + 1 <= cursor' /\ cursor' <= Len(stream)
      /\ owner' \in [Positions -> Consumers \cup {NoOne}]
  BY Delivered DEF XReadGroup, IInv
<1>l. Len(stream) \in Nat /\ Len(stream) <= MaxTasks
  BY DEF IInv, StateTypes
<1>n. /\ next' = [next EXCEPT ![w] = cursor + 1]
      /\ last' = [last EXCEPT ![w] = cursor']
      /\ next \in [Consumers -> 1..MaxTasks + 1]
      /\ last \in [Consumers -> 0..MaxTasks]
      /\ \A v \in Consumers : last[v] <= cursor
  BY DEF XReadGroup, IInv, StateTypes
<1>o. \A v \in Consumers : v # w =>
        wpc'[v] = wpc[v] /\ next'[v] = next[v] /\ last'[v] = last[v]
  BY <1>w, <1>n
<1>m. next'[w] = cursor + 1 /\ last'[w] = cursor' /\ wpc'[w] = "start"
  BY <1>w, <1>n
<1>1. StateTypes'
  <2>1. wpc' \in [Consumers -> WorkerStates]
    BY <1>w DEF WorkerStates
  <2>2. next' \in [Consumers -> 1..MaxTasks + 1] /\ last' \in [Consumers -> 0..MaxTasks]
    BY <1>n, <1>d, <1>l
  <2>3. \A v \in Consumers : last'[v] <= cursor'
    BY <1>n, <1>d
  <2>4. cursor' \in 0..Len(stream) /\ skipped \in 0..cursor'
    BY <1>d, <1>l DEF IInv, StateTypes
  <2>. QED BY <2>1, <2>2, <2>3, <2>4, <1>u, <1>d
           DEF IInv, StateTypes, rowVars, clientVars
<1>2. Rows' /\ Enqueuing' /\ Admitting' /\ NoOverlapWithoutRace'
  BY <1>u DEF IInv, Rows, Enqueuing, Admitting, NoOverlapWithoutRace,
              rowVars, clientVars
<1>3. Messages'
  BY <1>u, <1>d DEF IInv, Messages, rowVars
<1>4. Batches'
  <2>1. ASSUME NEW v \in Consumers, wpc'[v] \in Working
        PROVE  /\ next'[v] <= last'[v]
               /\ \A p \in next'[v]..last'[v] :
                    p > next'[v] \/ wpc'[v] = "start" =>
                      status[stream[p]] = "pending"
               /\ wpc'[v] = "run" => status[stream[next'[v]]] = "running"
    <3>1. CASE v = w
      <4>1. \A p \in cursor + 1..cursor' : p \in 1..Len(stream) /\ p > cursor
        BY <1>d, <1>l
      <4>. QED BY <3>1, <4>1, <1>m, <1>d DEF IInv, Messages
    <3>2. CASE v # w
      BY <1>o, <2>1, <3>2 DEF IInv, Batches
    <3>. QED BY <3>1, <3>2
  <2>. QED BY <2>1, <1>u DEF Batches, rowVars
<1>5. Apart'
  <2>1. \A v \in Consumers : last[v] < next'[w]
    BY <1>m, <1>n, <1>d
  <2>. QED BY <2>1, <1>o DEF IInv, Apart
<1>. QED BY <1>1, <1>2, <1>3, <1>4, <1>5 DEF IInv

LEMMA XReadGroupFailsInv ==
  ASSUME IInv, NEW w \in Consumers, XReadGroupFails(w)
  PROVE  IInv'
<1>s. Step(w, "stopped")
  BY DEF XReadGroupFails
<1>1. CASE UNCHANGED <<cursor, owner>>
  <2>1. UNCHANGED <<rowVars, clientVars, redisVars, next, last>>
    BY <1>1 DEF XReadGroupFails, redisVars, taskVars
  <2>. QED BY <1>s, <2>1, LoopLeaves
<1>2. CASE Deliver(w)
  <2>u. UNCHANGED <<rowVars, clientVars, group, stream, skipped, next, last>>
    BY DEF XReadGroupFails, taskVars
  <2>w. wpc' = [wpc EXCEPT ![w] = "stopped"] /\ wpc \in [Consumers -> WorkerStates]
    BY <1>s DEF Step, IInv, StateTypes
  <2>d. /\ cursor \in Nat /\ cursor' \in Nat
        /\ cursor + 1 <= cursor' /\ cursor' <= Len(stream)
        /\ owner' \in [Positions -> Consumers \cup {NoOne}]
    BY <1>2, Delivered DEF IInv
  <2>v. \A v \in Consumers : /\ wpc'[v] \in Working => wpc[v] \in Working
                             /\ wpc'[v] = "run" => wpc[v] = "run"
                             /\ wpc'[v] = "start" => wpc[v] = "start"
    BY <2>w DEF Working
  <2>1. StateTypes'
    <3>1. wpc' \in [Consumers -> WorkerStates]
      BY <2>w DEF WorkerStates
    <3>2. \A v \in Consumers : last[v] <= cursor'
      BY <2>d DEF IInv, StateTypes
    <3>3. cursor' \in 0..Len(stream) /\ skipped \in 0..cursor'
      BY <2>d DEF IInv, StateTypes
    <3>. QED BY <3>1, <3>2, <3>3, <2>u, <2>d
             DEF IInv, StateTypes, rowVars, clientVars
  <2>2. Rows' /\ Enqueuing' /\ Admitting' /\ NoOverlapWithoutRace'
    BY <2>u DEF IInv, Rows, Enqueuing, Admitting, NoOverlapWithoutRace,
                rowVars, clientVars
  <2>3. Messages'
    BY <2>u, <2>d DEF IInv, Messages, rowVars
  <2>4. Batches' /\ Apart'
    BY <2>u, <2>v DEF IInv, Batches, Apart, rowVars
  <2>. QED BY <2>1, <2>2, <2>3, <2>4 DEF IInv
<1>. QED BY <1>1, <1>2 DEF XReadGroupFails

LEMMA XAutoClaimInv ==
  ASSUME IInv, NEW w \in Consumers, XAutoClaim(w)
  PROVE  IInv'
<1>1. owner' \in [Positions -> Consumers \cup {NoOne}]
  BY DEF XAutoClaim, IInv, StateTypes
<1>2. UNCHANGED <<rowVars, clientVars, group, stream, skipped, cursor,
                  workerVars>>
  BY DEF XAutoClaim, taskVars
<1>3. StateTypes'
  BY <1>1, <1>2 DEF IInv, StateTypes, rowVars, clientVars, workerVars
<1>4. Rows' /\ Enqueuing' /\ Admitting' /\ Messages' /\ Batches' /\ Apart'
      /\ NoOverlapWithoutRace'
  BY <1>2 DEF IInv, Rows, Enqueuing, Admitting, Messages, Batches, Apart,
              NoOverlapWithoutRace, rowVars, clientVars, workerVars
<1>. QED BY <1>3, <1>4 DEF IInv

-----------------------------------------------------------------------------
(* The invariant is inductive.                                               *)

LEMMA InitIInv == Init => IInv
<1> SUFFICES ASSUME Init PROVE IInv
  OBVIOUS
<1>1. StateTypes
  <2>1. stream \in Seq(Tasks) /\ Len(stream) = 0
    BY DEF Init
  <2>2. /\ status \in [Tasks -> Statuses]
        /\ repoOf \in [Tasks -> Repos \cup {NoRepo}]
        /\ seen \in [Tasks -> 0..MaxTasks]
    BY DEF Init, Statuses
  <2>3. /\ rpc \in [Clients -> ReqStates]
        /\ rrepo \in [Clients -> Repos \cup {NoRepo}]
        /\ rtask \in [Clients -> 0..MaxTasks]
        /\ rseen \in [Clients -> 0..MaxTasks]
    BY DEF Init, ReqStates
  <2>4. /\ owner \in [Positions -> Consumers \cup {NoOne}]
        /\ wpc \in [Consumers -> WorkerStates]
        /\ next \in [Consumers -> 1..MaxTasks + 1]
        /\ last \in [Consumers -> 0..MaxTasks]
        /\ \A w \in Consumers : last[w] <= cursor
    BY DEF Init, WorkerStates
  <2>5. /\ created \in 0..MaxTasks /\ aged \in 0..created /\ group \in BOOLEAN
        /\ cursor \in 0..Len(stream) /\ skipped \in 0..cursor
        /\ Len(stream) <= MaxTasks
    <3>1. created = 0 /\ aged = 0 /\ group = FALSE /\ cursor = 0 /\ skipped = 0
      BY DEF Init
    <3>2. group \in BOOLEAN
      BY <3>1, Zenon
    <3>3. MaxTasks \in Nat
      BY IndexQueueAssumption
    <3>4. /\ created \in 0..MaxTasks /\ aged \in 0..created
          /\ cursor \in 0..Len(stream) /\ skipped \in 0..cursor
          /\ Len(stream) <= MaxTasks
      BY <3>1, <3>3, <2>1
    <3>. QED BY <3>2, <3>4
  <2>. QED BY <2>1, <2>2, <2>3, <2>4, <2>5 DEF StateTypes
<1>2. Rows /\ Enqueuing /\ Admitting /\ NoOverlapWithoutRace
  BY DEF Init, Rows, Enqueuing, Admitting, NoOverlapWithoutRace, Tasks
<1>3. Messages /\ Batches /\ Apart
  BY DEF Init, Messages, Batches, Apart, Working
<1>. QED BY <1>1, <1>2, <1>3 DEF IInv

LEMMA ClientStepInv ==
  ASSUME NoRetry, IInv, NEW c \in Clients, ClientStep(c) PROVE IInv'
<1>1. CASE CheckActive(c)
  BY <1>1, CheckActiveInv
<1>2. CASE CreateTask(c)
  BY <1>2, Inserts DEF CreateTask
<1>3. CASE CreateTaskFails(c)
  <2>1. CASE InsertTask(c)
    BY <1>3, <2>1, Inserts DEF CreateTaskFails
  <2>2. CASE UNCHANGED <<taskVars, rtask>>
    <3>1. UNCHANGED <<rowVars, rrepo, rtask, rseen, redisVars, workerVars>>
      BY <1>3, <2>2 DEF CreateTaskFails, taskVars
    <3>. QED BY <1>3, <3>1, GivesUp DEF CreateTaskFails
  <2>. QED BY <1>3, <2>1, <2>2 DEF CreateTaskFails
<1>4. CASE EnqueueIndexJob(c)
  BY <1>4, Appends DEF EnqueueIndexJob, taskVars
<1>5. CASE EnqueueFails(c)
  <2>1. CASE XAdd(rtask[c])
    BY <1>5, <2>1, Appends DEF EnqueueFails
  <2>2. CASE UNCHANGED stream
    BY <1>5, <2>2, EnqueueRefused
  <2>. QED BY <1>5, <2>1, <2>2 DEF EnqueueFails
<1>6. ~EnqueueRetried(c)
  BY DEF EnqueueRetried, NoRetry
<1>. QED BY <1>1, <1>2, <1>3, <1>4, <1>5, <1>6 DEF ClientStep

LEMMA WorkerStepInv ==
  ASSUME NoRetry, IInv, NEW w \in Consumers, WorkerStep(w) PROVE IInv'
<1>1. CASE XReadGroup(w)
  BY <1>1, XReadGroupInv
<1>2. CASE XReadGroupFails(w)
  BY <1>2, XReadGroupFailsInv
<1>3. CASE UpdateTaskStarted(w)
  BY <1>3, StatusMoves DEF UpdateTaskStarted
<1>4. CASE UpdateTaskStartedFails(w)
  <2>1. CASE SetStatus(Job(w), "running")
    BY <1>4, <2>1, StatusMoves DEF UpdateTaskStartedFails
  <2>2. CASE UNCHANGED rowVars
    <3>1. UNCHANGED <<rowVars, clientVars, redisVars, next, last>>
      BY <1>4, <2>2 DEF UpdateTaskStartedFails, taskVars
    <3>. QED BY <1>4, <3>1, LoopLeaves DEF UpdateTaskStartedFails, Working
  <2>. QED BY <1>4, <2>1, <2>2 DEF UpdateTaskStartedFails
<1>5. CASE UpdateTaskStatus(w)
  <2>1. PICK s \in Terminal : SetStatus(Job(w), s)
    BY <1>5 DEF UpdateTaskStatus
  <2>. QED BY <1>5, <2>1, StatusMoves DEF UpdateTaskStatus
<1>6. CASE UpdateTaskStatusFails(w)
  BY <1>6, LoopLeaves DEF UpdateTaskStatusFails, Working
<1>7. CASE XAck(w)
  <2>1. owner' \in [Positions -> Consumers \cup {NoOne}]
    BY <1>7 DEF XAck, IInv, StateTypes
  <2>. QED BY <1>7, <2>1, Advances DEF XAck, taskVars
<1>8. CASE XAckFails(w)
  <2>1. owner' \in [Positions -> Consumers \cup {NoOne}]
    BY <1>8 DEF XAckFails, IInv, StateTypes, redisVars
  <2>2. UNCHANGED <<rowVars, clientVars, group, stream, skipped, cursor>>
    BY <1>8 DEF XAckFails, redisVars, taskVars
  <2>. QED BY <1>8, <2>1, <2>2, Advances DEF XAckFails
<1>9. ~XReadGroupRetried(w)
  BY DEF XReadGroupRetried, NoRetry
<1>. QED BY <1>1, <1>2, <1>3, <1>4, <1>5, <1>6, <1>7, <1>8, <1>9
         DEF WorkerStep

LEMMA UnchangedIInv == IInv /\ UNCHANGED vars => IInv'
BY DEF IInv, StateTypes, Rows, Enqueuing, Admitting, Messages, Batches, Apart,
       NoOverlapWithoutRace, vars, taskVars, rowVars, clientVars, redisVars, workerVars

LEMMA NextIInv == ASSUME NoRetry PROVE IInv /\ [Next]_vars => IInv'
<1> SUFFICES ASSUME IInv, [Next]_vars PROVE IInv'
  OBVIOUS
<1>1. ASSUME NEW c \in Clients, NEW r \in Repos, Request(c, r) PROVE IInv'
  BY <1>1, RequestInv
<1>2. ASSUME NEW c \in Clients, ClientStep(c) PROVE IInv'
  BY <1>2, ClientStepInv
<1>3. ASSUME NEW c \in Clients, Abort(c) PROVE IInv'
  BY <1>3, GivesUp DEF Abort
<1>4. CASE Age
  BY <1>4, AgeInv
<1>5. ASSUME NEW w \in Consumers, StartWorker(w) PROVE IInv'
  BY <1>5, StartWorkerInv
<1>6. ASSUME NEW w \in Consumers, WorkerStep(w) PROVE IInv'
  BY <1>6, WorkerStepInv
<1>7. ASSUME NEW w \in Consumers, XReadGroupNil(w) PROVE IInv'
  BY <1>7, UnchangedIInv DEF XReadGroupNil
<1>8. ASSUME NEW w \in Consumers, XAutoClaim(w) PROVE IInv'
  BY <1>8, XAutoClaimInv
<1>9. ASSUME NEW w \in Consumers, Crash(w) PROVE IInv'
  BY <1>9, LoopLeaves DEF Crash, taskVars
<1>10. CASE UNCHANGED vars
  BY <1>10, UnchangedIInv
<1>. QED BY <1>1, <1>2, <1>3, <1>4, <1>5, <1>6, <1>7, <1>8, <1>9, <1>10 DEF Next

LEMMA Invariance == ASSUME NoRetry PROVE Spec => []IInv
BY InitIInv, NextIInv, PTL DEF Spec

-----------------------------------------------------------------------------
(* The theorems.                                                             *)

\* No two workers ever hold the same task, whatever is claimed by whom.
THEOREM WorkIsExclusive == ASSUME NoRetry PROVE Spec => []ExclusiveWork
<1>1. IInv => ExclusiveWork
  <2> SUFFICES ASSUME IInv, NEW v \in Consumers, NEW w \in Consumers, v # w,
                      wpc[v] \in Working, wpc[w] \in Working,
                      NEW p \in next[v]..last[v], NEW q \in next[w]..last[w]
               PROVE  stream[p] # stream[q]
    BY DEF ExclusiveWork
  <2>1. p \in 1..Len(stream) /\ q \in 1..Len(stream)
    BY JobInHand DEF IInv, StateTypes
  <2>2. last[v] < next[w] \/ last[w] < next[v]
    BY DEF IInv, Apart
  <2>3. p # q
    BY <2>2 DEF IInv, StateTypes
  <2>. QED BY <2>1, <2>3 DEF IInv, Messages
<1>. QED BY <1>1, Invariance, PTL

\* TriggerIndex admits a task beside a fresh active one only in a race.
THEOREM OverlapNeedsRace == ASSUME NoRetry PROVE Spec => []NoOverlapWithoutRace
<1>1. IInv => NoOverlapWithoutRace
  BY DEF IInv
<1>. QED BY <1>1, Invariance, PTL

\* A repository that has a fresh running task is open to questions only beside
\* a newer task that raced with it.
THEOREM QuestionsGated ==
  ASSUME NoRetry PROVE Spec => []GateOpenNeedsRace
<1>1. IInv => GateOpenNeedsRace
  <2> SUFFICES ASSUME IInv, NEW r \in Repos, Queryable(r),
                      NEW t \in TasksOf(r), status[t] = "running", t > aged
               PROVE  \E u \in TasksOf(r) : t < u /\ t > seen[u]
    BY DEF GateOpenNeedsRace
  <2>1. PICK u \in NewestTask(r) : deriveRepoStatus(u) \in {"indexed", "partial"}
    BY DEF Queryable
  <2>2. u \in TasksOf(r) /\ t <= u
    BY <2>1 DEF NewestTask
  <2>3. t # u
    BY <2>1 DEF deriveRepoStatus, Active
  <2>4. /\ t \in 1..created /\ u \in 1..created /\ created \in Nat
        /\ repoOf[t] = repoOf[u]
    BY <2>2 DEF TasksOf, IInv, StateTypes
  <2>5. t < u
    BY <2>2, <2>3, <2>4
  <2>6. t > seen[u]
    BY <2>4, <2>5 DEF IInv, NoOverlapWithoutRace, Active
  <2>. QED BY <2>2, <2>5, <2>6
<1>. QED BY <1>1, Invariance, PTL

\* Every step moves at most one task, one stage further, and never a final
\* one: the detailed specification implements TaskLifecycle.
LEMMA StatusStepInHand ==
  ASSUME IInv, NEW w \in Consumers, WorkerStep(w)
  PROVE  \/ UNCHANGED status
         \/ \E t \in Tasks : Life!Begin(t) \/ Life!End(t)
<1>1. ASSUME wpc[w] = "start", SetStatus(Job(w), "running")
      PROVE  \E t \in Tasks : Life!Begin(t)
  <2>1. Job(w) \in Tasks /\ status[Job(w)] = "pending"
    BY <1>1, JobInHand DEF Working
  <2>. QED BY <1>1, <2>1 DEF SetStatus, Life!Begin, Life!Move
<1>2. ASSUME wpc[w] = "run", NEW s \in Terminal, SetStatus(Job(w), s)
      PROVE  \E t \in Tasks : Life!End(t)
  <2>1. Job(w) \in Tasks /\ status[Job(w)] = "running"
    BY <1>2, JobInHand DEF Working
  <2>. QED BY <1>2, <2>1
           DEF SetStatus, Life!End, Life!Move, Life!Terminal, Terminal
<1>3. CASE UpdateTaskStarted(w) \/ UpdateTaskStartedFails(w)
  BY <1>1, <1>3 DEF UpdateTaskStarted, UpdateTaskStartedFails, taskVars, rowVars
<1>4. CASE UpdateTaskStatus(w)
  BY <1>2, <1>4 DEF UpdateTaskStatus
<1>5. CASE ~(UpdateTaskStarted(w) \/ UpdateTaskStartedFails(w)
             \/ UpdateTaskStatus(w))
  BY <1>5 DEF WorkerStep, XReadGroup, XReadGroupRetried, XReadGroupFails,
              UpdateTaskStatusFails, XAck, XAckFails, taskVars, rowVars
<1>. QED BY <1>3, <1>4, <1>5

LEMMA StatusInsert ==
  ASSUME IInv, NEW c \in Clients, InsertTask(c)
  PROVE  \E t \in Tasks : Life!Create(t)
<1>1. created + 1 \in Tasks /\ created' = created + 1 /\ created \in Nat
  BY DEF InsertTask, IInv, StateTypes, Tasks
<1>2. status[created + 1] = "none"
  BY <1>1 DEF IInv, Rows
<1>. QED BY <1>1, <1>2 DEF InsertTask, Life!Create, Life!Move

LEMMA StepsMap == IInv /\ [Next]_vars => [Life!Next]_status
<1> SUFFICES ASSUME IInv, Next PROVE Life!Next \/ UNCHANGED status
  BY DEF vars, taskVars, rowVars
<1>1. ASSUME NEW c \in Clients, ClientStep(c) PROVE Life!Next \/ UNCHANGED status
  BY <1>1, StatusInsert
     DEF ClientStep, CheckActive, CreateTask, CreateTaskFails, EnqueueIndexJob,
         EnqueueRetried, EnqueueFails, taskVars, rowVars, Life!Next
<1>2. ASSUME NEW w \in Consumers, WorkerStep(w)
      PROVE  Life!Next \/ UNCHANGED status
  BY <1>2, StatusStepInHand DEF Life!Next
<1>3. ASSUME NEW c \in Clients, NEW r \in Repos, Request(c, r) \/ Abort(c)
      PROVE  UNCHANGED status
  BY <1>3 DEF Request, Abort, taskVars, rowVars
<1>4. ASSUME NEW w \in Consumers,
             StartWorker(w) \/ XReadGroupNil(w) \/ XAutoClaim(w) \/ Crash(w)
      PROVE  UNCHANGED status
  BY <1>4 DEF StartWorker, XReadGroupNil, XAutoClaim, Crash, vars, taskVars, rowVars
<1>5. ASSUME NEW c \in Clients, Abort(c) PROVE UNCHANGED status
  BY <1>5 DEF Abort, taskVars, rowVars
<1>6. CASE Age
  BY <1>6 DEF Age
<1>. QED BY <1>1, <1>2, <1>3, <1>4, <1>5, <1>6 DEF Next

THEOREM ImplementsLifecycle == ASSUME NoRetry PROVE Spec => LifecycleKept
<1>1. Init => Life!Init
  BY DEF Init, Life!Init
<1>. QED BY <1>1, Invariance, StepsMap, PTL DEF Spec, LifecycleKept, Life!Spec

-----------------------------------------------------------------------------
(* What survives commands that are sent twice.                               *)

\* The types, and as much of the above as needs no more than them.
LooseInv ==
  /\ StateTypes /\ Apart
  /\ \A c \in Clients : rpc[c] = "enqueue" => rtask[c] \in Tasks
  /\ \A w \in Consumers : wpc[w] \in Working => next[w] <= last[w]

LEMMA WorkersKeepLoose ==
  ASSUME LooseInv, wpc' \in [Consumers -> WorkerStates],
         \A v \in Consumers : wpc'[v] \in Working => wpc[v] \in Working,
         UNCHANGED <<created, aged, repoOf, seen, clientVars, stream, next, last>>,
         status' \in [Tasks -> Statuses], group' \in BOOLEAN,
         cursor' \in cursor..Len(stream), skipped' \in 0..cursor',
         owner' \in [Positions -> Consumers \cup {NoOne}]
  PROVE  LooseInv'
<1>u. UNCHANGED <<rpc, rrepo, rtask, rseen>>
  BY DEF clientVars
<1>1. StateTypes'
  <2>1. \A v \in Consumers : last[v] <= cursor' /\ last[v] \in Nat
    BY DEF LooseInv, StateTypes
  <2>2. cursor' \in 0..Len(stream)
    BY DEF LooseInv, StateTypes
  <2>. QED BY <1>u, <2>1, <2>2 DEF LooseInv, StateTypes
<1>2. Apart'
  BY DEF LooseInv, Apart
<1>. QED BY <1>1, <1>2, <1>u DEF LooseInv

LEMMA RequestsKeepLoose ==
  ASSUME LooseInv, UNCHANGED <<group, skipped, cursor, owner, workerVars>>,
         created' \in 0..MaxTasks, aged' \in 0..created',
         status' \in [Tasks -> Statuses],
         repoOf' \in [Tasks -> Repos \cup {NoRepo}],
         seen' \in [Tasks -> 0..MaxTasks],
         rpc' \in [Clients -> ReqStates],
         rrepo' \in [Clients -> Repos \cup {NoRepo}],
         rtask' \in [Clients -> 0..MaxTasks],
         rseen' \in [Clients -> 0..MaxTasks],
         stream' \in Seq(Tasks), Len(stream) <= Len(stream'),
         Len(stream') <= MaxTasks,
         \A c \in Clients : rpc'[c] = "enqueue" => rtask'[c] \in Tasks
  PROVE  LooseInv'
<1>u. UNCHANGED <<wpc, next, last>>
  BY DEF workerVars
<1>1. StateTypes'
  <2>1. cursor \in 0..Len(stream')
    BY DEF LooseInv, StateTypes
  <2>. QED BY <1>u, <2>1 DEF LooseInv, StateTypes
<1>2. Apart'
  BY <1>u DEF LooseInv, Apart
<1>. QED BY <1>1, <1>2, <1>u DEF LooseInv

LEMMA ClientKeepsLoose ==
  ASSUME LooseInv, NEW c \in Clients, ClientStep(c) \/ Abort(c) PROVE LooseInv'
<1>t. StateTypes /\ MaxTasks \in Nat
  BY DEF LooseInv
<1>e. \A d \in Clients : rpc[d] = "enqueue" => rtask[d] \in Tasks
  BY DEF LooseInv
<1>g. ASSUME NEW l \in ReqStates, Goto(c, l)
      PROVE  /\ rpc' \in [Clients -> ReqStates]
             /\ \A d \in Clients : rpc'[d] = "enqueue" =>
                  IF d = c THEN l = "enqueue" ELSE rpc[d] = "enqueue"
  BY <1>t, <1>g DEF Goto, StateTypes
<1>a. ASSUME UNCHANGED <<rowVars, rrepo, rtask, redisVars, workerVars>>,
             rseen' \in [Clients -> 0..MaxTasks],
             NEW l \in ReqStates \ {"enqueue"}, Goto(c, l)
      PROVE  LooseInv'
  <2>1. UNCHANGED <<created, aged, status, repoOf, seen, group, skipped, cursor,
                    owner, stream>>
    BY <1>a DEF rowVars, redisVars
  <2>2. \A d \in Clients : rpc'[d] = "enqueue" => rtask'[d] \in Tasks
    BY <1>a, <1>e, <1>g
  <2>3. rpc' \in [Clients -> ReqStates]
    BY <1>a, <1>g
  <2>4. Len(stream') \in Nat /\ stream' \in Seq(Tasks) /\ Len(stream') <= MaxTasks
    BY <1>t, <2>1 DEF StateTypes
  <2>5. Len(stream) <= Len(stream')
    BY <2>1, <2>4
  <2>. QED BY <1>a, <1>t, <2>1, <2>2, <2>3, <2>4, <2>5, RequestsKeepLoose DEF StateTypes
<1>b. ASSUME InsertTask(c), UNCHANGED <<rrepo, rseen, redisVars, workerVars>>,
             NEW l \in {"enqueue", "error"}, Goto(c, l)
      PROVE  LooseInv'
  <2>1. /\ created \in Nat /\ created' = created + 1 /\ created' \in Tasks
        /\ created' \in 0..MaxTasks /\ aged' \in 0..created'
    BY <1>b, <1>t DEF InsertTask, StateTypes, Tasks
  <2>2. /\ status' \in [Tasks -> Statuses]
        /\ repoOf' \in [Tasks -> Repos \cup {NoRepo}]
        /\ seen' \in [Tasks -> 0..MaxTasks]
        /\ rtask' \in [Clients -> 0..MaxTasks]
    BY <1>b, <1>t, <2>1 DEF InsertTask, StateTypes, Statuses, Active
  <2>3. rpc' \in [Clients -> ReqStates]
    BY <1>b, <1>g DEF ReqStates
  <2>4. \A d \in Clients : rpc'[d] = "enqueue" => rtask'[d] \in Tasks
    <3>1. rtask' = [rtask EXCEPT ![c] = created']
      BY <1>b DEF InsertTask
    <3>. QED BY <1>b, <1>e, <1>g, <1>t, <2>1, <3>1 DEF StateTypes, ReqStates
  <2>5. UNCHANGED <<group, skipped, cursor, owner, stream>>
    BY <1>b DEF redisVars
  <2>6. Len(stream') \in Nat /\ stream' \in Seq(Tasks) /\ Len(stream') <= MaxTasks
    BY <1>t, <2>5 DEF StateTypes
  <2>7. Len(stream) <= Len(stream')
    BY <2>5, <2>6
  <2>. QED BY <1>b, <1>t, <2>1, <2>2, <2>3, <2>4, <2>5, <2>6, <2>7,
              RequestsKeepLoose DEF StateTypes
<1>c. ASSUME rpc[c] = "enqueue", NEW l \in {"accepted", "error"}, Goto(c, l),
             UNCHANGED <<rowVars, rrepo, rtask, rseen, group, skipped, cursor,
                         owner, workerVars>>,
             \/ XAdd(rtask[c])
             \/ /\ Len(stream) + 1 < MaxTasks
                /\ stream' = stream \o <<rtask[c], rtask[c]>>
      PROVE  LooseInv'
  <2>1. /\ rtask[c] \in Tasks /\ stream \in Seq(Tasks) /\ Len(stream) \in Nat
        /\ Len(stream) <= MaxTasks
    BY <1>c, <1>e, <1>t DEF StateTypes
  <2>2. /\ stream' \in Seq(Tasks) /\ Len(stream) <= Len(stream')
        /\ Len(stream') <= MaxTasks
    <3>1. CASE XAdd(rtask[c])
      <4>1. stream' = Append(stream, rtask[c]) /\ Len(stream) < MaxTasks
        BY <3>1 DEF XAdd
      <4>2. stream' \in Seq(Tasks) /\ Len(stream') = Len(stream) + 1
        BY <2>1, <4>1
      <4>. QED BY <1>t, <2>1, <4>1, <4>2
    <3>2. CASE /\ Len(stream) + 1 < MaxTasks
               /\ stream' = stream \o <<rtask[c], rtask[c]>>
      <4>1. <<rtask[c], rtask[c]>> \in Seq(Tasks) /\ Len(<<rtask[c], rtask[c]>>) = 2
        BY <2>1
      <4>2. stream' \in Seq(Tasks) /\ Len(stream') = Len(stream) + 2
        BY <2>1, <3>2, <4>1
      <4>. QED BY <1>t, <2>1, <3>2, <4>2
    <3>. QED BY <1>c, <3>1, <3>2
  <2>3. UNCHANGED <<created, aged, status, repoOf, seen>>
    BY <1>c DEF rowVars
  <2>4. \A d \in Clients : rpc'[d] = "enqueue" => rtask'[d] \in Tasks
    BY <1>c, <1>e, <1>g DEF ReqStates
  <2>5. rpc' \in [Clients -> ReqStates]
    BY <1>c, <1>g DEF ReqStates
  <2>. QED BY <1>c, <1>t, <2>2, <2>3, <2>4, <2>5, RequestsKeepLoose DEF StateTypes
<1>1. CASE CheckActive(c)
  <2>1. rseen' \in [Clients -> 0..MaxTasks]
    BY <1>t, <1>1 DEF CheckActive, StateTypes
  <2>2. \E l \in ReqStates \ {"enqueue"} : Goto(c, l)
    BY <1>1 DEF CheckActive, ReqStates
  <2>. QED BY <1>1, <1>a, <2>1, <2>2 DEF CheckActive, taskVars
<1>2. ASSUME Goto(c, "error"),
             UNCHANGED <<rowVars, rrepo, rtask, rseen, redisVars, workerVars>>
      PROVE  LooseInv'
  <2>1. rseen' \in [Clients -> 0..MaxTasks]
    BY <1>t, <1>2 DEF StateTypes
  <2>. QED BY <1>2, <1>a, <2>1 DEF ReqStates
<1>3. CASE Abort(c)
  BY <1>2, <1>3 DEF Abort
<1>4. CASE CreateTask(c)
  BY <1>b, <1>4 DEF CreateTask
<1>5. CASE CreateTaskFails(c)
  BY <1>b, <1>2, <1>5 DEF CreateTaskFails, taskVars
<1>6. CASE EnqueueIndexJob(c) \/ EnqueueRetried(c)
  BY <1>c, <1>6 DEF EnqueueIndexJob, EnqueueRetried, taskVars
<1>7. CASE EnqueueFails(c)
  <2>1. CASE UNCHANGED stream
    <3>1. UNCHANGED redisVars
      BY <1>7, <2>1 DEF EnqueueFails, redisVars
    <3>. QED BY <1>2, <1>7, <3>1 DEF EnqueueFails
  <2>2. CASE XAdd(rtask[c])
    BY <1>c, <1>7, <2>2 DEF EnqueueFails
  <2>. QED BY <1>7, <2>1, <2>2 DEF EnqueueFails
<1>. QED BY <1>1, <1>3, <1>4, <1>5, <1>6, <1>7 DEF ClientStep

LEMMA BatchKeepsLoose ==
  ASSUME LooseInv, NEW w \in Consumers, XReadGroup(w) \/ XAck(w) \/ XAckFails(w)
  PROVE  LooseInv'
<1>t. /\ StateTypes /\ MaxTasks \in Nat /\ cursor \in Nat /\ cursor <= Len(stream)
      /\ Len(stream) \in Nat /\ Len(stream) <= MaxTasks
      /\ wpc \in [Consumers -> WorkerStates]
      /\ next \in [Consumers -> 1..MaxTasks + 1]
      /\ last \in [Consumers -> 0..MaxTasks]
      /\ \A v \in Consumers : last[v] <= cursor
  BY DEF LooseInv, StateTypes
<1>u. UNCHANGED <<rowVars, clientVars, group, stream, skipped>>
  BY DEF XReadGroup, XAck, XAckFails, redisVars, taskVars
<1>c. ASSUME wpc' \in [Consumers -> WorkerStates],
             next' \in [Consumers -> 1..MaxTasks + 1],
             last' \in [Consumers -> 0..MaxTasks],
             \A v \in Consumers \ {w} :
               wpc'[v] = wpc[v] /\ next'[v] = next[v] /\ last'[v] = last[v],
             cursor' \in cursor..Len(stream),
             owner' \in [Positions -> Consumers \cup {NoOne}],
             last'[w] <= cursor',
             wpc'[w] \in Working =>
               /\ next'[w] <= last'[w]
               /\ \A v \in Consumers \ {w} : wpc[v] \in Working =>
                    last[v] < next'[w] \/ last'[w] < next[v]
      PROVE  LooseInv'
  <2>1. StateTypes'
    <3>1. \A v \in Consumers : last'[v] <= cursor'
      BY <1>t, <1>c
    <3>2. cursor' \in 0..Len(stream) /\ skipped \in 0..cursor'
      BY <1>t, <1>c DEF StateTypes
    <3>. QED BY <1>c, <1>t, <1>u, <3>1, <3>2 DEF StateTypes, rowVars, clientVars
  <2>2. Apart'
    BY <1>c DEF LooseInv, Apart
  <2>3. \A v \in Consumers : wpc'[v] \in Working => next'[v] <= last'[v]
    BY <1>c DEF LooseInv
  <2>. QED BY <1>u, <2>1, <2>2, <2>3 DEF LooseInv, clientVars
<1>1. CASE XReadGroup(w)
  <2>1. /\ cursor' \in Nat /\ cursor + 1 <= cursor' /\ cursor' <= Len(stream)
        /\ owner' \in [Positions -> Consumers \cup {NoOne}]
    BY <1>t, <1>1, Delivered DEF XReadGroup
  <2>2. /\ wpc' = [wpc EXCEPT ![w] = "start"]
        /\ next' = [next EXCEPT ![w] = cursor + 1]
        /\ last' = [last EXCEPT ![w] = cursor']
    BY <1>1 DEF XReadGroup, Step
  <2>3. next'[w] = cursor + 1 /\ last'[w] = cursor'
    BY <1>t, <2>2
  <2>4. /\ wpc' \in [Consumers -> WorkerStates]
        /\ next' \in [Consumers -> 1..MaxTasks + 1]
        /\ last' \in [Consumers -> 0..MaxTasks]
    BY <1>t, <2>1, <2>2 DEF WorkerStates
  <2>5. \A v \in Consumers \ {w} : last[v] < next'[w]
    BY <1>t, <2>3
  <2>. QED BY <1>c, <1>t, <2>1, <2>2, <2>3, <2>4, <2>5
<1>2. CASE XAck(w) \/ XAckFails(w)
  <2>1. wpc[w] \in Working /\ Advance(w) /\ cursor' = cursor
    BY <1>2 DEF XAck, XAckFails, Working, redisVars
  <2>2. owner' \in [Positions -> Consumers \cup {NoOne}]
    BY <1>2, <1>t DEF XAck, XAckFails, redisVars, StateTypes
  <2>3. /\ wpc' = [wpc EXCEPT ![w] =
                     IF next[w] < last[w] THEN "start" ELSE "reading"]
        /\ next' = [next EXCEPT ![w] = next[w] + 1] /\ last' = last
    BY <2>1 DEF Advance, Step
  <2>4. next[w] <= last[w] /\ next[w] \in Nat /\ last[w] \in Nat
        /\ last[w] <= MaxTasks
    BY <1>t, <2>1 DEF LooseInv
  <2>5. /\ wpc' \in [Consumers -> WorkerStates]
        /\ next' \in [Consumers -> 1..MaxTasks + 1]
    BY <1>t, <2>3, <2>4 DEF WorkerStates
  <2>6. wpc'[w] \in Working => next'[w] <= last'[w]
    BY <1>t, <2>3, <2>4 DEF Working
  <2>7. \A v \in Consumers \ {w} : wpc[v] \in Working =>
          last[v] < next'[w] \/ last'[w] < next[v]
    <3> SUFFICES ASSUME NEW v \in Consumers \ {w}, wpc[v] \in Working
                 PROVE  last[v] < next'[w] \/ last'[w] < next[v]
      OBVIOUS
    <3>1. last[v] < next[w] \/ last[w] < next[v]
      BY <2>1 DEF LooseInv, Apart
    <3>2. next'[w] = next[w] + 1 /\ last[v] \in Nat /\ next[v] \in Nat
      BY <1>t, <2>3
    <3>. QED BY <2>3, <2>4, <3>1, <3>2
  <2>8. last'[w] <= cursor' /\ cursor' \in cursor..Len(stream)
    BY <1>t, <2>1, <2>3
  <2>. QED BY <1>c, <1>t, <2>2, <2>3, <2>5, <2>6, <2>7, <2>8
<1>. QED BY <1>1, <1>2

\* The other steps of the workers: statements on tasks, reads whose messages
\* reach no batch, claims, starts and ends of a process.
LEMMA StepKeepsLoose ==
  ASSUME LooseInv, NEW w \in Consumers,
         \/ StartWorker(w) \/ WorkerStep(w) \/ XAutoClaim(w) \/ Crash(w)
  PROVE  LooseInv'
<1>t. /\ StateTypes /\ cursor \in 0..Len(stream) /\ Len(stream) \in Nat
      /\ skipped \in 0..cursor /\ group \in BOOLEAN
      /\ wpc \in [Consumers -> WorkerStates] /\ status \in [Tasks -> Statuses]
      /\ owner \in [Positions -> Consumers \cup {NoOne}]
  BY DEF LooseInv, StateTypes
<1>s. ASSUME NEW l \in {"run", "ack", "stopped", "gone", "reading"}, Step(w, l),
             l \in {"run", "ack"} => wpc[w] \in Working
      PROVE  /\ wpc' \in [Consumers -> WorkerStates]
             /\ \A v \in Consumers : wpc'[v] \in Working => wpc[v] \in Working
  BY <1>t, <1>s DEF Step, WorkerStates, Working
<1>k. ASSUME cursor' = cursor, skipped' = skipped, group' = group, owner' = owner
      PROVE  /\ cursor' \in cursor..Len(stream) /\ skipped' \in 0..cursor'
             /\ group' \in BOOLEAN
             /\ owner' \in [Positions -> Consumers \cup {NoOne}]
  BY <1>t, <1>k
<1>d. ASSUME Deliver(w), skipped' = skipped
      PROVE  /\ cursor' \in cursor..Len(stream) /\ skipped' \in 0..cursor'
             /\ owner' \in [Positions -> Consumers \cup {NoOne}]
  BY <1>t, <1>d, Delivered
<1>1. CASE StartWorker(w)
  <2>1. /\ UNCHANGED <<created, aged, repoOf, seen, status, clientVars, stream,
                       next, last, owner>>
        /\ group' \in BOOLEAN
        /\ cursor' \in cursor..Len(stream) /\ skipped' \in 0..cursor'
    BY <1>t, <1>1 DEF StartWorker, taskVars, rowVars
  <2>2. Step(w, "reading")
    BY <1>1 DEF StartWorker
  <2>. QED BY <1>s, <1>t, <2>1, <2>2, WorkersKeepLoose
<1>2. CASE XReadGroup(w) \/ XAck(w) \/ XAckFails(w)
  BY <1>2, BatchKeepsLoose
<1>3. CASE XReadGroupRetried(w)
  <2>1. UNCHANGED <<created, aged, repoOf, seen, status, clientVars, stream,
                    next, last, wpc, group, skipped>>
    BY <1>3 DEF XReadGroupRetried, taskVars, rowVars, workerVars
  <2>. QED BY <1>3, <1>d, <1>t, <2>1, WorkersKeepLoose DEF XReadGroupRetried
<1>4. CASE XReadGroupFails(w)
  <2>1. UNCHANGED <<created, aged, repoOf, seen, status, clientVars, stream,
                    next, last, group, skipped>>
    BY <1>4 DEF XReadGroupFails, taskVars, rowVars
  <2>2. /\ cursor' \in cursor..Len(stream) /\ skipped' \in 0..cursor'
        /\ owner' \in [Positions -> Consumers \cup {NoOne}]
    BY <1>4, <1>d, <1>k, <2>1 DEF XReadGroupFails
  <2>3. Step(w, "stopped")
    BY <1>4 DEF XReadGroupFails
  <2>. QED BY <1>s, <1>t, <2>1, <2>2, <2>3, WorkersKeepLoose
<1>5. ASSUME wpc[w] \in Working, NEW l \in {"run", "ack"}, Step(w, l),
             \/ UNCHANGED rowVars
             \/ \E s \in {"running"} \cup Terminal : SetStatus(Job(w), s),
             UNCHANGED <<clientVars, redisVars, next, last>>
      PROVE  LooseInv'
  <2>1. UNCHANGED <<created, aged, repoOf, seen, stream, cursor, skipped, group,
                    owner>>
    BY <1>5 DEF SetStatus, rowVars, redisVars
  <2>2. status' \in [Tasks -> Statuses]
    BY <1>5, <1>t DEF SetStatus, rowVars, Statuses, Active
  <2>. QED BY <1>5, <1>s, <1>k, <2>1, <2>2, WorkersKeepLoose
<1>6. CASE UpdateTaskStarted(w) \/ UpdateTaskStartedFails(w)
  BY <1>5, <1>6 DEF UpdateTaskStarted, UpdateTaskStartedFails, Working
<1>7. CASE UpdateTaskStatus(w) \/ UpdateTaskStatusFails(w)
  BY <1>5, <1>7 DEF UpdateTaskStatus, UpdateTaskStatusFails, Working
<1>8. CASE XAutoClaim(w)
  <2>1. UNCHANGED <<created, aged, repoOf, seen, status, clientVars, stream,
                    next, last, wpc, group, skipped, cursor>>
    BY <1>8 DEF XAutoClaim, taskVars, rowVars, workerVars
  <2>2. owner' \in [Positions -> Consumers \cup {NoOne}]
    BY <1>8, <1>t DEF XAutoClaim
  <2>3. cursor' \in cursor..Len(stream) /\ skipped' \in 0..cursor'
    BY <1>t, <2>1
  <2>. QED BY <1>t, <2>1, <2>2, <2>3, WorkersKeepLoose
<1>9. CASE Crash(w)
  <2>1. UNCHANGED <<created, aged, repoOf, seen, status, clientVars, stream,
                    next, last, group, skipped, cursor, owner>>
    BY <1>9 DEF Crash, taskVars, rowVars, redisVars
  <2>2. Step(w, "gone")
    BY <1>9 DEF Crash
  <2>. QED BY <1>s, <1>k, <1>t, <2>1, <2>2, WorkersKeepLoose
<1>. QED BY <1>1, <1>2, <1>3, <1>4, <1>6, <1>7, <1>8, <1>9 DEF WorkerStep

LEMMA NextLooseInv == LooseInv /\ [Next]_vars => LooseInv'
<1> SUFFICES ASSUME LooseInv, [Next]_vars PROVE LooseInv'
  OBVIOUS
<1>t. StateTypes
  BY DEF LooseInv
<1>1. ASSUME NEW c \in Clients, NEW r \in Repos, Request(c, r) PROVE LooseInv'
  <2>1. /\ UNCHANGED <<created, aged, status, repoOf, seen, rtask, rseen, group,
                       stream, skipped, cursor, owner, workerVars>>
        /\ rpc' = [rpc EXCEPT ![c] = "check"]
        /\ rrepo' = [rrepo EXCEPT ![c] = r]
    BY <1>1 DEF Request, Goto, taskVars, rowVars, redisVars
  <2>2. /\ rpc' \in [Clients -> ReqStates]
        /\ rrepo' \in [Clients -> Repos \cup {NoRepo}]
    BY <1>t, <2>1 DEF StateTypes, ReqStates
  <2>3. \A d \in Clients : rpc'[d] = "enqueue" => rtask'[d] \in Tasks
    BY <1>t, <2>1 DEF LooseInv, StateTypes
  <2>4. Len(stream) \in Nat
    BY <1>t DEF StateTypes
  <2>. QED BY <1>t, <2>1, <2>2, <2>3, <2>4, RequestsKeepLoose DEF StateTypes
<1>2. ASSUME NEW c \in Clients, ClientStep(c) \/ Abort(c) PROVE LooseInv'
  BY <1>2, ClientKeepsLoose
<1>3. CASE Age
  <2>1. /\ UNCHANGED <<created, status, repoOf, seen, rpc, rrepo, rtask, rseen,
                       group, stream, skipped, cursor, owner, workerVars>>
        /\ aged' \in 0..created
    BY <1>t, <1>3 DEF Age, StateTypes, clientVars, redisVars
  <2>2. \A d \in Clients : rpc'[d] = "enqueue" => rtask'[d] \in Tasks
    BY <2>1 DEF LooseInv
  <2>3. Len(stream) \in Nat
    BY <1>t DEF StateTypes
  <2>. QED BY <1>t, <2>1, <2>2, <2>3, RequestsKeepLoose DEF StateTypes
<1>4. ASSUME NEW w \in Consumers,
             \/ StartWorker(w) \/ WorkerStep(w) \/ XAutoClaim(w) \/ Crash(w)
      PROVE  LooseInv'
  BY <1>4, StepKeepsLoose
<1>5. ASSUME UNCHANGED vars PROVE LooseInv'
  BY <1>5 DEF vars, taskVars, rowVars, clientVars, redisVars, workerVars, LooseInv,
              StateTypes, Apart
<1>. QED BY <1>1, <1>2, <1>3, <1>4, <1>5 DEF Next, XReadGroupNil

LEMMA IInvIsLoose == IInv => LooseInv
<1>1. ASSUME IInv, NEW c \in Clients, rpc[c] = "enqueue" PROVE rtask[c] \in Tasks
  BY <1>1 DEF IInv, Enqueuing, StateTypes, Tasks
<1>. QED BY <1>1 DEF IInv, LooseInv, Batches

\* A failed statement is about a task there is.
LEMMA NextHistory ==
  LooseInv /\ HistoryTypes /\ [Next]_vars => HistoryTypes'
<1> SUFFICES ASSUME LooseInv, HistoryTypes, [Next]_vars PROVE HistoryTypes'
  OBVIOUS
<1>1. ASSUME NEW c \in Clients, CreateTaskFails(c) PROVE HistoryTypes'
  <2>1. created + 1 \in Tasks \/ UNCHANGED taskVars
    BY <1>1 DEF CreateTaskFails, InsertTask, LooseInv, StateTypes, Tasks
  <2>. QED BY <1>1, <2>1 DEF CreateTaskFails, InsertTask, HistoryTypes, taskVars
<1>2. ASSUME NEW c \in Clients, EnqueueFails(c) \/ Abort(c) PROVE HistoryTypes'
  <2>1. rpc[c] = "enqueue" => rtask[c] \in Tasks
    BY DEF LooseInv
  <2>. QED BY <1>2, <2>1 DEF EnqueueFails, Abort, HistoryTypes
<1>3. ASSUME NEW w \in Consumers,
             UpdateTaskStartedFails(w) \/ UpdateTaskStatusFails(w)
      PROVE  HistoryTypes'
  <2>1. wpc[w] \in Working
    BY <1>3 DEF UpdateTaskStartedFails, UpdateTaskStatusFails, Working
  <2>2. next[w] \in 1..Len(stream) /\ stream \in Seq(Tasks)
    BY <2>1 DEF LooseInv, StateTypes
  <2>3. Job(w) \in Tasks
    BY <2>2 DEF Job
  <2>. QED BY <1>3, <2>3
           DEF UpdateTaskStartedFails, UpdateTaskStatusFails, SetStatus,
               HistoryTypes
<1>4. ASSUME UNCHANGED <<refused, unwritten>> PROVE HistoryTypes'
  BY <1>4 DEF HistoryTypes
<1>5. ASSUME NEW c \in Clients,
             \/ \E r \in Repos : Request(c, r)
             \/ CheckActive(c) \/ CreateTask(c)
             \/ EnqueueIndexJob(c) \/ EnqueueRetried(c)
      PROVE  HistoryTypes'
  BY <1>4, <1>5 DEF Request, CheckActive, CreateTask, InsertTask,
                    EnqueueIndexJob, EnqueueRetried, taskVars
<1>6. ASSUME NEW w \in Consumers,
             \/ StartWorker(w) \/ XReadGroup(w) \/ XReadGroupRetried(w)
             \/ XReadGroupFails(w) \/ UpdateTaskStarted(w)
             \/ UpdateTaskStatus(w) \/ XAck(w) \/ XAckFails(w)
             \/ XAutoClaim(w) \/ Crash(w)
      PROVE  HistoryTypes'
  BY <1>4, <1>6
     DEF StartWorker, XReadGroup, XReadGroupRetried, XReadGroupFails,
         UpdateTaskStarted, UpdateTaskStatus, SetStatus, XAck, XAckFails,
         XAutoClaim, Crash, taskVars
<1>7. ASSUME Age \/ UNCHANGED vars PROVE HistoryTypes'
  BY <1>4, <1>7 DEF Age, vars, taskVars
<1>. QED BY <1>1, <1>2, <1>3, <1>5, <1>6, <1>7
         DEF Next, ClientStep, WorkerStep, XReadGroupNil

\* Ids, cursors and batches stay inside the tables and the stream, whatever
\* fails, dies or is sent twice.
THEOREM TypeCorrect == Spec => []TypeOK
<1>1. Init => LooseInv /\ HistoryTypes
  BY IInvIsLoose, InitIInv DEF Init, HistoryTypes
<1>2. LooseInv /\ HistoryTypes => TypeOK
  BY DEF LooseInv, TypeOK
<1>. QED BY <1>1, <1>2, NextLooseInv, NextHistory, PTL DEF Spec

\* What two workers have read never overlaps, also when a command is sent again:
\* it is the task with two messages that is then run twice, never a message.
THEOREM MessagesApart == Spec => []Apart
<1>1. LooseInv => Apart
  BY DEF LooseInv
<1>. QED BY <1>1, IInvIsLoose, InitIInv, NextLooseInv, PTL DEF Spec

-----------------------------------------------------------------------------
(* What an unfinished task leaves behind.                                    *)

\* A message whose acknowledgement is on its way is no evidence any more: a
\* worker acknowledges only after the task's last statement.
Leads(p) ==
  /\ p > cursor \/ p <= skipped \/ owner[p] # NoOne
  /\ \A w \in Consumers : ~(wpc[w] = "ack" /\ next[w] = p)
Traced(t) ==
  \/ \E c \in Clients : rpc[c] = "enqueue" /\ rtask[c] = t
  \/ \E p \in 1..Len(stream) : stream[p] = t /\ Leads(p)

\* What may leave a task unfinished without such evidence.
Excused(t) == t \in unwritten \/ (status[t] = "pending" /\ t \in refused)
Covered(t) == Traced(t) \/ Excused(t)

\* What a worker still has in its batch is in the PEL, under whatever name.
Held ==
  \A w \in Consumers : wpc[w] \in Working =>
    \A p \in next[w]..last[w] : owner[p] # NoOne

\* Every message is about a row there is.
Issued == \A p \in 1..Len(stream) : stream[p] <= created

TraceInv == /\ LooseInv /\ Held /\ Enqueuing /\ Issued
            /\ \A t \in Tasks : status[t] \in Active => Covered(t)

\* A task that keeps its status keeps its evidence and its excuse.
LEMMA CoverStays ==
  ASSUME NEW t, Covered(t), status'[t] = status[t],
         refused \subseteq refused', unwritten \subseteq unwritten',
         \A c \in Clients : rpc[c] = "enqueue" /\ rtask[c] = t =>
                              rpc'[c] = "enqueue" /\ rtask'[c] = t,
         \A p \in 1..Len(stream) : p \in 1..Len(stream') /\ stream'[p] = stream[p],
         \A p \in 1..Len(stream) : stream[p] = t /\ Leads(p) => Leads(p)'
  PROVE  Covered(t)'
<1>1. CASE \E c \in Clients : rpc[c] = "enqueue" /\ rtask[c] = t
  BY <1>1 DEF Covered, Traced
<1>2. ASSUME NEW p \in 1..Len(stream), stream[p] = t, Leads(p) PROVE Covered(t)'
  <2>1. p \in 1..Len(stream') /\ stream'[p] = t /\ Leads(p)'
    BY <1>2
  <2>. QED BY <2>1 DEF Covered, Traced
<1>3. CASE Excused(t)
  BY <1>3 DEF Covered, Excused
<1>. QED BY <1>1, <1>2, <1>3 DEF Covered, Traced

\* An UPDATE of the task in hand: it is running, or ended, or its error is noted.
LEMMA UpdatesTrace ==
  ASSUME TraceInv, NEW w \in Consumers, wpc[w] \in {"start", "run"},
         NEW l \in {"run", "ack"}, Step(w, l),
         \A t \in Tasks : t # Job(w) => status'[t] = status[t],
         \/ l = "run" \/ status'[Job(w)] \notin Active
         \/ Job(w) \in unwritten',
         refused \subseteq refused', unwritten \subseteq unwritten',
         UNCHANGED <<clientVars, redisVars, next, last>>
  PROVE  Held' /\ \A t \in Tasks : status'[t] \in Active => Covered(t)'
<1>t. /\ StateTypes /\ Apart
      /\ wpc \in [Consumers -> WorkerStates] /\ wpc[w] \in Working
      /\ wpc' = [wpc EXCEPT ![w] = l]
  BY DEF TraceInv, LooseInv, StateTypes, Step, Working
<1>u. UNCHANGED <<rpc, rtask, stream, skipped, cursor, owner, next, last>>
  BY DEF clientVars, redisVars
<1>j. /\ next[w] \in 1..Len(stream) /\ next[w] \in next[w]..last[w]
      /\ owner[next[w]] # NoOne
  BY <1>t DEF TraceInv, LooseInv, StateTypes, Held
<1>o. \A v \in Consumers \ {w} : wpc'[v] = wpc[v]
  BY <1>t
<1>1. Held'
  BY <1>t, <1>u, <1>o DEF TraceInv, Held
<1>2. ASSUME NEW t \in Tasks, status'[t] \in Active, t # Job(w) PROVE Covered(t)'
  <2>1. status'[t] = status[t]
    BY <1>2
  <2>2. ASSUME NEW p \in 1..Len(stream), stream[p] = t, Leads(p) PROVE Leads(p)'
    <3>1. p # next[w]
      BY <1>2, <2>2 DEF Job
    <3>. QED BY <1>u, <1>o, <2>2, <3>1 DEF Leads
  <2>3. Covered(t)
    BY <1>2, <2>1 DEF TraceInv
  <2>. QED BY <1>u, <2>1, <2>2, <2>3, CoverStays
<1>3. ASSUME l = "run" PROVE Covered(Job(w))'
  <2>2. wpc'[w] = "run"
    BY <1>t, <1>3
  <2>3. ASSUME NEW v \in Consumers, wpc'[v] = "ack" PROVE next[v] # next[w]
    <3>1. v # w /\ wpc[v] \in Working
      BY <1>o, <2>2, <2>3 DEF Working
    <3>2. last[v] < next[w] \/ last[w] < next[v]
      BY <1>t, <3>1 DEF Apart
    <3>3. next[v] <= last[v] /\ next[w] <= last[w]
      BY <1>t, <3>1 DEF TraceInv, LooseInv
    <3>. QED BY <1>t, <3>2, <3>3 DEF StateTypes
  <2>4. Leads(next[w])'
    BY <1>u, <1>j, <2>3 DEF Leads
  <2>5. stream[next[w]] = Job(w)
    BY DEF Job
  <2>6. Job(w)' = Job(w)
    BY <1>u DEF Job
  <2>. QED BY <1>j, <1>u, <2>4, <2>5, <2>6 DEF Covered, Traced
<1>4. ASSUME NEW t \in Tasks, status'[t] \in Active PROVE Covered(t)'
  <2>1. CASE t = Job(w)
    <3>1. CASE l = "run"
      <4>1. UNCHANGED <<stream, next>>
        BY <1>u
      <4>. QED BY <1>3, <2>1, <3>1, <4>1 DEF Job
    <3>2. CASE Job(w) \in unwritten'
      BY <2>1, <3>2 DEF Covered, Excused
    <3>. QED BY <1>4, <2>1, <3>1, <3>2
  <2>2. CASE t # Job(w)
    BY <1>2, <1>4, <2>2
  <2>. QED BY <2>1, <2>2
<1>. QED BY <1>1, <1>4

\* Going on to the next message, the one behind acknowledged or not.
LEMMA AdvanceTraces ==
  ASSUME TraceInv, NEW w \in Consumers, XAck(w) \/ XAckFails(w)
  PROVE  Held' /\ \A t \in Tasks : status'[t] \in Active => Covered(t)'
<1>t. /\ StateTypes /\ Apart /\ wpc \in [Consumers -> WorkerStates]
      /\ next \in [Consumers -> 1..MaxTasks + 1] /\ wpc[w] = "ack"
      /\ last \in [Consumers -> 0..MaxTasks]
      /\ owner \in [Positions -> Consumers \cup {NoOne}]
      /\ next[w] <= last[w]
  BY DEF TraceInv, LooseInv, StateTypes, XAck, XAckFails, Working
<1>u. UNCHANGED <<status, refused, unwritten, rpc, rtask, stream, skipped,
                  cursor, last>>
  BY DEF XAck, XAckFails, taskVars, rowVars, clientVars, redisVars, Advance
<1>n. /\ next'[w] = next[w] + 1 /\ wpc'[w] # "ack"
      /\ \A v \in Consumers \ {w} : wpc'[v] = wpc[v] /\ next'[v] = next[v]
  BY <1>t DEF XAck, XAckFails, Advance, Step
<1>r. \A v \in Consumers : \A p \in next[v]..last[v] : p \in Positions
  BY <1>t DEF Positions
<1>p. \A p \in Positions : p # next[w] => owner'[p] = owner[p]
  <2>1. owner' = owner \/ owner' = [owner EXCEPT ![next[w]] = NoOne]
    BY DEF XAck, XAckFails, redisVars
  <2>. QED BY <1>t, <2>1
<1>1. Held'
  <2> SUFFICES ASSUME NEW v \in Consumers, wpc'[v] \in Working,
                      NEW p \in next'[v]..last[v]
               PROVE  owner'[p] # NoOne
    BY <1>u DEF Held
  <2>1. CASE v = w
    <3>1. p \in next[w]..last[w] /\ p # next[w]
      BY <1>n, <1>t, <2>1
    <3>. QED BY <1>r, <1>p, <1>t, <3>1 DEF TraceInv, Held, Working
  <2>2. CASE v # w
    <3>1. wpc[v] \in Working /\ p \in next[v]..last[v]
      BY <1>n, <2>2
    <3>2. last[v] < next[w] \/ last[w] < next[v]
      BY <1>t, <2>2, <3>1 DEF Apart, Working
    <3>3. p # next[w]
      BY <1>t, <3>1, <3>2
    <3>. QED BY <1>r, <1>p, <3>1, <3>3 DEF TraceInv, Held
  <2>. QED BY <2>1, <2>2
<1>2. ASSUME NEW p \in 1..Len(stream), Leads(p) PROVE Leads(p)'
  <2>1. p # next[w]
    BY <1>t, <1>2 DEF Leads
  <2>2. p \in Positions
    BY <1>t DEF StateTypes, Positions
  <2>. QED BY <1>n, <1>p, <1>u, <1>2, <2>1, <2>2 DEF Leads
<1>3. ASSUME NEW t \in Tasks, status'[t] \in Active PROVE Covered(t)'
  BY <1>u, <1>2, <1>3, CoverStays DEF TraceInv
<1>. QED BY <1>1, <1>3

\* A read moves messages from the undelivered ones to the PEL.
LEMMA DeliversToPEL ==
  ASSUME StateTypes, NEW w \in Consumers, Deliver(w)
  PROVE  \A p \in Positions :
           /\ owner[p] # NoOne => owner'[p] # NoOne
           /\ cursor < p /\ p <= cursor' => owner'[p] # NoOne
<1>1. w # NoOne
  OBVIOUS
<1>. QED BY <1>1 DEF Deliver

LEMMA ReadTraces ==
  ASSUME TraceInv, NEW w \in Consumers,
         \/ StartWorker(w) \/ XReadGroup(w) \/ XReadGroupRetried(w)
         \/ XReadGroupFails(w) \/ XAutoClaim(w) \/ Crash(w)
  PROVE  Held' /\ \A t \in Tasks : status'[t] \in Active => Covered(t)'
<1>t. /\ StateTypes /\ wpc \in [Consumers -> WorkerStates]
      /\ next \in [Consumers -> 1..MaxTasks + 1]
      /\ last \in [Consumers -> 0..MaxTasks]
      /\ cursor \in Nat /\ Len(stream) \in Nat /\ Len(stream) <= MaxTasks
      /\ MaxTasks \in Nat /\ w # NoOne /\ skipped \in Nat /\ skipped <= cursor
      /\ cursor <= Len(stream)
  BY DEF TraceInv, LooseInv, StateTypes
<1>u. UNCHANGED <<status, refused, unwritten, rpc, rtask, stream>>
  BY DEF StartWorker, XReadGroup, XReadGroupRetried, XReadGroupFails,
         XAutoClaim, Crash, taskVars, rowVars, clientVars, redisVars
<1>p. \A p \in 1..Len(stream) : p \in Positions
  BY <1>t DEF Positions
<1>r. \A v \in Consumers : wpc[v] \in Working =>
        \A p \in next[v]..last[v] : p \in Positions
  BY <1>t DEF TraceInv, LooseInv, StateTypes, Positions
<1>o. \A p \in Positions : owner[p] # NoOne => owner'[p] # NoOne
  BY <1>t, DeliversToPEL
     DEF StartWorker, XReadGroup, XReadGroupRetried, XReadGroupFails,
         XAutoClaim, Crash, redisVars
<1>c. \A p \in 1..Len(stream) : p > cursor =>
        p > cursor' \/ p <= skipped' \/ owner'[p] # NoOne
  <2>1. CASE Deliver(w)
    <3>1. cursor' \in Nat
      BY <1>t, <2>1, Delivered
    <3>. QED BY <1>p, <1>t, <2>1, <3>1, DeliversToPEL
  <2>2. CASE cursor' = cursor
    BY <2>2
  <2>3. CASE skipped' = Len(stream)
    BY <1>t, <2>3
  <2>. QED BY <2>1, <2>2, <2>3
           DEF StartWorker, XReadGroup, XReadGroupRetried, XReadGroupFails,
               XAutoClaim, Crash, redisVars
<1>k. skipped <= skipped' /\ skipped' \in Nat
  BY <1>t DEF StartWorker, XReadGroup, XReadGroupRetried, XReadGroupFails,
              XAutoClaim, Crash, redisVars
<1>v. ASSUME NEW v \in Consumers, wpc'[v] \in Working
      PROVE  \/ wpc'[v] = wpc[v] /\ next'[v] = next[v] /\ last'[v] = last[v]
             \/ /\ v = w /\ XReadGroup(w) /\ next'[v] = cursor + 1
                /\ last'[v] = cursor' /\ wpc'[v] = "start"
  BY <1>t, <1>v DEF StartWorker, XReadGroup, XReadGroupRetried, XReadGroupFails,
                    XAutoClaim, Crash, Step, workerVars, Working
<1>1. Held'
  <2> SUFFICES ASSUME NEW v \in Consumers, wpc'[v] \in Working,
                      NEW p \in next'[v]..last'[v]
               PROVE  owner'[p] # NoOne
    BY DEF Held
  <2>1. CASE wpc'[v] = wpc[v] /\ next'[v] = next[v] /\ last'[v] = last[v]
    BY <1>o, <1>r, <2>1 DEF TraceInv, Held
  <2>2. CASE XReadGroup(w) /\ next'[v] = cursor + 1 /\ last'[v] = cursor'
    <3>1. /\ Deliver(w) /\ cursor' \in Nat /\ cursor' <= Len(stream)
      BY <1>t, <2>2, Delivered DEF XReadGroup
    <3>2. p \in Positions /\ cursor < p /\ p <= cursor'
      BY <1>t, <2>2, <3>1 DEF Positions
    <3>. QED BY <1>t, <3>1, <3>2, DeliversToPEL
  <2>. QED BY <1>v, <2>1, <2>2
<1>2. ASSUME NEW p \in 1..Len(stream), Leads(p) PROVE Leads(p)'
  <2>1. p > cursor' \/ p <= skipped' \/ owner'[p] # NoOne
    BY <1>c, <1>k, <1>o, <1>p, <1>t, <1>2 DEF Leads
  <2>2. \A v \in Consumers : ~(wpc'[v] = "ack" /\ next'[v] = p)
    BY <1>v, <1>2 DEF Leads, Working
  <2>. QED BY <2>1, <2>2 DEF Leads
<1>3. ASSUME NEW t \in Tasks, status'[t] \in Active PROVE Covered(t)'
  BY <1>u, <1>2, <1>3, CoverStays DEF TraceInv
<1>. QED BY <1>1, <1>3

\* Steps of a request, and the clock, leave the messages alone or add some.
LEMMA RequestTraces ==
  ASSUME TraceInv, refused \subseteq refused', unwritten \subseteq unwritten',
         UNCHANGED <<skipped, cursor, owner, workerVars>>,
         \A p \in 1..Len(stream) : p \in 1..Len(stream') /\ stream'[p] = stream[p],
         \A t \in Tasks : status'[t] \in Active =>
           \/ /\ status'[t] = status[t]
              /\ \A c \in Clients : rpc[c] = "enqueue" /\ rtask[c] = t =>
                                      rpc'[c] = "enqueue" /\ rtask'[c] = t
           \/ Covered(t)'
  PROVE  Held' /\ \A t \in Tasks : status'[t] \in Active => Covered(t)'
<1>u. UNCHANGED <<wpc, next, last>>
  BY DEF workerVars
<1>1. Held'
  BY <1>u DEF TraceInv, Held
<1>2. \A p \in 1..Len(stream) : Leads(p) => Leads(p)'
  BY <1>u DEF Leads
<1>3. ASSUME NEW t \in Tasks, status'[t] \in Active PROVE Covered(t)'
  <2>1. CASE /\ status'[t] = status[t]
             /\ \A c \in Clients : rpc[c] = "enqueue" /\ rtask[c] = t =>
                                     rpc'[c] = "enqueue" /\ rtask'[c] = t
    <3>1. Covered(t)
      BY <1>3, <2>1 DEF TraceInv
    <3>. QED BY <1>2, <2>1, <3>1, CoverStays
  <2>. QED BY <1>3, <2>1
<1>. QED BY <1>1, <1>3

LEMMA EnqueueTraces ==
  ASSUME TraceInv, NEW c \in Clients, EnqueueIndexJob(c) \/ EnqueueRetried(c)
  PROVE  Held' /\ \A t \in Tasks : status'[t] \in Active => Covered(t)'
<1>t. /\ StateTypes /\ rpc[c] = "enqueue" /\ rtask[c] \in Tasks
      /\ stream \in Seq(Tasks) /\ Len(stream) \in Nat
      /\ cursor \in Nat /\ cursor <= Len(stream)
  BY DEF TraceInv, LooseInv, StateTypes, EnqueueIndexJob, EnqueueRetried
<1>n. PICK n \in Nat : n = Len(stream) + 1
  BY <1>t
<1>u. UNCHANGED <<status, refused, unwritten, rtask, skipped, cursor, owner,
                  workerVars>>
  BY DEF EnqueueIndexJob, EnqueueRetried, taskVars, rowVars
<1>p. rpc' = [rpc EXCEPT ![c] = "accepted"]
  BY DEF EnqueueIndexJob, EnqueueRetried, Goto
<1>s. /\ \A p \in 1..Len(stream) : p \in 1..Len(stream') /\ stream'[p] = stream[p]
      /\ n \in 1..Len(stream') /\ stream'[n] = rtask[c]
  <2>1. CASE EnqueueIndexJob(c)
    <3>1. stream' = Append(stream, rtask[c])
      BY <2>1 DEF EnqueueIndexJob, XAdd
    <3>. QED BY <1>t, <1>n, <3>1
  <2>2. CASE EnqueueRetried(c)
    <3>1. stream' = stream \o <<rtask[c], rtask[c]>>
      BY <2>2 DEF EnqueueRetried
    <3>2. /\ <<rtask[c], rtask[c]>> \in Seq(Tasks)
          /\ Len(<<rtask[c], rtask[c]>>) = 2
          /\ <<rtask[c], rtask[c]>>[1] = rtask[c]
      BY <1>t
    <3>. QED BY <1>t, <1>n, <3>1, <3>2
  <2>. QED BY <2>1, <2>2
<1>1. Covered(rtask[c])'
  <2>1. ASSUME NEW w \in Consumers, wpc[w] = "ack" PROVE next[w] # n
    <3>1. next[w] <= last[w] /\ last[w] <= cursor
      BY <1>t, <2>1 DEF TraceInv, LooseInv, StateTypes, Working
    <3>. QED BY <1>t, <1>n, <3>1 DEF StateTypes
  <2>2. n > cursor /\ cursor' = cursor /\ wpc' = wpc /\ next' = next
    BY <1>t, <1>n, <1>u DEF workerVars
  <2>3. Leads(n)'
    BY <2>1, <2>2 DEF Leads
  <2>. QED BY <1>s, <1>u, <2>3 DEF Covered, Traced
<1>2. ASSUME NEW t \in Tasks, status'[t] \in Active
      PROVE  \/ /\ status'[t] = status[t]
                /\ \A d \in Clients : rpc[d] = "enqueue" /\ rtask[d] = t =>
                                        rpc'[d] = "enqueue" /\ rtask'[d] = t
             \/ Covered(t)'
  <2>1. CASE t = rtask[c]
    <3>1. Covered(t)' <=> Covered(rtask[c])'
      BY <1>u, <2>1
    <3>. QED BY <1>1, <3>1
  <2>2. CASE t # rtask[c]
    BY <1>p, <1>u, <1>2, <2>2
  <2>. QED BY <2>1, <2>2
<1>. QED BY <1>s, <1>u, <1>2, RequestTraces

\* The request ends in an error: its task never began, and it is told so.
LEMMA RefusalTraces ==
  ASSUME TraceInv, NEW c \in Clients, EnqueueFails(c) \/ Abort(c)
  PROVE  Held' /\ \A t \in Tasks : status'[t] \in Active => Covered(t)'
<1>t. /\ stream \in Seq(Tasks) /\ Len(stream) \in Nat
      /\ rpc \in [Clients -> ReqStates]
  BY DEF TraceInv, LooseInv, StateTypes
<1>u. UNCHANGED <<status, unwritten, rtask, skipped, cursor, owner, workerVars>>
  BY DEF EnqueueFails, Abort, rowVars, redisVars
<1>p. rpc' = [rpc EXCEPT ![c] = "error"] /\ refused \subseteq refused'
  BY DEF EnqueueFails, Abort, Goto
<1>r. rpc[c] = "enqueue" => status[rtask[c]] = "pending" /\ rtask[c] \in refused'
  BY DEF TraceInv, Enqueuing, EnqueueFails, Abort
<1>s. \A p \in 1..Len(stream) : p \in 1..Len(stream') /\ stream'[p] = stream[p]
  <2>1. CASE UNCHANGED stream
    BY <2>1
  <2>2. CASE EnqueueFails(c) /\ XAdd(rtask[c])
    <3>1. stream' = Append(stream, rtask[c]) /\ rtask[c] \in Tasks
      BY <2>2 DEF XAdd, TraceInv, LooseInv, EnqueueFails
    <3>. QED BY <1>t, <3>1
  <2>. QED BY <2>1, <2>2 DEF EnqueueFails, Abort, redisVars
<1>1. ASSUME NEW t \in Tasks, status'[t] \in Active
      PROVE  \/ /\ status'[t] = status[t]
                /\ \A d \in Clients : rpc[d] = "enqueue" /\ rtask[d] = t =>
                                        rpc'[d] = "enqueue" /\ rtask'[d] = t
             \/ Covered(t)'
  <2>1. CASE rpc[c] = "enqueue" /\ t = rtask[c]
    BY <1>r, <1>u, <2>1 DEF Covered, Excused
  <2>2. CASE ~(rpc[c] = "enqueue" /\ t = rtask[c])
    BY <1>p, <1>t, <1>u, <2>2
  <2>. QED BY <2>1, <2>2
<1>. QED BY <1>p, <1>s, <1>u, <1>1, RequestTraces

LEMMA CreateTraces ==
  ASSUME TraceInv, NEW c \in Clients, CreateTask(c) \/ CreateTaskFails(c)
  PROVE  Held' /\ \A t \in Tasks : status'[t] \in Active => Covered(t)'
<1>t. /\ StateTypes /\ rpc[c] = "create" /\ status \in [Tasks -> Statuses]
      /\ rpc \in [Clients -> ReqStates] /\ rtask \in [Clients -> 0..MaxTasks]
  BY DEF TraceInv, LooseInv, StateTypes, CreateTask, CreateTaskFails
<1>u. UNCHANGED <<unwritten, stream, skipped, cursor, owner, workerVars>>
  BY DEF CreateTask, CreateTaskFails, InsertTask, taskVars, redisVars
<1>p. /\ \A d \in Clients : d # c => rpc'[d] = rpc[d]
      /\ refused \subseteq refused'
  BY <1>t DEF CreateTask, CreateTaskFails, Goto, taskVars
<1>1. CASE InsertTask(c)
  <2>n. PICK n \in Tasks : n = created' /\ n # created
    BY <1>1, <1>t DEF InsertTask, StateTypes, Tasks
  <2>1. /\ status' = [status EXCEPT ![n] = "pending"]
        /\ rtask' = [rtask EXCEPT ![c] = n]
    BY <1>1, <2>n DEF InsertTask
  <2>2. Covered(n)'
    <3>1. CASE CreateTask(c)
      <4>1. rtask'[c] = n /\ rpc'[c] = "enqueue"
        BY <1>t, <2>1, <3>1 DEF CreateTask, Goto
      <4>. QED BY <4>1 DEF Covered, Traced
    <3>2. CASE CreateTaskFails(c)
      <4>1. status'[n] = "pending"
        BY <1>t, <2>1
      <4>2. n \in refused'
        BY <2>n, <3>2 DEF CreateTaskFails, taskVars, rowVars
      <4>. QED BY <4>1, <4>2 DEF Covered, Excused
    <3>. QED BY <3>1, <3>2
  <2>3. ASSUME NEW t \in Tasks, status'[t] \in Active
        PROVE  \/ /\ status'[t] = status[t]
                  /\ \A d \in Clients : rpc[d] = "enqueue" /\ rtask[d] = t =>
                                          rpc'[d] = "enqueue" /\ rtask'[d] = t
               \/ Covered(t)'
    <3>1. CASE t = n
      BY <2>2, <3>1
    <3>2. CASE t # n
      <4>1. \A d \in Clients : d # c => rtask'[d] = rtask[d]
        BY <2>1, <1>t
      <4>. QED BY <1>p, <1>t, <2>1, <3>2, <4>1
    <3>. QED BY <3>1, <3>2
  <2>. QED BY <1>p, <1>u, <2>3, RequestTraces
<1>2. CASE UNCHANGED <<taskVars, rtask>>
  <2>1. UNCHANGED <<status, rtask>>
    BY <1>2 DEF taskVars, rowVars
  <2>2. \A d \in Clients : rpc[d] = "enqueue" => rpc'[d] = "enqueue"
    BY <1>p, <1>t
  <2>. QED BY <1>p, <1>u, <2>1, <2>2, RequestTraces
<1>. QED BY <1>1, <1>2 DEF CreateTask, CreateTaskFails

\* A request that gets to its XADD is the only one with its task, and no message
\* is about it, also when commands are sent twice.
LEMMA NextEnqueuing ==
  TraceInv /\ [Next]_vars => Enqueuing' /\ Issued'
<1> SUFFICES ASSUME TraceInv, [Next]_vars PROVE Enqueuing' /\ Issued'
  OBVIOUS
<1>t. /\ StateTypes /\ rpc \in [Clients -> ReqStates]
      /\ rtask \in [Clients -> 0..MaxTasks] /\ status \in [Tasks -> Statuses]
      /\ stream \in Seq(Tasks) /\ Len(stream) \in Nat /\ created \in Nat
  BY DEF TraceInv, LooseInv, StateTypes
<1>e. Enqueuing /\ Issued
  BY DEF TraceInv
<1> DEFINE Waits == \A d \in Clients :
                      rpc'[d] = "enqueue" => rpc[d] = "enqueue" /\ rtask'[d] = rtask[d]
<1>a. ASSUME UNCHANGED <<created, stream>>, Waits,
             \A d \in Clients : rpc[d] = "enqueue" =>
               status'[rtask[d]] = status[rtask[d]]
      PROVE  Enqueuing' /\ Issued'
  BY <1>a, <1>e DEF Enqueuing, Issued
<1>b. ASSUME NEW c \in Clients, InsertTask(c),
             UNCHANGED <<stream, rrepo, rseen>>, rpc[c] = "create",
             NEW l \in {"enqueue", "error"}, Goto(c, l)
      PROVE  Enqueuing' /\ Issued'
  <2>n. PICK n \in Nat : n = created + 1
    BY <1>t
  <2>1. /\ created' = n /\ n \in Tasks
        /\ \A t \in 1..created : t # n /\ t \in 1..n /\ t \in Tasks
    BY <1>b, <1>t, <2>n DEF InsertTask, StateTypes, Tasks
  <2>2. /\ status' = [status EXCEPT ![n] = "pending"]
        /\ rtask' = [rtask EXCEPT ![c] = n] /\ rpc' = [rpc EXCEPT ![c] = l]
    BY <1>b, <2>1 DEF InsertTask, Goto
  <2>3. Issued'
    <3>1. ASSUME NEW p \in 1..Len(stream) PROVE stream[p] <= created'
      <4>1. stream[p] \in Tasks
        BY <1>t
      <4>. QED BY <1>e, <1>t, <2>1, <2>n, <4>1 DEF Issued, Tasks
    <3>. QED BY <1>b, <3>1 DEF Issued
  <2>4. rtask'[c] = n /\ status'[n] = "pending" /\ n \in 1..created'
    BY <1>t, <2>1, <2>2, <2>n
  <2>5. \A p \in 1..Len(stream) : stream[p] # n
    <3>1. ASSUME NEW p \in 1..Len(stream) PROVE stream[p] # n
      <4>1. stream[p] \in Tasks /\ stream[p] <= created
        BY <1>e, <1>t DEF Issued
      <4>. QED BY <1>t, <2>n, <4>1 DEF Tasks
    <3>. QED BY <3>1
  <2>6. ASSUME NEW d \in Clients, d # c, rpc'[d] = "enqueue"
        PROVE  /\ rtask'[d] \in 1..created' /\ rtask'[d] # n
               /\ status'[rtask'[d]] = "pending"
               /\ \A p \in 1..Len(stream) : stream[p] # rtask'[d]
               /\ rpc[d] = "enqueue" /\ rtask'[d] = rtask[d]
    <3>1. rpc[d] = "enqueue" /\ rtask'[d] = rtask[d]
      BY <1>t, <2>2, <2>6
    <3>2. rtask[d] \in 1..created /\ status[rtask[d]] = "pending"
      BY <1>e, <3>1 DEF Enqueuing
    <3>3. rtask[d] # n /\ rtask[d] \in 1..n /\ rtask[d] \in Tasks
      BY <2>1, <3>2
    <3>4. status'[rtask[d]] = "pending"
      BY <1>t, <2>2, <3>2, <3>3
    <3>. QED BY <1>e, <2>1, <3>1, <3>3, <3>4 DEF Enqueuing
  <2>7. ASSUME NEW d \in Clients, rpc'[d] = "enqueue"
        PROVE  /\ rtask'[d] \in 1..created'
               /\ status'[rtask'[d]] = "pending"
               /\ \A p \in 1..Len(stream) : stream[p] # rtask'[d]
    <3>1. CASE d = c
      BY <2>4, <2>5, <3>1
    <3>2. CASE d # c
      BY <2>6, <2>7, <3>2
    <3>. QED BY <3>1, <3>2
  <2>8. ASSUME NEW d \in Clients, NEW e \in Clients, d # e,
               rpc'[d] = "enqueue", rpc'[e] = "enqueue"
        PROVE  rtask'[d] # rtask'[e]
    <3>1. CASE d = c \/ e = c
      BY <2>4, <2>6, <2>8, <3>1
    <3>2. CASE d # c /\ e # c
      BY <1>e, <2>6, <2>8, <3>2 DEF Enqueuing
    <3>. QED BY <3>1, <3>2
  <2>. QED BY <1>b, <2>3, <2>7, <2>8 DEF Enqueuing
<1>c. ASSUME NEW c \in Clients, rpc[c] = "enqueue", NEW l \in {"accepted", "error"},
             Goto(c, l), UNCHANGED <<created, status, rtask>>,
             \/ stream' = Append(stream, rtask[c])
             \/ stream' = stream \o <<rtask[c], rtask[c]>>
      PROVE  Enqueuing' /\ Issued'
  <2>1. rtask[c] \in 1..created /\ rtask[c] \in Tasks
    BY <1>c, <1>e, <1>t DEF Enqueuing, StateTypes, Tasks
  <2>2. \A p \in 1..Len(stream') :
          \/ p \in 1..Len(stream) /\ stream'[p] = stream[p]
          \/ stream'[p] = rtask[c]
    <3>1. CASE stream' = Append(stream, rtask[c])
      BY <1>t, <2>1, <3>1
    <3>2. CASE stream' = stream \o <<rtask[c], rtask[c]>>
      <4>1. /\ <<rtask[c], rtask[c]>> \in Seq(Tasks)
            /\ Len(<<rtask[c], rtask[c]>>) = 2
            /\ <<rtask[c], rtask[c]>>[1] = rtask[c]
            /\ <<rtask[c], rtask[c]>>[2] = rtask[c]
        BY <2>1
      <4>2. \A i \in 1..2 : <<rtask[c], rtask[c]>>[i] = rtask[c]
        BY <4>1
      <4>. QED BY <1>t, <3>2, <4>1, <4>2
    <3>. QED BY <1>c, <3>1, <3>2
  <2>3. \A d \in Clients : rpc'[d] = "enqueue" => d # c /\ rpc[d] = "enqueue"
    BY <1>c, <1>t DEF Goto
  <2>4. Issued'
    BY <1>c, <1>e, <1>t, <2>1, <2>2 DEF Issued
  <2>5. ASSUME NEW d \in Clients, rpc'[d] = "enqueue"
        PROVE  \A p \in 1..Len(stream') : stream'[p] # rtask[d]
    <3>1. d # c /\ rpc[d] = "enqueue" /\ rtask[d] # rtask[c]
      BY <1>c, <1>e, <2>3, <2>5 DEF Enqueuing
    <3>. QED BY <1>e, <2>2, <3>1 DEF Enqueuing
  <2>. QED BY <1>c, <1>e, <2>3, <2>4, <2>5 DEF Enqueuing
<1>d. ASSUME NEW w \in Consumers, wpc[w] \in Working,
             \/ UNCHANGED status
             \/ \E s \in {"running"} \cup Terminal : SetStatus(Job(w), s),
             UNCHANGED <<created, stream, rpc, rtask>>
      PROVE  Enqueuing' /\ Issued'
  <2>1. next[w] \in 1..Len(stream)
    BY <1>d DEF TraceInv, LooseInv, StateTypes
  <2>2. \A d \in Clients : rpc[d] = "enqueue" => rtask[d] # Job(w) /\ rtask[d] \in Tasks
    BY <1>e, <2>1 DEF Enqueuing, Job, TraceInv, LooseInv
  <2>3. \A d \in Clients : rpc[d] = "enqueue" => status'[rtask[d]] = status[rtask[d]]
    BY <1>d, <1>t, <2>2 DEF SetStatus
  <2>. QED BY <1>a, <1>d, <2>3
<1>1. ASSUME NEW c \in Clients, NEW r \in Repos, Request(c, r)
      PROVE  Enqueuing' /\ Issued'
  <2>1. UNCHANGED <<created, status, stream>> /\ Waits
    BY <1>1, <1>t DEF Request, Goto, taskVars, rowVars, redisVars
  <2>. QED BY <1>a, <2>1
<1>2. ASSUME NEW c \in Clients, CheckActive(c) PROVE Enqueuing' /\ Issued'
  <2>1. UNCHANGED <<created, status, stream>> /\ Waits
    BY <1>2, <1>t DEF CheckActive, Goto, taskVars, rowVars, redisVars
  <2>. QED BY <1>a, <2>1
<1>3. ASSUME NEW c \in Clients, CreateTask(c) PROVE Enqueuing' /\ Issued'
  BY <1>3, <1>b DEF CreateTask, redisVars
<1>4. ASSUME NEW c \in Clients, CreateTaskFails(c) PROVE Enqueuing' /\ Issued'
  <2>1. CASE InsertTask(c)
    BY <1>4, <1>b, <2>1 DEF CreateTaskFails, redisVars
  <2>2. CASE UNCHANGED <<taskVars, rtask>>
    <3>1. UNCHANGED <<created, status, stream>> /\ Waits
      BY <1>4, <1>t, <2>2 DEF CreateTaskFails, Goto, taskVars, rowVars, redisVars
    <3>. QED BY <1>a, <3>1
  <2>. QED BY <1>4, <2>1, <2>2 DEF CreateTaskFails
<1>5. ASSUME NEW c \in Clients, EnqueueIndexJob(c) \/ EnqueueRetried(c)
      PROVE  Enqueuing' /\ Issued'
  BY <1>5, <1>c DEF EnqueueIndexJob, EnqueueRetried, XAdd, taskVars, rowVars
<1>6. ASSUME NEW c \in Clients, EnqueueFails(c) \/ Abort(c)
      PROVE  Enqueuing' /\ Issued'
  <2>1. UNCHANGED <<created, status, rtask>>
    BY <1>6 DEF EnqueueFails, Abort, rowVars
  <2>2. CASE UNCHANGED stream
    <3>1. Waits
      BY <1>6, <1>t, <2>1 DEF EnqueueFails, Abort, Goto
    <3>. QED BY <1>a, <2>1, <2>2, <3>1
  <2>3. CASE EnqueueFails(c) /\ XAdd(rtask[c])
    BY <1>c, <2>1, <2>3 DEF EnqueueFails, XAdd
  <2>. QED BY <1>6, <2>2, <2>3 DEF EnqueueFails, Abort, redisVars
<1>7. ASSUME Age \/ UNCHANGED vars PROVE Enqueuing' /\ Issued'
  <2>1. UNCHANGED <<created, status, stream>> /\ Waits
    BY <1>7 DEF Age, vars, taskVars, rowVars, clientVars, redisVars
  <2>. QED BY <1>a, <2>1
<1>8. ASSUME NEW w \in Consumers,
             \/ StartWorker(w) \/ XReadGroup(w) \/ XReadGroupRetried(w)
             \/ XReadGroupFails(w) \/ XAutoClaim(w) \/ Crash(w)
             \/ XAck(w) \/ XAckFails(w)
      PROVE  Enqueuing' /\ Issued'
  <2>1. UNCHANGED <<created, status, stream>> /\ Waits
    BY <1>8 DEF StartWorker, XReadGroup, XReadGroupRetried, XReadGroupFails,
                XAutoClaim, Crash, XAck, XAckFails,
                taskVars, rowVars, clientVars, redisVars
  <2>. QED BY <1>a, <2>1
<1>9. ASSUME NEW w \in Consumers,
             \/ UpdateTaskStarted(w) \/ UpdateTaskStartedFails(w)
             \/ UpdateTaskStatus(w) \/ UpdateTaskStatusFails(w)
      PROVE  Enqueuing' /\ Issued'
  <2>1. /\ wpc[w] \in Working /\ UNCHANGED <<created, stream, rpc, rtask>>
        /\ \/ UNCHANGED status
           \/ \E s \in {"running"} \cup Terminal : SetStatus(Job(w), s)
    BY <1>9 DEF UpdateTaskStarted, UpdateTaskStartedFails, UpdateTaskStatus,
                UpdateTaskStatusFails, SetStatus, Working,
                rowVars, clientVars, redisVars
  <2>. QED BY <1>d, <2>1
<1>. QED BY <1>1, <1>2, <1>3, <1>4, <1>5, <1>6, <1>7, <1>8, <1>9
         DEF Next, ClientStep, WorkerStep, XReadGroupNil

LEMMA NextTraceInv == TraceInv /\ [Next]_vars => TraceInv'
<1> SUFFICES ASSUME TraceInv, [Next]_vars
             PROVE  Held' /\ \A t \in Tasks : status'[t] \in Active => Covered(t)'
  BY NextLooseInv, NextEnqueuing DEF TraceInv
<1>t. StateTypes /\ rpc \in [Clients -> ReqStates] /\ status \in [Tasks -> Statuses]
  BY DEF TraceInv, LooseInv, StateTypes
<1> DEFINE Kept == Held' /\ \A t \in Tasks : status'[t] \in Active => Covered(t)'
<1>a. ASSUME UNCHANGED <<status, refused, unwritten, rtask, stream, skipped,
                         cursor, owner, workerVars>>,
             \A d \in Clients : rpc[d] = "enqueue" => rpc'[d] = "enqueue"
      PROVE  Kept
  BY <1>a, RequestTraces
<1>1. ASSUME NEW c \in Clients, NEW r \in Repos, Request(c, r) PROVE Kept
  <2>1. rpc[c] # "enqueue" /\ \A d \in Clients \ {c} : rpc'[d] = rpc[d]
    BY <1>t, <1>1 DEF Request, Goto, Replied
  <2>2. \A d \in Clients : rpc[d] = "enqueue" => rpc'[d] = "enqueue"
    BY <2>1
  <2>. QED BY <1>a, <1>1, <2>2 DEF Request, taskVars, rowVars, redisVars
<1>2. ASSUME NEW c \in Clients, CheckActive(c) PROVE Kept
  <2>1. rpc[c] # "enqueue" /\ \A d \in Clients \ {c} : rpc'[d] = rpc[d]
    BY <1>t, <1>2 DEF CheckActive, Goto
  <2>2. \A d \in Clients : rpc[d] = "enqueue" => rpc'[d] = "enqueue"
    BY <2>1
  <2>. QED BY <1>a, <1>2, <2>2 DEF CheckActive, taskVars, rowVars, redisVars
<1>3. ASSUME NEW c \in Clients, CreateTask(c) \/ CreateTaskFails(c) PROVE Kept
  BY <1>3, CreateTraces
<1>4. ASSUME NEW c \in Clients, EnqueueIndexJob(c) \/ EnqueueRetried(c) PROVE Kept
  BY <1>4, EnqueueTraces
<1>5. ASSUME NEW c \in Clients, EnqueueFails(c) \/ Abort(c) PROVE Kept
  BY <1>5, RefusalTraces
<1>6. ASSUME Age \/ UNCHANGED vars PROVE Kept
  BY <1>a, <1>6 DEF Age, vars, taskVars, rowVars, clientVars, redisVars
<1>7. ASSUME NEW w \in Consumers,
             \/ StartWorker(w) \/ XReadGroup(w) \/ XReadGroupRetried(w)
             \/ XReadGroupFails(w) \/ XAutoClaim(w) \/ Crash(w)
      PROVE  Kept
  BY <1>7, ReadTraces
<1>8. ASSUME NEW w \in Consumers, UpdateTaskStarted(w) PROVE Kept
  BY <1>8, <1>t, UpdatesTrace DEF UpdateTaskStarted, SetStatus
<1>9. ASSUME NEW w \in Consumers, UpdateTaskStatus(w) PROVE Kept
  <2>1. PICK s \in Terminal : SetStatus(Job(w), s)
    BY <1>9 DEF UpdateTaskStatus
  <2>2. next[w] \in 1..Len(stream) /\ stream \in Seq(Tasks)
    BY <1>9 DEF UpdateTaskStatus, TraceInv, LooseInv, StateTypes, Working
  <2>3. Job(w) \in Tasks
    BY <2>2 DEF Job
  <2>4. status'[Job(w)] \notin Active
    BY <1>t, <2>1, <2>3 DEF SetStatus, Terminal, Active
  <2>. QED BY <1>9, <1>t, <2>1, <2>4, UpdatesTrace DEF UpdateTaskStatus, SetStatus
<1>10. ASSUME NEW w \in Consumers, UpdateTaskStartedFails(w) PROVE Kept
  BY <1>10, <1>t, UpdatesTrace DEF UpdateTaskStartedFails, SetStatus, rowVars
<1>11. ASSUME NEW w \in Consumers, UpdateTaskStatusFails(w) PROVE Kept
  BY <1>11, <1>t, UpdatesTrace DEF UpdateTaskStatusFails, rowVars
<1>12. ASSUME NEW w \in Consumers, XAck(w) \/ XAckFails(w) PROVE Kept
  BY <1>12, AdvanceTraces
<1>. QED BY <1>1, <1>2, <1>3, <1>4, <1>5, <1>6, <1>7, <1>8, <1>9, <1>10, <1>11,
            <1>12 DEF Next, ClientStep, WorkerStep, XReadGroupNil

LEMMA InitTraceInv == Init => TraceInv
<1>1. IInv => LooseInv /\ Enqueuing /\ Issued
  BY IInvIsLoose DEF IInv, Messages, Issued
<1>. QED BY <1>1, InitIInv DEF Init, TraceInv, Held, Working, Active

\* Whatever fails, dies or is sent twice: a task left pending or running with
\* nothing that leads a worker to it has an UPDATE that reported an error, or
\* never began and its own request ended in an error.
THEOREM StuckTasksHaveCauses == Spec => []StuckTaskHasCause
<1>1. TraceInv => StuckTaskHasCause
  BY DEF TraceInv, Covered, Excused, Traced, Leads, StuckTaskHasCause, Traceable
<1>. QED BY <1>1, InitTraceInv, NextTraceInv, PTL DEF Spec

\* The statements that change the tables and the stream succeed; whatever
\* reads or acknowledges may fail, and any command may be sent twice.
TablesHold == Faults \subseteq {"xread", "xack", "retry"}

\* Then neither cause occurs.
NoCause == refused = {} /\ unwritten = {}

LEMMA NextNoCause == ASSUME TablesHold PROVE NoCause /\ [Next]_vars => NoCause'
<1> SUFFICES ASSUME NoCause, [Next]_vars PROVE NoCause'
  OBVIOUS
<1>1. ASSUME NEW c \in Clients
      PROVE  ~CreateTaskFails(c) /\ ~EnqueueFails(c) /\ ~Abort(c)
  BY DEF CreateTaskFails, EnqueueFails, Abort, TablesHold
<1>2. ASSUME NEW w \in Consumers
      PROVE  ~UpdateTaskStartedFails(w) /\ ~UpdateTaskStatusFails(w)
  BY DEF UpdateTaskStartedFails, UpdateTaskStatusFails, TablesHold
<1>3. ASSUME UNCHANGED <<refused, unwritten>> PROVE NoCause'
  BY <1>3 DEF NoCause
<1>4. ASSUME NEW c \in Clients,
             \/ \E r \in Repos : Request(c, r)
             \/ CheckActive(c) \/ CreateTask(c)
             \/ EnqueueIndexJob(c) \/ EnqueueRetried(c)
      PROVE  NoCause'
  BY <1>3, <1>4 DEF Request, CheckActive, CreateTask, InsertTask,
                    EnqueueIndexJob, EnqueueRetried, taskVars
<1>5. ASSUME NEW w \in Consumers,
             \/ StartWorker(w) \/ XReadGroup(w) \/ XReadGroupRetried(w)
             \/ XReadGroupFails(w) \/ UpdateTaskStarted(w)
             \/ UpdateTaskStatus(w) \/ XAck(w) \/ XAckFails(w)
             \/ XAutoClaim(w) \/ Crash(w)
      PROVE  NoCause'
  BY <1>3, <1>5
     DEF StartWorker, XReadGroup, XReadGroupRetried, XReadGroupFails,
         UpdateTaskStarted, UpdateTaskStatus, SetStatus, XAck, XAckFails,
         XAutoClaim, Crash, taskVars
<1>6. ASSUME Age \/ UNCHANGED vars PROVE NoCause'
  BY <1>3, <1>6 DEF Age, vars, taskVars
<1>. QED BY <1>1, <1>2, <1>4, <1>5, <1>6
         DEF Next, ClientStep, WorkerStep, XReadGroupNil

\* A pending or running task is then never without evidence: a request about to
\* enqueue it, an undelivered message, or an entry of the PEL.
THEOREM ActiveTasksTraced ==
  ASSUME TablesHold PROVE Spec => []ActiveTaskTraceable
<1>1. Init => TraceInv /\ NoCause
  BY InitTraceInv DEF Init, NoCause
<1>2. TraceInv /\ NoCause => ActiveTaskTraceable
  BY DEF TraceInv, NoCause, Covered, Excused, Traced, Leads,
         ActiveTaskTraceable, Traceable
<1>. QED BY <1>1, <1>2, NextTraceInv, NextNoCause, PTL DEF Spec
=============================================================================
