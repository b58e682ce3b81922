----------------------------- MODULE IndexQueue -----------------------------
(***************************************************************************)
(* How an index job travels: POST /repos/{id}/index (internal/repo) admits *)
(* it, inserts a row of `tasks` and appends a message to the Redis stream  *)
(* index-jobs; a worker (internal/indexer/worker.go) of the consumer group *)
(* reads the message, runs the job, and acknowledges it.                   *)
(*                                                                         *)
(* Every statement sent to PostgreSQL or Redis is one atomic step, and the *)
(* steps of requests and workers interleave freely: nothing in the code    *)
(* holds a transaction or a lock from one statement to the next.           *)
(*                                                                         *)
(* Tasks are numbered by created_at, so "newest" is "largest", and the     *)
(* tasks older than STALE_TASK_THRESHOLD_MINUTES are those up to `aged`.   *)
(* A consumer name is worker-<fresh uuid>: a process that restarts comes   *)
(* back as another element of Consumers.                                   *)
(***************************************************************************)
EXTENDS Naturals, Sequences

CONSTANTS
  Repos,      \* registered repositories
  Clients,    \* concurrent POST /repos/{id}/index requests
  Consumers,  \* consumer names, one per worker start
  Mortal,     \* the consumers whose process may crash or be shut down
  MaxTasks,   \* bound: tasks ever created
  BatchSize,  \* COUNT of XREADGROUP (10 in the code)
  Faults,     \* which statements may fail, see FaultKinds
  NoRepo, NoOne \* a task not yet created; a message not in the PEL

FaultKinds == {"abort",   \* the request dies between two statements
               "insert",  \* INSERT INTO tasks
               "xadd", "xread", "xack",
               "update",  \* UPDATE tasks
               "retry"}   \* go-redis sends a command again, its reply was lost

ASSUME IndexQueueAssumption ==
  /\ MaxTasks \in Nat
  /\ BatchSize \in Nat \ {0}
  /\ Mortal \subseteq Consumers
  /\ Faults \subseteq FaultKinds
  /\ NoRepo \notin Repos /\ NoOne \notin Consumers

Tasks     == 1..MaxTasks
Positions == 1..MaxTasks   \* positions of the stream: one XADD per task

Active   == {"pending", "running"}
Terminal == {"completed", "partial", "failed"}
Statuses == {"none"} \cup Active \cup Terminal

VARIABLES
  created,  \* number of rows of tasks; the newest is task `created`
  status,   \* tasks.status
  repoOf,   \* tasks.repo_id
  aged,     \* tasks 1..aged are older than the stale threshold
  seen,     \* history: rows that existed when the task's request looked
  refused,  \* history: tasks whose request ended in an error
  unwritten, \* history: tasks of which an UPDATE reported an error
  rpc, rrepo, rtask, rseen,  \* the requests: next statement and locals
  group,    \* the consumer group exists
  stream,   \* task ids in XADD order
  skipped,  \* messages older than the group: it was created at "$"
  cursor,   \* last-delivered-id of the group
  owner,    \* the pending entries list: position -> consumer
  wpc,      \* the workers: next statement
  next, last \* the batch a worker still has in memory

rowVars    == <<created, status, repoOf, aged, seen>>
taskVars   == <<rowVars, refused, unwritten>>
clientVars == <<rpc, rrepo, rtask, rseen>>
redisVars  == <<group, stream, skipped, cursor, owner>>
workerVars == <<wpc, next, last>>
vars == <<taskVars, clientVars, redisVars, workerVars>>

ReqStates    == {"idle", "check", "create", "enqueue",
                 "accepted", "conflict", "error"}
Replied      == {"idle", "accepted", "conflict", "error"}
WorkerStates == {"down", "reading", "start", "run", "ack", "stopped", "gone"}
Working      == {"start", "run", "ack"}
Up           == WorkerStates \ {"down", "gone"}

Init ==
  /\ created = 0 /\ aged = 0
  /\ status = [t \in Tasks |-> "none"]
  /\ repoOf = [t \in Tasks |-> NoRepo]
  /\ seen = [t \in Tasks |-> 0]
  /\ refused = {} /\ unwritten = {}
  /\ rpc = [c \in Clients |-> "idle"]
  /\ rrepo = [c \in Clients |-> NoRepo]
  /\ rtask = [c \in Clients |-> 0]
  /\ rseen = [c \in Clients |-> 0]
  /\ group = FALSE /\ stream = << >> /\ skipped = 0 /\ cursor = 0
  /\ owner = [p \in Positions |-> NoOne]
  /\ wpc = [w \in Consumers |-> "down"]
  /\ next = [w \in Consumers |-> 1]
  /\ last = [w \in Consumers |-> 0]

-----------------------------------------------------------------------------
(* The tasks table as the handlers read it.                                *)

TasksOf(r) == {t \in 1..created : repoOf[t] = r}

\* A bug: only a running task counts as active.
GetRunningTask(r) == {t \in TasksOf(r) : status[t] = "running" /\ t > aged}

\* GetActiveTask: the newest active task unless it is stale.  The newest is
\* stale only if all are, so it finds one exactly when this set is not empty.
GetActiveTask(r) == {t \in TasksOf(r) : status[t] \in Active /\ t > aged}

\* A bug: ORDER BY created_at, without DESC.
OldestTask(r) == {t \in TasksOf(r) : \A u \in TasksOf(r) : t <= u}

\* The task a repository's status is derived from: none, or one.
NewestTask(r) == {t \in TasksOf(r) : \A u \in TasksOf(r) : u <= t}

deriveRepoStatus(t) ==
  IF status[t] \in Active /\ t > aged THEN "indexing"
  ELSE CASE status[t] = "completed"            -> "indexed"
         [] status[t] \in {"partial", "failed"} -> status[t]
         [] OTHER                              -> "registered"

\* Whether questions and impact requests about r are let through.  Without a
\* task r is "registered", and they are not.
Queryable(r) ==
  \E t \in NewestTask(r) : deriveRepoStatus(t) \in {"indexed", "partial"}

-----------------------------------------------------------------------------
(* POST /repos/{id}/index.                                                 *)

Goto(c, pc) == rpc' = [rpc EXCEPT ![c] = pc]

\* The repository is read first; it exists, and nothing is changed.
Request(c, r) ==
  /\ rpc[c] \in Replied
  /\ created < MaxTasks
  /\ Goto(c, "check")
  /\ rrepo' = [rrepo EXCEPT ![c] = r]
  /\ UNCHANGED <<taskVars, rtask, rseen, redisVars, workerVars>>

CheckActive(c) ==
  /\ rpc[c] = "check"
  /\ Goto(c, IF GetActiveTask(rrepo[c]) = {} THEN "create" ELSE "conflict")
  /\ rseen' = [rseen EXCEPT ![c] = created]
  /\ UNCHANGED <<taskVars, rrepo, rtask, redisVars, workerVars>>

InsertTask(c) ==
  /\ created < MaxTasks
  /\ created' = created + 1
  /\ status' = [status EXCEPT ![created'] = "pending"]
  /\ repoOf' = [repoOf EXCEPT ![created'] = rrepo[c]]
  /\ seen' = [seen EXCEPT ![created'] = rseen[c]]
  /\ rtask' = [rtask EXCEPT ![c] = created']
  /\ UNCHANGED <<aged, unwritten>>

CreateTask(c) ==
  /\ rpc[c] = "create"
  /\ InsertTask(c)
  /\ Goto(c, "enqueue")
  /\ UNCHANGED <<refused, rrepo, rseen, redisVars, workerVars>>

\* The INSERT is refused, or is committed and its reply lost.
CreateTaskFails(c) ==
  /\ "insert" \in Faults
  /\ rpc[c] = "create"
  /\ \/ InsertTask(c) /\ refused' = refused \cup {created'}
     \/ UNCHANGED <<taskVars, rtask>>
  /\ Goto(c, "error")
  /\ UNCHANGED <<rrepo, rseen, redisVars, workerVars>>

\* The bound on tasks bounds the stream too: without retries it never bites.
XAdd(t) == Len(stream) < MaxTasks /\ stream' = Append(stream, t)

EnqueueIndexJob(c) ==
  /\ rpc[c] = "enqueue"
  /\ XAdd(rtask[c])
  /\ Goto(c, "accepted")
  /\ UNCHANGED <<taskVars, rrepo, rtask, rseen, group, skipped, cursor, owner,
                 workerVars>>

\* XADD is executed, its reply is lost, and the client library sends it again.
EnqueueRetried(c) ==
  /\ "retry" \in Faults
  /\ rpc[c] = "enqueue"
  /\ Len(stream) + 1 < MaxTasks
  /\ stream' = stream \o <<rtask[c], rtask[c]>>
  /\ Goto(c, "accepted")
  /\ UNCHANGED <<taskVars, rrepo, rtask, rseen, group, skipped, cursor, owner,
                 workerVars>>

\* The row stays pending whether or not the message was added.
EnqueueFails(c) ==
  /\ "xadd" \in Faults
  /\ rpc[c] = "enqueue"
  /\ XAdd(rtask[c]) \/ UNCHANGED stream
  /\ Goto(c, "error") /\ refused' = refused \cup {rtask[c]}
  /\ UNCHANGED <<rowVars, unwritten, rrepo, rtask, rseen, group, skipped,
                 cursor, owner, workerVars>>

\* The client hangs up, or the process dies, between two statements.
Abort(c) ==
  /\ "abort" \in Faults
  /\ rpc[c] \notin Replied
  /\ Goto(c, "error")
  /\ refused' = IF rpc[c] = "enqueue" THEN refused \cup {rtask[c]} ELSE refused
  /\ UNCHANGED <<rowVars, unwritten, rrepo, rtask, rseen, redisVars, workerVars>>

\* Time passes: one more task is older than the stale threshold.
Age ==
  /\ aged < created
  /\ aged' = aged + 1
  /\ UNCHANGED <<created, status, repoOf, seen, refused, unwritten, clientVars,
                 redisVars, workerVars>>

-----------------------------------------------------------------------------
(* Worker.Start: create the group, read, run, acknowledge, repeat.         *)

Step(w, pc) == wpc' = [wpc EXCEPT ![w] = pc]
Job(w) == stream[next[w]]

\* A bug: each start resets the group to its first message.
StartWorkerFromTheFirst(w) ==
  /\ wpc[w] = "down"
  /\ Step(w, "reading")
  /\ group' = TRUE
  /\ cursor' = skipped
  /\ UNCHANGED <<taskVars, clientVars, stream, skipped, owner, next, last>>

\* XGROUP CREATE at "$": what is already in the stream is never delivered.
StartWorker(w) ==
  /\ wpc[w] = "down"
  /\ Step(w, "reading")
  /\ group' = TRUE
  /\ IF group THEN UNCHANGED <<skipped, cursor>>
     ELSE skipped' = Len(stream) /\ cursor' = Len(stream)
  /\ UNCHANGED <<taskVars, clientVars, stream, owner, next, last>>

\* XREADGROUP >: the next messages, up to BatchSize, enter the PEL.
Deliver(w) ==
  LET n == IF Len(stream) - cursor < BatchSize THEN Len(stream) - cursor
                                               ELSE BatchSize
  IN  /\ cursor < Len(stream)
      /\ cursor' = cursor + n
      /\ owner' = [p \in Positions |->
                     IF cursor < p /\ p <= cursor + n THEN w ELSE owner[p]]

\* A bug: reading with NOACK, so that nothing enters the PEL.
XReadGroupNoAck(w) ==
  /\ wpc[w] = "reading"
  /\ cursor < Len(stream)
  /\ cursor' = cursor + 1
  /\ next' = [next EXCEPT ![w] = cursor + 1]
  /\ last' = [last EXCEPT ![w] = cursor']
  /\ Step(w, "start")
  /\ UNCHANGED <<taskVars, clientVars, group, stream, skipped, owner>>

XReadGroup(w) ==
  /\ wpc[w] = "reading"
  /\ Deliver(w)
  /\ next' = [next EXCEPT ![w] = cursor + 1]
  /\ last' = [last EXCEPT ![w] = cursor']
  /\ Step(w, "start")
  /\ UNCHANGED <<taskVars, clientVars, group, stream, skipped>>

\* BLOCK elapses: redis.Nil, read again.
XReadGroupNil(w) ==
  /\ wpc[w] = "reading"
  /\ cursor = Len(stream)
  /\ UNCHANGED vars

\* Any other error ends Start for good; the messages may have been delivered
\* to this consumer before the reply was lost.
XReadGroupFails(w) ==
  /\ "xread" \in Faults
  /\ wpc[w] = "reading"
  /\ Deliver(w) \/ UNCHANGED <<cursor, owner>>
  /\ Step(w, "stopped")
  /\ UNCHANGED <<taskVars, clientVars, group, stream, skipped, next, last>>

\* XREADGROUP is executed, its reply is lost, and the client library sends it
\* again: what it delivered stays in the PEL and is in no batch.
XReadGroupRetried(w) ==
  /\ "retry" \in Faults
  /\ wpc[w] = "reading"
  /\ Deliver(w)
  /\ UNCHANGED <<taskVars, clientVars, group, stream, skipped, workerVars>>

SetStatus(t, s) ==
  /\ status' = [status EXCEPT ![t] = s]
  /\ UNCHANGED <<created, repoOf, aged, seen, refused>>

UpdateTaskStarted(w) ==
  /\ wpc[w] = "start"
  /\ SetStatus(Job(w), "running")
  /\ Step(w, "run")
  /\ UNCHANGED <<unwritten, clientVars, redisVars, next, last>>

\* The run returns before doing anything, and its error is dropped.
UpdateTaskStartedFails(w) ==
  /\ "update" \in Faults
  /\ wpc[w] = "start"
  /\ SetStatus(Job(w), "running") \/ UNCHANGED <<rowVars, refused>>
  /\ unwritten' = unwritten \cup {Job(w)}
  /\ Step(w, "ack")
  /\ UNCHANGED <<clientVars, redisVars, next, last>>

\* A bug: the repository's vocabulary ends up in tasks.status.
UpdateTaskStatusIndexed(w) ==
  /\ wpc[w] = "run"
  /\ SetStatus(Job(w), "indexed")
  /\ Step(w, "ack")
  /\ UNCHANGED <<unwritten, clientVars, redisVars, next, last>>

\* The job's last statement: completed or partial, or failed from failTask.
UpdateTaskStatus(w) ==
  /\ wpc[w] = "run"
  /\ \E s \in Terminal : SetStatus(Job(w), s)
  /\ Step(w, "ack")
  /\ UNCHANGED <<unwritten, clientVars, redisVars, next, last>>

UpdateTaskStatusFails(w) ==
  /\ "update" \in Faults
  /\ wpc[w] = "run"
  /\ unwritten' = unwritten \cup {Job(w)}
  /\ Step(w, "ack")
  /\ UNCHANGED <<rowVars, refused, clientVars, redisVars, next, last>>

\* A bug: only the first message of a batch is processed.
AdvanceOnce(w) ==
  /\ next' = [next EXCEPT ![w] = @ + 1]
  /\ Step(w, "reading")
  /\ UNCHANGED last

Advance(w) ==
  /\ next' = [next EXCEPT ![w] = @ + 1]
  /\ Step(w, IF next[w] < last[w] THEN "start" ELSE "reading")
  /\ UNCHANGED last

XAck(w) ==
  /\ wpc[w] = "ack"
  /\ owner' = [owner EXCEPT ![next[w]] = NoOne]
  /\ Advance(w)
  /\ UNCHANGED <<taskVars, clientVars, group, stream, skipped, cursor>>

\* The error of XACK is ignored.
XAckFails(w) ==
  /\ "xack" \in Faults
  /\ wpc[w] = "ack"
  /\ Advance(w)
  /\ UNCHANGED <<taskVars, clientVars, redisVars>>

\* A bug: the claimer runs what it claims, with no look at the task.
XAutoClaimAndRun(w) ==
  /\ wpc[w] = "reading"
  /\ \E p \in Positions :
       /\ owner[p] # NoOne
       /\ owner' = [owner EXCEPT ![p] = w]
       /\ next' = [next EXCEPT ![w] = p]
       /\ last' = [last EXCEPT ![w] = p]
  /\ Step(w, "start")
  /\ UNCHANGED <<taskVars, clientVars, group, stream, skipped, cursor>>

\* XAUTOCLAIM: entries idle for 30 s change owner.  The claimed messages are
\* discarded, by a loop that outlives a Start which returned an error.
XAutoClaim(w) ==
  /\ wpc[w] \in Up
  /\ \E S \in SUBSET {p \in Positions : owner[p] # NoOne} :
       /\ S # {}
       /\ owner' = [p \in Positions |-> IF p \in S THEN w ELSE owner[p]]
  /\ UNCHANGED <<taskVars, clientVars, group, stream, skipped, cursor,
                 workerVars>>

\* The process dies, or is shut down: main does not wait for the worker, whose
\* context is cancelled so that every later statement fails.
Crash(w) ==
  /\ w \in Mortal
  /\ wpc[w] \in Up
  /\ Step(w, "gone")
  /\ UNCHANGED <<taskVars, clientVars, redisVars, next, last>>

-----------------------------------------------------------------------------
ClientStep(c) ==
  \/ CheckActive(c)
  \/ CreateTask(c)
  \/ CreateTaskFails(c)
  \/ EnqueueIndexJob(c)
  \/ EnqueueRetried(c)
  \/ EnqueueFails(c)

WorkerStep(w) ==
  \/ XReadGroup(w)
  \/ XReadGroupRetried(w)
  \/ XReadGroupFails(w)
  \/ UpdateTaskStarted(w)
  \/ UpdateTaskStartedFails(w)
  \/ UpdateTaskStatus(w)
  \/ UpdateTaskStatusFails(w)
  \/ XAck(w)
  \/ XAckFails(w)

Next ==
  \/ \E c \in Clients, r \in Repos : Request(c, r)
  \/ \E c \in Clients : ClientStep(c) \/ Abort(c)
  \/ Age
  \/ \E w \in Consumers :
       \/ StartWorker(w)
       \/ WorkerStep(w)
       \/ XReadGroupNil(w)
       \/ XAutoClaim(w)
       \/ Crash(w)

Spec == Init /\ [][Next]_vars

\* Goroutines are scheduled, processes are started, and the index run (bounded
\* calls and loops over a finite tree) returns.
Fairness ==
  /\ \A c \in Clients : WF_vars(ClientStep(c))
  /\ \A w \in Consumers : /\ WF_vars(StartWorker(w))
                          /\ WF_vars(WorkerStep(w))
                          /\ WF_vars(XAutoClaim(w))

FairSpec == Spec /\ Fairness
-----------------------------------------------------------------------------
(* What makes the dispatch correct.                                        *)

StateTypes ==
  /\ created \in 0..MaxTasks /\ aged \in 0..created
  /\ status \in [Tasks -> Statuses]
  /\ repoOf \in [Tasks -> Repos \cup {NoRepo}]
  /\ seen \in [Tasks -> 0..MaxTasks]
  /\ rpc \in [Clients -> ReqStates]
  /\ rrepo \in [Clients -> Repos \cup {NoRepo}]
  /\ rtask \in [Clients -> 0..MaxTasks]
  /\ rseen \in [Clients -> 0..MaxTasks]
  /\ group \in BOOLEAN
  /\ stream \in Seq(Tasks) /\ Len(stream) <= MaxTasks
  /\ cursor \in 0..Len(stream) /\ skipped \in 0..cursor
  /\ owner \in [Positions -> Consumers \cup {NoOne}]
  /\ wpc \in [Consumers -> WorkerStates]
  /\ next \in [Consumers -> 1..MaxTasks + 1]
  /\ last \in [Consumers -> 0..MaxTasks]
  /\ \A w \in Consumers : last[w] <= cursor
HistoryTypes == refused \subseteq Tasks /\ unwritten \subseteq Tasks

\* The type invariant: ids, cursors and batches stay inside the stream.
TypeOK == StateTypes /\ HistoryTypes

\* A poller of GET /tasks/{id} sees pending, then running, then one final
\* result: no delivery, crash, restart or claim runs a task a second time,
\* unless the client library added its message twice.
Life == INSTANCE TaskLifecycle WITH Tasks <- Tasks, status <- status
LifecycleKept == Life!Spec

\* No two workers have the same task in hand, however they read, claim, crash
\* and come back, as long as no XADD is sent twice.
ExclusiveWork ==
  \A v, w \in Consumers :
    v # w /\ wpc[v] \in Working /\ wpc[w] \in Working =>
      \A p \in next[v]..last[v], q \in next[w]..last[w] :
        stream[p] # stream[q]

\* TriggerIndex checks and inserts in two statements.  It never admits a task
\* beside an older fresh active task of the repository, unless the older row
\* was inserted after the newer task's own check: a sequential caller is safe.
NoOverlapWithoutRace ==
  \A t, u \in 1..created :
    /\ t < u /\ repoOf[t] = repoOf[u]
    /\ status[t] \in Active /\ t > aged
    => t > seen[u]

\* The status of a repository is that of its newest task alone.  At the moment
\* a question or an impact request is let through, no fresh task of the
\* repository is running, unless a newer task was admitted beside it by a race.
\* This is about the gate: a run that starts once the question is through
\* rewrites the tables under it all the same.
GateOpenNeedsRace ==
  \A r \in Repos : Queryable(r) =>
    \A t \in TasksOf(r) : status[t] = "running" /\ t > aged =>
      \E u \in TasksOf(r) : t < u /\ t > seen[u]

\* As long as the statements that change the tables succeed, every task still
\* pending or running can be traced to a request about to enqueue it, to an
\* undelivered message or to an entry of the PEL: a crash, a lost reply, a
\* failed XACK or a command sent twice loses no evidence.  A message older
\* than the consumer group stays in the stream undelivered.
Traceable(t) ==
  \/ \E c \in Clients : rpc[c] = "enqueue" /\ rtask[c] = t
  \/ \E p \in 1..Len(stream) :
       /\ stream[p] = t
       /\ p > cursor \/ p <= skipped \/ owner[p] # NoOne
ActiveTaskTraceable == \A t \in Tasks : status[t] \in Active => Traceable(t)

\* Whatever fails: a task that stays pending or running with nothing left that
\* could lead a worker to it, and closes its repository until it is stale, goes
\* back to an UPDATE that reported an error, whose message is acknowledged all
\* the same; or it never started and its own client was told of an error, or
\* hung up.  A crash, a failed XACK or a claim is never enough.
StuckTaskHasCause ==
  \A t \in Tasks : status[t] \in Active /\ ~Traceable(t) =>
    \/ t \in unwritten
    \/ status[t] = "pending" /\ t \in refused

\* Whatever reads and acknowledgements fail or are sent twice, a message the
\* group can see is read as long as a worker reads, and a worker that has read
\* it brings its task to a final result unless its process dies.
MessageRead ==
  \A p \in Positions :
    group /\ skipped < p /\ p <= Len(stream)
      ~> p <= cursor \/ \A w \in Consumers : wpc[w] \in {"stopped", "gone"}
BatchFinished ==
  \A w \in Consumers, p \in Positions :
    wpc[w] \in Working /\ next[w] <= p /\ p <= last[w]
      ~> \/ wpc[w] = "gone"
         \/ p \in DOMAIN stream /\ status[stream[p]] \in Terminal
DeliveredTaskEnds == MessageRead /\ BatchFinished

\* The plan's promise after a crash: "the message is processed again, and
\* the task is completed at last".
CrashedTaskEnds ==
  \A t \in Tasks : status[t] = "running" ~> status[t] \in Terminal
=============================================================================
