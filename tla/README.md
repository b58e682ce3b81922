# LogicMap in TLA+

LogicMap indexes source repositories into PostgreSQL (functions, call edges,
vectors) and answers questions about them with a tool-using language model.
This directory holds TLA+ models of its concurrent parts, the TLC runs that
check them on small instances, and TLAPS proofs for instances of any size.
Paths below are relative to the repository (`internal/…`, `cmd/…`); "the plan"
is `docs/plans/2026-04-02-001-feat-logicmap-core-service-plan.md`.

## 1. The system

| component | state | operations | hard behaviour |
|---|---|---|---|
| **repo** `internal/repo` | tables `repos`, `tasks`; stream `index-jobs` | register a repository; `POST /repos/{id}/index` (check for an active task, insert a task, XADD); derive a repository's status from its newest task; read tasks | check and insert are two statements; insert and XADD are two systems; staleness is judged by `created_at` |
| **indexer worker** `internal/indexer/worker.go` | consumer group and pending entries list (PEL) in Redis; a batch in memory | create the group, read up to 10 messages, run and acknowledge each, claim entries idle for 30 s | crash between any two steps, claims of entries still in hand, failed or repeated commands, shutdown without draining |
| **indexer run** `internal/indexer/indexer.go`, `store.go` | tables `functions`, `call_edges`, `unresolved_edges`; `repos.indexed_files`; the HNSW index | full run: drop index, delete, collect, parse, insert, resolve, recreate, snapshot; incremental run: diff with the snapshot, delete, parse, insert, resolve, snapshot | every statement commits alone; sources change meanwhile; runs overlap; one bad file |
| **parser** `internal/indexer/parser.go` | none | names, lines and calls of one file from tree-sitter queries | one name twice in a file, functions without a name, whose call it is |
| **embedding** `internal/embedding` | one semaphore and error channel per call | embed the texts of a file in batches of 100 | goroutines, first error wins, cancellation, a select with several ready cases |
| **agent** `internal/agent` | the conversation of one question | turns of the model, tool calls, 20-call limit, deadline | events are dropped when nobody reads; leaving while the model still streams |
| **llm** `internal/llm` | one stream accumulator per request | turn a provider's stream into text, tool calls, done or error | calls split over chunks, streams that end early |
| **query** `internal/query` | the answer cache in Redis | gate on status, replay a cached answer or run the agent, forward events, cache them | client leaves, cache older than the index, errors cached |
| **impact** `internal/impact` | none | callers up to a depth by a recursive query, summary by the model | cycles, index runs beside it |
| **webhook** `internal/webhook` | none | pull request event → changed functions → impact → comment | failing calls, GitHub's ten seconds, index runs beside it |
| **server** `cmd/server`, `internal/server`, `config`, `db` | none | wiring, start, shutdown | shutdown cuts the worker off |

A request to index goes handler → service → store → Redis stream → worker →
indexer → PostgreSQL. A question goes handler → query service → (repository
status, cache) → agent ⇄ model and tools → channel → forwarding goroutine →
channel → SSE. The only state the two paths share is PostgreSQL: a question is
gated on the status derived from `tasks`, and its tools read `functions` and
the edge tables while an index run may be writing them. An impact request and a
pull request event pass the same gate, GitHub's twice, and read the same tables.

What makes each part right:

* **repo, worker**: a task is run at most once and its result is final; what
  was accepted is not lost without a trace, and a task that is left active has a
  cause; at most one run per repository; no question let through during a
  rebuild.
* **indexer run**: whatever order of failures, crashes, edits and runs, a file
  an incremental run skips is indexed, a removed file is forgotten, an edge
  joins stored functions, no call is dropped silently, and no run fails over
  what an earlier one left behind.
* **embedding**: all vectors or the error that prevented them, never more calls
  at once than configured, no goroutine left behind.
* **agent, query, llm**: events reach the client in order and with an end, live
  or replayed; every response ends; nothing outlives a client that leaves; a
  tool call is handed over whole and once, and none is overlooked silently.
* **impact, webhook**: exactly the callers within the depth; one comment per
  event; every event is answered.

## 2. Modules

| module | models | runs |
|---|---|---|
| `TaskLifecycle` | what `tasks.status` promises to a poller | property of `queue_safety` |
| `IndexQueue` | requests, `tasks`, the stream, the PEL, the workers | `queue_*` through `MCIndexQueue` |
| `IndexQueueProofs` | theorems about `IndexQueue` | |
| `SourceParser` | the functions and calls of one source file | constants and operators of `IndexRun` |
| `IndexRun` | the statements of index runs over one repository | `run_*` through `MCIndexRun` |
| `IndexRunProofs` | theorems about `IndexRun` | |
| `BatchEmbed` | the goroutines of one `BatchEmbed` call | `embed` |
| `BatchEmbedProofs` | theorems about `BatchEmbed` | |
| `AnswerStream` | what a client of `POST /query` may receive | property of `query` |
| `QueryStream` | handler, forwarding goroutine, agent, model stream and cache of one question | `query` |
| `QueryStreamProofs` | theorems about `QueryStream` | |
| `ModelTurn` | what `LLMClient` promises the agent about one turn | property of `turn` |
| `ToolCallStream` | how the three clients put tool calls together | `turn` |
| `ToolCallStreamProofs` | theorems about `ToolCallStream` | |
| `CallGraph` | the recursive query, and what callers within a depth are | operators of `PullReview` |
| `PullReview` | impact requests and pull request events beside index runs | `review*` through `MCPullReview` |
| `PullReviewProofs` | theorems about `PullReview` | |
| `CallGraphProofs` | the recursive query is exact, on any graph | |
| `NaturalOrder` | induction over numbers, stated for sets | |

Three pairs are refinements: `IndexQueue` implements `TaskLifecycle`
(`LifecycleKept`), `QueryStream` implements `AnswerStream` (`StreamKept`),
`ToolCallStream` implements `ModelTurn` (`TurnKept`). All are checked and proved.

Definitions whose comment begins "A bug:" are plausible wrong versions of the
action named beside them. No specification uses them; they serve to see that
each property notices the bug it is there for.

### IndexQueue

Each statement sent to PostgreSQL or Redis is one action, because the code holds
no transaction or lock across statements. A request is a `pc` over
`check → create → enqueue` (`TriggerIndex`, service.go:56); the task row, the
message and the reply are separate steps with their own failures: a statement
is refused, or executes and its reply is lost (`…Fails`), or the client library
sends it again (`…Retried`: go-redis retries three times unless told otherwise,
and `internal/db/redis.go` does not), or the request ends in between (`Abort`).
A worker is a `pc` over `reading → start → run → ack` and a batch
`next[w]..last[w]` of stream positions it holds in memory. Redis is the group's
`cursor` (last-delivered-id), and `owner`, which is the PEL. A worker's name
contains a fresh UUID, so a restart is another element of `Consumers`;
`Crash` also stands for shutdown, since `main` cancels the worker's context
and returns without waiting (main.go:104), after which its statements fail.

Tasks are numbered in the order of `created_at`. `aged` says how many of them
are older than the stale threshold: as all have one threshold, these are always
the first ones. `GetActiveTask` is then the set of active tasks newer than
`aged`; the code fetches the newest active task and drops it when stale, which
finds one exactly when this set is not empty.

Three variables are history: `seen`, the rows that existed when a task's request
looked; `refused`, the tasks whose request ended in an error or was given up;
`unwritten`, those of which an UPDATE reported an error.

The index run is the step from `run` to `ack` with any final status; `IndexRun`
opens it up. `Terminal` and `Active` are the code's own strings. `NewestTask`
and `deriveRepoStatus` are the status `GetRepo` computes, `Queryable` is the gate
of questions (query/service.go:51) and of impact requests.

### IndexRun

One action per store statement of `RunFullIndex` and `RunIncrementalIndex`, in
the code's order, for any number of jobs of one repository. A request comes in
two steps, since nothing holds them together: `ChooseType` is the handler's look
at `indexed_files` (internal/repo/handler.go:130), which makes a request without
a type full or incremental; `Admit` is the check and the insert of `TriggerIndex`
(service.go:56), any number of other requests and runs later. `hollow` is
history: a full run has deleted the functions of a repository that has a
snapshot, and no full run has replaced the snapshot since. A file is its
modification time (0 when absent), which is all an incremental run looks at; a
stored function is a row with the job that inserted it (for its fresh id), file,
name and the time of the content it was parsed from. The text written to a file
at a time is a constant (`Source`), and `SourceParser` says what `ParseFile` of
parser.go makes of it: a text is the list of the matches of the two tree-sitter
queries, a function has its first and last line, an arrow function is named
after its line, and a call belongs to the function of the smallest range around
its line. `ParseFile` is one file's read, parse and embedding; the
order of files within a run does not matter, as nothing is written before
`BulkInsertFunctions`. Foreign keys are modelled where they act: deletes cascade
over both edge tables, an insert that refers to a deleted function fails its
batch, the UNIQUE key of `functions` fails the COPY. `GetFunctionMap` has no
ORDER BY, so an ambiguous name resolves to any of its rows.

### BatchEmbed

One goroutine per batch and one that closes `done` after `wg.Wait`. `Acquire`
of `golang.org/x/sync` succeeds exactly while the context is not done. The
channel holds the first error; the final select takes any ready case. A call
may fail on its own or because it found the context done.

### QueryStream

Five processes and the channels between them: the SSE handler (`HandleQuery`),
the goroutine of `Query`, the goroutine of `Run`, that of `readStream`, and the
one that `QueryCache.Set` starts. The first channel is unbuffered: `offer` is the
event `readStream` waits to hand over. The other two are sequences of at most
`Capacity` events, closed when their writer has ended. A turn of the model begins
with a request (`StreamWithTools`) that is answered (`StreamOpens`), fails
(`RequestFails`) or is left without an answer (`RequestStalls`): `httpClient.Do`
waits for the head of the response under the context alone. `Emit` appends or drops
(`lost`), `SendAndCapture` waits. `ToolCalls` are `submit_chain_result` and the
four queries; their results only matter to the model, which is free anyway. The
three clients differ in how they parse; what they hand over, how they fail, and
that each send gives way to the context, they share. Requests follow each other,
so that a second one can be answered from the cache; it starts when nothing of
the first is at work.

### ToolCallStream

One turn of the model, read by one of the three clients: the constants bound the
calls and the fragments of each call's arguments, which may be none; `Init`
chooses the turn and the client. `acc` is `toolBlocks` or `toolCalls`, keyed by
the block, by the call's index or, for Ollama, by the position in the chunk. A
fragment is a pair (call, number), and a text of arguments parses when it is the
whole of one call or empty. Anthropic's blocks come one after the other and each
is emitted when it is closed; OpenAI's fragments may be mixed and are flushed on
`tool_calls`; Ollama's calls are whole and are flushed at whatever end. The wire
may end early (`cut`), break (`broken`), OpenAI's may say "stop" after calls
have begun (`stopped`), and the context may be cancelled at any time. `Mixed`
says that Ollama sent calls in several chunks, one of them without arguments.
Assumed of a provider is that a call has a name and an id and that whole
arguments are JSON.

`ModelTurn` says that calls are handed over whole, in order and once. It has two
exceptions, each allowed only after its cause: a call without its arguments
(`Bare`) once the stream was cut, and a call out of order or with an earlier
call's arguments (`HandOverMixed`) once chunks have mixed.

### PullReview

The requests are processes whose steps are the statements and the calls of
GitHub, in the order of `HandlePRWebhook`, `Analyze` and `HandleImpact`; any may
fail, and the client may hang up (`HangUp`), after which the model's stream ends
with the fallback text (`SummaryCut`). Index runs are reduced to what a reader
sees: the status, and the tables empty, with functions, with edges. `files` are
named from the root of the repository as GitHub does, `FilePath` adds the path
the repository is registered under as `collectSourceFiles` does.
`GetCallersByDepth` is the recursion of impact/store.go, level by level; the
property `ReportExact` compares it with chains of calls (`ChainLengths`), a
definition that knows no levels. `seen` and `raced` are history: the call graph
at the last look at the status, and whether a run began since.

## 3. Runs

Every property of a passing run has been seen to fail when its code is altered
by one of the "A bug:" definitions.

| run | instance | shows |
|---|---|---|
| `queue_safety` | 2 requests, 2 mortal workers, 2 tasks, all faults but the repeated command | `TypeOK`, `ExclusiveWork`, `NoOverlapWithoutRace`, `GateOpenNeedsRace`, `StuckTaskHasCause`, and `IndexQueue` implements `TaskLifecycle` |
| `queue_faults` | 1 request at a time, 2 mortal workers, 2 tasks, failing reads and acknowledgements, repeated commands, fair | `ActiveTaskTraceable`: no crash or lost reply removes the last trace of an unfinished task; `DeliveredTaskEnds` |
| `run_recovery` | 2 files, 3 runs in turn of any type, chosen ahead of admission, 2 edits, one of them to a text that defines a name twice; failures and crashes anywhere | `TypeOK` (edges join stored functions), `SkippedUnlessHollow`, `DeletedFileForgotten`, `LeftoversCleared` |
| `run_overlap` | up to 3 full runs at once | `OverlapHarmless` |
| `embed` | 4 batches, 2 units, any call failing, fair | `TypeOK` (the semaphore is exact), `CallsBounded`, `CauseReported`, `VectorsInPlace`, `Drains` |
| `query` | channels of 2, limit of 3 calls, 3 texts, 2 calls a turn, 2 requests, a model silent before or in the middle of a response, fair | `StreamKept` (refines `AnswerStream`), `FinalUnlessLost`, `AnswerEnds`, `LeavingEndsWork` |
| `turn` | 3 clients, up to 3 calls of none to 2 fragments; cut, broken, stopped or cancelled anywhere | `TypeOK`, `TurnKept` (refines `ModelTurn`), `LossNeedsCause`, `ErrorNeedsCause` |
| `review` | an impact request or an event, 3 functions in 3 shapes of call graph, depths 1 to 3, 2 index runs, two registered paths, fair | `TypeOK`, `ReportExact`, `CommentOncePerEvent`, `LostEventNeedsCause`, `DeliveryEnds` |

Runs that are expected to be violated show where the code departs from what its
documents say:

| run | what happens | document |
|---|---|---|
| `queue_crash` | A claimed message is thrown away (`defaultAutoClaim` drops the reply), and reads ask for new messages only: after a crash its task is running for ever | plan:99, plan:501 |
| `run_failed_full` | A full run fails after its DELETE; the snapshot is the old one, the next default run is incremental, skips everything and completes on an empty index. Requests without a type are enough, if one of them looked before the first run was done and was admitted after it | plan:105 |
| `run_calls` | An incremental run deletes and reinserts a callee; calls from unchanged files cascade away | plan:105, plan:81 |
| `review_paths` | Functions are stored under the path the indexer walked, which begins with the registered path; GitHub names files from the root. No changed file of a repository registered under an absolute path is ever found | README.md:85, plan:647 |

The positive statements have limits that TLC shows when one constant of their
run is changed:

* `SkippedUnlessHollow` is `SkippedFileIndexed`, which `run_failed_full` violates,
  except while the index is `hollow`: between a full run's DELETE under a
  snapshot and the next full run that replaces the snapshot. The exception cannot
  be avoided by never asking for a full run: with `Kinds <- Default` a request
  that looked while there was no snapshot is admitted as full when there is one.
* `run_recovery` with files that fail to parse or embed (`Faults <- Parse`)
  violates `SkippedUnlessHollow`: the snapshot written at indexer.go:190 also
  holds the files that failed, so that the next incremental run skips them and
  completes (plan:493 wants such a file counted against the result).
* `DeletedFileForgotten` is only claimed as long as every run reached its end:
  functions inserted by a run that fails before its snapshot belong to no
  snapshot, so that no later incremental run deletes them once their file is
  gone (plan:507 wants them gone). Without its second conjunct `run_recovery`
  violates it.
* A text that defines one name twice (`TwoBs`; methods of two types) fails every
  run of its repository at `BulkInsertFunctions` for as long as it stays so:
  UNIQUE(repo_id, file_path, name), 001_init.sql:37, and the COPY is all or
  nothing; plan:671 wants such a file recorded and the run to go on. What
  `run_recovery` shows is that the runs after it leave a right index.
* `LeftoversCleared` is for runs that follow each other. Runs that overlap do
  collide, and the keys then fail one of them (`run_overlap`).
* `queue_safety` states the boundary of admission and not "one active task per
  repository" (plan:107), which two racing requests violate:
  `NoOverlapWithoutRace` says that a race is the only way.
* A repository's status derives from its newest task alone (`deriveRepoStatus`,
  internal/repo/store.go:381), so that questions may be let through while the
  worker rebuilds for an older task, although plan:672 has them refused.
  `GateOpenNeedsRace` says how that comes about as long as the running task is not
  stale: two requests passed the check of an active task together. It is about
  the moment of the gate only. A question let through just before `TriggerIndex`
  is answered from tables which the run then rewrites under it, race or no race:
  nothing holds a run back until the answers under way have ended.
* `StuckTaskHasCause` does not count a message older than the consumer group
  (`p <= skipped`) as lost, since it stays in the stream, though no worker will
  ever read it (worker.go:65). Nor does it say that a stuck task ends: none does,
  it only stops counting when it is stale.
* `ExclusiveWork`, `LifecycleKept` and `NoOverlapWithoutRace` are for commands
  that are sent once. With `"retry"` a task may have two messages, and is then
  run twice.
* `VectorsInPlace` is for calls of `BatchEmbed` in which no batch failed. Without
  that condition it is violated: when the last call fails and its goroutine ends
  before the caller evaluates the select (batch.go:84), error, `done` and the
  cancelled context are ready together, and `done` may be taken; the caller then
  has nil vectors and no error, where batch.go:15 says that all results are
  merged.
* `AnswerEnds` excepts a model that is silent, be it before the head of its
  response or in the middle of a stream. The context of a question has no
  deadline and the clients are `http.DefaultClient`, which has no timeout
  (main.go:58-66), so that a client that stays then waits for ever, although
  agent.go:32 and plan:97 speak of 30 seconds.
* `FinalUnlessLost` excepts answers with `lost`: `emit` drops what does not fit,
  the chain and the final `done` included, and an answer without its end is
  cached like any other (service.go:97).
* `LeavingEndsWork` does not speak of the forwarding goroutine: after the handler
  left on a write error with more to come than the channel holds, it sends to
  nobody for ever (service.go:79).
* `LossNeedsCause` names the ways in which a turn does lose calls silently, so
  that the agent takes what is left, maybe nothing, for the whole. A stream that
  is cut: OpenAI's client forgets what it has put together when the finish reason
  is `length` or the body ends, and reports done; Anthropic's closes the channel
  without a word when the body ends, although interface.go:49 says after Done or
  Error. A finish reason of `stop` after calls have begun: OpenAI's client reports
  done and keeps the calls to itself (openai.go:255). Ollama's calls in several
  chunks: they are keyed by their position in the chunk (ollama.go:174), so that
  one without arguments and another become one call, whose arguments parse. And
  a cancelled context.
* `TurnKept` has the two exceptions of `ModelTurn`. Anthropic's client hands over a
  call that was cut off before its first argument with no arguments
  (anthropic.go:188), although interface.go:34 promises a complete tool call and
  not a chunk of a stream. After Ollama's chunks have mixed, a call may be handed
  over with another one's arguments, and out of order.
* `ErrorNeedsCause` excepts calls that Ollama sends in several chunks: they have
  the same position, and where both bring arguments these are run together and no
  longer parse. That the arguments of a single call are JSON is assumed; a model
  that writes anything else ends the turn with an error.
* `ReportExact` gives the depth of the longest chain (`MAX(depth)`), in a cycle
  the largest that fits into the bound; plan:657 thinks of a visited set. What is
  changed is every function of one of the names, in whatever file, which is more
  than the file the pull request touches.
* `LostEventNeedsCause` counts GitHub's hanging up as a failure of the calls after
  it: a model that takes longer than ten seconds costs the comment. Any error of
  the lookup is answered with "not indexed", only the first page of changed
  files is read, and a redelivered event is another request whose comment is
  posted again.
* The model follows the code where it differs plainly from the plan: a failing
  tool ends the run (plan:449 and plan:671 want it told to the model), the call
  that reaches the limit is not executed (plan:446 has it executed), and an
  answer that ended in an error is cached until it expires.

### Bounds

`MaxTasks`, the size of the instance sets, `BatchSize`, `MaxWrites` and the
number of jobs are bounds of the runs, not of the code. Two tasks and two
requests are enough for a race on admission, two workers for a claim of an entry
that is in hand, batches of two for a crash in the middle of a batch. `MaxTasks`
also bounds the stream, which only matters when a command is repeated. One
repository suffices in most runs because tasks of different repositories share
only the stream; the proofs are for any number. For `IndexRun`, two files are
the least with calls between a changed and an unchanged file, three jobs the
least for "run, failed run, run", two edits (`MaxWrites` = 3 counts the initial
tree) the least for "add, then remove" across runs. Workers and requests are
symmetric in `queue_safety`; runs with liveness properties use no symmetry.

`QueryStream`: channels of two keep a forwarder, a handler and an agent apart by
several events and overflow within one answer; a limit of three calls with two a
turn is met in the first, second or third turn.

`ToolCallStream`: three calls are the least in which two chunks of Ollama's can
overlap in part, and in which a middle call of a flush fails to parse; two
fragments are the least that can be mixed, cut or swapped, and none is what two
chunks can merge without trace.

`PullReview`: requests share nothing but the index, so one suffices; two runs
give a run that ends between the two looks at the status and another that begins
after them. The shapes of the call graph are those in which longest, shortest and
endless chains differ; depth 3 is the webhook's own and goes once round the cycle
and on.

### Fairness

`FairSpec` of `IndexQueue` assumes weak fairness of each request's next
statement, of each worker's start and next step, and of its claim loop.
Goroutines are scheduled and statements return or fail; a run is a loop over a
finite tree whose embedding calls have a 30 s HTTP timeout; `runAutoClaimLoop`
is a ticker; a deployment restarts its workers. No fairness is assumed for new
requests, crashes or faults. `queue_crash` claims that even so the crashed task
does not end. `FairSpec` of `BatchEmbed` assumes that goroutines are scheduled
and calls return, for the same timeout; cancellation by the parent is never
required. `FairSpec` of `QueryStream` assumes that goroutines are scheduled,
writes return, and a model that is not silent goes on; silence is a step of its
own (`RequestStalls` before the head of a response, `StreamStalls` after it), which
is never required, and from which only the end of the context leads on. `FairSpec`
of `PullReview` assumes that statements and calls of GitHub return or fail and
that GitHub hangs up when it is kept waiting; an index run or a model need never
get on, and nothing is assumed of a client of `POST /impact`.

## 4. Proofs

Every invariant and every refinement the passing runs check is also a theorem,
for all values of the constants but those a theorem excludes by name. Each rests
on an inductive invariant which TLC has checked on the instance of its run. Each
lemma is one action, or a family of actions that change the same variables; a
last lemma collects them.

`IndexQueueProofs`:

* `TypeCorrect`: `Spec => []TypeOK`, and `MessagesApart`: what two workers have
  read never meets, under any faults. Their invariant, `LooseInv`, has just the
  types, `Apart`, and that what a request enqueues exists.
* `WorkIsExclusive`, `OverlapNeedsRace`, `QuestionsGated` (`GateOpenNeedsRace`,
  at the moment of the gate) and `ImplementsLifecycle`, with `"retry"` not among
  the faults (`NoRetry`): a repeated XADD gives a task two messages, and the
  code then does run it twice. The invariant `IInv` adds what links the parts:
  rows exist exactly up to `created` (`Rows`); a request about to enqueue owns a
  pending task of which no message exists (`Enqueuing`); what a request saw
  stays as stale or finished as it was (`Admitting`); a task has at most one
  message and stays pending until delivery (`Messages`); in a worker's batch
  only the first task may have begun (`Batches`); the batches of two workers do
  not meet (`Apart`). A claim changes `owner` only, which no other conjunct
  reads: this is why claims cannot break exclusiveness, and also why they repair
  nothing. The room left in the stream (`RoomInStream`) is a counting argument
  over an injection.
* `StuckTasksHaveCauses` (`StuckTaskHasCause`), for every combination of faults,
  the repeated command included. `TraceInv` is `LooseInv` with what keeps evidence
  alive: what a worker still has in its batch is in the PEL (`Held`), a request
  about to enqueue owns a pending task without a message (`Enqueuing`), messages
  are about rows there are (`Issued`), and an active task either has a message
  which nobody is about to acknowledge (`Traced`, `Leads`) or an excuse
  (`Excused`): an UPDATE of it reported an error, or it is pending and its request
  was refused or given up. A worker acknowledges only after the final result or
  after an UPDATE that failed; with two messages of one task the other may go,
  but not before that either.
* `ActiveTasksTraced`, for statements on the tables and the stream that succeed
  (`TablesHold`), is its corollary: then no task has an excuse.

`IndexRunProofs`, for any texts:

* `TypeCorrect`: edges join stored functions, also when runs overlap. It is
  inductive: deletes cascade (`DeleteRowsTypes`), the two inserts of edges check
  what they refer to, and what is inserted are rows because the parser's names
  are (`RecordsAreRows`).
* `NothingLeftCollides`: `Spec => []LeftoversCleared`. `IInv` adds, for runs that
  follow each other, that at most one is live (`Alone`), that one which has not
  begun to parse has parsed nothing (`Unparsed`), and that when it parses the
  table is empty in a full run (`ClearedFull`) and holds no function of a changed
  file in an incremental one, which parses changed files only
  (`ClearedChanged`). A step is the step of one live run (`OthersStay`), so that
  nobody else's part of the invariant is about the tables at all.
* `SkippedIsIndexed` (`SkippedUnlessHollow`), for runs in turn and files that can
  be parsed (`Careful`), with any types of runs, any faults of statements and
  processes, and any delay between the choice of a type and admission. `SkipInv`
  says that unless the index is hollow the stored snapshot is true of every file
  that has not changed since (`RightFor`), at every moment and not only between
  runs: the DELETE of an incremental run only takes rows of files that are
  outdated in the snapshot anyway (`Outdated`), that of a full run makes the index
  hollow or finds no snapshot (`FirstOrHollow`), and since times are never given
  twice (`NoLater`) no edit makes an outdated file current again. A full run that
  stored its functions is right whatever was there before (`StoredRight`), which
  is why its snapshot mends a hollow index.
* `DeletedIsForgotten`: `DeletedFileForgotten`, for runs in turn. `LeanInv` says
  that from its DELETE on a run finds no function of a file it did not collect,
  and nobody else leaves any, as long as no run was cut off (`Whole`).
* `OverlapsHarmless`: `OverlapHarmless`, for any number of full runs without
  faults over a tree that does not change (`Undisturbed`). After a DELETE one
  insert gets past the keys, and the invariant `Core` follows the run
  that owns the stored rows (`Holder`): a later DELETE makes it nobody, and
  then another is on its way to its insert (`Building`). The others fail or add
  edges of rows that are there, which are never wrong.
* `FullRunsAccount`: `EveryCallAccounted`, for full runs in turn and any faults.
  From the insert of functions on, the stored rows are the run's own, so that its
  map is the whole table, every call to a stored name gets an edge
  (`EdgesResolve`), and a call without one is listed (`UnresolvedAccounts`).
  `run_calls` shows that incremental runs are rightly excluded; with `Kinds <-
  Full` it passes, also with every fault, three jobs and three times.

`BatchEmbedProofs` proves `TypeOK`, `CallsBounded`, `CauseReported` and
`VectorsInPlace` for any number of batches and units. Its invariant says that
the semaphore counts the running goroutines (`Units`), that while the caller
listens and nobody cancelled it a done context implies an error in the channel
(`Cause`), and that a goroutine past its call has stored or failed (`Outcome`).

`QueryStreamProofs`, for any capacity and any limits:

* `TypeCorrect`, `AnswersEnd` (`FinalUnlessLost`) and `ImplementsAnswer`
  (`StreamKept`). The invariant describes the order of events by a relation
  between the contents of the places they pass through, from the agent's hand to
  the client (`InOrder`), so that moving an event from one channel to the next
  changes no more than the places it left and entered. That an answer ends is
  `EndKept`: as long as nothing was dropped, the final event of a run that ended
  is in one of these places, and in what is captured for the cache; a cached
  answer therefore has one too.

`ToolCallStreamProofs`, for turns of any number of calls and fragments:

* `TypeCorrect`, `LossesHaveCauses` (`LossNeedsCause`), `ErrorsHaveCauses`
  (`ErrorNeedsCause`) and `ImplementsTurn` (`TurnKept`). The invariant says for
  each client where the fragments that have arrived are (`Arriving`), what was
  handed over (`HandedOver`, `Flushing`), and that calls which Ollama sends in
  several chunks, all with arguments, are run together in the first entry, which
  does not parse and is the first to be flushed (`RunTogether`): nothing wrong
  gets past it. If one has none, the chunks are `Mixed`, and then an entry still
  goes by one call and holds arguments of that call or of earlier ones
  (`Gathered`).

`PullReviewProofs`, for any number of requests and index runs, any repository and
any call graphs:

* `OneComment` (`CommentOncePerEvent`) and `EventsNotLost`
  (`LostEventNeedsCause`). The invariant is a statement about one request
  (`Right`) and one about the index (`AtRest`: no run is at work while the status
  says indexed). The part that is not obvious is `LetThrough`: between its two
  looks a delivery still has the index it saw, unless a run has begun, because
  only a run ends the status and only `TriggerIndex` begins one. A step of one
  request changes nothing of another (`Own`, `OwnIsEnough`).
* `TypeCorrect`, and `ReportsExact` (`ReportExact`). The invariant says what a run
  has stored when it is as far as that (`Filled`), and that a report is the
  query's answer on the graph that was let through (`Fresh`, `Told`).
  `CallersExact` of `CallGraphProofs` does the rest: on any graph, the levels of
  the recursion hold the ends of the chains of that length (`LevelsExist`,
  `LevelsReach`), and `MAX(depth)` picks the longest.

`NaturalOrder` has the induction these proofs need. The library's induction
theorems take an operator, which the provers at hand cannot instantiate; over
numbers induction is available for sets: finite subsets are well-founded under
inclusion, the initial segments are finite, so that every set of natural numbers
has a least element (`LeastNatural`), and a set with 0 that is closed under
successors is all of them (`SuccessorsHeld`).

Assumptions are those of the modules (`IndexQueueAssumption`,
`BatchEmbedAssumption`, `IndexRunAssumption`, `PullReviewAssumption`,
`QueryStreamAssumption`, `ToolCallStreamAssumption`): natural numbers, non-zero
sizes, distinct sentinels, a text for every file and time, a name for functions
without one that is no name (`SourceParserAssumption`).

Only model-checked is liveness: `DeliveredTaskEnds`, `Drains`, `AnswerEnds`,
`LeavingEndsWork`, `DeliveryEnds`. They rest on fairness, hence on ENABLED, which
the prover does not handle. Neither is there a proof of what `SourceParser`
computes, whose operators the other proofs take as they are.

## 5. Not modelled, and the plan

Not modelled: tree-sitter and its grammars (the matches of a query are the
parser's input), the HTTP side of the model and embedding clients (one request
each, no state), the four queries of the agent's tools (read-only, their results
matter to the model alone), registration (a single upsert; two of one path at once
can fail inside it, as its SELECT does not see what made its INSERT do nothing,
internal/repo/store.go:68), the matching of a
GitHub name with a registered name or path in `FindByOwnerRepo`, signatures,
routing, configuration, the wording of answers and comments, vectors themselves.
A lost embedding error reaches `IndexRun` as a failed COPY, i.e. as one of its
statement failures. The age of a cached answer against the index is not modelled
beyond its expiry: the code keeps no relation between the two, and no document
promises one.

Proofs to come: the safety parts of the liveness arguments, such as that a worker
which is in the middle of a batch is never stuck; `DeletedFileForgotten` after a
run that was cut off and a full run that completed; `OverlapHarmless` with
crashes, as far as it holds; the fallback of an impact request, and what
a report says while a run is at work.
