----------------------------- MODULE BatchEmbed -----------------------------
(* BatchEmbed of internal/embedding/batch.go: the texts of one file go to    *)
(* the embedding client in batches, one goroutine each, as many at once as   *)
(* the semaphore lets.  The first error is put into a channel of one place   *)
(* and cancels the context the calls run under.                              *)
EXTENDS Naturals, FiniteSets

CONSTANTS
  N,           \* number of batches, ceil(len(texts) / 100)
  Concurrency  \* EMBEDDING_CONCURRENCY, size of the semaphore

ASSUME BatchEmbedAssumption ==
  /\ N \in Nat \ {0}
  /\ Concurrency \in Nat \ {0}

Batches == 1..N
Errors  == {"own", "ctx"}  \* a call's own error; the context's

VARIABLES
  caller,     \* the calling goroutine
  next,       \* the batch it will start next
  pc,         \* the batch goroutines
  held,       \* units of the semaphore taken
  errCh,      \* what the error channel holds
  cancelled,  \* ctx, the one made here, is done
  parent,     \* and so is the context of the caller
  stored,     \* batches whose vectors are in results
  done,       \* the channel closed after wg.Wait
  result,
  failed      \* history: batches whose call failed

vars == <<caller, next, pc, held, errCh, cancelled, parent, stored, done,
          result, failed>>

Init ==
  /\ caller = "spawn" /\ next = 1
  /\ pc = [b \in Batches |-> "none"]
  /\ held = 0 /\ errCh = "none"
  /\ cancelled = FALSE /\ parent = FALSE
  /\ stored = {} /\ done = FALSE
  /\ result = "none" /\ failed = {}

Goto(b, l) == pc' = [pc EXCEPT ![b] = l]
-----------------------------------------------------------------------------
(* The caller.                                                               *)

\* A bug: one call too many.
SpawnOneMore ==
  /\ caller = "spawn" /\ next <= N
  /\ ~cancelled /\ held <= Concurrency
  /\ held' = held + 1
  /\ Goto(next, "embed")
  /\ next' = next + 1
  /\ UNCHANGED <<caller, errCh, cancelled, parent, stored, done, result, failed>>

\* Acquire succeeds only while the context is not done.
Spawn ==
  /\ caller = "spawn" /\ next <= N
  /\ ~cancelled /\ held < Concurrency
  /\ held' = held + 1
  /\ Goto(next, "embed")
  /\ next' = next + 1
  /\ UNCHANGED <<caller, errCh, cancelled, parent, stored, done, result, failed>>

\* Returning runs the deferred cancel.
Return(r) ==
  /\ caller' = "returned"
  /\ result' = r
  /\ cancelled' = TRUE
  /\ UNCHANGED <<next, pc, held, parent, stored, done, failed>>

\* The first error if there is one, otherwise that of the context.
ReturnError ==
  /\ Return(IF errCh # "none" THEN errCh ELSE "ctx")
  /\ errCh' = "none"

AcquireFails ==
  /\ caller = "spawn" /\ next <= N
  /\ cancelled
  /\ ReturnError

Wait ==
  /\ caller = "spawn" /\ next > N
  /\ caller' = "wait"
  /\ UNCHANGED <<next, pc, held, errCh, cancelled, parent, stored, done,
                 result, failed>>

\* A select takes any of its ready cases.
SelectError == caller = "wait" /\ errCh # "none" /\ ReturnError
SelectDone  == caller = "wait" /\ done /\ Return("vectors") /\ UNCHANGED errCh
SelectCancelled == caller = "wait" /\ cancelled /\ ReturnError

\* The request or the worker the texts belong to is cancelled.
ParentCancelled ==
  /\ ~parent
  /\ parent' = TRUE /\ cancelled' = TRUE
  /\ UNCHANGED <<caller, next, pc, held, errCh, stored, done, result, failed>>

-----------------------------------------------------------------------------
(* The goroutine of batch b, and the one that waits for all of them.         *)

EmbedSucceeds(b) ==
  /\ pc[b] = "embed"
  /\ stored' = stored \cup {b}
  /\ Goto(b, "release")
  /\ UNCHANGED <<caller, next, held, errCh, cancelled, parent, done, result,
                 failed>>

\* A bug: the context is cancelled first and the error sent after it.
EmbedFailsCancelling(b) ==
  /\ \/ pc[b] = "embed" /\ Goto(b, "cancel") /\ failed' = failed \cup {b}
        /\ cancelled' = TRUE /\ UNCHANGED errCh
     \/ pc[b] = "cancel" /\ errCh = "none" /\ Goto(b, "release")
        /\ errCh' = "own" /\ UNCHANGED <<failed, cancelled>>
  /\ UNCHANGED <<caller, next, held, parent, stored, done, result>>

\* A bug: the send waits for room in the channel.
EmbedFailsBlocking(b) ==
  /\ \/ pc[b] = "embed" /\ Goto(b, "send") /\ UNCHANGED errCh
     \/ pc[b] = "send" /\ errCh = "none" /\ Goto(b, "cancel")
        /\ errCh' \in Errors /\ (errCh' = "ctx" => cancelled)
  /\ failed' = failed \cup {b}
  /\ UNCHANGED <<caller, next, held, cancelled, parent, stored, done, result>>

\* A bug: the error path returns without giving back its unit.
EmbedFailsHolding(b) ==
  /\ pc[b] = "embed"
  /\ errCh = "none" /\ errCh' = "own"
  /\ failed' = failed \cup {b}
  /\ cancelled' = TRUE
  /\ Goto(b, "done")
  /\ UNCHANGED <<caller, next, held, parent, stored, done, result>>

\* The call fails, or answers with too few vectors, or finds its context done.
\* The send does not block: only the first error gets in.
EmbedFails(b) ==
  /\ pc[b] = "embed"
  /\ failed' = failed \cup {b}
  /\ IF errCh # "none"
     THEN Goto(b, "release") /\ UNCHANGED errCh
     ELSE /\ errCh' \in Errors /\ (errCh' = "ctx" => cancelled)
          /\ Goto(b, "cancel")
  /\ UNCHANGED <<caller, next, held, cancelled, parent, stored, done, result>>

Cancel(b) ==
  /\ pc[b] = "cancel"
  /\ cancelled' = TRUE
  /\ Goto(b, "release")
  /\ UNCHANGED <<caller, next, held, errCh, parent, stored, done, result, failed>>

\* The deferred Release and then wg.Done.
Release(b) ==
  /\ pc[b] = "release"
  /\ held' = held - 1
  /\ Goto(b, "done")
  /\ UNCHANGED <<caller, next, errCh, cancelled, parent, stored, done, result,
                 failed>>

Running == {b \in Batches : pc[b] \notin {"none", "done"}}

\* A bug: the channel is closed once the semaphore has room again.
CloseEarly ==
  /\ next > N /\ caller # "spawn" /\ ~done
  /\ held < Concurrency
  /\ done' = TRUE
  /\ UNCHANGED <<caller, next, pc, held, errCh, cancelled, parent, stored,
                 result, failed>>

\* It was started when the caller began to wait, and outlives its return.
CloseDone ==
  /\ next > N /\ caller # "spawn" /\ ~done
  /\ Running = {}
  /\ done' = TRUE
  /\ UNCHANGED <<caller, next, pc, held, errCh, cancelled, parent, stored,
                 result, failed>>

-----------------------------------------------------------------------------
CallerStep ==
  Spawn \/ AcquireFails \/ Wait \/ SelectError \/ SelectDone \/ SelectCancelled

BatchStep(b) ==
  EmbedSucceeds(b) \/ EmbedFails(b) \/ Cancel(b) \/ Release(b)

Next ==
  \/ CallerStep
  \/ ParentCancelled
  \/ \E b \in Batches : BatchStep(b)
  \/ CloseDone

Spec == Init /\ [][Next]_vars

\* Goroutines are scheduled; a call to an embedding API ends, the clients'
\* HTTP timeout (30 s) sees to it.
FairSpec ==
  /\ Spec
  /\ WF_vars(CallerStep) /\ WF_vars(CloseDone)
  /\ \A b \in Batches : WF_vars(BatchStep(b))

-----------------------------------------------------------------------------
(* The type invariant: the semaphore counts the goroutines that are running. *)
TypeOK ==
  /\ caller \in {"spawn", "wait", "returned"}
  /\ next \in 1..N + 1
  /\ pc \in [Batches -> {"none", "embed", "cancel", "release", "done"}]
  /\ held = Cardinality(Running)
  /\ errCh \in {"none"} \cup Errors
  /\ cancelled \in BOOLEAN /\ parent \in BOOLEAN /\ done \in BOOLEAN
  /\ stored \subseteq Batches /\ failed \subseteq Batches
  /\ result \in {"none", "vectors"} \cup Errors

\* No more calls are out at once than EMBEDDING_CONCURRENCY allows (1 for
\* Ollama, which cannot serve more), errors and cancellation included.
CallsBounded == Cardinality({b \in Batches : pc[b] = "embed"}) <= Concurrency

\* When nobody cancelled the caller, an error it is told is the error of a call,
\* never "context canceled", which is only the echo of that error.
CauseReported == ~parent => result # "ctx"

\* When no call failed, returning without an error means that the vectors of
\* every batch are in place, though nothing but the channel says so.
VectorsInPlace == result = "vectors" /\ failed = {} => stored = Batches

\* Liveness: the caller returns, every goroutine ends and gives back its unit.
Drains == <>[](caller = "returned" /\ Running = {} /\ held = 0)
=============================================================================
