---------------------------- MODULE QueryStream ----------------------------
(***************************************************************************)
(* How a question is answered: POST /query (internal/query) replays a      *)
(* cached answer or runs the agent (internal/agent), whose events a        *)
(* goroutine of the service forwards to the SSE handler and collects for   *)
(* the cache.  The agent in turn reads the events of a streaming model     *)
(* client (internal/llm), which is a goroutine of its own.                 *)
(*                                                                         *)
(*   readStream --offer--> Agent.Run --events--> Query --stream--> client  *)
(*                                                                         *)
(* The first channel is unbuffered, the other two hold Capacity events.    *)
(* Requests of one question follow each other, and share the cache.  An    *)
(* event is its type.                                                      *)
(***************************************************************************)
EXTENDS Naturals, Sequences

CONSTANTS
  Capacity,  \* of the channels of Run and Query (32 in the code)
  MaxCalls,  \* the call at which the agent gives up (20 in the code)
  MaxTexts,  \* bound: text chunks of one answer
  MaxTurn,   \* bound: tool calls of one turn of the model
  MaxAsks    \* bound: requests

ASSUME QueryStreamAssumption ==
  /\ Capacity \in Nat \ {0} /\ MaxCalls \in Nat \ {0}
  /\ MaxTexts \in Nat /\ MaxTurn \in Nat /\ MaxAsks \in Nat

VARIABLES
  asks,      \* requests so far
  handler,   \* "idle", "read" or "returned"
  left,      \* the client has hung up
  cancelled, \* the request's context is done
  seen,      \* the events written to the client
  agent,     \* Run: "idle", "loop", "asking", "recv", "tools", "emit" or
             \* "ended"
  calls,     \* toolCallCount
  turn,      \* toolCalls of the turn
  outbox,    \* what Run still emits before it returns
  events,    \* the channel Run returned, closed when Run has ended
  lost,      \* history: an emit found the channel full
  client,    \* readStream: "none", "open", "silent", "failing" or "closed";
             \* "silent" too while Run is asking and the model does not answer
  offer,     \* the event readStream waits to hand over, or "none"
  texts,     \* text chunks so far
  forwarder, \* Query's goroutine: "idle", "recv", "send" or "ended"
  held,      \* the event it has taken and not yet sent
  captured,  \* the events it has sent
  stream,    \* the channel Query returned, closed when the goroutine has ended
  pending,   \* what Set's goroutine is about to store
  cache      \* the cached answer to the question, empty when there is none

requestVars == <<asks, handler, left, cancelled, seen>>
agentVars   == <<agent, calls, turn, outbox, events, lost>>
clientVars  == <<client, offer, texts>>
forwardVars == <<forwarder, held, captured, stream>>
cacheVars   == <<pending, cache>>
vars == <<requestVars, agentVars, clientVars, forwardVars, cacheVars>>

Events == {"text", "chain", "warning", "done", "error"}
Final  == {"done", "error"}
ToolCalls == {"tool", "submit"}  \* one of the four queries; submit_chain_result

Init ==
  /\ asks = 0 /\ handler = "idle" /\ left = FALSE /\ cancelled = FALSE
  /\ seen = << >>
  /\ agent = "idle" /\ calls = 0 /\ turn = << >> /\ outbox = << >>
  /\ events = << >> /\ lost = FALSE
  /\ client = "none" /\ offer = "none" /\ texts = 0
  /\ forwarder = "idle" /\ held = "none" /\ captured = << >> /\ stream = << >>
  /\ pending = << >> /\ cache = << >>

-----------------------------------------------------------------------------
(* The request and its handler.                                             *)

\* Nothing of the request before is still at work.
Quiet ==
  /\ handler \in {"idle", "returned"} /\ agent \in {"idle", "ended"}
  /\ forwarder \in {"idle", "ended"} /\ pending = << >>

\* The repository is indexed or partial and cacheGet succeeds: otherwise the
\* request is refused and nothing is changed.
Query ==
  /\ Quiet /\ asks < MaxAsks
  /\ asks' = asks + 1
  /\ handler' = "read"
  /\ left' = FALSE /\ cancelled' = FALSE /\ seen' = << >>
  /\ UNCHANGED cacheVars

\* The channel of a replay has room for the whole answer.
Replay ==
  /\ cache # << >>
  /\ Query
  /\ stream' = cache /\ forwarder' = "ended"
  /\ UNCHANGED <<agentVars, clientVars, held, captured>>

RunAgent ==
  /\ cache = << >>
  /\ Query
  /\ agent' = "loop" /\ calls' = 0 /\ turn' = << >> /\ events' = << >>
  /\ client' = "none" /\ texts' = 0
  /\ forwarder' = "recv" /\ captured' = << >> /\ stream' = << >>
  /\ UNCHANGED <<outbox, lost, offer, held>>

\* The server cancels the request's context when the handler returns.
Return == handler' = "returned" /\ cancelled' = TRUE

WriteEvent ==
  /\ handler = "read" /\ stream # << >>
  /\ seen' = Append(seen, Head(stream))
  /\ stream' = Tail(stream)
  /\ IF Head(stream) = "error" THEN Return ELSE UNCHANGED <<handler, cancelled>>
  /\ UNCHANGED <<asks, left, agentVars, clientVars, forwarder, held, captured,
                 cacheVars>>

WriteFails ==
  /\ handler = "read" /\ stream # << >> /\ left
  /\ stream' = Tail(stream)
  /\ Return
  /\ UNCHANGED <<asks, left, seen, agentVars, clientVars, forwarder, held,
                 captured, cacheVars>>

StreamClosed ==
  /\ handler = "read" /\ stream = << >> /\ forwarder = "ended"
  /\ Return
  /\ UNCHANGED <<asks, left, seen, agentVars, clientVars, forwardVars,
                 cacheVars>>

\* The server notices, and cancels the context.
ClientLeaves ==
  /\ handler = "read" /\ ~left
  /\ left' = TRUE /\ cancelled' = TRUE
  /\ UNCHANGED <<asks, handler, seen, agentVars, clientVars, forwardVars,
                 cacheVars>>

-----------------------------------------------------------------------------
(* Agent.Run.                                                               *)

\* emit never waits.
Emit(e) ==
  IF Len(events) < Capacity THEN events' = Append(events, e) /\ UNCHANGED lost
                            ELSE lost' = TRUE /\ UNCHANGED events

\* Run emits these and returns.
Finish(es) == agent' = "emit" /\ outbox' = es

EmitLast ==
  /\ agent = "emit"
  /\ Emit(Head(outbox))
  /\ outbox' = Tail(outbox)
  /\ agent' = IF Tail(outbox) = << >> THEN "ended" ELSE "emit"
  /\ UNCHANGED <<requestVars, calls, turn, clientVars, forwardVars, cacheVars>>

\* The context is done (no caller gives it a deadline, so it was cancelled).
ContextTermination ==
  /\ agent = "loop" /\ cancelled
  /\ Finish(<<"error">>)
  /\ UNCHANGED <<requestVars, calls, turn, events, lost, clientVars,
                 forwardVars, cacheVars>>

\* StreamWithTools sends the request under the context, and Do waits for the
\* head of the response with no timeout.
StreamWithTools ==
  /\ agent = "loop" /\ ~cancelled
  /\ agent' = "asking" /\ client' = "none"
  /\ UNCHANGED <<requestVars, calls, turn, outbox, events, lost, offer, texts,
                 forwardVars, cacheVars>>

\* The response begins, with a status of success.
StreamOpens ==
  /\ agent = "asking" /\ client = "none"
  /\ agent' = "recv" /\ turn' = << >>
  /\ client' = "open"
  /\ UNCHANGED <<requestVars, calls, outbox, events, lost, offer, texts,
                 forwardVars, cacheVars>>

\* The connection is refused or broken, the status is another, or the context
\* is done, which also ends a request that is not answered.
RequestFails ==
  /\ agent = "asking" /\ (client = "none" \/ cancelled)
  /\ Finish(<<"error">>)
  /\ client' = "none"
  /\ UNCHANGED <<requestVars, calls, turn, events, lost, offer, texts,
                 forwardVars, cacheVars>>

ReceiveText ==
  /\ agent = "recv" /\ offer = "text"
  /\ Emit("text")
  /\ offer' = "none"
  /\ UNCHANGED <<requestVars, agent, calls, turn, outbox, client, texts,
                 forwardVars, cacheVars>>

ReceiveToolCall ==
  /\ agent = "recv" /\ offer \in ToolCalls
  /\ turn' = Append(turn, offer)
  /\ offer' = "none"
  /\ UNCHANGED <<requestVars, agent, calls, outbox, events, lost, client,
                 texts, forwardVars, cacheVars>>

\* A bug: readStream goes on reading after it has reported an error.
ReceiveErrorReadOn ==
  /\ agent = "recv" /\ offer = "error"
  /\ Finish(<<"error">>)
  /\ offer' = "none" /\ client' = "open"
  /\ UNCHANGED <<requestVars, calls, turn, events, lost, texts, forwardVars,
                 cacheVars>>

\* Run returns with the channel unread; readStream has returned too.
ReceiveError ==
  /\ agent = "recv" /\ offer = "error"
  /\ Finish(<<"error">>)
  /\ offer' = "none" /\ client' = "closed"
  /\ UNCHANGED <<requestVars, calls, turn, events, lost, texts, forwardVars,
                 cacheVars>>

\* A bug: an answer of text alone breaks the loop, with nothing emitted.
TurnBreaks ==
  /\ agent = "recv" /\ client = "closed"
  /\ agent' = IF turn = << >> THEN "ended" ELSE "tools"
  /\ UNCHANGED <<requestVars, calls, turn, outbox, events, lost, clientVars,
                 forwardVars, cacheVars>>

\* The client's channel is closed, whatever the last event was.
TurnComplete ==
  /\ agent = "recv" /\ client = "closed"
  /\ IF turn = << >> THEN Finish(<<"done">>)
                     ELSE agent' = "tools" /\ UNCHANGED outbox
  /\ UNCHANGED <<requestVars, calls, turn, events, lost, clientVars,
                 forwardVars, cacheVars>>

\* A bug: the run goes on after a chain was submitted.
SubmitAndGoOn ==
  /\ Emit("chain")
  /\ turn' = << >> /\ agent' = "loop"
  /\ UNCHANGED outbox

\* A chain that cannot be decoded is an error.
SubmitChain ==
  /\ \E es \in {<<"chain", "done">>, <<"error">>} : Finish(es)
  /\ UNCHANGED <<turn, events, lost>>

\* A failing query, an unknown tool or a missing argument ends the run.
ExecuteTool ==
  \/ /\ turn' = Tail(turn)
     /\ agent' = IF Tail(turn) = << >> THEN "loop" ELSE "tools"
     /\ UNCHANGED <<outbox, events, lost>>
  \/ /\ Finish(<<"error">>)
     /\ UNCHANGED <<turn, events, lost>>

\* A bug: the limit is per turn.
HandleToolCallOfTurn ==
  /\ agent = "tools"
  /\ calls' = IF Tail(turn) = << >> THEN 0 ELSE calls + 1
  /\ IF calls + 1 >= MaxCalls
     THEN Finish(<<"warning", "done">>) /\ UNCHANGED <<turn, events, lost>>
     ELSE IF Head(turn) = "submit" THEN SubmitChain ELSE ExecuteTool
  /\ UNCHANGED <<requestVars, clientVars, forwardVars, cacheVars>>

\* The call that reaches the limit is not executed, whatever it is.
HandleToolCall ==
  /\ agent = "tools"
  /\ calls' = calls + 1
  /\ IF calls + 1 >= MaxCalls
     THEN Finish(<<"warning", "done">>) /\ UNCHANGED <<turn, events, lost>>
     ELSE IF Head(turn) = "submit" THEN SubmitChain ELSE ExecuteTool
  /\ UNCHANGED <<requestVars, clientVars, forwardVars, cacheVars>>

-----------------------------------------------------------------------------
(* readStream of the Anthropic, OpenAI and Ollama clients.  What the agent  *)
(* ignores (done, and text that is empty) is left out.                      *)

Send(e, state) ==
  /\ offer = "none"
  /\ offer' = e /\ client' = state

OfferEvent ==
  /\ client = "open"
  /\ \/ texts < MaxTexts /\ Send("text", "open") /\ texts' = texts + 1
     \/ /\ Len(turn) < MaxTurn
        /\ \E tc \in ToolCalls : Send(tc, "open")
        /\ UNCHANGED texts
  /\ UNCHANGED <<requestVars, agentVars, forwardVars, cacheVars>>

\* End of the body, [DONE], message_stop.
EndOfStream ==
  /\ client = "open" /\ offer = "none"
  /\ client' = "closed"
  /\ UNCHANGED <<requestVars, agentVars, offer, texts, forwardVars, cacheVars>>

\* An error event, a malformed chunk or tool input, a broken connection.
StreamError ==
  /\ client = "open"
  /\ Send("error", "failing")
  /\ UNCHANGED <<requestVars, agentVars, texts, forwardVars, cacheVars>>

\* The model takes the request and does not answer it, or not to the end of
\* the body of an error.
RequestStalls ==
  /\ agent = "asking" /\ client = "none"
  /\ client' = "silent"
  /\ UNCHANGED <<requestVars, agentVars, offer, texts, forwardVars, cacheVars>>

\* The model stops sending and keeps the connection: no client has a timeout.
StreamStalls ==
  /\ client = "open" /\ offer = "none"
  /\ client' = "silent"
  /\ UNCHANGED <<requestVars, agentVars, offer, texts, forwardVars, cacheVars>>

\* A bug: the request is made without the context.
ReadWithoutContext ==
  /\ cancelled /\ client = "open"
  /\ Send("error", "failing")
  /\ UNCHANGED <<requestVars, agentVars, texts, forwardVars, cacheVars>>

\* The body of a cancelled request fails to be read.
ReadCancelled ==
  /\ cancelled /\ agent = "recv" /\ client \in {"open", "silent"}
  /\ Send("error", "failing")
  /\ UNCHANGED <<requestVars, agentVars, texts, forwardVars, cacheVars>>

\* emit gives up when the context is done, and then so does emitErr.
EmitCancelled ==
  /\ cancelled /\ offer # "none"
  /\ IF client = "open" THEN offer' = "error" /\ client' = "failing"
                        ELSE offer' = "none" /\ client' = "closed"
  /\ UNCHANGED <<requestVars, agentVars, texts, forwardVars, cacheVars>>

-----------------------------------------------------------------------------
(* The service's goroutine and the cache.                                   *)

Forward ==
  /\ forwarder = "recv" /\ events # << >>
  /\ held' = Head(events) /\ events' = Tail(events)
  /\ forwarder' = "send"
  /\ UNCHANGED <<requestVars, agent, calls, turn, outbox, lost, clientVars,
                 captured, stream, cacheVars>>

\* It waits for room for as long as it takes, the context is not consulted.
SendAndCapture ==
  /\ forwarder = "send" /\ Len(stream) < Capacity
  /\ stream' = Append(stream, held) /\ captured' = Append(captured, held)
  /\ held' = "none"
  /\ IF held \in Final THEN forwarder' = "ended" /\ pending' = captured'
                       ELSE forwarder' = "recv" /\ UNCHANGED pending
  /\ UNCHANGED <<requestVars, agentVars, clientVars, cache>>

\* The agent's channel is closed with no final event in it.
EventsClosed ==
  /\ forwarder = "recv" /\ events = << >> /\ agent = "ended"
  /\ forwarder' = "ended" /\ pending' = captured
  /\ UNCHANGED <<requestVars, agentVars, clientVars, held, captured, stream,
                 cache>>

\* Set runs under the request's context.
CacheSet ==
  /\ pending # << >> /\ ~cancelled
  /\ cache' = pending /\ pending' = << >>
  /\ UNCHANGED <<requestVars, agentVars, clientVars, forwardVars>>

CacheSetFails ==
  /\ pending # << >>
  /\ pending' = << >>
  /\ UNCHANGED <<requestVars, agentVars, clientVars, forwardVars, cache>>

\* QUERY_CACHE_TTL.
Expire ==
  /\ cache # << >> /\ cache' = << >>
  /\ UNCHANGED <<requestVars, agentVars, clientVars, forwardVars, pending>>

-----------------------------------------------------------------------------
HandlerStep == WriteEvent \/ WriteFails \/ StreamClosed

AgentStep ==
  \/ ContextTermination \/ StreamWithTools \/ StreamOpens \/ RequestFails
  \/ ReceiveText \/ ReceiveToolCall \/ ReceiveError
  \/ TurnComplete \/ HandleToolCall \/ EmitLast

ClientStep ==
  \/ OfferEvent \/ EndOfStream \/ StreamError \/ ReadCancelled \/ EmitCancelled

ForwarderStep == Forward \/ SendAndCapture \/ EventsClosed

CacheStep == CacheSet \/ CacheSetFails

Next ==
  \/ Replay \/ RunAgent \/ HandlerStep \/ ClientLeaves
  \/ AgentStep
  \/ ClientStep \/ RequestStalls \/ StreamStalls
  \/ ForwarderStep
  \/ CacheStep \/ Expire

Spec == Init /\ [][Next]_vars

\* Goroutines are scheduled, writes to a connection and the tools' statements
\* return, a model that does not fall silent answers and ends its turn.
FairSpec ==
  /\ Spec
  /\ WF_vars(HandlerStep) /\ WF_vars(AgentStep) /\ WF_vars(ClientStep)
  /\ WF_vars(ForwarderStep) /\ WF_vars(CacheStep)

-----------------------------------------------------------------------------
(* What makes an answer right.                                              *)

\* The type invariant; no readStream is left behind by a Run that has returned.
TypeOK ==
  /\ asks \in 0..MaxAsks
  /\ handler \in {"idle", "read", "returned"}
  /\ left \in BOOLEAN /\ cancelled \in BOOLEAN /\ lost \in BOOLEAN
  /\ seen \in Seq(Events)
  /\ agent \in {"idle", "loop", "asking", "recv", "tools", "emit", "ended"}
  /\ calls \in 0..MaxCalls
  /\ turn \in Seq(ToolCalls) /\ outbox \in Seq(Events)
  /\ agent = "tools" => turn # << >>
  /\ agent = "emit" => outbox # << >>
  /\ events \in Seq(Events) /\ Len(events) <= Capacity
  /\ client \in {"none", "open", "silent", "failing", "closed"}
  /\ offer \in ToolCalls \cup {"text", "error", "none"}
  /\ client \in {"none", "silent", "closed"} => offer = "none"
  /\ agent \in {"emit", "ended"} => client \in {"none", "closed"}
  /\ texts \in 0..MaxTexts
  /\ forwarder \in {"idle", "recv", "send", "ended"}
  /\ held \in Events \cup {"none"} /\ (held # "none" <=> forwarder = "send")
  /\ captured \in Seq(Events) /\ stream \in Seq(Events)
  /\ pending \in Seq(Events) /\ cache \in Seq(Events)

\* What the client receives is in order, whether it comes from the agent or
\* from the cache, and however goroutines are scheduled and events dropped.
Answer == INSTANCE AnswerStream WITH seen <- seen
StreamKept == Answer!Spec

\* A client that stays until the response ends has received a final event,
\* live or replayed, unless the channel of some answer overflowed.
FinalUnlessLost ==
  handler = "returned" /\ ~left /\ ~lost =>
    seen # << >> /\ seen[Len(seen)] \in Final

\* Liveness: a response ends, however many tools the model goes on calling,
\* unless the model falls silent, before it answers or in the middle of a stream.
AnswerEnds == handler = "read" ~> handler = "returned" \/ client = "silent"

\* Liveness: when the client has gone, agent and model stream end, even if the
\* model is silent.
LeavingEndsWork ==
  cancelled ~> agent \in {"idle", "ended"} /\ client \in {"none", "closed"}
=============================================================================
