--------------------------- MODULE ToolCallStream ---------------------------
(***************************************************************************)
(* How the chunks of a model's stream become tool calls: readStream of the *)
(* three clients in internal/llm, for one turn of the model.               *)
(*                                                                         *)
(* A call is its number in the turn, and its arguments are a JSON text     *)
(* that arrives in fragments.  Anthropic sends a block per call, one after *)
(* the other; OpenAI sends fragments labelled with the call's index;       *)
(* Ollama sends lists of whole calls.  Every call brings its name and id,   *)
(* and its fragments make up well-formed JSON.  Text is left out: it is     *)
(* handed over as it comes.                                                *)
(***************************************************************************)
EXTENDS Naturals, Sequences, FiniteSets

CONSTANTS
  MaxCalls,  \* bound: tool calls of the turn
  MaxParts   \* bound: fragments of the arguments of one call

ASSUME ToolCallStreamAssumption == MaxCalls \in Nat /\ MaxParts \in Nat

Providers == {"anthropic", "openai", "ollama"}
Calls     == 1..MaxCalls
NoEntry   == [id |-> 0, args |-> << >>]

VARIABLES
  provider,  \* whose client reads the stream
  parts,     \* the turn: call c has parts[c] fragments, none if no arguments
  begun,     \* calls 1..begun have begun to arrive
  sent,      \* fragments of each call that have arrived
  block,     \* the content block that is open (Anthropic), or 0
  chunks,    \* chunks that carried calls (Ollama)
  wire,      \* "open", or "last": the provider has announced the end
  cut,       \* history: the stream ended before the turn was complete
  stopped,   \* history: the finish reason was "stop" with calls begun
  broken,    \* history: an error event, a malformed chunk, a broken body
  acc,       \* toolBlocks or toolCalls: what has been put together so far
  left,      \* the entries flushToolCalls has still to emit
  pc,        \* readStream: "read", "flush" or "closed"
  handed,    \* the calls emitted
  last,      \* "none", or the last of "done" and "error" to be emitted
  cancelled  \* the context is done

turnVars   == <<provider, parts>>
wireVars   == <<begun, sent, block, chunks, wire, cut, stopped, broken>>
clientVars == <<acc, left, pc, handed, last>>
vars == <<turnVars, wireVars, clientVars, cancelled>>

Entries == [id : 0..MaxCalls, args : Seq(Calls \X (1..MaxParts))]
Turn    == DOMAIN parts

Init ==
  /\ provider \in Providers
  /\ \E n \in 0..MaxCalls : parts \in [1..n -> 0..MaxParts]
  /\ begun = 0 /\ sent = [c \in Calls |-> 0] /\ block = 0 /\ chunks = 0
  /\ wire = "open"
  /\ cut = FALSE /\ stopped = FALSE /\ broken = FALSE
  /\ acc = [i \in Calls |-> NoEntry] /\ left = {} /\ pc = "read"
  /\ handed = << >> /\ last = "none" /\ cancelled = FALSE

-----------------------------------------------------------------------------
(* Arguments.                                                               *)

Fragments(c) == [k \in 1..parts[c] |-> <<c, k>>]

\* What json.Unmarshal accepts: the whole text of one call.  An empty text
\* counts as an empty object.
Parses(args) == args = << >> \/ \E c \in Turn : args = Fragments(c)

-----------------------------------------------------------------------------
(* What reading an event does.                                              *)

Reading(p) == provider = p /\ pc = "read" /\ wire = "open"

\* emitErr, and return.
Fail ==
  /\ last' = "error" /\ pc' = "closed"
  /\ UNCHANGED <<acc, left, handed>>

Emit(entry) == handed' = Append(handed, entry)

BeginCall ==
  /\ begun < Len(parts) /\ begun' = begun + 1
  /\ acc' = [acc EXCEPT ![begun'] = [id |-> begun', args |-> << >>]]

\* A bug: a fragment replaces what came before it.
ReplaceFragment(c) ==
  /\ acc[c].id # 0 /\ sent[c] < parts[c]
  /\ sent' = [sent EXCEPT ![c] = @ + 1]
  /\ acc' = [acc EXCEPT ![c].args = <<<<c, sent'[c]>>>>]

AppendFragment(c) ==
  /\ acc[c].id # 0 /\ sent[c] < parts[c]
  /\ sent' = [sent EXCEPT ![c] = @ + 1]
  /\ acc' = [acc EXCEPT ![c].args = Append(@, <<c, sent'[c]>>)]

-----------------------------------------------------------------------------
(* Anthropic.                                                               *)

ContentBlockStart ==
  /\ Reading("anthropic") /\ block = 0
  /\ BeginCall
  /\ block' = begun'
  /\ UNCHANGED <<turnVars, sent, chunks, wire, cut, stopped, broken, left, pc,
                 handed, last, cancelled>>

ContentBlockDelta ==
  /\ Reading("anthropic") /\ block # 0
  /\ AppendFragment(block)
  /\ UNCHANGED <<turnVars, begun, block, chunks, wire, cut, stopped, broken,
                 left, pc, handed, last, cancelled>>

\* A bug: the entry is kept.
BlockKept ==
  IF Parses(acc[block].args)
  THEN Emit(acc[block]) /\ UNCHANGED <<acc, left, pc, last>>
  ELSE Fail

\* The call is emitted at once and its entry deleted.
EmitBlock ==
  IF Parses(acc[block].args)
  THEN /\ Emit(acc[block])
       /\ acc' = [acc EXCEPT ![block] = NoEntry]
       /\ UNCHANGED <<left, pc, last>>
  ELSE Fail

\* A turn that reaches max_tokens closes its block early; a call cut off before
\* its first fragment is handed over without arguments.
ContentBlockStop ==
  /\ Reading("anthropic") /\ block # 0
  /\ EmitBlock
  /\ block' = 0
  /\ cut' = (cut \/ sent[block] < parts[block])
  /\ UNCHANGED <<turnVars, begun, sent, chunks, wire, stopped, broken,
                 cancelled>>

\* readStream reads on until the body ends.
MessageStop ==
  /\ Reading("anthropic") /\ block = 0
  /\ wire' = "last" /\ last' = "done"
  /\ UNCHANGED <<turnVars, begun, sent, block, chunks, cut, stopped, broken,
                 acc, left, pc, handed, cancelled>>

\* Nothing is emitted when the body just ends.
AnthropicEnd ==
  /\ provider = "anthropic" /\ pc = "read"
  /\ pc' = "closed" /\ cut' = (cut \/ wire = "open")
  /\ UNCHANGED <<turnVars, begun, sent, block, chunks, wire, stopped, broken,
                 acc, left, handed, last, cancelled>>

-----------------------------------------------------------------------------
(* OpenAI.                                                                  *)

ToolCallBegins ==
  /\ Reading("openai")
  /\ BeginCall
  /\ UNCHANGED <<turnVars, sent, block, chunks, wire, cut, stopped, broken,
                 left, pc, handed, last, cancelled>>

ToolCallDelta ==
  /\ Reading("openai")
  /\ \E c \in 1..begun : AppendFragment(c)
  /\ UNCHANGED <<turnVars, begun, block, chunks, wire, cut, stopped, broken,
                 left, pc, handed, last, cancelled>>

\* A bug: only the call with the first index is emitted.
FlushFirst == pc' = "flush" /\ left' = {i \in {1} : acc[i] # NoEntry}

Flush == pc' = "flush" /\ left' = {i \in Calls : acc[i] # NoEntry}

FinishToolCalls ==
  /\ Reading("openai")
  /\ \A c \in 1..begun : sent[c] = parts[c]
  /\ wire' = "last" /\ Flush
  /\ UNCHANGED <<turnVars, begun, sent, block, chunks, cut, stopped, broken,
                 acc, handed, last, cancelled>>

\* "stop" is done at once, and calls that have begun are not flushed.
FinishStop ==
  /\ Reading("openai")
  /\ wire' = "last" /\ last' = "done"
  /\ stopped' = (begun > 0)
  /\ UNCHANGED <<turnVars, begun, sent, block, chunks, cut, broken, acc, left,
                 pc, handed, cancelled>>

\* "length" and every other reason is ignored.
FinishOtherwise ==
  /\ Reading("openai")
  /\ wire' = "last" /\ cut' = TRUE
  /\ UNCHANGED <<turnVars, begun, sent, block, chunks, stopped, broken,
                 clientVars, cancelled>>

\* A bug: the calls are flushed at the end of the stream as well.
OpenAIEndFlushes ==
  /\ provider = "openai" /\ pc = "read" /\ handed # << >>
  /\ Flush
  /\ UNCHANGED <<turnVars, wireVars, acc, handed, last, cancelled>>

\* [DONE] or the end of the body: done unless it was emitted before.  What
\* has been put together is not flushed here.
OpenAIEnd ==
  /\ provider = "openai" /\ pc = "read"
  /\ pc' = "closed" /\ last' = "done"
  /\ cut' = (cut \/ wire = "open")
  /\ UNCHANGED <<turnVars, begun, sent, block, chunks, wire, stopped, broken,
                 acc, left, handed, cancelled>>

-----------------------------------------------------------------------------
(* Ollama.                                                                  *)

\* An entry is keyed by the position of the call in its chunk.
ToolCallChunk ==
  /\ Reading("ollama")
  /\ \E n \in 1..(Len(parts) - begun) :
       /\ begun' = begun + n
       /\ acc' = [i \in Calls |->
                    IF i > n THEN acc[i]
                    ELSE [id |-> begun + i,
                          args |-> acc[i].args \o Fragments(begun + i)]]
       /\ sent' = [c \in Calls |-> IF c \in begun + 1..begun + n THEN parts[c]
                                                                ELSE sent[c]]
  /\ chunks' = chunks + 1
  /\ UNCHANGED <<turnVars, block, wire, cut, stopped, broken, left, pc, handed,
                 last, cancelled>>

\* Calls of several chunks meet in one entry, and one of them brings no
\* arguments: what the entry holds may still parse.
Mixed == chunks > 1 /\ \E c \in 1..begun : parts[c] = 0

\* done, [DONE] or the end of the body: all flush.
OllamaEnd ==
  /\ Reading("ollama")
  /\ wire' = "last" /\ Flush
  /\ UNCHANGED <<turnVars, begun, sent, block, chunks, cut, stopped, broken,
                 acc, handed, last, cancelled>>

-----------------------------------------------------------------------------
(* flushToolCalls, errors and cancellation.                                 *)

FlushCall ==
  /\ pc = "flush" /\ left # {}
  /\ LET i == CHOOSE i \in left : \A k \in left : i <= k
     IN  IF Parses(acc[i].args)
         THEN /\ Emit(acc[i]) /\ left' = left \ {i}
              /\ UNCHANGED <<acc, pc, last>>
         ELSE Fail
  /\ UNCHANGED <<turnVars, wireVars, cancelled>>

\* Ollama's client returns, OpenAI's reads on until the end.
FlushDone ==
  /\ pc = "flush" /\ left = {}
  /\ last' = "done" /\ pc' = IF provider = "ollama" THEN "closed" ELSE "read"
  /\ UNCHANGED <<turnVars, wireVars, acc, left, handed, cancelled>>

StreamError ==
  /\ pc = "read"
  /\ Fail /\ broken' = TRUE
  /\ UNCHANGED <<turnVars, begun, sent, block, chunks, wire, cut, stopped,
                 cancelled>>

Cancel ==
  /\ ~cancelled /\ cancelled' = TRUE
  /\ UNCHANGED <<turnVars, wireVars, clientVars>>

\* The read fails or the select takes ctx.Done(), and so may emitErr.
GiveUp ==
  /\ cancelled /\ pc # "closed"
  /\ pc' = "closed" /\ last' \in {last, "error"}
  /\ UNCHANGED <<turnVars, wireVars, acc, left, handed, cancelled>>

-----------------------------------------------------------------------------
AnthropicStep ==
  ContentBlockStart \/ ContentBlockDelta \/ ContentBlockStop \/ MessageStop
  \/ AnthropicEnd

OpenAIStep ==
  ToolCallBegins \/ ToolCallDelta \/ FinishToolCalls \/ FinishStop
  \/ FinishOtherwise \/ OpenAIEnd

OllamaStep == ToolCallChunk \/ OllamaEnd

Next ==
  \/ AnthropicStep \/ OpenAIStep \/ OllamaStep
  \/ FlushCall \/ FlushDone
  \/ StreamError \/ Cancel \/ GiveUp

Spec == Init /\ [][Next]_vars

-----------------------------------------------------------------------------
(* What the agent may rely on.                                              *)

\* The type invariant; Anthropic's client keeps an entry for the open block
\* only, and an entry other than Ollama's is of the call it is kept under.
TypeOK ==
  /\ provider \in Providers
  /\ \E n \in 0..MaxCalls : parts \in [1..n -> 0..MaxParts]
  /\ begun \in 0..Len(parts) /\ sent \in [Calls -> 0..MaxParts]
  /\ block \in 0..begun /\ chunks \in 0..MaxCalls
  /\ wire \in {"open", "last"}
  /\ cut \in BOOLEAN /\ stopped \in BOOLEAN /\ broken \in BOOLEAN
  /\ acc \in [Calls -> Entries] /\ left \subseteq Calls
  /\ provider = "anthropic" /\ pc = "read" => \A i \in Calls \ {block} : acc[i] = NoEntry
  /\ provider # "ollama" => \A i \in Calls : acc[i].id \in {0, i}
  /\ pc \in {"read", "flush", "closed"} /\ last \in {"none", "done", "error"}
  /\ handed \in Seq(Entries) /\ cancelled \in BOOLEAN

\* Whatever is interleaved, cut off or cancelled, the agent is handed calls the
\* model made, in order, each at most once, and none after done.  The comment
\* on LLMEvent promises "a complete tool call": each is whole, but for one that
\* was cut off before its first argument, which is handed over without any; and
\* where Ollama's chunks mix, a call may come with another's arguments.
Contract == INSTANCE ModelTurn WITH
  turn   <- [c \in Turn |-> [id |-> c, args |-> Fragments(c)]],
  handed <- handed,
  cut    <- cut,
  mixed  <- Mixed,
  state  <- CASE last = "error"                   -> "failed"
              [] last # "error" /\ pc = "closed"  -> "closed"
              [] last = "done" /\ pc # "closed"   -> "done"
              [] last = "none" /\ pc # "closed"   -> "open"
TurnKept == Contract!Spec

\* When readStream has returned without an error, every call that had begun to
\* arrive has been handed over, unless the stream was cut short, the context
\* ended, OpenAI's model said "stop" after calls, or Ollama's chunks mixed: the
\* four ways in which the agent, which takes a turn without calls for the
\* answer, may overlook a call.
LossNeedsCause ==
  pc = "closed" /\ last # "error" =>
    \/ cut \/ cancelled \/ stopped \/ Mixed
    \/ {handed[k].id : k \in 1..Len(handed)} = 1..begun

\* A turn that arrives whole, each of its calls with well-formed arguments, is
\* not an error; unless Ollama sends its calls in more than one chunk.
ErrorNeedsCause ==
  last = "error" => broken \/ cut \/ cancelled \/ chunks > 1
=============================================================================
