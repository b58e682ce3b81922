------------------------- MODULE QueryStreamProofs -------------------------
(* For channels of any capacity, any limit of tool calls and any number of   *)
(* requests: what a client receives is in order, replayed or live, and ends, *)
(* unless the channel of an answer overflowed.                               *)
EXTENDS QueryStream, TLAPS

USE QueryStreamAssumption

-----------------------------------------------------------------------------
(* Order of events.                                                          *)

Contents(s) == {s[i] : i \in DOMAIN s}

\* e may come before f in an answer, with or without events between them.
Precedes(e, f) == e = "text" \/ (e \in {"chain", "warning"} /\ f = "done")

Before(S, T) == \A e \in S, f \in T : Precedes(e, f)

Ordered(s) == \A i, k \in DOMAIN s : i < k => Precedes(s[i], s[k])

LEMMA EmptySequence == Contents(<< >>) = {} /\ Ordered(<< >>)
BY DEF Contents, Ordered

LEMMA ContentsAreEvents ==
  ASSUME NEW s \in Seq(Events) PROVE Contents(s) \subseteq Events
BY DEF Contents

LEMMA NoContents ==
  ASSUME NEW s \in Seq(Events), Contents(s) = {} PROVE s = << >>
<1>1. DOMAIN s = 1..Len(s) /\ Len(s) \in Nat
  OBVIOUS
<1>2. 1 \notin DOMAIN s
  BY DEF Contents
<1>. QED BY <1>1, <1>2

LEMMA AppendInOrder ==
  ASSUME NEW s \in Seq(Events), NEW e \in Events
  PROVE  /\ Append(s, e) \in Seq(Events)
         /\ Contents(Append(s, e)) = Contents(s) \cup {e}
         /\ Ordered(s) /\ Before(Contents(s), {e}) => Ordered(Append(s, e))
<1> DEFINE t == Append(s, e)
<1>1. /\ t \in Seq(Events) /\ Len(s) \in Nat
      /\ DOMAIN s = 1..Len(s) /\ DOMAIN t = 1..(Len(s) + 1)
      /\ \A i \in 1..Len(s) : t[i] = s[i]
      /\ t[Len(s) + 1] = e
  OBVIOUS
<1> HIDE DEF t
<1>2. Contents(t) = Contents(s) \cup {e}
  <2>1. ASSUME NEW i \in DOMAIN t PROVE t[i] \in Contents(s) \cup {e}
    <3>1. CASE i = Len(s) + 1
      BY <1>1, <3>1
    <3>2. CASE i # Len(s) + 1
      <4>1. i \in 1..Len(s)
        BY <1>1, <2>1, <3>2
      <4>. QED BY <1>1, <4>1 DEF Contents
    <3>. QED BY <3>1, <3>2
  <2>2. ASSUME NEW i \in DOMAIN s PROVE s[i] \in Contents(t)
    <3>1. i \in DOMAIN t /\ t[i] = s[i]
      BY <1>1, <2>2
    <3>. QED BY <3>1 DEF Contents
  <2>3. e \in Contents(t)
    <3>1. Len(s) + 1 \in DOMAIN t
      BY <1>1
    <3>. QED BY <1>1, <3>1 DEF Contents
  <2>. QED BY <2>1, <2>2, <2>3 DEF Contents
<1>3. ASSUME Ordered(s), Before(Contents(s), {e}) PROVE Ordered(t)
  <2> SUFFICES ASSUME NEW i \in DOMAIN t, NEW k \in DOMAIN t, i < k
               PROVE  Precedes(t[i], t[k])
    BY DEF Ordered
  <2>1. i \in 1..Len(s) /\ t[i] = s[i]
    BY <1>1
  <2>2. CASE k = Len(s) + 1
    <3>1. s[i] \in Contents(s)
      BY <1>1, <2>1 DEF Contents
    <3>. QED BY <1>1, <1>3, <2>1, <2>2, <3>1 DEF Before
  <2>3. CASE k # Len(s) + 1
    <3>1. k \in 1..Len(s) /\ t[k] = s[k]
      BY <1>1, <2>3
    <3>. QED BY <1>1, <1>3, <2>1, <3>1 DEF Ordered
  <2>. QED BY <2>2, <2>3
<1>. QED BY <1>1, <1>2, <1>3 DEF t

LEMMA TailInOrder ==
  ASSUME NEW s \in Seq(Events), s # << >>
  PROVE  /\ Head(s) \in Events /\ Tail(s) \in Seq(Events)
         /\ Contents(s) = {Head(s)} \cup Contents(Tail(s))
         /\ Ordered(s) =>
              /\ Ordered(Tail(s))
              /\ Before({Head(s)}, Contents(Tail(s)))
<1> DEFINE t == Tail(s)
<1>1. /\ t \in Seq(Events) /\ Len(s) \in Nat \ {0}
      /\ DOMAIN s = 1..Len(s) /\ DOMAIN t = 1..(Len(s) - 1)
      /\ \A i \in 1..(Len(s) - 1) : t[i] = s[i + 1]
      /\ Head(s) = s[1] /\ Head(s) \in Events
  OBVIOUS
<1> HIDE DEF t
<1>2. Contents(s) = {Head(s)} \cup Contents(t)
  <2>1. ASSUME NEW i \in DOMAIN s PROVE s[i] \in {Head(s)} \cup Contents(t)
    <3>1. CASE i = 1
      BY <1>1, <3>1
    <3>2. CASE i # 1
      <4>1. i - 1 \in DOMAIN t /\ t[i - 1] = s[i]
        BY <1>1, <2>1, <3>2
      <4>. QED BY <4>1 DEF Contents
    <3>. QED BY <3>1, <3>2
  <2>2. ASSUME NEW i \in DOMAIN t PROVE t[i] \in Contents(s)
    <3>1. i + 1 \in DOMAIN s /\ t[i] = s[i + 1]
      BY <1>1, <2>2
    <3>. QED BY <3>1 DEF Contents
  <2>3. Head(s) \in Contents(s)
    BY <1>1 DEF Contents
  <2>. QED BY <2>1, <2>2, <2>3 DEF Contents
<1>3. ASSUME Ordered(s) PROVE Ordered(t)
  <2> SUFFICES ASSUME NEW i \in DOMAIN t, NEW k \in DOMAIN t, i < k
               PROVE  Precedes(t[i], t[k])
    BY DEF Ordered
  <2>1. /\ i + 1 \in DOMAIN s /\ k + 1 \in DOMAIN s /\ i + 1 < k + 1
        /\ t[i] = s[i + 1] /\ t[k] = s[k + 1]
    BY <1>1
  <2>. QED BY <1>3, <2>1 DEF Ordered
<1>4. ASSUME Ordered(s) PROVE Before({Head(s)}, Contents(t))
  <2> SUFFICES ASSUME NEW k \in DOMAIN t PROVE Precedes(s[1], t[k])
    BY <1>1 DEF Before, Contents
  <2>1. 1 \in DOMAIN s /\ k + 1 \in DOMAIN s /\ 1 < k + 1 /\ t[k] = s[k + 1]
    BY <1>1
  <2>. QED BY <1>4, <2>1 DEF Ordered
<1>. QED BY <1>1, <1>2, <1>3, <1>4 DEF t

\* What Run may still emit when it is about to return.
LEMMA Endings ==
  ASSUME NEW es \in {<<"error">>, <<"done">>, <<"chain", "done">>,
                     <<"warning", "done">>}
  PROVE  /\ es \in Seq(Events) /\ es # << >>
         /\ Ordered(es) /\ Contents(es) \cap Final # {}
<1>1. CASE es \in {<<"error">>, <<"done">>}
  <2>1. DOMAIN es = {1} /\ es[1] \in Final /\ es \in Seq(Events) /\ es # << >>
    BY <1>1 DEF Final, Events
  <2>. QED BY <2>1 DEF Ordered, Contents
<1>2. CASE es \in {<<"chain", "done">>, <<"warning", "done">>}
  <2>1. /\ DOMAIN es = {1, 2} /\ es[1] \in {"chain", "warning"} /\ es[2] = "done"
        /\ es \in Seq(Events) /\ es # << >>
    <3>1. CASE es = <<"chain", "done">>
      BY <3>1 DEF Events
    <3>2. CASE es = <<"warning", "done">>
      BY <3>2 DEF Events
    <3>. QED BY <1>2, <3>1, <3>2
  <2>. QED BY <2>1 DEF Ordered, Contents, Precedes, Final
<1>. QED BY <1>1, <1>2

\* In an ordered sequence a final event is the last one.
LEMMA FinalIsLast ==
  ASSUME NEW s \in Seq(Events), Ordered(s), Contents(s) \cap Final # {}
  PROVE  s # << >> /\ s[Len(s)] \in Final
<1>1. PICK i \in DOMAIN s : s[i] \in Final
  BY DEF Contents
<1>2. Len(s) \in DOMAIN s /\ (i = Len(s) \/ i < Len(s))
  OBVIOUS
<1>3. ~Precedes(s[i], s[Len(s)])
  BY <1>1 DEF Precedes, Final
<1>4. i = Len(s)
  BY <1>2, <1>3 DEF Ordered
<1>. QED BY <1>1, <1>2, <1>4

-----------------------------------------------------------------------------
(* The invariant.                                                            *)

Working == {"loop", "asking", "recv", "tools"}  \* of agent: nothing has ended the run
AtRest  == {"idle", "ended"}          \* of agent or forwarder

Held   == {held} \ {"none"}
Coming == Held \cup Contents(events) \cup Contents(outbox)

\* How far one process can be when another is where it is.
Places ==
  /\ agent # "emit" => outbox = << >>
  /\ agent \in Working => calls < MaxCalls
  /\ agent \notin {"asking", "recv"} => client \in {"none", "closed"}
  /\ agent = "asking" => client \in {"none", "silent"}
  /\ forwarder \in AtRest => agent \in AtRest /\ events = << >>

\* Nothing but text precedes the end of a run.
OnlyText ==
  agent \in Working =>
    Contents(seen) \cup Contents(stream) \cup Contents(captured) \cup Coming
      \subseteq {"text"}

\* Events overtake each other neither in a channel nor between channels.
InOrder ==
  /\ Ordered(seen) /\ Ordered(stream) /\ Ordered(captured)
  /\ Ordered(events) /\ Ordered(outbox) /\ Ordered(pending) /\ Ordered(cache)
  /\ Before(Contents(seen), Contents(stream) \cup Coming)
  /\ Before(Contents(stream) \cup Contents(captured), Coming)
  /\ Before(Held, Contents(events) \cup Contents(outbox))
  /\ Before(Contents(events), Contents(outbox))

HasEnd(S) == S \cap Final # {}

\* As long as nothing was dropped, the final event of a run that has ended is
\* on its way to the client and to the cache, and arrives at both; only a
\* handler that gave up on its client is not followed further.
EndKept ==
  /\ agent = "emit" => HasEnd(Contents(outbox))
  /\ agent = "ended" => HasEnd(Contents(captured) \cup Held \cup Contents(events))
  /\ handler = "read" /\ agent \in AtRest =>
       HasEnd(Contents(seen) \cup Contents(stream) \cup Held \cup Contents(events))
  /\ handler = "returned" /\ ~left => HasEnd(Contents(seen))
  /\ pending # << >> => HasEnd(Contents(pending))
  /\ cache # << >> => HasEnd(Contents(cache))

IInv == TypeOK /\ Places /\ OnlyText /\ InOrder /\ (~lost => EndKept)

LEMMA InitIInv == Init => IInv
<1> SUFFICES ASSUME Init PROVE IInv
  OBVIOUS
<1>1. TypeOK
  <2>1. asks \in 0..MaxAsks /\ calls \in 0..MaxCalls /\ texts \in 0..MaxTexts
    BY DEF Init
  <2>2. /\ seen \in Seq(Events) /\ turn \in Seq(ToolCalls)
        /\ outbox \in Seq(Events) /\ events \in Seq(Events)
        /\ Len(events) <= Capacity
        /\ captured \in Seq(Events) /\ stream \in Seq(Events)
        /\ pending \in Seq(Events) /\ cache \in Seq(Events)
    BY DEF Init
  <2>. QED BY <2>1, <2>2 DEF Init, TypeOK
<1>2. Places /\ OnlyText /\ EndKept
  BY DEF Init, Places, OnlyText, EndKept, Working, AtRest
<1>3. InOrder
  BY EmptySequence DEF Init, InOrder, Held, Coming, Before
<1>. QED BY <1>1, <1>2, <1>3 DEF IInv

-----------------------------------------------------------------------------
(* Types and places.                                                         *)

LEMMA EmitTypes ==
  ASSUME TypeOK, NEW e \in Events, Emit(e)
  PROVE  /\ events' \in Seq(Events) /\ Len(events') <= Capacity
         /\ lost' \in BOOLEAN
<1>1. CASE Len(events) < Capacity
  <2>1. events' = Append(events, e) /\ lost' = lost
    BY <1>1 DEF Emit
  <2>2. events \in Seq(Events) /\ lost \in BOOLEAN
    BY DEF TypeOK
  <2>. QED BY <1>1, <2>1, <2>2
<1>2. CASE ~(Len(events) < Capacity)
  BY <1>2 DEF Emit, TypeOK
<1>. QED BY <1>1, <1>2

\* What a step of the request, the handler or the client does.
LEMMA HandlerTypes ==
  ASSUME TypeOK, Places,
         Replay \/ RunAgent \/ HandlerStep \/ ClientLeaves
  PROVE  TypeOK' /\ Places'
<1> USE DEF requestVars, agentVars, clientVars, forwardVars, cacheVars, AtRest,
            Working
<1>1. CASE Replay
  <2>1. /\ asks' \in 0..MaxAsks /\ seen' \in Seq(Events)
        /\ stream' \in Seq(Events)
    BY <1>1 DEF TypeOK, Replay, Query
  <2>. QED BY <1>1, <2>1 DEF TypeOK, Places, Replay, Query, Quiet
<1>2. CASE RunAgent
  <2>1. /\ asks' \in 0..MaxAsks /\ seen' \in Seq(Events)
        /\ stream' \in Seq(Events) /\ captured' \in Seq(Events)
        /\ events' \in Seq(Events) /\ Len(events') <= Capacity
        /\ turn' \in Seq(ToolCalls)
    BY <1>2 DEF TypeOK, RunAgent, Query
  <2>2. calls' \in 0..MaxCalls /\ calls' < MaxCalls /\ texts' \in 0..MaxTexts
    BY <1>2 DEF RunAgent
  <2>. QED BY <1>2, <2>1, <2>2 DEF TypeOK, Places, RunAgent, Query, Quiet
<1>3. CASE WriteEvent
  <2>1. seen' \in Seq(Events) /\ stream' \in Seq(Events)
    BY <1>3, TailInOrder DEF TypeOK, WriteEvent
  <2>. QED BY <1>3, <2>1 DEF TypeOK, Places, WriteEvent, Return
<1>4. CASE WriteFails
  BY <1>4 DEF TypeOK, Places, WriteFails, Return
<1>5. CASE StreamClosed
  BY <1>5 DEF TypeOK, Places, StreamClosed, Return
<1>6. CASE ClientLeaves
  BY <1>6 DEF TypeOK, Places, ClientLeaves
<1>. QED BY <1>1, <1>2, <1>3, <1>4, <1>5, <1>6 DEF HandlerStep

LEMMA AgentTypes ==
  ASSUME TypeOK, Places, AgentStep PROVE TypeOK' /\ Places'
<1> USE DEF requestVars, agentVars, clientVars, forwardVars, cacheVars, AtRest,
            Working
<1>1. CASE StreamWithTools
  BY <1>1 DEF TypeOK, Places, StreamWithTools
<1>2. CASE ContextTermination
  BY <1>2, Endings DEF TypeOK, Places, ContextTermination, Finish
<1>3. CASE ReceiveText
  <2>1. /\ events' \in Seq(Events) /\ Len(events') <= Capacity
        /\ lost' \in BOOLEAN
    BY <1>3, EmitTypes DEF ReceiveText, Events
  <2>. QED BY <1>3, <2>1 DEF TypeOK, Places, ReceiveText
<1>4. CASE ReceiveToolCall
  BY <1>4 DEF TypeOK, Places, ReceiveToolCall
<1>5. CASE ReceiveError
  BY <1>5, Endings DEF TypeOK, Places, ReceiveError, Finish
<1>6. CASE TurnComplete
  <2>1. outbox' \in Seq(Events) /\ (agent' = "emit" <=> outbox' # << >>)
    BY <1>6, Endings DEF TypeOK, Places, TurnComplete, Finish
  <2>. QED BY <1>6, <2>1 DEF TypeOK, Places, TurnComplete, Finish
<1>7. CASE HandleToolCall
  <2>1. /\ agent = "tools" /\ turn # << >> /\ outbox = << >> /\ calls < MaxCalls
        /\ turn \in Seq(ToolCalls) /\ calls \in 0..MaxCalls
    BY <1>7 DEF HandleToolCall, TypeOK, Places
  <2>2. /\ calls' \in 0..MaxCalls
        /\ agent' # "emit" => calls' < MaxCalls
    BY <1>7, <2>1 DEF HandleToolCall, Finish
  <2>3. /\ outbox' \in Seq(Events)
        /\ agent' = "emit" <=> outbox' # << >>
    <3>1. CASE calls + 1 >= MaxCalls
      BY <1>7, <2>1, <3>1, Endings DEF HandleToolCall, Finish
    <3>2. CASE ~(calls + 1 >= MaxCalls) /\ Head(turn) = "submit"
      BY <1>7, <2>1, <3>2, Endings DEF HandleToolCall, Finish, SubmitChain
    <3>3. CASE ~(calls + 1 >= MaxCalls) /\ Head(turn) # "submit"
      <4>1. ExecuteTool
        BY <1>7, <3>3 DEF HandleToolCall
      <4>2. \/ agent' \in {"loop", "tools"} /\ outbox' = << >>
            \/ agent' = "emit" /\ outbox' = <<"error">>
        BY <2>1, <4>1 DEF ExecuteTool, Finish
      <4>3. <<"error">> \in Seq(Events) /\ <<"error">> # << >>
        BY Endings
      <4>4. << >> \in Seq(Events)
        OBVIOUS
      <4>. QED BY <4>2, <4>3, <4>4
    <3>. QED BY <3>1, <3>2, <3>3
  <2>4. /\ turn' \in Seq(ToolCalls) /\ agent' \in {"emit", "loop", "tools"}
        /\ agent' = "tools" => turn' # << >>
    BY <1>7, <2>1 DEF HandleToolCall, Finish, SubmitChain, ExecuteTool
  <2>5. UNCHANGED <<requestVars, clientVars, forwardVars, cacheVars, events, lost>>
    BY <1>7 DEF HandleToolCall, SubmitChain, ExecuteTool
  <2>. QED BY <2>1, <2>2, <2>3, <2>4, <2>5 DEF TypeOK, Places
<1>8. CASE EmitLast
  <2>1. outbox # << >> /\ Head(outbox) \in Events /\ Tail(outbox) \in Seq(Events)
    BY <1>8 DEF EmitLast, TypeOK
  <2>2. /\ events' \in Seq(Events) /\ Len(events') <= Capacity
        /\ lost' \in BOOLEAN
    BY <1>8, <2>1, EmitTypes DEF EmitLast
  <2>. QED BY <1>8, <2>1, <2>2 DEF TypeOK, Places, EmitLast
<1>9. CASE StreamOpens
  BY <1>9 DEF TypeOK, Places, StreamOpens
<1>10. CASE RequestFails
  BY <1>10, Endings DEF TypeOK, Places, RequestFails, Finish
<1>. QED BY <1>1, <1>2, <1>3, <1>4, <1>5, <1>6, <1>7, <1>8, <1>9, <1>10
         DEF AgentStep

LEMMA ClientTypes ==
  ASSUME TypeOK, Places, ClientStep \/ RequestStalls \/ StreamStalls
  PROVE  TypeOK' /\ Places'
<1> USE DEF requestVars, agentVars, forwardVars, cacheVars, AtRest, Working,
            Send
<1>1. CASE OfferEvent
  BY <1>1 DEF TypeOK, Places, OfferEvent
<1>2. CASE EndOfStream
  BY <1>2 DEF TypeOK, Places, EndOfStream
<1>3. CASE StreamError
  BY <1>3 DEF TypeOK, Places, StreamError
<1>4. CASE StreamStalls
  BY <1>4 DEF TypeOK, Places, StreamStalls
<1>5. CASE ReadCancelled
  BY <1>5 DEF TypeOK, Places, ReadCancelled
<1>6. CASE EmitCancelled
  BY <1>6 DEF TypeOK, Places, EmitCancelled
<1>7. CASE RequestStalls
  BY <1>7 DEF TypeOK, Places, RequestStalls
<1>. QED BY <1>1, <1>2, <1>3, <1>4, <1>5, <1>6, <1>7 DEF ClientStep

\* When the forwarder holds the final event, nothing comes after it.
LEMMA FinalHeld ==
  ASSUME IInv, held \in Final
  PROVE  agent \in AtRest /\ events = << >> /\ outbox = << >>
<1>1. Held = {held} /\ held \notin {"text", "none"}
  BY DEF Held, Final
<1>2. ASSUME NEW f \in Contents(events) \cup Contents(outbox) PROVE FALSE
  <2>1. ~Precedes(held, f)
    BY DEF Precedes, Final
  <2>. QED BY <1>1, <2>1 DEF IInv, InOrder, Before
<1>3. events = << >> /\ outbox = << >>
  BY <1>2, NoContents DEF IInv, TypeOK
<1>4. agent \notin Working
  BY <1>1 DEF IInv, OnlyText, Coming
<1>5. agent # "emit"
  BY <1>3 DEF IInv, TypeOK
<1>. QED BY <1>3, <1>4, <1>5 DEF IInv, TypeOK, Working, AtRest

LEMMA ForwarderTypes ==
  ASSUME IInv, ForwarderStep \/ CacheStep \/ Expire
  PROVE  TypeOK' /\ Places'
<1> TypeOK /\ Places
  BY DEF IInv
<1> USE DEF requestVars, agentVars, clientVars, forwardVars, AtRest, Working
<1>1. CASE Forward
  <2>1. held' \in Events /\ events' \in Seq(Events) /\ Len(events') <= Capacity
    BY <1>1 DEF TypeOK, Forward
  <2>2. held' # "none"
    BY <2>1 DEF Events
  <2>. QED BY <1>1, <2>1, <2>2 DEF TypeOK, Places, Forward, cacheVars
<1>2. CASE SendAndCapture
  <2>1. held \in Events
    BY <1>2 DEF TypeOK, SendAndCapture
  <2>2. /\ stream' \in Seq(Events) /\ captured' \in Seq(Events)
        /\ pending' \in Seq(Events)
    <3>1. stream' \in Seq(Events) /\ captured' \in Seq(Events)
      BY <1>2, <2>1, AppendInOrder DEF TypeOK, SendAndCapture
    <3>2. pending' \in {pending, captured'} /\ pending \in Seq(Events)
      BY <1>2 DEF TypeOK, SendAndCapture
    <3>. QED BY <3>1, <3>2
  <2>3. forwarder' = "ended" => agent \in AtRest /\ events = << >>
    BY <1>2, FinalHeld DEF SendAndCapture
  <2>. QED BY <1>2, <2>1, <2>2, <2>3 DEF TypeOK, Places, SendAndCapture
<1>3. CASE EventsClosed
  BY <1>3 DEF TypeOK, Places, EventsClosed
<1>4. CASE CacheStep
  <2>1. /\ pending' = << >> /\ cache' \in {pending, cache}
        /\ UNCHANGED <<requestVars, agentVars, clientVars, forwardVars>>
    BY <1>4 DEF CacheStep, CacheSet, CacheSetFails
  <2>2. pending' \in Seq(Events) /\ cache' \in Seq(Events)
    BY <2>1 DEF TypeOK
  <2>. QED BY <2>1, <2>2 DEF TypeOK, Places
<1>5. CASE Expire
  BY <1>5 DEF TypeOK, Places, Expire
<1>. QED BY <1>1, <1>2, <1>3, <1>4, <1>5 DEF ForwarderStep

-----------------------------------------------------------------------------
(* The order of events, and their end.                                       *)

Flow == OnlyText /\ InOrder /\ (~lost => EndKept)

\* No event moves, and no run ends.
LEMMA NoEventMoves ==
  ASSUME IInv,
         UNCHANGED <<handler, seen, stream, captured, held, events, outbox,
                     pending, cache, lost>>,
         agent' = agent \/ {agent, agent'} \subseteq Working,
         left' \in {left, TRUE}
  PROVE  Flow'
<1> USE DEF Held, Coming
<1>1. OnlyText'
  BY DEF IInv, OnlyText
<1>2. InOrder'
  BY DEF IInv, InOrder
<1>3. ~lost' => EndKept'
  BY DEF IInv, EndKept, Working, AtRest
<1>. QED BY <1>1, <1>2, <1>3 DEF Flow

LEMMA RunEnds ==
  ASSUME IInv, agent \in Working, agent' = "emit",
         outbox' \in {<<"error">>, <<"done">>, <<"chain", "done">>,
                     <<"warning", "done">>},
         UNCHANGED <<requestVars, events, lost, forwardVars, cacheVars>>
  PROVE  Flow'
<1> USE DEF Held, Coming
<1>1. UNCHANGED <<handler, left, seen, stream, captured, held, events, pending,
                  cache, lost>>
  BY DEF requestVars, forwardVars, cacheVars
<1>2. Ordered(outbox') /\ HasEnd(Contents(outbox'))
  BY Endings DEF HasEnd
<1>3. OnlyText'
  BY DEF OnlyText, Working
<1>4. Contents(seen) \cup Contents(stream) \cup Contents(captured) \cup Held
        \cup Contents(events) \subseteq {"text"}
  BY DEF IInv, OnlyText
<1>5. \A S, T : S \subseteq {"text"} => Before(S, T)
  BY DEF Before, Precedes
<1>6. InOrder'
  BY <1>1, <1>2, <1>4, <1>5 DEF IInv, InOrder
<1>7. ~lost' => EndKept'
  BY <1>1, <1>2 DEF IInv, EndKept, Working, AtRest
<1>. QED BY <1>3, <1>6, <1>7 DEF Flow

\* emit appends or drops.
LEMMA EmitContents ==
  ASSUME TypeOK, NEW e \in Events, Emit(e)
  PROVE  \/ /\ Contents(events') = Contents(events) \cup {e} /\ lost' = lost
            /\ Ordered(events) /\ Before(Contents(events), {e}) => Ordered(events')
         \/ events' = events /\ lost' = TRUE
<1>1. CASE Len(events) < Capacity
  <2>1. events' = Append(events, e) /\ lost' = lost /\ events \in Seq(Events)
    BY <1>1 DEF Emit, TypeOK
  <2>. QED BY <2>1, AppendInOrder
<1>2. CASE ~(Len(events) < Capacity)
  BY <1>2 DEF Emit
<1>. QED BY <1>1, <1>2

LEMMA ReceiveTextFlow == ASSUME IInv, ReceiveText PROVE Flow'
<1> USE DEF Held, Coming
<1>1. /\ agent \in Working /\ agent' = agent
      /\ UNCHANGED <<handler, left, seen, stream, captured, held, outbox, pending,
                     cache>>
  BY DEF ReceiveText, Working, requestVars, forwardVars, cacheVars
<1>2. \/ /\ Contents(events') = Contents(events) \cup {"text"} /\ lost' = lost
         /\ Ordered(events) /\ Before(Contents(events), {"text"}) => Ordered(events')
      \/ events' = events /\ lost' = TRUE
  BY EmitContents DEF ReceiveText, IInv, Events
<1>3. Contents(seen) \cup Contents(stream) \cup Contents(captured) \cup Coming
        \subseteq {"text"}
  BY <1>1 DEF IInv, OnlyText
<1>4. Contents(events') \subseteq {"text"}
  BY <1>2, <1>3
<1>5. OnlyText'
  BY <1>1, <1>3, <1>4 DEF OnlyText
<1>6. \A S, T : S \subseteq {"text"} => Before(S, T)
  BY DEF Before, Precedes
<1>7. Ordered(events')
  BY <1>2, <1>3, <1>6 DEF IInv, InOrder
<1>8. InOrder'
  BY <1>1, <1>3, <1>4, <1>6, <1>7 DEF IInv, InOrder
<1>9. ~lost' => EndKept'
  BY <1>1, <1>2 DEF IInv, EndKept, Working, AtRest
<1>. QED BY <1>5, <1>8, <1>9 DEF Flow

LEMMA EmitLastFlow == ASSUME IInv, EmitLast PROVE Flow'
<1> USE DEF Held, Coming
<1> DEFINE e == Head(outbox)
<1>1. /\ agent = "emit" /\ outbox # << >> /\ outbox \in Seq(Events)
      /\ outbox' = Tail(outbox)
      /\ agent' = IF outbox' = << >> THEN "ended" ELSE "emit"
      /\ UNCHANGED <<handler, left, seen, stream, captured, held, pending, cache>>
  BY DEF EmitLast, IInv, TypeOK, requestVars, forwardVars, cacheVars
<1>2. /\ e \in Events /\ outbox' \in Seq(Events)
      /\ Contents(outbox) = {e} \cup Contents(outbox')
      /\ Ordered(outbox') /\ Before({e}, Contents(outbox'))
  BY <1>1, TailInOrder DEF IInv, InOrder
<1>3. \/ /\ Contents(events') = Contents(events) \cup {e} /\ lost' = lost
         /\ Ordered(events) /\ Before(Contents(events), {e}) => Ordered(events')
      \/ events' = events /\ lost' = TRUE
  BY <1>2, EmitContents DEF EmitLast, IInv
<1> HIDE DEF e
<1>4. OnlyText'
  BY <1>1 DEF OnlyText, Working
<1>5. Ordered(events') /\ Contents(events') \subseteq Contents(events) \cup {e}
  BY <1>2, <1>3 DEF IInv, InOrder, Before
<1>6. InOrder'
  BY <1>1, <1>2, <1>5 DEF IInv, InOrder, Before
<1>7. ASSUME ~lost' PROVE EndKept'
  <2>1. Contents(events') = Contents(events) \cup {e} /\ lost' = lost
    BY <1>3, <1>7
  <2>2. HasEnd(Contents(outbox))
    BY <1>1, <1>7, <2>1 DEF IInv, EndKept
  <2>3. CASE outbox' = << >>
    <3>1. e \in Final /\ agent' = "ended"
      BY <1>1, <1>2, <2>2, <2>3, EmptySequence DEF HasEnd
    <3>. QED BY <1>1, <1>7, <2>1, <3>1 DEF IInv, EndKept, HasEnd
  <2>4. CASE outbox' # << >>
    <3>1. PICK f \in Contents(outbox') : TRUE
      BY <1>2, <2>4, NoContents
    <3>2. e \notin Final
      BY <1>2, <3>1 DEF Before, Precedes, Final
    <3>3. HasEnd(Contents(outbox')) /\ agent' = "emit"
      BY <1>1, <1>2, <2>2, <2>4, <3>2 DEF HasEnd
    <3>. QED BY <1>1, <1>7, <2>1, <3>3 DEF IInv, EndKept, AtRest
  <2>. QED BY <2>3, <2>4
<1>. QED BY <1>4, <1>6, <1>7 DEF Flow

LEMMA RequestFlow == ASSUME IInv, Replay \/ RunAgent PROVE Flow'
<1> USE DEF Held, Coming
<1>1. /\ handler' = "read" /\ seen' = << >> /\ pending = << >>
      /\ UNCHANGED <<held, outbox, lost, pending, cache>>
      /\ agent \in AtRest /\ forwarder \in AtRest
  BY DEF Replay, RunAgent, Query, Quiet, AtRest, agentVars, cacheVars
<1>2. held = "none" /\ outbox = << >> /\ events = << >>
  BY <1>1 DEF IInv, TypeOK, Places, AtRest
<1>3. Held = {} /\ Contents(outbox) = {} /\ Contents(events) = {}
      /\ Contents(seen') = {} /\ Ordered(seen')
  BY <1>1, <1>2, EmptySequence
<1>4. CASE Replay
  <2>1. /\ stream' = cache /\ cache # << >>
        /\ UNCHANGED <<agent, events, captured>>
    BY <1>4 DEF Replay, agentVars
  <2>2. OnlyText'
    BY <1>1, <2>1 DEF OnlyText, Working, AtRest
  <2>3. InOrder'
    BY <1>1, <1>3, <2>1 DEF IInv, InOrder, Before
  <2>4. ~lost' => EndKept'
    BY <1>1, <1>3, <2>1 DEF IInv, EndKept, HasEnd, AtRest
  <2>. QED BY <2>2, <2>3, <2>4 DEF Flow
<1>5. CASE RunAgent
  <2>1. /\ stream' = << >> /\ events' = << >> /\ captured' = << >>
        /\ agent' = "loop"
    BY <1>5 DEF RunAgent
  <2>2. /\ Contents(stream') = {} /\ Contents(events') = {}
        /\ Contents(captured') = {}
        /\ Ordered(stream') /\ Ordered(events') /\ Ordered(captured')
    BY <2>1, EmptySequence
  <2>3. OnlyText'
    BY <1>1, <1>3, <2>2 DEF OnlyText
  <2>4. InOrder'
    BY <1>1, <1>3, <2>2 DEF IInv, InOrder, Before
  <2>5. ~lost' => EndKept'
    BY <1>1, <2>1 DEF IInv, EndKept, AtRest
  <2>. QED BY <2>3, <2>4, <2>5 DEF Flow
<1>. QED BY <1>4, <1>5

LEMMA HandlerFlow == ASSUME IInv, HandlerStep PROVE Flow'
<1> USE DEF Held, Coming
<1>1. /\ handler = "read" /\ handler' \in {"read", "returned"}
      /\ UNCHANGED <<left, agent, events, outbox, lost, held, captured, pending,
                     cache>>
  BY DEF HandlerStep, WriteEvent, WriteFails, StreamClosed, Return, agentVars,
         cacheVars, forwardVars
<1>2. CASE WriteEvent
  <2> DEFINE e == Head(stream)
  <2>1. /\ stream # << >> /\ stream \in Seq(Events) /\ seen \in Seq(Events)
        /\ seen' = Append(seen, e) /\ stream' = Tail(stream)
        /\ e = "error" \/ handler' = handler
    BY <1>2 DEF WriteEvent, IInv, TypeOK
  <2>2. /\ e \in Events
        /\ Contents(stream) = {e} \cup Contents(stream')
        /\ Ordered(stream') /\ Before({e}, Contents(stream'))
    BY <2>1, TailInOrder DEF IInv, InOrder
  <2> HIDE DEF e
  <2>3. Contents(seen') = Contents(seen) \cup {e}
    BY <2>1, <2>2, AppendInOrder
  <2>4. Ordered(seen')
    <3>1. Before(Contents(seen), {e})
      BY <2>2 DEF IInv, InOrder, Before
    <3>. QED BY <2>1, <2>2, <3>1, AppendInOrder DEF IInv, InOrder
  <2>5. OnlyText'
    BY <1>1, <2>2, <2>3 DEF IInv, OnlyText
  <2>6. InOrder'
    BY <1>1, <2>2, <2>3, <2>4 DEF IInv, InOrder, Before
  <2>7. ~lost' => EndKept'
    BY <1>1, <2>1, <2>2, <2>3 DEF IInv, EndKept, HasEnd, Final
  <2>. QED BY <2>5, <2>6, <2>7 DEF Flow
<1>3. CASE WriteFails
  <2>1. /\ stream # << >> /\ stream \in Seq(Events) /\ stream' = Tail(stream)
        /\ left /\ handler' = "returned" /\ seen' = seen
    BY <1>3 DEF WriteFails, Return, IInv, TypeOK
  <2>2. Contents(stream') \subseteq Contents(stream) /\ Ordered(stream')
    BY <2>1, TailInOrder DEF IInv, InOrder
  <2>3. OnlyText'
    BY <1>1, <2>1, <2>2 DEF IInv, OnlyText
  <2>4. InOrder'
    BY <1>1, <2>1, <2>2 DEF IInv, InOrder, Before
  <2>5. ~lost' => EndKept'
    BY <1>1, <2>1 DEF IInv, EndKept
  <2>. QED BY <2>3, <2>4, <2>5 DEF Flow
<1>4. CASE StreamClosed
  <2>1. /\ stream = << >> /\ forwarder = "ended" /\ seen' = seen
        /\ stream' = stream
    BY <1>4 DEF StreamClosed, forwardVars
  <2>2. agent \in AtRest /\ Held = {} /\ Contents(events) = {}
        /\ Contents(stream) = {}
    BY <2>1, EmptySequence DEF IInv, TypeOK, Places, AtRest
  <2>3. OnlyText' /\ InOrder'
    BY <1>1, <2>1 DEF IInv, OnlyText, InOrder
  <2>4. ~lost' => EndKept'
    BY <1>1, <2>1, <2>2 DEF IInv, EndKept, HasEnd
  <2>. QED BY <2>3, <2>4 DEF Flow
<1>. QED BY <1>2, <1>3, <1>4 DEF HandlerStep

LEMMA AgentFlow == ASSUME IInv, AgentStep PROVE Flow'
<1> USE DEF requestVars, clientVars, forwardVars, cacheVars
<1>1. CASE StreamWithTools \/ StreamOpens \/ ReceiveToolCall
  BY <1>1, NoEventMoves
     DEF StreamWithTools, StreamOpens, ReceiveToolCall, Working
<1>2. CASE ContextTermination \/ RequestFails \/ ReceiveError
  BY <1>2, RunEnds
     DEF ContextTermination, RequestFails, ReceiveError, Finish, Working
<1>3. CASE TurnComplete
  <2>1. CASE turn = << >>
    BY <1>3, <2>1, RunEnds DEF TurnComplete, Finish, Working
  <2>2. CASE turn # << >>
    BY <1>3, <2>2, NoEventMoves DEF TurnComplete, Working
  <2>. QED BY <2>1, <2>2
<1>4. CASE HandleToolCall
  <2>1. /\ agent \in Working
        /\ UNCHANGED <<requestVars, events, lost, forwardVars, cacheVars>>
    BY <1>4 DEF HandleToolCall, SubmitChain, ExecuteTool, Working
  <2>2. \/ agent' \in Working /\ outbox' = outbox
        \/ agent' = "emit" /\ outbox' \in {<<"error">>, <<"done">>,
             <<"chain", "done">>, <<"warning", "done">>}
    BY <1>4 DEF HandleToolCall, SubmitChain, ExecuteTool, Finish, Working
  <2>. QED BY <2>1, <2>2, RunEnds, NoEventMoves
<1>. QED BY <1>1, <1>2, <1>3, <1>4, ReceiveTextFlow, EmitLastFlow DEF AgentStep

LEMMA ForwarderFlow == ASSUME IInv, ForwarderStep PROVE Flow'
<1> USE DEF Held, Coming
<1>1. CASE Forward
  <2> DEFINE e == Head(events)
  <2>1. /\ forwarder = "send" => FALSE
        /\ events # << >> /\ events \in Seq(Events)
        /\ held' = e /\ events' = Tail(events)
        /\ UNCHANGED <<handler, left, seen, agent, outbox, lost, captured, stream,
                       pending, cache>>
    BY <1>1 DEF Forward, IInv, TypeOK, requestVars, cacheVars
  <2>2. /\ e \in Events /\ held = "none"
        /\ Contents(events) = {e} \cup Contents(events')
        /\ Ordered(events') /\ Before({e}, Contents(events'))
    BY <2>1, TailInOrder DEF IInv, InOrder, TypeOK
  <2> HIDE DEF e
  <2>3. Held = {} /\ Held' = {e}
    BY <2>1, <2>2 DEF Events
  <2>4. OnlyText'
    BY <2>1, <2>2, <2>3 DEF IInv, OnlyText
  <2>5. InOrder'
    BY <2>1, <2>2, <2>3 DEF IInv, InOrder, Before
  <2>6. ~lost' => EndKept'
    BY <2>1, <2>2, <2>3 DEF IInv, EndKept, HasEnd
  <2>. QED BY <2>4, <2>5, <2>6 DEF Flow
<1>2. CASE SendAndCapture
  <2>1. /\ held \in Events
        /\ stream' = Append(stream, held) /\ captured' = Append(captured, held)
        /\ held' = "none"
        /\ pending' # pending => held \in Final /\ pending' = captured'
        /\ UNCHANGED <<handler, left, seen, agent, events, outbox, lost, cache>>
    <3>1. held \in Events
      BY <1>2 DEF SendAndCapture, IInv, TypeOK
    <3>. QED BY <1>2, <3>1 DEF SendAndCapture, requestVars, agentVars
  <2>2. Held = {held} /\ Held' = {}
    BY <2>1 DEF Events
  <2>3. /\ Contents(stream') = Contents(stream) \cup {held}
        /\ Contents(captured') = Contents(captured) \cup {held}
    BY <2>1, AppendInOrder DEF IInv, TypeOK
  <2>4. Ordered(stream') /\ Ordered(captured')
    <3>1. Before(Contents(stream), {held}) /\ Before(Contents(captured), {held})
      BY <2>2 DEF IInv, InOrder, Before
    <3>. QED BY <2>1, <3>1, AppendInOrder DEF IInv, InOrder, TypeOK
  <2>5. OnlyText'
    BY <2>1, <2>2, <2>3 DEF IInv, OnlyText
  <2>6. Ordered(pending')
    BY <2>1, <2>4 DEF IInv, InOrder
  <2>7. InOrder'
    BY <2>1, <2>2, <2>3, <2>4, <2>6 DEF IInv, InOrder, Before
  <2>8. ~lost' => EndKept'
    BY <2>1, <2>2, <2>3 DEF IInv, EndKept, HasEnd
  <2>. QED BY <2>5, <2>7, <2>8 DEF Flow
<1>3. CASE EventsClosed
  <2>1. /\ forwarder = "recv" /\ events = << >> /\ agent = "ended"
        /\ pending' = captured
        /\ UNCHANGED <<handler, left, seen, agent, events, outbox, lost, held,
                       captured, stream, cache>>
    BY <1>3 DEF EventsClosed, requestVars, agentVars
  <2>2. Held = {} /\ Contents(events) = {}
    BY <2>1, EmptySequence DEF IInv, TypeOK
  <2>3. OnlyText' /\ InOrder'
    BY <2>1 DEF IInv, OnlyText, InOrder
  <2>4. ~lost' => EndKept'
    BY <2>1, <2>2 DEF IInv, EndKept
  <2>. QED BY <2>3, <2>4 DEF Flow
<1>. QED BY <1>1, <1>2, <1>3 DEF ForwarderStep

LEMMA CacheFlow == ASSUME IInv, CacheStep \/ Expire PROVE Flow'
<1> USE DEF Held, Coming
<1>1. /\ pending' \in {pending, << >>} /\ cache' \in {cache, pending, << >>}
      /\ UNCHANGED <<handler, left, seen, agent, events, outbox, lost, held,
                     captured, stream>>
  BY DEF CacheStep, CacheSet, CacheSetFails, Expire, requestVars, agentVars,
         forwardVars
<1>2. Ordered(pending') /\ Ordered(cache')
  BY <1>1, EmptySequence DEF IInv, InOrder
<1>3. OnlyText' /\ InOrder'
  BY <1>1, <1>2 DEF IInv, OnlyText, InOrder
<1>4. ~lost' => EndKept'
  BY <1>1 DEF IInv, EndKept
<1>. QED BY <1>3, <1>4 DEF Flow

LEMMA OthersFlow ==
  ASSUME IInv, \/ ClientLeaves \/ ClientStep
               \/ RequestStalls \/ StreamStalls \/ UNCHANGED vars
  PROVE  Flow'
<1> USE DEF requestVars, agentVars, clientVars, forwardVars, cacheVars
<1>1. CASE ClientLeaves
  BY <1>1, NoEventMoves DEF ClientLeaves
<1>2. CASE ClientStep \/ RequestStalls \/ StreamStalls
  <2>1. UNCHANGED <<requestVars, agentVars, forwardVars, cacheVars>>
    BY <1>2 DEF ClientStep, RequestStalls, StreamStalls, OfferEvent,
                EndOfStream, StreamError, ReadCancelled, EmitCancelled
  <2>. QED BY <2>1, NoEventMoves
<1>3. CASE UNCHANGED vars
  BY <1>3, NoEventMoves DEF vars
<1>. QED BY <1>1, <1>2, <1>3

LEMMA NextIInv == IInv /\ [Next]_vars => IInv'
<1> SUFFICES ASSUME IInv, [Next]_vars PROVE IInv'
  OBVIOUS
<1> TypeOK /\ Places
  BY DEF IInv
<1> USE DEF requestVars, agentVars, clientVars, forwardVars, cacheVars
<1>1. TypeOK' /\ Places'
  <2>1. CASE UNCHANGED vars
    BY <2>1 DEF vars, TypeOK, Places
  <2>. QED BY <2>1, HandlerTypes, AgentTypes, ClientTypes, ForwarderTypes DEF Next
<1>2. Flow'
  <2>. QED BY RequestFlow, HandlerFlow, AgentFlow, ForwarderFlow, CacheFlow,
              OthersFlow DEF Next
<1>. QED BY <1>1, <1>2 DEF IInv, Flow

LEMMA Invariance == Spec => []IInv
BY InitIInv, NextIInv, PTL DEF Spec

\* Values stay in their ranges, and no readStream is left behind by a Run that
\* has returned.
THEOREM TypeCorrect == Spec => []TypeOK
<1>1. IInv => TypeOK
  BY DEF IInv
<1>. QED BY <1>1, Invariance, PTL

\* A client that stayed until the response ended has a final event, unless the
\* channel of some answer overflowed, however the answer came about.
THEOREM AnswersEnd == Spec => []FinalUnlessLost
<1>1. IInv => FinalUnlessLost
  <2> SUFFICES ASSUME IInv, handler = "returned", ~left, ~lost
               PROVE  seen # << >> /\ seen[Len(seen)] \in Final
    BY DEF FinalUnlessLost
  <2>1. seen \in Seq(Events) /\ Ordered(seen) /\ Contents(seen) \cap Final # {}
    BY DEF IInv, TypeOK, InOrder, EndKept, HasEnd
  <2>. QED BY <2>1, FinalIsLast
<1>. QED BY <1>1, Invariance, PTL

-----------------------------------------------------------------------------
(* The refinement.                                                           *)

\* Only the handler writes to the client.
LEMMA SeenStep ==
  ASSUME Next
  PROVE  \/ seen' = << >>
         \/ seen' = seen
         \/ stream # << >> /\ seen' = Append(seen, Head(stream))
BY DEF Next, Replay, RunAgent, Query, HandlerStep, WriteEvent, WriteFails,
       StreamClosed, ClientLeaves, AgentStep, ContextTermination,
       StreamWithTools, StreamOpens, RequestFails, RequestStalls,
       ReceiveText, ReceiveToolCall, ReceiveError, TurnComplete,
       HandleToolCall, EmitLast, ClientStep, OfferEvent, EndOfStream,
       StreamError, ReadCancelled, EmitCancelled, StreamStalls, ForwarderStep,
       Forward, SendAndCapture, EventsClosed, CacheStep, CacheSet,
       CacheSetFails, Expire, requestVars

LEMMA StepsMap == IInv /\ [Next]_vars => [Answer!Next]_seen
<1> SUFFICES ASSUME IInv, [Next]_vars PROVE [Answer!Next]_seen
  OBVIOUS
<1>1. CASE UNCHANGED vars
  BY <1>1 DEF vars, requestVars
<1>2. CASE seen' = << >>
  BY <1>2 DEF Answer!Next, Answer!NextRequest
<1>3. CASE stream # << >> /\ seen' = Append(seen, Head(stream))
  <2>1. /\ stream \in Seq(Events) /\ Head(stream) \in Events
        /\ Head(stream) \in Contents(stream)
    BY <1>3, TailInOrder DEF IInv, TypeOK
  <2>2. ASSUME seen # << >> PROVE Precedes(seen[Len(seen)], Head(stream))
    <3>1. seen \in Seq(Events) /\ Len(seen) \in DOMAIN seen
      BY <2>2 DEF IInv, TypeOK
    <3>2. seen[Len(seen)] \in Contents(seen)
      BY <3>1 DEF Contents
    <3>. QED BY <2>1, <3>2 DEF IInv, InOrder, Before
  <2>3. Answer!MayFollow(Head(stream))
    BY <2>1, <2>2 DEF Answer!MayFollow, Answer!Events, Events, Precedes
  <2>4. Head(stream) \in Answer!Events
    BY <2>1 DEF Answer!Events, Events
  <2>. QED BY <1>3, <2>3, <2>4 DEF Answer!Next, Answer!Send
<1>. QED BY <1>1, <1>2, <1>3, SeenStep

\* What a client receives is one of the answers AnswerStream allows: dropped
\* events, replays and departures leave gaps and never a wrong order.
THEOREM ImplementsAnswer == Spec => StreamKept
<1>1. Init => Answer!Init
  BY DEF Init, Answer!Init
<1>. QED BY <1>1, Invariance, StepsMap, PTL DEF Spec, StreamKept, Answer!Spec
=============================================================================
