------------------------------ MODULE ModelTurn ------------------------------
(***************************************************************************)
(* What LLMClient.StreamWithTools promises the agent about one turn of the *)
(* model (internal/llm/interface.go): tool calls are handed over whole, in *)
(* the model's order and once each; after done comes no call; after an     *)
(* error, and once the channel is closed, comes nothing.                   *)
(*                                                                         *)
(* Two exceptions are written down with what must have happened first: a    *)
(* call may lack its arguments if the model was cut off, and calls may be   *)
(* handed over out of order, each with its own or an earlier call's         *)
(* arguments, if the provider's messages have mixed them.                   *)
(***************************************************************************)
EXTENDS Naturals, Sequences

VARIABLES
  turn,    \* the calls the model makes in this turn
  handed,  \* the calls handed over so far
  state,   \* "open", "done", "failed" or "closed"
  cut,     \* the model was cut off
  mixed    \* the provider's messages have mixed calls

\* A call the model was cut off from before its first argument.
Bare(call) == [call EXCEPT !.args = << >>]

Init ==
  /\ turn \in Seq([id : Nat, args : Seq(Nat \X Nat)])
  /\ handed = << >> /\ state = "open"
  /\ cut = FALSE /\ mixed = FALSE

HandOver ==
  /\ state = "open"
  /\ \E c \in 1..Len(turn) :
       /\ \A k \in 1..Len(handed) : handed[k].id < turn[c].id
       /\ \/ handed' = Append(handed, turn[c])
          \/ cut' /\ handed' = Append(handed, Bare(turn[c]))
  /\ UNCHANGED state

HandOverMixed ==
  /\ state = "open" /\ mixed
  /\ \E c \in 1..Len(turn) : \E b \in 1..c :
       /\ \A k \in 1..Len(handed) : handed[k].id # turn[c].id
       /\ handed' = Append(handed, [turn[c] EXCEPT !.args = turn[b].args])
  /\ UNCHANGED state

Done ==
  /\ state = "open" /\ state' = "done"
  /\ UNCHANGED handed

\* The body may still break, or the context end, after done.
Fail ==
  /\ state \in {"open", "done"} /\ state' = "failed"
  /\ UNCHANGED handed

Close ==
  /\ state \in {"open", "done"} /\ state' = "closed"
  /\ UNCHANGED handed

\* The stream may be cut off, or mix calls, at any step.
Arrive == UNCHANGED <<handed, state>>

Next ==
  /\ cut' \in {cut, TRUE} /\ mixed' \in {mixed, TRUE} /\ UNCHANGED turn
  /\ HandOver \/ HandOverMixed \/ Done \/ Fail \/ Close \/ Arrive

Spec == Init /\ [][Next]_<<turn, handed, state, cut, mixed>>
=============================================================================
