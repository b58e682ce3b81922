---------------------------- MODULE AnswerStream ----------------------------
(***************************************************************************)
(* What POST /query promises about the events a client receives: text,     *)
(* then at most one chain or warning, then the end; or text, then an error.*)
(* An event may be missing, none is out of place.                          *)
(***************************************************************************)
EXTENDS Sequences

VARIABLE seen  \* the events written to the client of the current request

Events == {"text", "chain", "warning", "done", "error"}

Init == seen = << >>

\* What may come after the last event so far.
MayFollow(e) ==
  IF seen = << >> THEN e \in Events
  ELSE \/ seen[Len(seen)] = "text"
       \/ seen[Len(seen)] \in {"chain", "warning"} /\ e = "done"

Send == \E e \in Events : MayFollow(e) /\ seen' = Append(seen, e)

NextRequest == seen' = << >>

Next == Send \/ NextRequest

Spec == Init /\ [][Next]_seen
=============================================================================
