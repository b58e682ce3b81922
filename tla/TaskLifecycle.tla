--------------------------- MODULE TaskLifecycle ---------------------------
(* What the tasks table promises to whoever polls GET /tasks/{id}: a task    *)
(* is created once as pending, starts at most once, ends at most once, and   *)
(* its result is final.  Nothing here knows of requests, streams or workers. *)
CONSTANT Tasks
VARIABLE status

Terminal == {"completed", "partial", "failed"}
Statuses == {"none", "pending", "running"} \cup Terminal

Init == status = [t \in Tasks |-> "none"]

Move(t, from, to) == status[t] = from /\ status' = [status EXCEPT ![t] = to]

Create(t) == Move(t, "none", "pending")
Begin(t)  == Move(t, "pending", "running")
End(t)    == \E s \in Terminal : Move(t, "running", s)

Next == \E t \in Tasks : Create(t) \/ Begin(t) \/ End(t)

Spec == Init /\ [][Next]_status
=============================================================================
