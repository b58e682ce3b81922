----------------------------- MODULE PullReview -----------------------------
(***************************************************************************)
(* What a change affects, asked by POST /impact (internal/impact) and by   *)
(* GitHub's pull request events, which are answered with a comment         *)
(* (internal/webhook/github.go), while the repository may be indexed again *)
(* at any time.                                                            *)
(*                                                                         *)
(* Each statement and each call of GitHub is a step, and any may fail.     *)
(* Index runs are full runs that follow each other: IndexQueue and         *)
(* IndexRun open up how they are admitted and what they do.                *)
(***************************************************************************)
EXTENDS CallGraph, Sequences, FiniteSets

CONSTANTS
  Functions,  \* of the repository: records of a file and a name
  Graphs,     \* bound: the call edges that a run may find
  Roots,      \* bound: the paths the repository may be registered under
  Requests,   \* impact requests and deliveries
  Depths,     \* bound: the depths POST /impact is asked for
  MaxRuns     \* bound: index runs

ASSUME PullReviewAssumption ==
  /\ \A g \in Graphs : g \subseteq Functions \X Functions
  /\ Depths \subseteq 1..10 /\ MaxRuns \in Nat

Names == {f.name : f \in Functions}
Files == {f.file : f \in Functions}   \* as GitHub names them, from the root

VARIABLES
  root,       \* repos.path
  status,     \* the repository's status, as deriveRepoStatus says
  run, runs,  \* the next step of the index run, and runs so far
  goal,       \* the calls the newest run has found
  functions, edges,  \* the rows stored
  pc,         \* the requests: next step or reply
  hook,       \* a delivery, not an impact request
  files,      \* the files of the pull request
  names, depth,  \* the arguments of Analyze
  report,     \* its result: pairs of a function and a depth
  draft,      \* the comment about to be posted
  comments,   \* the comments this request has posted
  hung,       \* the client has gone: the request's context is done
  failed,     \* history: a statement or a call of GitHub has failed
  seen,       \* history: goal when the status was looked at last
  raced       \* history: a run was started since

indexVars   == <<root, status, run, runs, goal, functions, edges>>
requestVars == <<pc, hook, files, names, depth, report, draft, comments, hung,
                 failed, seen, raced>>
vars == <<indexVars, requestVars>>

Replies  == {"ok", "error", "refused"}
Comments == {"not indexed", "nothing to analyse", "impact"}
PCs == {"idle", "files", "find", "functions", "gate", "callers", "summary",
        "post"} \cup Replies
HookDepth == 3

Init ==
  /\ root \in Roots /\ status = "registered"
  /\ run = "none" /\ runs = 0 /\ goal = {} /\ functions = {} /\ edges = {}
  /\ pc = [r \in Requests |-> "idle"] /\ hook = [r \in Requests |-> FALSE]
  /\ files = [r \in Requests |-> {}] /\ names = [r \in Requests |-> {}]
  /\ depth = [r \in Requests |-> HookDepth]
  /\ report = [r \in Requests |-> {}]
  /\ draft = [r \in Requests |-> "nothing to analyse"]
  /\ comments = [r \in Requests |-> << >>]
  /\ hung = [r \in Requests |-> FALSE] /\ failed = [r \in Requests |-> FALSE]
  /\ seen = [r \in Requests |-> {}] /\ raced = [r \in Requests |-> FALSE]

-----------------------------------------------------------------------------
(* Full index runs.                                                         *)

\* The task is created: the repository is "indexing" from here on.
TriggerIndex ==
  /\ run = "none" /\ runs < MaxRuns
  /\ run' = "delete" /\ runs' = runs + 1 /\ status' = "indexing"
  /\ goal' \in Graphs
  /\ raced' = [r \in Requests |-> TRUE]
  /\ UNCHANGED <<root, functions, edges, pc, hook, files, names, depth, report,
                 draft, comments, hung, failed, seen>>

RunTo(step, fs, es) ==
  /\ run' = step /\ functions' = fs /\ edges' = es
  /\ UNCHANGED <<root, status, runs, goal, requestVars>>

\* A bug: the foreign keys of call_edges do not cascade.
DeleteFunctionsOnly == run = "delete" /\ RunTo("insert", {}, edges)

DeleteFunctions == run = "delete" /\ RunTo("insert", {}, {})
InsertFunctions == run = "insert" /\ RunTo("link", Functions, {})
InsertCallEdges == run = "link" /\ RunTo("finish", functions, goal)

\* "indexed" stands for "partial" as well: both let requests through.
EndRun ==
  /\ run # "none"
  /\ run' = "none"
  /\ status' \in IF run = "finish" THEN {"indexed", "failed"} ELSE {"failed"}
  /\ UNCHANGED <<root, runs, goal, functions, edges, requestVars>>

-----------------------------------------------------------------------------
(* Steps of a request.                                                      *)

Goto(r, l) == pc' = [pc EXCEPT ![r] = l]

Queryable == status = "indexed"

\* The status is looked at: history only.
Look(r) ==
  /\ seen' = [seen EXCEPT ![r] = goal]
  /\ raced' = [raced EXCEPT ![r] = FALSE]

HandleImpact(r) ==
  /\ pc[r] = "idle"
  /\ \E ns \in SUBSET Names \ {{}}, d \in Depths :
       names' = [names EXCEPT ![r] = ns] /\ depth' = [depth EXCEPT ![r] = d]
  /\ Goto(r, "gate")
  /\ UNCHANGED <<indexVars, hook, files, report, draft, comments, hung, failed,
                 seen, raced>>

\* A pull request was opened or pushed to.
HandlePRWebhook(r) ==
  /\ pc[r] = "idle"
  /\ Goto(r, "files") /\ hook' = [hook EXCEPT ![r] = TRUE]
  /\ UNCHANGED <<indexVars, files, names, depth, report, draft, comments, hung,
                 failed, seen, raced>>

\* A bad request or signature, or an event that is ignored.
Refuse(r) ==
  /\ pc[r] = "idle"
  /\ Goto(r, "refused") /\ hook' \in {hook, [hook EXCEPT ![r] = TRUE]}
  /\ UNCHANGED <<indexVars, files, names, depth, report, draft, comments, hung,
                 failed, seen, raced>>

\* The files the pull request has by now.
FetchPRFiles(r) ==
  /\ pc[r] = "files"
  /\ \E fs \in SUBSET Files : files' = [files EXCEPT ![r] = fs]
  /\ Goto(r, "find")
  /\ UNCHANGED <<indexVars, hook, names, depth, report, draft, comments, hung,
                 failed, seen, raced>>

Post(r, comment) == Goto(r, "post") /\ draft' = [draft EXCEPT ![r] = comment]

\* A bug: whatever its status, the repository is taken.
FindRepoByOwnerRepo(r) ==
  /\ pc[r] = "find"
  /\ Goto(r, "functions") /\ Look(r)
  /\ UNCHANGED <<indexVars, hook, files, names, depth, report, draft, comments,
                 hung, failed>>

FindIndexedRepoByOwnerRepo(r) ==
  /\ pc[r] = "find"
  /\ IF Queryable THEN Goto(r, "functions") /\ Look(r) /\ UNCHANGED draft
     ELSE Post(r, "not indexed") /\ UNCHANGED <<seen, raced>>
  /\ UNCHANGED <<indexVars, hook, files, names, depth, report, comments, hung,
                 failed>>

\* file_path is the path the indexer walked, from the registered root on.
FilePath(f) == root \o f.file

GetFunctionsByFilePaths(r) ==
  LET found == {f.name : f \in {f \in functions : FilePath(f) \in files[r]}}
  IN  /\ pc[r] = "functions"
      /\ names' = [names EXCEPT ![r] = found]
      /\ IF found = {} THEN Post(r, "nothing to analyse")
         ELSE Goto(r, "gate") /\ UNCHANGED draft
      /\ UNCHANGED <<indexVars, hook, files, depth, report, comments, hung,
                     failed, seen, raced>>

\* A bug: only a repository without any index is refused.
AnalyzeUnlessRegistered(r) ==
  /\ pc[r] = "gate"
  /\ IF status # "registered" THEN Goto(r, "callers") /\ Look(r)
     ELSE Goto(r, "error") /\ UNCHANGED <<seen, raced>>
  /\ UNCHANGED <<indexVars, hook, files, names, depth, report, draft, comments,
                 hung, failed>>

\* Analyze looks at the status again.
AnalyzeGate(r) ==
  /\ pc[r] = "gate"
  /\ IF Queryable THEN Goto(r, "callers") /\ Look(r)
     ELSE Goto(r, "error") /\ UNCHANGED <<seen, raced>>
  /\ UNCHANGED <<indexVars, hook, files, names, depth, report, draft, comments,
                 hung, failed>>

\* The handler goes on with the result of Analyze.
Conclude(r, comment) ==
  IF hook[r] THEN Post(r, comment) ELSE Goto(r, "ok") /\ UNCHANGED draft

\* Changed is every function of one of the names, in whatever file.
GetCallers(r) ==
  LET changed == {f \in functions : f.name \in names[r]}
      callers == GetCallersByDepth(edges, changed, depth[r])
  IN  /\ pc[r] = "callers"
      /\ report' = [report EXCEPT ![r] = callers]
      /\ IF callers = {} THEN Conclude(r, "nothing to analyse")
         ELSE Goto(r, "summary") /\ UNCHANGED draft
      /\ UNCHANGED <<indexVars, hook, files, names, depth, comments, hung,
                     failed, seen, raced>>

\* The model's text, or a fallback when it fails.
GenerateSummary(r) ==
  /\ pc[r] = "summary"
  /\ Conclude(r, "impact")
  /\ UNCHANGED <<indexVars, hook, files, names, depth, report, comments, hung,
                 failed, seen, raced>>

\* A bug: the model is called with a context of its own.
SummaryNeverCut(r) == pc[r] = "summary" /\ FALSE /\ UNCHANGED vars

\* The fallback, because the context is done.
SummaryCut(r) == hung[r] /\ GenerateSummary(r)

PostPRComment(r) ==
  /\ pc[r] = "post"
  /\ comments' = [comments EXCEPT ![r] = Append(@, draft[r])]
  /\ Goto(r, "ok")
  /\ UNCHANGED <<indexVars, hook, files, names, depth, report, draft, hung,
                 failed, seen, raced>>

-----------------------------------------------------------------------------
(* Failures.                                                                *)

\* The client closes the connection; GitHub does so after ten seconds.
HangUp(r) ==
  /\ pc[r] \notin Replies \cup {"idle"} /\ ~hung[r]
  /\ hung' = [hung EXCEPT ![r] = TRUE]
  /\ UNCHANGED <<indexVars, pc, hook, files, names, depth, report, draft,
                 comments, failed, seen, raced>>

Fails(r) == failed' = [failed EXCEPT ![r] = TRUE]

StatementFails(r) ==
  /\ pc[r] \in {"files", "functions", "gate", "callers"}
  /\ Fails(r) /\ Goto(r, "error")
  /\ UNCHANGED <<indexVars, hook, files, names, depth, report, draft, comments,
                 hung, seen, raced>>

\* A bug: the branch does not return.
FindFailsAndGoesOn(r) ==
  /\ pc[r] = "find" /\ Fails(r)
  /\ comments' = [comments EXCEPT ![r] = Append(@, "not indexed")]
  /\ Goto(r, "functions")
  /\ UNCHANGED <<indexVars, hook, files, names, depth, report, draft, hung,
                 seen, raced>>

\* Any error of the lookup is answered like a repository that is not indexed.
FindFails(r) ==
  /\ pc[r] = "find" /\ Fails(r)
  /\ Post(r, "not indexed")
  /\ UNCHANGED <<indexVars, hook, files, names, depth, report, comments, hung,
                 seen, raced>>

\* GitHub may have stored the comment all the same.
PostFails(r) ==
  /\ pc[r] = "post" /\ Fails(r)
  /\ Goto(r, "error")
  /\ comments' \in {comments, [comments EXCEPT ![r] = Append(@, draft[r])]}
  /\ UNCHANGED <<indexVars, hook, files, names, depth, report, draft, hung,
                 seen, raced>>

-----------------------------------------------------------------------------
Answer(r) ==
  \/ FetchPRFiles(r) \/ FindIndexedRepoByOwnerRepo(r)
  \/ GetFunctionsByFilePaths(r) \/ AnalyzeGate(r) \/ GetCallers(r)
  \/ SummaryCut(r) \/ PostPRComment(r)
  \/ StatementFails(r) \/ FindFails(r) \/ PostFails(r)

IndexStep ==
  \/ TriggerIndex \/ DeleteFunctions \/ InsertFunctions \/ InsertCallEdges
  \/ EndRun

Next ==
  \/ IndexStep
  \/ \E r \in Requests :
       \/ HandleImpact(r) \/ HandlePRWebhook(r) \/ Refuse(r)
       \/ Answer(r) \/ GenerateSummary(r) \/ HangUp(r)

Spec == Init /\ [][Next]_vars

\* Statements and calls of GitHub return.  A model may be silent for ever;
\* GitHub is not patient for ever.
Fairness ==
  \A r \in Requests : WF_vars(Answer(r)) /\ WF_vars(hook[r] /\ HangUp(r))

FairSpec == Spec /\ Fairness

-----------------------------------------------------------------------------
(* What makes the answers right.                                            *)

\* The type invariant; edges never outlive the functions they join.
TypeOK ==
  /\ root \in Roots /\ status \in {"registered", "indexing", "indexed", "failed"}
  /\ run \in {"none", "delete", "insert", "link", "finish"} /\ runs \in 0..MaxRuns
  /\ goal \in Graphs \cup {{}} /\ functions \subseteq Functions
  /\ edges \subseteq functions \X functions
  /\ pc \in [Requests -> PCs] /\ hook \in [Requests -> BOOLEAN]
  /\ files \in [Requests -> SUBSET Files] /\ names \in [Requests -> SUBSET Names]
  /\ depth \in [Requests -> 1..10]
  /\ \A r \in Requests : report[r] \subseteq Functions \X (1..depth[r])
  /\ draft \in [Requests -> Comments] /\ comments \in [Requests -> Seq(Comments)]
  /\ hung \in [Requests -> BOOLEAN] /\ failed \in [Requests -> BOOLEAN]
  /\ seen \in [Requests -> Graphs \cup {{}}] /\ raced \in [Requests -> BOOLEAN]

\* Unless an index run was started between the look at the status and the
\* query, a report tells exactly the functions from which a chain of at most
\* `depth` calls leads to a changed one, in the whole call graph of the last
\* completed run; the depth it gives is that of the longest such chain.
ReportExact ==
  \A r \in Requests : pc[r] \in {"summary", "post", "ok"} /\ names[r] # {}
                      /\ draft[r] # "not indexed" /\ ~raced[r] =>
    LET changed == {f \in Functions : f.name \in names[r]}
        lengths(f) == ChainLengths(seen[r], changed, depth[r], Functions, f)
    IN  \A f \in Functions, d \in 1..depth[r] :
          <<f, d>> \in report[r] <=>
            d \in lengths(f) /\ \A n \in lengths(f) : n <= d

\* A delivery answered with ok has posted exactly one comment, one that is
\* refused or ignored has posted none, and one that fails at most one.
CommentOncePerEvent ==
  \A r \in Requests :
    Len(comments[r]) \in CASE pc[r] = "ok" /\ hook[r] -> {1}
                           [] pc[r] = "error"         -> {0, 1}
                           [] OTHER                   -> {0}

\* "Every PR automatically gets a comment": a delivery ends in an error only
\* after a statement or a call of GitHub failed (as they do once GitHub has
\* hung up), or after an index run began between its two looks at the status.
LostEventNeedsCause ==
  \A r \in Requests : hook[r] /\ pc[r] = "error" => failed[r] \/ raced[r]

\* A delivery that was accepted is answered, even if the model never is.
DeliveryEnds ==
  \A r \in Requests : pc[r] = "files" ~> pc[r] \in Replies

\* The README: "every time a PR is opened or updated, LogicMap will analyze
\* the changed functions".  A delivery that met no failure and no index run
\* analyses the functions of the files the pull request changes.
ChangedFunctionsAnalysed ==
  \A r \in Requests :
    hook[r] /\ pc[r] = "ok" /\ ~failed[r] /\ ~raced[r]
    /\ draft[r] # "not indexed" =>
      {f.name : f \in {f \in Functions : f.file \in files[r]}} \subseteq names[r]
=============================================================================
