-------------------------- MODULE PullReviewProofs --------------------------
(* For any number of requests and index runs, any repository and any call    *)
(* graphs: one event makes one comment, and an event is lost only to a       *)
(* failure or to an index run that began between two looks at the status.    *)
EXTENDS PullReview, CallGraphProofs, TLAPS

USE PullReviewAssumption

-----------------------------------------------------------------------------
(* The invariant, one request at a time.                                     *)

Shape ==
  /\ pc \in [Requests -> PCs] /\ hook \in [Requests -> BOOLEAN]
  /\ draft \in [Requests -> Comments] /\ comments \in [Requests -> Seq(Comments)]
  /\ failed \in [Requests -> BOOLEAN] /\ raced \in [Requests -> BOOLEAN]

\* No run is at work on an index that is let through.
AtRest == status = "indexed" => run = "none"

\* GitHub's files and comments are a delivery's business only.
HookOnly(r) ==
  /\ pc[r] = "idle" => ~hook[r]
  /\ pc[r] \in {"files", "find", "functions", "post"} => hook[r]

Commented(r) ==
  \/ pc[r] = "ok" /\ hook[r] /\ Len(comments[r]) = 1
  \/ pc[r] = "error" /\ Len(comments[r]) \in {0, 1}
  \/ ~(pc[r] = "ok" /\ hook[r]) /\ pc[r] # "error" /\ Len(comments[r]) = 0

\* Between its two looks, a delivery has not lost the index it saw.
LetThrough(r) ==
  hook[r] /\ pc[r] \in {"functions", "gate"} /\ ~raced[r] => status = "indexed"

Caused(r) == hook[r] /\ pc[r] = "error" => failed[r] \/ raced[r]

Right(r) == HookOnly(r) /\ Commented(r) /\ LetThrough(r) /\ Caused(r)

IInv == Shape /\ AtRest /\ \A r \in Requests : Right(r)

LEMMA InitIInv == Init => IInv
<1> SUFFICES ASSUME Init PROVE IInv
  OBVIOUS
<1>1. << >> \in Seq(Comments) /\ Len(<< >>) = 0
  OBVIOUS
<1>2. Shape
  BY <1>1 DEF Init, Shape, PCs, Replies, Comments
<1>3. ASSUME NEW r \in Requests PROVE Right(r)
  <2>1. pc[r] = "idle" /\ hook[r] = FALSE /\ comments[r] = << >>
    BY DEF Init
  <2>. QED BY <1>1, <2>1 DEF Right, HookOnly, Commented, LetThrough, Caused
<1>. QED BY <1>2, <1>3 DEF Init, IInv, AtRest

-----------------------------------------------------------------------------
(* Index runs.                                                               *)

LEMMA IndexKeepsIInv == ASSUME IInv, IndexStep PROVE IInv'
<1>1. CASE TriggerIndex
  <2>1. Shape' /\ AtRest'
    BY <1>1 DEF TriggerIndex, IInv, Shape, AtRest
  <2>2. ASSUME NEW r \in Requests PROVE Right(r)'
    BY <1>1 DEF TriggerIndex, IInv, Right, HookOnly, Commented, LetThrough,
                Caused
  <2>. QED BY <2>1, <2>2 DEF IInv
<1>2. CASE DeleteFunctions \/ InsertFunctions \/ InsertCallEdges \/ EndRun
  <2>1. /\ run # "none" /\ (run' # "none" => status' = status)
        /\ UNCHANGED requestVars
    BY <1>2 DEF DeleteFunctions, InsertFunctions, InsertCallEdges, EndRun, RunTo
  <2>2. status # "indexed"
    BY <2>1 DEF IInv, AtRest
  <2>3. Shape' /\ AtRest'
    BY <2>1, <2>2 DEF IInv, Shape, AtRest, requestVars
  <2>4. ASSUME NEW r \in Requests PROVE Right(r)'
    BY <2>1, <2>2 DEF IInv, Right, HookOnly, Commented, LetThrough, Caused,
                      requestVars
  <2>. QED BY <2>3, <2>4 DEF IInv
<1>. QED BY <1>1, <1>2 DEF IndexStep

-----------------------------------------------------------------------------
(* Requests.                                                                 *)

\* What a step of one request leaves alone.
Own(r) ==
  /\ UNCHANGED <<status, run>>
  /\ \A q \in Requests \ {r} :
       /\ pc'[q] = pc[q] /\ hook'[q] = hook[q] /\ comments'[q] = comments[q]
       /\ failed'[q] = failed[q] /\ raced'[q] = raced[q]

LEMMA OwnIsEnough ==
  ASSUME IInv, NEW r \in Requests, Shape', Own(r), Right(r)' PROVE IInv'
<1>1. ASSUME NEW q \in Requests \ {r} PROVE Right(q)'
  BY <1>1 DEF IInv, Own, Right, HookOnly, Commented, LetThrough, Caused
<1>2. AtRest'
  BY DEF IInv, AtRest, Own
<1>. QED BY <1>1, <1>2 DEF IInv

\* A step that posts nothing.
LEMMA SilentStep ==
  ASSUME IInv, NEW r \in Requests, Shape', Own(r), UNCHANGED comments,
         pc[r] \notin {"ok", "error"}, pc'[r] = "ok" => ~hook'[r],
         HookOnly(r)', LetThrough(r)', Caused(r)'
  PROVE  IInv'
<1>1. Len(comments[r]) = 0
  BY DEF IInv, Right, Commented
<1>2. Commented(r)'
  BY <1>1 DEF Commented
<1>. QED BY <1>2, OwnIsEnough DEF Right

LEMMA StartKeepsIInv ==
  ASSUME IInv, NEW r \in Requests,
         HandleImpact(r) \/ HandlePRWebhook(r) \/ Refuse(r)
  PROVE  IInv'
<1>1. Shape /\ pc[r] = "idle" /\ ~hook[r]
  BY DEF IInv, Right, HookOnly, HandleImpact, HandlePRWebhook, Refuse
<1>2. UNCHANGED <<status, run, draft, comments, failed, raced>>
  BY DEF HandleImpact, HandlePRWebhook, Refuse, indexVars
<1>3. \/ pc' = [pc EXCEPT ![r] = "gate"] /\ hook' = hook
      \/ pc' = [pc EXCEPT ![r] = "files"] /\ hook' = [hook EXCEPT ![r] = TRUE]
      \/ /\ pc' = [pc EXCEPT ![r] = "refused"]
         /\ hook' \in {hook, [hook EXCEPT ![r] = TRUE]}
  BY DEF HandleImpact, HandlePRWebhook, Refuse, Goto
<1>4. Shape' /\ Own(r)
  BY <1>1, <1>2, <1>3 DEF Shape, Own, PCs, Replies
<1>5. HookOnly(r)' /\ LetThrough(r)' /\ Caused(r)' /\ pc'[r] # "ok"
  BY <1>1, <1>3 DEF Shape, HookOnly, LetThrough, Caused
<1>. QED BY <1>1, <1>2, <1>4, <1>5, SilentStep

LEMMA LookKeepsIInv ==
  ASSUME IInv, NEW r \in Requests,
         FindIndexedRepoByOwnerRepo(r) \/ AnalyzeGate(r)
  PROVE  IInv'
<1>1. Shape /\ pc[r] \in {"find", "gate"} /\ HookOnly(r) /\ LetThrough(r)
  BY DEF IInv, Right, FindIndexedRepoByOwnerRepo, AnalyzeGate
<1>2. UNCHANGED <<status, run, hook, comments, failed>>
  BY DEF FindIndexedRepoByOwnerRepo, AnalyzeGate, indexVars
<1>3. \/ /\ pc[r] = "find" /\ status = "indexed"
         /\ pc' = [pc EXCEPT ![r] = "functions"]
         /\ raced' = [raced EXCEPT ![r] = FALSE] /\ UNCHANGED draft
      \/ /\ pc[r] = "find" /\ pc' = [pc EXCEPT ![r] = "post"]
         /\ draft' = [draft EXCEPT ![r] = "not indexed"] /\ UNCHANGED raced
      \/ /\ pc[r] = "gate" /\ pc' = [pc EXCEPT ![r] = "callers"]
         /\ raced' = [raced EXCEPT ![r] = FALSE] /\ UNCHANGED draft
      \/ /\ pc[r] = "gate" /\ status # "indexed"
         /\ pc' = [pc EXCEPT ![r] = "error"] /\ UNCHANGED <<draft, raced>>
  BY DEF FindIndexedRepoByOwnerRepo, AnalyzeGate, Queryable, Look, Post, Goto
<1>4. Shape' /\ Own(r)
  BY <1>1, <1>2, <1>3 DEF Shape, Own, PCs, Replies, Comments
<1>5. HookOnly(r)' /\ LetThrough(r)' /\ Caused(r)' /\ pc'[r] # "ok"
  BY <1>1, <1>2, <1>3 DEF Shape, HookOnly, LetThrough, Caused
<1>. QED BY <1>1, <1>2, <1>4, <1>5, SilentStep

LEMMA QueryKeepsIInv ==
  ASSUME IInv, NEW r \in Requests,
         FetchPRFiles(r) \/ HangUp(r) \/ GetFunctionsByFilePaths(r)
         \/ GetCallers(r) \/ GenerateSummary(r)
  PROVE  IInv'
<1>1. /\ Shape /\ HookOnly(r) /\ LetThrough(r)
      /\ pc[r] \notin {"idle", "ok", "error"}
  BY DEF IInv, Right, FetchPRFiles, HangUp, GetFunctionsByFilePaths, GetCallers,
         GenerateSummary, Replies
<1>2. UNCHANGED <<status, run, hook, comments, failed, raced>>
  BY DEF FetchPRFiles, HangUp, GetFunctionsByFilePaths, GetCallers,
         GenerateSummary, indexVars
<1>3. \/ UNCHANGED <<pc, draft>>
      \/ pc[r] = "files" /\ Goto(r, "find") /\ UNCHANGED draft
      \/ pc[r] = "functions" /\ Goto(r, "gate") /\ UNCHANGED draft
      \/ pc[r] = "functions" /\ Post(r, "nothing to analyse")
      \/ pc[r] = "callers" /\ Goto(r, "summary") /\ UNCHANGED draft
      \/ \E c \in Comments :
           pc[r] \in {"callers", "summary"} /\ Conclude(r, c)
  BY DEF FetchPRFiles, HangUp, GetFunctionsByFilePaths, GetCallers,
         GenerateSummary, Comments
<1>4. \/ UNCHANGED <<pc, draft>>
      \/ \E l \in {"find", "gate", "summary", "post", "ok"}, c \in Comments :
           /\ pc' = [pc EXCEPT ![r] = l]
           /\ \/ draft' = [draft EXCEPT ![r] = c]
              \/ UNCHANGED draft
           /\ l = "find" => pc[r] = "files"
           /\ l = "gate" => pc[r] = "functions"
           /\ l = "post" => hook[r]
           /\ l = "ok" => ~hook[r]
  BY <1>1, <1>3 DEF Goto, Post, Conclude, HookOnly, Comments
<1>5. Shape' /\ Own(r)
  BY <1>1, <1>2, <1>4 DEF Shape, Own, PCs, Replies
<1>6. HookOnly(r)' /\ LetThrough(r)' /\ Caused(r)' /\ (pc'[r] = "ok" => ~hook'[r])
  BY <1>1, <1>2, <1>4 DEF Shape, HookOnly, LetThrough, Caused
<1>. QED BY <1>1, <1>2, <1>5, <1>6, SilentStep

LEMMA FailureKeepsIInv ==
  ASSUME IInv, NEW r \in Requests, StatementFails(r) \/ FindFails(r)
  PROVE  IInv'
<1>1. Shape /\ HookOnly(r) /\ pc[r] \notin {"ok", "error"}
  BY DEF IInv, Right, StatementFails, FindFails
<1>2. /\ UNCHANGED <<status, run, hook, comments, raced>>
      /\ failed' = [failed EXCEPT ![r] = TRUE]
  BY DEF StatementFails, FindFails, Fails, indexVars
<1>3. \/ pc' = [pc EXCEPT ![r] = "error"] /\ UNCHANGED draft
      \/ /\ pc[r] = "find" /\ pc' = [pc EXCEPT ![r] = "post"]
         /\ draft' = [draft EXCEPT ![r] = "not indexed"]
  BY DEF StatementFails, FindFails, Goto, Post
<1>4. Shape' /\ Own(r)
  BY <1>1, <1>2, <1>3 DEF Shape, Own, PCs, Replies, Comments
<1>5. HookOnly(r)' /\ LetThrough(r)' /\ Caused(r)' /\ pc'[r] # "ok"
  BY <1>1, <1>2, <1>3 DEF Shape, HookOnly, LetThrough, Caused
<1>. QED BY <1>1, <1>2, <1>4, <1>5, SilentStep

LEMMA PostKeepsIInv ==
  ASSUME IInv, NEW r \in Requests, PostPRComment(r) \/ PostFails(r)
  PROVE  IInv'
<1>1. Shape /\ pc[r] = "post" /\ hook[r] /\ Len(comments[r]) = 0
  BY DEF IInv, Right, HookOnly, Commented, PostPRComment, PostFails
<1>2. UNCHANGED <<status, run, hook, draft, raced>>
  BY DEF PostPRComment, PostFails, indexVars
<1> DEFINE one == Append(comments[r], draft[r])
<1>3. comments[r] \in Seq(Comments) /\ draft[r] \in Comments
  BY <1>1 DEF Shape
<1>4. one \in Seq(Comments) /\ Len(one) = 1
  BY <1>1, <1>3
<1>5. \/ /\ pc' = [pc EXCEPT ![r] = "ok"]
         /\ comments' = [comments EXCEPT ![r] = one] /\ UNCHANGED failed
      \/ /\ pc' = [pc EXCEPT ![r] = "error"]
         /\ comments' \in {comments, [comments EXCEPT ![r] = one]}
         /\ failed' = [failed EXCEPT ![r] = TRUE]
  BY DEF PostPRComment, PostFails, Goto, Fails
<1> HIDE DEF one
<1>6. Shape' /\ Own(r)
  BY <1>1, <1>2, <1>4, <1>5 DEF Shape, Own, PCs, Replies
<1>7. Len(comments'[r]) \in {0, 1} /\ (pc'[r] = "ok" => Len(comments'[r]) = 1)
  BY <1>1, <1>4, <1>5 DEF Shape
<1>8. Right(r)'
  BY <1>1, <1>2, <1>5, <1>7 DEF Shape, Right, HookOnly, Commented, LetThrough,
                               Caused
<1>. QED BY <1>6, <1>8, OwnIsEnough

LEMMA AnswerKeepsIInv ==
  ASSUME IInv, NEW r \in Requests,
         Answer(r) \/ GenerateSummary(r) \/ HangUp(r)
  PROVE  IInv'
BY LookKeepsIInv, QueryKeepsIInv, FailureKeepsIInv, PostKeepsIInv
   DEF Answer, SummaryCut

LEMMA NextIInv == ASSUME IInv, [Next]_vars PROVE IInv'
<1>1. CASE UNCHANGED vars
  BY <1>1 DEF IInv, Shape, AtRest, Right, HookOnly, Commented, LetThrough,
              Caused, vars, indexVars, requestVars
<1>. QED BY <1>1, IndexKeepsIInv, StartKeepsIInv, AnswerKeepsIInv DEF Next

-----------------------------------------------------------------------------
(* What follows.                                                             *)

LEMMA CommentedOnce == IInv => CommentOncePerEvent
BY DEF IInv, Right, Commented, CommentOncePerEvent

\* A delivery answered with ok has posted one comment, and no request ever
\* posts two.
THEOREM OneComment == Spec => []CommentOncePerEvent
BY InitIInv, NextIInv, CommentedOnce, PTL DEF Spec

LEMMA LossCaused == IInv => LostEventNeedsCause
BY DEF IInv, Right, Caused, LostEventNeedsCause

\* Nothing but a failure, or an index run that began between the two looks at
\* the status, makes a delivery end in an error.
THEOREM EventsNotLost == Spec => []LostEventNeedsCause
BY InitIInv, NextIInv, LossCaused, PTL DEF Spec

-----------------------------------------------------------------------------
(* The invariant about reports.                                              *)

Reports == report \in [Requests -> SUBSET (Functions \X (1..10))]

\* What a run has stored when it is as far as that.
Filled ==
  /\ run = "link" => functions = Functions
  /\ run = "finish" \/ status = "indexed" => functions = Functions /\ edges = goal

Expected(r) ==
  GetCallersByDepth(seen[r], {f \in Functions : f.name \in names[r]}, depth[r])

\* The query is about to find the index that was let through.
Fresh(r) ==
  pc[r] = "callers" /\ ~raced[r] => status = "indexed" /\ seen[r] = goal

Told(r) ==
  (pc[r] = "summary" \/ (pc[r] \in {"post", "ok"} /\ draft[r] # "not indexed"))
  /\ names[r] # {} /\ ~raced[r] => report[r] = Expected(r)

Answered(r) == Fresh(r) /\ Told(r) /\ (pc[r] = "idle" => report[r] = {})

AInv == TypeOK /\ Reports /\ Filled /\ \A r \in Requests : Answered(r)
LEMMA InitAInv == Init => AInv
<1> SUFFICES ASSUME Init PROVE AInv
  OBVIOUS
<1>1. << >> \in Seq(Comments)
  OBVIOUS
<1>2. TypeOK
  <2>1. /\ pc \in [Requests -> PCs] /\ draft \in [Requests -> Comments]
        /\ comments \in [Requests -> Seq(Comments)]
    BY <1>1 DEF Init, PCs, Replies, Comments
  <2>2. /\ files \in [Requests -> SUBSET Files]
        /\ names \in [Requests -> SUBSET Names]
        /\ seen \in [Requests -> Graphs \cup {{}}]
    <3>1. files \in [Requests -> SUBSET Files]
      BY DEF Init
    <3>2. names \in [Requests -> SUBSET Names]
      BY DEF Init
    <3>3. seen \in [Requests -> Graphs \cup {{}}]
      BY DEF Init
    <3>. QED BY <3>1, <3>2, <3>3
  <2>3. depth \in [Requests -> 1..10]
    <3>1. HookDepth \in 1..10
      BY DEF HookDepth
    <3>2. depth = [r \in Requests |-> HookDepth]
      BY DEF Init
    <3>. QED BY <3>1, <3>2
  <2>4. /\ hook \in [Requests -> BOOLEAN] /\ hung \in [Requests -> BOOLEAN]
        /\ failed \in [Requests -> BOOLEAN] /\ raced \in [Requests -> BOOLEAN]
        /\ \A r \in Requests : report[r] = {}
    BY DEF Init
  <2>5. functions = {} /\ edges = {} /\ goal = {} /\ runs = 0
    BY DEF Init
  <2>6. root \in Roots /\ status = "registered" /\ run = "none"
    BY DEF Init
  <2>. QED BY <2>1, <2>2, <2>3, <2>4, <2>5, <2>6 DEF TypeOK
<1>3. Reports /\ Filled /\ \A r \in Requests : Answered(r)
  BY DEF Init, Reports, Filled, Answered, Fresh, Told
<1>. QED BY <1>2, <1>3 DEF AInv

LEMMA IndexKeepsAInv == ASSUME IInv, AInv, IndexStep PROVE AInv'
<1>1. TypeOK /\ Reports /\ Filled /\ AtRest
  BY DEF IInv, AInv
<1>2. CASE TriggerIndex
  <2>1. TypeOK' /\ Reports'
    BY <1>1, <1>2 DEF TriggerIndex, TypeOK, Reports
  <2>2. Filled' /\ \A r \in Requests : Answered(r)'
    BY <1>1, <1>2 DEF TriggerIndex, TypeOK, Filled, AInv, Answered, Fresh, Told
  <2>. QED BY <2>1, <2>2 DEF AInv
<1>3. CASE DeleteFunctions \/ InsertFunctions \/ InsertCallEdges \/ EndRun
  <2>1. /\ run # "none" /\ status # "indexed"
        /\ UNCHANGED <<root, runs, goal, requestVars>>
    BY <1>1, <1>3 DEF DeleteFunctions, InsertFunctions, InsertCallEdges, EndRun,
                      RunTo, AtRest
  <2>2. \/ /\ run' = "insert" /\ functions' = {} /\ edges' = {}
           /\ UNCHANGED status
        \/ /\ run' = "link" /\ functions' = Functions /\ edges' = {}
           /\ UNCHANGED status
        \/ /\ run = "link" /\ run' = "finish" /\ edges' = goal
           /\ UNCHANGED <<functions, status>>
        \/ /\ run' = "none" /\ UNCHANGED <<functions, edges>>
           /\ status' \in {"indexed", "failed"}
           /\ status' = "indexed" => run = "finish"
    BY <1>3 DEF DeleteFunctions, InsertFunctions, InsertCallEdges, EndRun, RunTo
  <2>3. /\ functions' \subseteq Functions
        /\ edges' \subseteq functions' \X functions'
    <3>1. goal \subseteq Functions \X Functions
      BY <1>1 DEF TypeOK
    <3>. QED BY <1>1, <2>2, <3>1 DEF TypeOK, Filled
  <2>4. TypeOK' /\ Reports'
    BY <1>1, <2>1, <2>2, <2>3 DEF TypeOK, Reports, requestVars
  <2>5. Filled'
    BY <1>1, <2>1, <2>2 DEF Filled
  <2>6. \A r \in Requests : Answered(r)'
    BY <2>1 DEF AInv, Answered, Fresh, Told, Expected, requestVars
  <2>. QED BY <2>4, <2>5, <2>6 DEF AInv
<1>. QED BY <1>2, <1>3 DEF IndexStep

\* What a step of one request leaves alone, as far as reports go.
Apart(r) ==
  /\ UNCHANGED indexVars
  /\ \A q \in Requests \ {r} :
       /\ pc'[q] = pc[q] /\ names'[q] = names[q] /\ depth'[q] = depth[q]
       /\ report'[q] = report[q] /\ draft'[q] = draft[q] /\ seen'[q] = seen[q]
       /\ raced'[q] = raced[q]

LEMMA ApartIsEnough ==
  ASSUME AInv, NEW r \in Requests, Apart(r), TypeOK', Reports', Answered(r)'
  PROVE  AInv'
<1>1. Filled'
  BY DEF AInv, Filled, Apart, indexVars
<1>2. ASSUME NEW q \in Requests \ {r} PROVE Answered(q)'
  BY <1>2 DEF AInv, Answered, Fresh, Told, Expected, Apart, indexVars
<1>. QED BY <1>1, <1>2 DEF AInv

\* Steps that touch neither the arguments of Analyze nor its result.
LEMMA StepTypes ==
  ASSUME TypeOK, NEW r \in Requests, UNCHANGED <<indexVars, names, depth, report>>,
         NEW l \in PCs, pc' \in {pc, [pc EXCEPT ![r] = l]},
         hook' \in {hook, [hook EXCEPT ![r] = TRUE]},
         NEW fs \in SUBSET Files, files' \in {files, [files EXCEPT ![r] = fs]},
         NEW c \in Comments, draft' \in {draft, [draft EXCEPT ![r] = c]},
         comments' \in {comments, [comments EXCEPT ![r] = Append(@, draft[r])]},
         hung' \in {hung, [hung EXCEPT ![r] = TRUE]},
         failed' \in {failed, [failed EXCEPT ![r] = TRUE]},
         seen' \in {seen, [seen EXCEPT ![r] = goal]},
         raced' \in {raced, [raced EXCEPT ![r] = FALSE]}
  PROVE  TypeOK'
<1>1. /\ pc \in [Requests -> PCs] /\ files \in [Requests -> SUBSET Files]
      /\ hook \in [Requests -> BOOLEAN] /\ hung \in [Requests -> BOOLEAN]
      /\ failed \in [Requests -> BOOLEAN] /\ raced \in [Requests -> BOOLEAN]
      /\ draft \in [Requests -> Comments]
      /\ comments \in [Requests -> Seq(Comments)]
      /\ seen \in [Requests -> Graphs \cup {{}}] /\ goal \in Graphs \cup {{}}
  BY DEF TypeOK
<1>2. pc' \in [Requests -> PCs]
  BY <1>1
<1>3. files' \in [Requests -> SUBSET Files]
  <2>1. [files EXCEPT ![r] = fs] \in [Requests -> SUBSET Files]
    BY <1>1
  <2>. QED BY <1>1, <2>1
<1>4. /\ hook' \in [Requests -> BOOLEAN] /\ hung' \in [Requests -> BOOLEAN]
      /\ failed' \in [Requests -> BOOLEAN] /\ raced' \in [Requests -> BOOLEAN]
  <2>1. hook' \in [Requests -> BOOLEAN]
    BY <1>1
  <2>2. hung' \in [Requests -> BOOLEAN]
    BY <1>1
  <2>3. failed' \in [Requests -> BOOLEAN]
    BY <1>1
  <2>4. raced' \in [Requests -> BOOLEAN]
    BY <1>1
  <2>. QED BY <2>1, <2>2, <2>3, <2>4
<1>5. draft' \in [Requests -> Comments]
  <2>1. [draft EXCEPT ![r] = c] \in [Requests -> Comments]
    BY <1>1
  <2>. QED BY <1>1, <2>1
<1>6. comments' \in [Requests -> Seq(Comments)]
  <2> DEFINE posted == Append(comments[r], draft[r])
  <2>1. comments[r] \in Seq(Comments) /\ draft[r] \in Comments
    BY <1>1
  <2>2. posted \in Seq(Comments)
    BY <2>1
  <2>3. comments' \in {comments, [comments EXCEPT ![r] = posted]}
    OBVIOUS
  <2> HIDE DEF posted
  <2>4. [comments EXCEPT ![r] = posted] \in [Requests -> Seq(Comments)]
    BY <1>1, <2>2
  <2>. QED BY <1>1, <2>3, <2>4
<1>7. seen' \in [Requests -> Graphs \cup {{}}]
  <2> DEFINE graphs == Graphs \cup {{}}
  <2>1. seen \in [Requests -> graphs] /\ goal \in graphs
    BY <1>1
  <2> HIDE DEF graphs
  <2>2. [seen EXCEPT ![r] = goal] \in [Requests -> graphs]
    BY <2>1
  <2>3. seen' \in [Requests -> graphs]
    BY <2>1, <2>2
  <2>. QED BY <2>3 DEF graphs
<1>8. UNCHANGED <<root, status, run, runs, goal, functions, edges, names, depth,
                  report>>
  BY DEF indexVars
<1>. QED BY <1>2, <1>3, <1>4, <1>5, <1>6, <1>7, <1>8 DEF TypeOK

\* A step of a request that has no result yet, or keeps the one it has.
LEMMA PlainStep ==
  ASSUME AInv, NEW r \in Requests,
         HandlePRWebhook(r) \/ Refuse(r) \/ FetchPRFiles(r) \/ HangUp(r)
         \/ FindIndexedRepoByOwnerRepo(r) \/ AnalyzeGate(r) \/ StatementFails(r)
         \/ FindFails(r) \/ GenerateSummary(r) \/ PostPRComment(r) \/ PostFails(r)
  PROVE  AInv'
<1>1. TypeOK /\ Reports /\ Answered(r)
  BY DEF AInv
<1>2. UNCHANGED <<indexVars, names, depth, report>>
  BY DEF HandlePRWebhook, Refuse, FetchPRFiles, HangUp,
         FindIndexedRepoByOwnerRepo, AnalyzeGate, StatementFails, FindFails,
         GenerateSummary, PostPRComment, PostFails
<1>3. /\ hook' \in {hook, [hook EXCEPT ![r] = TRUE]}
      /\ comments' \in {comments, [comments EXCEPT ![r] = Append(@, draft[r])]}
      /\ hung' \in {hung, [hung EXCEPT ![r] = TRUE]}
      /\ failed' \in {failed, [failed EXCEPT ![r] = TRUE]}
      /\ seen' \in {seen, [seen EXCEPT ![r] = goal]}
      /\ raced' \in {raced, [raced EXCEPT ![r] = FALSE]}
  BY DEF HandlePRWebhook, Refuse, FetchPRFiles, HangUp,
         FindIndexedRepoByOwnerRepo, AnalyzeGate, Look, StatementFails, FindFails,
         Fails, GenerateSummary, PostPRComment, PostFails
<1>4. \E fs \in SUBSET Files : files' \in {files, [files EXCEPT ![r] = fs]}
  <2>1. CASE FetchPRFiles(r)
    BY <2>1 DEF FetchPRFiles
  <2>2. CASE ~FetchPRFiles(r)
    BY <2>2 DEF HandlePRWebhook, Refuse, HangUp,
         FindIndexedRepoByOwnerRepo, AnalyzeGate, StatementFails, FindFails,
         GenerateSummary, PostPRComment, PostFails
  <2>. QED BY <2>1, <2>2
<1>5. /\ \/ draft' = draft
         \/ draft' = [draft EXCEPT ![r] = "not indexed"] /\ pc[r] = "find"
         \/ draft' = [draft EXCEPT ![r] = "impact"] /\ pc[r] = "summary"
      /\ \/ pc' = pc /\ UNCHANGED <<draft, seen, raced>>
         \/ /\ pc' = [pc EXCEPT ![r] = "functions"] /\ pc[r] = "find"
         \/ /\ pc' = [pc EXCEPT ![r] = "post"] /\ pc[r] = "find"
            /\ draft' = [draft EXCEPT ![r] = "not indexed"]
         \/ /\ pc' = [pc EXCEPT ![r] = "callers"] /\ status = "indexed"
            /\ seen' = [seen EXCEPT ![r] = goal]
         \/ pc' = [pc EXCEPT ![r] = "post"] /\ pc[r] = "summary"
            /\ UNCHANGED <<seen, raced>>
         \/ /\ pc' = [pc EXCEPT ![r] = "ok"] /\ pc[r] \in {"summary", "post"}
            /\ UNCHANGED <<draft, seen, raced>>
         \/ \E l \in {"files", "refused", "find", "error"} :
              pc' = [pc EXCEPT ![r] = l]
  BY DEF HandlePRWebhook, Refuse, FetchPRFiles, HangUp,
         FindIndexedRepoByOwnerRepo, AnalyzeGate, Look, Queryable, StatementFails,
         FindFails, GenerateSummary, Conclude, Post, PostPRComment, PostFails, Goto
<1>6. TypeOK'
  <2>1. \E l \in PCs : pc' \in {pc, [pc EXCEPT ![r] = l]}
    BY <1>5 DEF PCs, Replies
  <2>2. \E c \in Comments : draft' \in {draft, [draft EXCEPT ![r] = c]}
    BY <1>5 DEF Comments
  <2>. QED BY <1>1, <1>2, <1>3, <1>4, <2>1, <2>2, StepTypes
<1>7. Reports'
  BY <1>1, <1>2 DEF Reports
<1>8. Apart(r)
  BY <1>1, <1>2, <1>3, <1>5 DEF Apart, TypeOK
<1>9. Answered(r)'
  <2>1. Fresh(r)'
    BY <1>1, <1>2, <1>3, <1>5 DEF TypeOK, Answered, Fresh, indexVars
  <2>2. Told(r)'
    <3>1. seen'[r] = seen[r] => Expected(r)' = Expected(r)
      BY <1>2 DEF Expected
    <3>. QED BY <1>1, <1>2, <1>3, <1>5, <3>1 DEF TypeOK, Answered, Told
  <2>3. pc'[r] = "idle" => report'[r] = {}
    BY <1>1, <1>2, <1>5 DEF TypeOK, Answered
  <2>. QED BY <2>1, <2>2, <2>3 DEF Answered
<1>. QED BY <1>6, <1>7, <1>8, <1>9, ApartIsEnough
\* POST /impact: nothing has been computed for this request yet.
LEMMA HandleImpactKeepsAInv ==
  ASSUME AInv, NEW r \in Requests, HandleImpact(r) PROVE AInv'
<1>1. /\ TypeOK /\ Reports /\ pc[r] = "idle" /\ report[r] = {}
      /\ UNCHANGED <<indexVars, hook, files, report, draft, comments, hung, failed,
                     seen, raced>>
      /\ pc' = [pc EXCEPT ![r] = "gate"]
  BY DEF AInv, Answered, HandleImpact, Goto
<1>2. PICK ns \in SUBSET Names, d \in Depths :
        names' = [names EXCEPT ![r] = ns] /\ depth' = [depth EXCEPT ![r] = d]
  BY DEF HandleImpact
<1>3. d \in 1..10
  OBVIOUS
<1>4. TypeOK'
  <2>1. pc' \in [Requests -> PCs]
    BY <1>1 DEF TypeOK, PCs
  <2>2. names' \in [Requests -> SUBSET Names]
    BY <1>1, <1>2 DEF TypeOK
  <2>3. depth' \in [Requests -> 1..10]
    BY <1>1, <1>2, <1>3 DEF TypeOK
  <2>4. \A q \in Requests : report'[q] \subseteq Functions \X (1..depth'[q])
    BY <1>1, <1>2 DEF TypeOK
  <2>. QED BY <1>1, <2>1, <2>2, <2>3, <2>4 DEF TypeOK, indexVars
<1>5. Reports' /\ Apart(r)
  BY <1>1, <1>2 DEF Reports, Apart, TypeOK
<1>6. Answered(r)'
  BY <1>1 DEF TypeOK, Answered, Fresh, Told
<1>. QED BY <1>4, <1>5, <1>6, ApartIsEnough

LEMMA GetFunctionsKeepsAInv ==
  ASSUME AInv, NEW r \in Requests, GetFunctionsByFilePaths(r) PROVE AInv'
<1> DEFINE found == {f.name : f \in {f \in functions : FilePath(f) \in files[r]}}
<1>1. /\ TypeOK /\ Reports /\ pc[r] = "functions"
      /\ names' = [names EXCEPT ![r] = found]
      /\ UNCHANGED <<indexVars, hook, files, depth, report, comments, hung, failed,
                     seen, raced>>
  BY DEF AInv, GetFunctionsByFilePaths
<1>2. \/ /\ found = {} /\ pc' = [pc EXCEPT ![r] = "post"]
         /\ draft' = [draft EXCEPT ![r] = "nothing to analyse"]
      \/ pc' = [pc EXCEPT ![r] = "gate"] /\ UNCHANGED draft
  BY DEF GetFunctionsByFilePaths, Post, Goto
<1>3. found \in SUBSET Names
  BY <1>1 DEF TypeOK, Names
<1> HIDE DEF found
<1>4. TypeOK'
  <2>1. pc' \in [Requests -> PCs]
    BY <1>1, <1>2 DEF TypeOK, PCs
  <2>2. names' \in [Requests -> SUBSET Names]
    BY <1>1, <1>3 DEF TypeOK
  <2>3. draft' \in [Requests -> Comments]
    BY <1>1, <1>2 DEF TypeOK, Comments
  <2>. QED BY <1>1, <2>1, <2>2, <2>3 DEF TypeOK, indexVars
<1>5. Reports' /\ Apart(r)
  BY <1>1, <1>2 DEF Reports, Apart, TypeOK
<1>6. Answered(r)'
  BY <1>1, <1>2 DEF TypeOK, Answered, Fresh, Told
<1>. QED BY <1>4, <1>5, <1>6, ApartIsEnough

\* The query runs on the index that was let through, unless a run has begun.
LEMMA GetCallersKeepsAInv ==
  ASSUME AInv, NEW r \in Requests, GetCallers(r) PROVE AInv'
<1> DEFINE changed == {f \in functions : f.name \in names[r]}
           callers == GetCallersByDepth(edges, changed, depth[r])
<1>1. /\ TypeOK /\ Reports /\ Filled /\ Fresh(r) /\ pc[r] = "callers"
      /\ report' = [report EXCEPT ![r] = callers]
      /\ UNCHANGED <<indexVars, hook, files, names, depth, comments, hung, failed,
                     seen, raced>>
  BY DEF AInv, Answered, GetCallers
<1>2. \/ /\ pc' = [pc EXCEPT ![r] = "post"]
         /\ draft' = [draft EXCEPT ![r] = "nothing to analyse"]
      \/ pc' \in {[pc EXCEPT ![r] = "ok"], [pc EXCEPT ![r] = "summary"]}
         /\ UNCHANGED draft
  BY DEF GetCallers, Conclude, Post, Goto
<1>3. depth[r] \in 1..10
  BY <1>1 DEF TypeOK
<1>4. callers \subseteq Functions \X (1..depth[r])
  <2>1. /\ functions \subseteq Functions /\ changed \in SUBSET functions
        /\ edges \in SUBSET (functions \X functions) /\ depth[r] \in Nat
    BY <1>1, <1>3 DEF TypeOK
  <2>2. callers \subseteq functions \X (1..depth[r])
    BY <2>1, CallersExact
  <2>. QED BY <2>1, <2>2
<1>5. ~raced[r] => callers = Expected(r)'
  <2>1. ~raced[r] => functions = Functions /\ edges = seen[r]
    BY <1>1 DEF Filled, Fresh
  <2>. QED BY <1>1, <2>1 DEF Expected
<1> HIDE DEF callers
<1>6. TypeOK'
  <2>1. pc' \in [Requests -> PCs]
    BY <1>1, <1>2 DEF TypeOK, PCs, Replies
  <2>2. draft' \in [Requests -> Comments]
    BY <1>1, <1>2 DEF TypeOK, Comments
  <2>3. \A q \in Requests : report'[q] \subseteq Functions \X (1..depth'[q])
    BY <1>1, <1>4 DEF TypeOK, Reports
  <2>. QED BY <1>1, <2>1, <2>2, <2>3 DEF TypeOK, indexVars
<1>7. Reports'
  <2>1. callers \in SUBSET (Functions \X (1..10))
    BY <1>3, <1>4
  <2>. QED BY <1>1, <2>1 DEF Reports
<1>8. Apart(r)
  BY <1>1, <1>2 DEF Reports, Apart, TypeOK
<1>9. Answered(r)'
  <2>1. report'[r] = callers /\ pc'[r] \notin {"idle", "callers"}
    BY <1>1, <1>2 DEF Reports, TypeOK
  <2>. QED BY <1>1, <1>5, <2>1 DEF Answered, Fresh, Told
<1>. QED BY <1>6, <1>7, <1>8, <1>9, ApartIsEnough

LEMMA NextAInv == ASSUME IInv, AInv, [Next]_vars PROVE AInv'
<1>1. CASE UNCHANGED vars
  BY <1>1 DEF AInv, TypeOK, Reports, Filled, Answered, Fresh, Told, Expected,
              vars, indexVars, requestVars
<1>2. ASSUME NEW r \in Requests,
             \/ HandleImpact(r) \/ HandlePRWebhook(r) \/ Refuse(r)
             \/ Answer(r) \/ GenerateSummary(r) \/ HangUp(r)
      PROVE  AInv'
  BY <1>2, PlainStep, HandleImpactKeepsAInv, GetFunctionsKeepsAInv,
     GetCallersKeepsAInv DEF Answer, SummaryCut
<1>. QED BY <1>1, <1>2, IndexKeepsAInv DEF Next

LEMMA ReportsInvariance == Spec => []AInv
BY InitIInv, NextIInv, InitAInv, NextAInv, PTL DEF Spec

\* Values stay in their ranges, edges never outlive the functions they join, and
\* a report names functions of the repository at depths that were asked for.
THEOREM TypeCorrect == Spec => []TypeOK
<1>1. AInv => TypeOK
  BY DEF AInv
<1>. QED BY <1>1, ReportsInvariance, PTL

LEMMA SeenTypes ==
  ASSUME AInv, NEW r \in Requests
  PROVE  seen[r] \in SUBSET (Functions \X Functions) /\ depth[r] \in Nat
<1>1. TypeOK
  BY DEF AInv
<1>2. depth[r] \in 1..10 /\ seen[r] \in Graphs \cup {{}}
  BY <1>1 DEF TypeOK
<1>. QED BY <1>2

LEMMA ExpectedIsExact == ASSUME AInv PROVE ReportExact
<1> SUFFICES ASSUME NEW r \in Requests, pc[r] \in {"summary", "post", "ok"},
                    names[r] # {}, draft[r] # "not indexed", ~raced[r],
                    NEW f \in Functions, NEW d \in 1..depth[r]
             PROVE  LET changed == {g \in Functions : g.name \in names[r]}
                        lengths(g) == ChainLengths(seen[r], changed, depth[r],
                                                   Functions, g)
                    IN  <<f, d>> \in report[r] <=>
                          d \in lengths(f) /\ \A n \in lengths(f) : n <= d
  BY DEF ReportExact
<1>1. report[r] = Expected(r)
  BY DEF AInv, Answered, Told
<1> DEFINE changed == {g \in Functions : g.name \in names[r]}
<1>2. seen[r] \in SUBSET (Functions \X Functions) /\ depth[r] \in Nat
  BY SeenTypes
<1>3. changed \in SUBSET Functions
  OBVIOUS
<1>4. report[r] = GetCallersByDepth(seen[r], changed, depth[r])
  BY <1>1 DEF Expected
<1> HIDE DEF changed
<1>5. LET lengths == ChainLengths(seen[r], changed, depth[r], Functions, f)
      IN  <<f, d>> \in report[r] <=> d \in lengths /\ \A n \in lengths : n <= d
  <2>1. \A g \in Functions, n \in 1..depth[r] :
          LET lengths == ChainLengths(seen[r], changed, depth[r], Functions, g)
          IN  <<g, n>> \in GetCallersByDepth(seen[r], changed, depth[r]) <=>
                n \in lengths /\ \A k \in lengths : k <= n
    BY <1>2, <1>3, CallersExact
  <2>. QED BY <1>4, <2>1
<1>. QED BY <1>5 DEF changed

\* Unless an index run began between the look at the status and the query, the
\* answer tells every function that a chain of calls of the asked length leads
\* from, and no other, at the length of its longest chain: in any call graph.
THEOREM ReportsExact == Spec => []ReportExact
BY ReportsInvariance, ExpectedIsExact, PTL
=============================================================================
