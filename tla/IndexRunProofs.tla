--------------------------- MODULE IndexRunProofs ---------------------------
(* For every number of files, names, jobs and edits and every source text:   *)
(* an edge always joins two stored functions; runs that follow each other    *)
(* never collide with each other's rows, leave nothing behind that a later   *)
(* run would not delete, and skip only files that are indexed as they are;   *)
(* full runs that overlap leave the complete index, and full runs that       *)
(* follow each other drop no call.  Each invariant says what a run has       *)
(* established by the time it is at a given statement.                       *)
EXTENDS IndexRun, FiniteSetTheorems, TLAPS

USE IndexRunAssumption

-----------------------------------------------------------------------------
(* Types.                                                                    *)

LEMMA DefinedNames ==
  ASSUME NEW text \in Texts PROVE Defined(text) \subseteq FuncNames
<1> SUFFICES ASSUME NEW i \in DOMAIN text.defs
             PROVE  FuncName(text.defs[i]) \in FuncNames
  BY DEF Defined
<1>1. text.defs \in Seq(Definition)
  BY DEF Texts
<1>2. text.defs[i] \in Definition
  BY <1>1
<1>. QED BY <1>2 DEF FuncName, FuncNames, Definition

LEMMA RecordsAreRows ==
  ASSUME TypeOK, NEW j \in Jobs PROVE Records(j) \subseteq Rows
<1> SUFFICES ASSUME NEW f \in Parsed(j), NEW n \in Defined(Text(j, f))
             PROVE  [job |-> j, file |-> f, name |-> n, ver |-> parsed[j][f]]
                      \in Rows
  BY DEF Records
<1>1. f \in Files /\ parsed[j][f] \in Times /\ parsed[j][f] # 0
  BY DEF Parsed, Present, TypeOK, Trees
<1>2. parsed[j][f] \in 1..MaxWrites
  BY <1>1 DEF Times
<1>3. Text(j, f) \in Texts
  BY <1>1, <1>2 DEF Text
<1>4. n \in FuncNames
  BY <1>3, DefinedNames
<1>. QED BY <1>1, <1>4 DEF Rows

LEMMA RawEdgesArePairs ==
  ASSUME NEW j \in Jobs, NEW c \in RawEdges(j)
  PROVE  c = <<c[1], c[2]>> /\ c[1] \in Records(j) /\ c[2] \in Names
<1>1. PICK r \in Records(j) : c \in {<<r, n>> : n \in CalledBy(r)}
  BY DEF RawEdges
<1>2. PICK n \in CalledBy(r) : c = <<r, n>>
  BY <1>1
<1>3. n \in Names
  BY DEF CalledBy
<1>. QED BY <1>2, <1>3

LEMMA InitTypeOK == Init => TypeOK
<1> SUFFICES ASSUME Init PROVE TypeOK
  OBVIOUS
<1>1. Empty \in Trees /\ fs \in Trees /\ clock \in 1..MaxWrites
  BY DEF Init, Trees, Times, Empty
<1>2. /\ base \in [Jobs -> Trees] /\ found \in [Jobs -> Trees]
      /\ parsed \in [Jobs -> Trees] /\ indexed \in Trees
  BY <1>1 DEF Init
<1>3. pc \in [Jobs -> PCs]
  BY DEF Init, PCs
<1>. QED BY <1>1, <1>2, <1>3 DEF Init, TypeOK

\* A run that returns, with its status or without, leaves the index alone.
LEMMA EndRunTypes ==
  ASSUME TypeOK, NEW j \in Jobs, EndRun(j), UNCHANGED <<tree, index, latest, kind>>,
         \/ UNCHANGED status
         \/ \E s \in {"completed", "partial", "failed"} :
              status' = [status EXCEPT ![j] = s]
  PROVE  TypeOK'
<1>1. Empty \in Trees
  BY DEF Trees, Times, Empty
<1>2. /\ base' \in [Jobs -> Trees] /\ found' \in [Jobs -> Trees]
      /\ parsed' \in [Jobs -> Trees]
  BY <1>1 DEF TypeOK, EndRun
<1>3. /\ todo' \in [Jobs -> SUBSET Files] /\ errored' \in [Jobs -> SUBSET Files]
      /\ fmap' \in [Jobs -> SUBSET Rows]
  BY DEF TypeOK, EndRun
<1>4. pc' \in [Jobs -> PCs]
  BY DEF TypeOK, EndRun, Goto, PCs
<1>5. status' \in [Jobs -> {"none", "pending", "running", "completed",
                          "partial", "failed"}]
  BY DEF TypeOK
<1>. QED BY <1>2, <1>3, <1>4, <1>5 DEF TypeOK, tree, index

LEMMA FailTaskTypes ==
  ASSUME TypeOK, NEW j \in Jobs, FailTask(j) PROVE TypeOK'
BY EndRunTypes DEF FailTask

LEMMA DeleteRowsTypes ==
  ASSUME TypeOK, NEW gone \in SUBSET Rows, DeleteRows(gone)
  PROVE  /\ functions' \subseteq Rows
         /\ edges' \subseteq functions' \X functions'
         /\ unresolved' \subseteq functions' \X Names
         /\ indexed' \in Trees /\ hnsw' \in BOOLEAN
<1>1. \A e \in edges : e[1] \in functions /\ e[2] \in functions
                       /\ e = <<e[1], e[2]>>
  BY DEF TypeOK
<1>2. \A u \in unresolved : u[1] \in functions /\ u[2] \in Names
                            /\ u = <<u[1], u[2]>>
  BY DEF TypeOK
<1>. QED BY <1>1, <1>2 DEF TypeOK, DeleteRows

LEMMA StepTypes == ASSUME TypeOK, [Next]_vars PROVE TypeOK'
<1>1. ASSUME NEW f \in Files, Write(f) \/ Remove(f) PROVE TypeOK'
  <2>1. clock \in 1..MaxWrites /\ clock < MaxWrites /\ clock' = clock + 1
    BY <1>1 DEF TypeOK, Write, Remove
  <2>2. clock' \in 1..MaxWrites /\ clock' \in Times /\ 0 \in Times
    BY <2>1 DEF Times
  <2>3. fs' = [fs EXCEPT ![f] = clock'] \/ fs' = [fs EXCEPT ![f] = 0]
    BY <1>1 DEF Write, Remove
  <2>4. fs' \in Trees
    BY <2>2, <2>3 DEF TypeOK, Trees
  <2>5. UNCHANGED <<index, tasks, pc, locals>>
    BY <1>1 DEF Write, Remove
  <2>. QED BY <2>2, <2>4, <2>5 DEF TypeOK, index, tasks, locals
<1>2. ASSUME NEW j \in Jobs,
             Admit(j) \/ \E k \in Kinds : ChooseType(j, k)
      PROVE  TypeOK'
  <2>1. CASE Admit(j)
    BY <2>1 DEF TypeOK, Admit, Goto, tree, index, locals, PCs, Live
  <2>2. CASE \E k \in Kinds : ChooseType(j, k)
    BY <2>2 DEF TypeOK, ChooseType, Goto, tree, index, locals, PCs, Live
  <2>. QED BY <1>2, <2>1, <2>2
<1>3. ASSUME NEW j \in Jobs,
             UpdateTaskStarted(j) \/ GetRepo(j) \/ DropHNSWIndex(j)
             \/ CollectSourceFiles(j) \/ GetFunctionMap(j)
             \/ RecreateHNSWIndex(j) \/ UpdateRepoIndexedFiles(j)
      PROVE  TypeOK'
  <2>1. CASE UpdateTaskStarted(j)
    BY <2>1 DEF TypeOK, UpdateTaskStarted, Goto, tree, index, locals, PCs, Live
  <2>2. CASE GetRepo(j)
    <3>1. base' \in [Jobs -> Trees]
      BY <2>2 DEF TypeOK, GetRepo
    <3>2. pc' \in [Jobs -> PCs]
      BY <2>2 DEF TypeOK, GetRepo, Goto, PCs, Live
    <3>. QED BY <2>2, <3>1, <3>2 DEF TypeOK, GetRepo, tree, index, tasks
  <2>3. CASE DropHNSWIndex(j)
    BY <2>3 DEF TypeOK, DropHNSWIndex, Goto, tree, tasks, locals, PCs, Live
  <2>4. CASE CollectSourceFiles(j)
    <3>1. found' \in [Jobs -> Trees]
      BY <2>4 DEF TypeOK, CollectSourceFiles
    <3>2. pc' \in [Jobs -> PCs]
      BY <2>4 DEF TypeOK, CollectSourceFiles, Goto, PCs, Live
    <3>3. todo' \in [Jobs -> SUBSET Files]
      BY <2>4 DEF TypeOK, CollectSourceFiles, Present
    <3>. QED BY <2>4, <3>1, <3>2, <3>3 DEF TypeOK, CollectSourceFiles, tree,
                                           index, tasks
  <2>5. CASE GetFunctionMap(j)
    BY <2>5 DEF TypeOK, GetFunctionMap, Goto, tree, index, tasks, PCs, Live
  <2>6. CASE RecreateHNSWIndex(j)
    BY <2>6 DEF TypeOK, RecreateHNSWIndex, Goto, tree, tasks, locals, PCs, Live
  <2>7. CASE UpdateRepoIndexedFiles(j)
    <3>1. hollow' \in BOOLEAN
      BY <2>7, Zenon DEF UpdateRepoIndexedFiles
    <3>. QED BY <2>7, <3>1 DEF TypeOK, UpdateRepoIndexedFiles, Goto, tree, tasks,
                               locals, PCs, Live
  <2>. QED BY <1>3, <2>1, <2>2, <2>3, <2>4, <2>5, <2>6, <2>7
<1>4. ASSUME NEW j \in Jobs, DeleteFunctionsByRepo(j) PROVE TypeOK'
  <2>1. DeleteRows(functions) /\ functions \in SUBSET Rows
    BY <1>4 DEF DeleteFunctionsByRepo, TypeOK
  <2>2. /\ functions' \subseteq Rows /\ edges' \subseteq functions' \X functions'
        /\ unresolved' \subseteq functions' \X Names
        /\ indexed' \in Trees /\ hnsw' \in BOOLEAN
    BY <2>1, DeleteRowsTypes
  <2>3. hollow' \in BOOLEAN
    BY <1>4, Zenon DEF DeleteFunctionsByRepo
  <2>. QED BY <1>4, <2>2, <2>3 DEF TypeOK, DeleteFunctionsByRepo, Goto, tree,
                                   tasks, locals, PCs, Live
<1>5. ASSUME NEW j \in Jobs, DeleteFunctionsByFiles(j) PROVE TypeOK'
  <2> DEFINE gone == {r \in functions : r.file \in Changed(j) \cup Deleted(j)}
  <2>1. DeleteRows(gone) /\ gone \in SUBSET Rows
    BY <1>5 DEF DeleteFunctionsByFiles, TypeOK
  <2>2. /\ functions' \subseteq Rows /\ edges' \subseteq functions' \X functions'
        /\ unresolved' \subseteq functions' \X Names
        /\ indexed' \in Trees /\ hnsw' \in BOOLEAN
    BY <2>1, DeleteRowsTypes
  <2>3. Changed(j) \subseteq Files
    BY DEF Changed, Present
  <2>. QED BY <1>5, <2>2, <2>3 DEF TypeOK, DeleteFunctionsByFiles, Goto, tree,
                                   tasks, PCs, Live
<1>6. ASSUME NEW j \in Jobs, NEW f \in Files, ParseFile(j, f) PROVE TypeOK'
  <2>1. parsed' \in [Jobs -> Trees]
    <3>1. fs[f] \in Times /\ parsed \in [Jobs -> [Files -> Times]]
      BY DEF TypeOK, Trees
    <3>2. \/ UNCHANGED parsed
          \/ parsed' = [parsed EXCEPT ![j][f] = fs[f]]
      BY <1>6 DEF ParseFile
    <3>3. [parsed[j] EXCEPT ![f] = fs[f]] \in [Files -> Times]
      BY <3>1
    <3>. QED BY <3>1, <3>2, <3>3 DEF Trees
  <2>2. todo' \in [Jobs -> SUBSET Files]
    BY <1>6 DEF TypeOK, ParseFile
  <2>3. errored' \in [Jobs -> SUBSET Files]
    <3>1. \/ UNCHANGED errored
          \/ errored' = [errored EXCEPT ![j] = @ \cup {f}]
      BY <1>6 DEF ParseFile
    <3>. QED BY <3>1 DEF TypeOK
  <2>. QED BY <1>6, <2>1, <2>2, <2>3 DEF TypeOK, ParseFile, tree, index, tasks
<1>7. ASSUME NEW j \in Jobs, BulkInsertFunctions(j) PROVE TypeOK'
  <2>1. CASE FailTask(j)
    BY <2>1, FailTaskTypes
  <2>2. CASE ~FailTask(j)
    <3>1. /\ functions' = functions \cup Records(j) /\ Goto(j, "map")
          /\ UNCHANGED <<tree, edges, unresolved, indexed, hnsw, hollow, tasks,
                         locals>>
      BY <1>7, <2>2 DEF BulkInsertFunctions
    <3>2. functions' \subseteq Rows
      BY <3>1, RecordsAreRows DEF TypeOK
    <3>. QED BY <3>1, <3>2 DEF TypeOK, Goto, tree, tasks, locals, PCs, Live
  <2>. QED BY <2>1, <2>2
<1>8. ASSUME NEW j \in Jobs, BulkInsertCallEdges(j) PROVE TypeOK'
  <2>1. CASE FailTask(j)
    BY <2>1, FailTaskTypes
  <2>2. CASE ~FailTask(j)
    <3>1. PICK first \in [{n \in Names : Callees(j, n) # {}} -> fmap[j]] :
            LET new == {<<c[1], first[c[2]]>> :
                          c \in {c \in RawEdges(j) : c[2] \in DOMAIN first}}
            IN  /\ \A e \in new : e[1] \in functions /\ e[2] \in functions
                /\ edges' = edges \cup new /\ Goto(j, "unresolved")
                /\ UNCHANGED <<tree, functions, unresolved, indexed, hnsw,
                               hollow, tasks, locals>>
      BY <1>8, <2>2 DEF BulkInsertCallEdges
    <3>2. edges' \subseteq functions \X functions
      BY <3>1 DEF TypeOK
    <3>. QED BY <3>1, <3>2 DEF TypeOK, Goto, tree, tasks, locals, PCs, Live
  <2>. QED BY <2>1, <2>2
<1>9. ASSUME NEW j \in Jobs, BulkInsertUnresolvedEdges(j) PROVE TypeOK'
  <2>1. CASE FailTask(j)
    BY <2>1, FailTaskTypes
  <2>2. CASE ~FailTask(j)
    <3> DEFINE new == {c \in RawEdges(j) : Cardinality(Callees(j, c[2])) # 1}
    <3>1. /\ \A u \in new : u[1] \in functions
          /\ unresolved' = unresolved \cup new
          /\ Goto(j, IF kind[j] = "full" THEN "recreate" ELSE "snapshot")
          /\ UNCHANGED <<tree, functions, edges, indexed, hnsw, hollow, tasks,
                         locals>>
      BY <1>9, <2>2 DEF BulkInsertUnresolvedEdges
    <3>2. \A c \in RawEdges(j) : c = <<c[1], c[2]>> /\ c[2] \in Names
      BY RawEdgesArePairs
    <3>3. unresolved' \subseteq functions \X Names
      BY <3>1, <3>2 DEF TypeOK
    <3>. QED BY <3>1, <3>3 DEF TypeOK, Goto, tree, tasks, locals, PCs, Live
  <2>. QED BY <2>1, <2>2
<1>10. ASSUME NEW j \in Jobs, UpdateTaskStatus(j) PROVE TypeOK'
  BY <1>10, EndRunTypes DEF UpdateTaskStatus
<1>11. ASSUME NEW j \in Jobs, StatementFails(j) \/ Crash(j) PROVE TypeOK'
  BY <1>11, FailTaskTypes, EndRunTypes DEF StatementFails, Crash, tasks
<1>12. CASE UNCHANGED vars
  BY <1>12 DEF TypeOK, vars, tree, index, tasks, locals, Rows
<1>. QED BY <1>1, <1>2, <1>3, <1>4, <1>5, <1>6, <1>7, <1>8, <1>9, <1>10, <1>11,
            <1>12 DEF Next, RunStep

\* Whatever fails, dies or overlaps, an edge joins two stored functions, and
\* an unresolved call belongs to one.
THEOREM TypeCorrect == Spec => []TypeOK
BY InitTypeOK, StepTypes, PTL DEF Spec

-----------------------------------------------------------------------------
(* Runs that follow each other.                                              *)

\* Nobody else is at work while a run is; a run that has not begun to parse
\* has parsed nothing; when it parses, what it may insert is gone from the
\* table: everything in a full run, the changed files in any run; and the
\* snapshot an incremental run compares with is the one it will replace.
Alone == \A j, k \in Jobs : pc[j] \in Live /\ pc[k] \in Live => j = k

Early == {"idle", "chosen", "start", "read", "drop", "delete", "collect"}
Unparsed(j) == pc[j] \in Early => parsed[j] = Empty

ClearedFull(j) ==
  pc[j] \in {"collect", "parse"} /\ kind[j] = "full" => functions = {}
ClearedChanged(j) ==
  pc[j] = "parse" =>
    /\ \A r \in functions : r.file \notin Changed(j)
    /\ todo[j] \subseteq Changed(j)
    /\ Parsed(j) \subseteq Changed(j)
Cleared(j) == Unparsed(j) /\ ClearedFull(j) /\ ClearedChanged(j)

Based == Live \ {"start", "read", "finish"}
NoBase(j) ==
  pc[j] \in {"idle", "chosen", "drop"} \/ kind[j] = "full" => base[j] = Empty
BaseKept(j) == pc[j] \in Based /\ kind[j] = "incremental" => base[j] = indexed

InTurn == Alone /\ \A j \in Jobs : Cleared(j) /\ NoBase(j) /\ BaseKept(j)
IInv == TypeOK /\ (~Overlap => InTurn)

LEMMA InitIInv == Init => IInv
BY InitTypeOK DEF Init, IInv, InTurn, Alone, Cleared, Unparsed, ClearedFull,
                  ClearedChanged, NoBase, BaseKept, Based, Live

\* A step of one run changes neither the place nor the locals of another, and
\* it is the step of a live one.
LEMMA OthersStay ==
  ASSUME TypeOK, NEW j \in Jobs,
         RunStep(j) \/ StatementFails(j) \/ Crash(j)
  PROVE  /\ pc[j] \in Live /\ UNCHANGED <<fs, clock, latest, kind>>
         /\ \A k \in Jobs \ {j} :
              /\ pc'[k] = pc[k] /\ status'[k] = status[k]
              /\ base'[k] = base[k] /\ found'[k] = found[k]
              /\ todo'[k] = todo[k] /\ parsed'[k] = parsed[k]
              /\ errored'[k] = errored[k] /\ fmap'[k] = fmap[k]
<1> DEFINE Others == \A k \in Jobs \ {j} :
              /\ pc'[k] = pc[k] /\ status'[k] = status[k]
              /\ base'[k] = base[k] /\ found'[k] = found[k]
              /\ todo'[k] = todo[k] /\ parsed'[k] = parsed[k]
              /\ errored'[k] = errored[k] /\ fmap'[k] = fmap[k]
           Goal == pc[j] \in Live /\ UNCHANGED <<fs, clock, latest, kind>> /\ Others
<1> USE DEF Goto, Live, tree, tasks, locals
<1>t. /\ status \in [Jobs -> {"none", "pending", "running", "completed",
                              "partial", "failed"}]
      /\ pc \in [Jobs -> PCs]
      /\ base \in [Jobs -> Trees] /\ found \in [Jobs -> Trees]
      /\ todo \in [Jobs -> SUBSET Files] /\ errored \in [Jobs -> SUBSET Files]
      /\ parsed \in [Jobs -> Trees] /\ fmap \in [Jobs -> SUBSET Rows]
  BY DEF TypeOK
<1>1. CASE UpdateTaskStarted(j)
  BY <1>t, <1>1 DEF UpdateTaskStarted
<1>2. CASE GetRepo(j)
  BY <1>t, <1>2 DEF GetRepo
<1>3. CASE DropHNSWIndex(j) \/ RecreateHNSWIndex(j) \/ UpdateRepoIndexedFiles(j)
  BY <1>t, <1>3 DEF DropHNSWIndex, RecreateHNSWIndex, UpdateRepoIndexedFiles
<1>4. CASE DeleteFunctionsByRepo(j)
  BY <1>t, <1>4 DEF DeleteFunctionsByRepo
<1>5. CASE CollectSourceFiles(j)
  BY <1>t, <1>5 DEF CollectSourceFiles
<1>6. CASE DeleteFunctionsByFiles(j)
  BY <1>t, <1>6 DEF DeleteFunctionsByFiles
<1>7. CASE GetFunctionMap(j)
  BY <1>t, <1>7 DEF GetFunctionMap
<1>8. ASSUME NEW f \in Files, ParseFile(j, f) PROVE Goal
  BY <1>t, <1>8 DEF ParseFile
<1>9. ASSUME pc[j] \in Live, EndRun(j), UNCHANGED <<fs, clock, latest, kind>>,
             \/ UNCHANGED status
             \/ \E s \in {"completed", "partial", "failed"} :
                  status' = [status EXCEPT ![j] = s]
      PROVE  Goal
  <2>1. \A k \in Jobs \ {j} : status'[k] = status[k]
    BY <1>t, <1>9
  <2>. QED BY <1>t, <1>9, <2>1 DEF EndRun
<1>10. ASSUME pc[j] \in Live, FailTask(j) PROVE Goal
  BY <1>9, <1>10 DEF FailTask
<1>11. CASE BulkInsertFunctions(j)
  BY <1>t, <1>10, <1>11 DEF BulkInsertFunctions
<1>12. CASE BulkInsertCallEdges(j)
  <2>1. \/ FailTask(j)
        \/ Goto(j, "unresolved") /\ UNCHANGED <<tree, tasks, locals>>
    BY <1>12 DEF BulkInsertCallEdges
  <2>2. pc[j] \in Live
    BY <1>12 DEF BulkInsertCallEdges
  <2>. QED BY <1>t, <1>10, <2>1, <2>2
<1>13. CASE BulkInsertUnresolvedEdges(j)
  <2>1. \/ FailTask(j)
        \/ \E l \in PCs : Goto(j, l) /\ UNCHANGED <<tree, tasks, locals>>
    BY <1>13 DEF BulkInsertUnresolvedEdges, PCs
  <2>2. pc[j] \in Live
    BY <1>13 DEF BulkInsertUnresolvedEdges
  <2>. QED BY <1>t, <1>10, <2>1, <2>2
<1>14. CASE UpdateTaskStatus(j)
  BY <1>9, <1>14 DEF UpdateTaskStatus
<1>15. CASE StatementFails(j) \/ Crash(j)
  BY <1>9, <1>10, <1>15 DEF StatementFails, Crash
<1>. QED BY <1>1, <1>2, <1>3, <1>4, <1>5, <1>6, <1>7, <1>8, <1>11, <1>12, <1>13,
            <1>14, <1>15 DEF RunStep

\* A step of a run that no step of the two DELETEs, of the collection, of the
\* parsing, of the insert of functions or of the snapshot is: it moves the run
\* on, or ends it, and leaves functions, the snapshot and the base alone.
MovesOn(j) ==
  /\ UNCHANGED <<fs, clock, functions, indexed, hollow, latest, kind, base, found,
                 todo, parsed, errored>>
  /\ UNCHANGED status \/ status' = [status EXCEPT ![j] = "running"]
  /\ \/ pc[j] = "start" /\ Goto(j, "read")
     \/ pc[j] = "drop" /\ Goto(j, "delete")
     \/ pc[j] = "map" /\ Goto(j, "edges")
     \/ pc[j] = "edges" /\ Goto(j, "unresolved")
     \/ pc[j] = "unresolved" /\ kind[j] = "full" /\ Goto(j, "recreate")
     \/ pc[j] = "unresolved" /\ kind[j] # "full" /\ Goto(j, "snapshot")
     \/ pc[j] = "recreate" /\ Goto(j, "snapshot")
Ends(j) ==
  /\ UNCHANGED <<fs, clock, index, latest, kind>>
  /\ EndRun(j)
  /\ \/ UNCHANGED status
     \/ status' = [status EXCEPT ![j] = "failed"]
     \/ UpdateTaskStatus(j)

LEMMA StepOfRun ==
  ASSUME NEW j \in Jobs, RunStep(j) \/ StatementFails(j) \/ Crash(j)
  PROVE  \/ MovesOn(j) \/ Ends(j) \/ GetRepo(j) \/ DeleteFunctionsByRepo(j)
         \/ CollectSourceFiles(j) \/ DeleteFunctionsByFiles(j)
         \/ \E f \in Files : ParseFile(j, f)
         \/ (BulkInsertFunctions(j) /\ ~FailTask(j))
         \/ UpdateRepoIndexedFiles(j)
<1>1. FailTask(j) => Ends(j)
  BY DEF FailTask, Ends, tree
<1>2. UpdateTaskStarted(j) \/ DropHNSWIndex(j) \/ GetFunctionMap(j)
      \/ RecreateHNSWIndex(j) => MovesOn(j)
  BY DEF UpdateTaskStarted, DropHNSWIndex, GetFunctionMap, RecreateHNSWIndex,
         MovesOn, tree, index, tasks, locals
<1>3. BulkInsertCallEdges(j) => FailTask(j) \/ MovesOn(j)
  BY DEF BulkInsertCallEdges, MovesOn, tree, tasks, locals
<1>4. BulkInsertUnresolvedEdges(j) => FailTask(j) \/ MovesOn(j)
  BY DEF BulkInsertUnresolvedEdges, MovesOn, tree, tasks, locals
<1>5. UpdateTaskStatus(j) \/ StatementFails(j) \/ Crash(j) => Ends(j)
  BY <1>1 DEF UpdateTaskStatus, StatementFails, Crash, Ends, tree, tasks
<1>. QED BY <1>1, <1>2, <1>3, <1>4, <1>5 DEF RunStep

LEMMA OwnStepClears ==
  ASSUME TypeOK, NEW j \in Jobs, Cleared(j), NoBase(j), BaseKept(j),
         RunStep(j) \/ StatementFails(j) \/ Crash(j)
  PROVE  Cleared(j)' /\ NoBase(j)' /\ BaseKept(j)'
<1> DEFINE Goal == Cleared(j)' /\ NoBase(j)' /\ BaseKept(j)'
<1>t. /\ pc \in [Jobs -> PCs] /\ kind \in [Jobs -> {"full", "incremental"}]
      /\ base \in [Jobs -> Trees] /\ found \in [Jobs -> Trees]
      /\ todo \in [Jobs -> SUBSET Files] /\ parsed \in [Jobs -> Trees]
  BY DEF TypeOK
<1> USE DEF Cleared, NoBase, BaseKept, Based, Live
<1>1. CASE MovesOn(j)
  <2>1. base' = base /\ kind' = kind /\ indexed' = indexed /\ parsed' = parsed
    BY <1>1 DEF MovesOn
  <2>2. \/ pc[j] = "start" /\ pc'[j] = "read"
        \/ pc[j] = "drop" /\ pc'[j] = "delete"
        \/ pc[j] \in Based /\ pc'[j] \in {"edges", "unresolved", "recreate", "snapshot"}
    BY <1>t, <1>1 DEF MovesOn, Goto
  <2>3. pc'[j] \notin {"idle", "chosen"}
    BY <2>2
  <2>4. NoBase(j)' /\ BaseKept(j)'
    BY <2>1, <2>2, <2>3
  <2>5. Unparsed(j)'
    BY <2>1, <2>2 DEF Unparsed, Early, Empty
  <2>6. ClearedFull(j)' /\ ClearedChanged(j)'
    BY <2>2 DEF ClearedFull, ClearedChanged
  <2>. QED BY <2>4, <2>5, <2>6
<1>2. CASE Ends(j)
  <2>1. pc'[j] = "ended" /\ base'[j] = Empty /\ kind' = kind
    BY <1>t, <1>2 DEF Ends, EndRun, Goto
  <2>. QED BY <2>1 DEF Unparsed, Early, ClearedFull, ClearedChanged, Empty
<1>3. CASE GetRepo(j)
  <2>1. /\ parsed' = parsed /\ kind' = kind /\ indexed' = indexed
        /\ functions' = functions /\ pc[j] = "read"
    BY <1>3 DEF GetRepo, tasks, index
  <2>2. \/ kind[j] = "full" /\ pc'[j] = "drop" /\ base' = base
        \/ kind[j] # "full" /\ pc'[j] = "collect" /\ base'[j] = indexed
    BY <1>t, <1>3 DEF GetRepo, Goto
  <2>. QED BY <2>1, <2>2, <1>t DEF Unparsed, Early, ClearedFull, ClearedChanged,
                                   Empty
<1>4. CASE DeleteFunctionsByRepo(j)
  <2>1. /\ UNCHANGED <<parsed, kind, indexed, base>> /\ functions' = {}
        /\ pc[j] = "delete" /\ kind[j] = "full" /\ pc'[j] = "collect"
    BY <1>t, <1>4 DEF DeleteFunctionsByRepo, DeleteRows, tasks, locals, Goto
  <2>. QED BY <2>1 DEF Unparsed, Early, ClearedFull, ClearedChanged, Empty
<1>5. CASE CollectSourceFiles(j)
  <2>1. /\ UNCHANGED <<parsed, kind, indexed, base, functions>>
        /\ pc[j] = "collect" /\ found'[j] = fs
    BY <1>t, <1>5 DEF CollectSourceFiles, tasks, index
  <2>2. parsed'[j] = Empty
    BY <2>1 DEF Unparsed, Early
  <2>3. CASE kind[j] = "full"
    <3>1. pc'[j] = "parse" /\ todo'[j] = Present(fs)
      BY <1>t, <1>5, <2>3 DEF CollectSourceFiles, Goto
    <3>2. base'[j] = Empty /\ functions' = {}
      BY <2>1, <2>3 DEF ClearedFull, Empty
    <3>3. Parsed(j)' = {}
      BY <2>2 DEF Parsed, Present, Empty
    <3>4. Changed(j)' = Present(fs)
      BY <3>2, <2>1 DEF Changed, Present, Empty
    <3>5. ClearedChanged(j)'
      BY <3>1, <3>2, <3>3, <3>4 DEF ClearedChanged
    <3>. QED BY <2>1, <2>2, <2>3, <3>1, <3>2, <3>5
             DEF Unparsed, Early, ClearedFull, Empty
  <2>4. CASE kind[j] # "full"
    <3>1. pc'[j] = "delete"
      BY <1>t, <1>5, <2>4 DEF CollectSourceFiles, Goto
    <3>. QED BY <2>1, <2>2, <2>4, <3>1, <1>t
             DEF Unparsed, Early, ClearedFull, ClearedChanged, Empty
  <2>. QED BY <2>3, <2>4
<1>6. CASE DeleteFunctionsByFiles(j)
  <2>1. /\ pc'[j] = "parse" /\ kind'[j] = "incremental" /\ kind' = kind
        /\ todo'[j] = Changed(j) /\ parsed' = parsed /\ pc[j] = "delete"
        /\ UNCHANGED <<base, found, indexed>>
        /\ \A r \in functions' : r.file \notin Changed(j)
    BY <1>6, <1>t DEF DeleteFunctionsByFiles, DeleteRows, Goto, tasks
  <2>2. Changed(j)' = Changed(j)
    BY <2>1 DEF Changed, Present
  <2>3. parsed'[j] = Empty
    BY <2>1 DEF Unparsed, Early
  <2>4. Parsed(j)' = {}
    BY <2>3 DEF Parsed, Present, Empty
  <2>5. Cleared(j)'
    BY <2>1, <2>2, <2>4 DEF Unparsed, Early, ClearedFull, ClearedChanged
  <2>. QED BY <2>1, <2>5
<1>7. ASSUME NEW f \in Files, ParseFile(j, f) PROVE Goal
  <2>1. /\ pc[j] = "parse" /\ pc' = pc /\ f \in todo[j]
        /\ todo'[j] = todo[j] \ {f}
        /\ UNCHANGED <<functions, kind, base, found, indexed>>
    BY <1>7, <1>t DEF ParseFile, index, tasks
  <2>2. Changed(j)' = Changed(j)
    BY <2>1 DEF Changed, Present
  <2>3. Parsed(j)' \subseteq Parsed(j) \cup {f}
    BY <1>7, <1>t DEF ParseFile, Parsed, Present, Trees
  <2>4. Cleared(j)'
    BY <2>1, <2>2, <2>3 DEF Unparsed, Early, ClearedFull, ClearedChanged
  <2>. QED BY <2>1, <2>4
<1>8. CASE BulkInsertFunctions(j) /\ ~FailTask(j)
  <2>1. /\ pc'[j] = "map" /\ pc[j] = "parse"
        /\ UNCHANGED <<kind, base, indexed>>
    BY <1>8, <1>t DEF BulkInsertFunctions, Goto, tasks, locals
  <2>. QED BY <2>1 DEF Unparsed, Early, ClearedFull, ClearedChanged
<1>9. CASE UpdateRepoIndexedFiles(j)
  <2>1. pc'[j] = "finish" /\ pc[j] = "snapshot" /\ UNCHANGED <<kind, base>>
    BY <1>9, <1>t DEF UpdateRepoIndexedFiles, Goto, tasks, locals
  <2>. QED BY <2>1 DEF Unparsed, Early, ClearedFull, ClearedChanged, Empty
<1>. QED BY <1>1, <1>2, <1>3, <1>4, <1>5, <1>6, <1>7, <1>8, <1>9, StepOfRun

\* As nobody else is live, what the step changes for the others is not theirs.
LEMMA RunStaysInTurn ==
  ASSUME TypeOK, InTurn, NEW j \in Jobs,
         RunStep(j) \/ StatementFails(j) \/ Crash(j)
  PROVE  InTurn'
<1>1. /\ pc[j] \in Live /\ kind' = kind
      /\ \A k \in Jobs \ {j} : /\ pc'[k] = pc[k] /\ parsed'[k] = parsed[k]
                               /\ base'[k] = base[k]
  BY OthersStay
<1>2. \A k \in Jobs \ {j} : pc'[k] \notin Live
  BY <1>1 DEF InTurn, Alone
<1>3. Alone'
  BY <1>2 DEF Alone
<1>4. Cleared(j)' /\ NoBase(j)' /\ BaseKept(j)'
  BY OwnStepClears DEF InTurn
<1>5. ASSUME NEW k \in Jobs \ {j}
      PROVE  Cleared(k)' /\ NoBase(k)' /\ BaseKept(k)'
  <2>1. Cleared(k)'
    BY <1>1, <1>2 DEF InTurn, Cleared, Unparsed, ClearedFull, ClearedChanged, Live,
                      Empty
  <2>2. NoBase(k)'
    BY <1>1 DEF InTurn, NoBase, Empty
  <2>3. BaseKept(k)'
    BY <1>2 DEF BaseKept, Based
  <2>. QED BY <2>1, <2>2, <2>3
<1>. QED BY <1>3, <1>4, <1>5 DEF InTurn

LEMMA AdmitStaysInTurn ==
  ASSUME TypeOK, InTurn, ~Overlap, NEW j \in Jobs, Admit(j)
  PROVE  InTurn'
<1>1. /\ pc[j] = "chosen" /\ pc' = [pc EXCEPT ![j] = "start"]
      /\ UNCHANGED <<parsed, base, kind>> /\ \A i \in Jobs : pc[i] \notin Live
  BY DEF Admit, Busy, Goto, locals
<1>2. \A i \in Jobs : IF i = j THEN pc'[i] = "start" ELSE pc'[i] = pc[i]
  BY <1>1 DEF TypeOK
<1>3. Alone'
  BY <1>1, <1>2 DEF Alone
<1>4. ASSUME NEW i \in Jobs
      PROVE  Cleared(i)' /\ NoBase(i)' /\ BaseKept(i)'
  <2>1. Cleared(i)'
    BY <1>1, <1>2 DEF InTurn, Cleared, Unparsed, Early, ClearedFull,
                      ClearedChanged, Live, Empty
  <2>2. NoBase(i)'
    BY <1>1, <1>2 DEF InTurn, NoBase, Empty
  <2>3. BaseKept(i)'
    BY <1>1, <1>2 DEF BaseKept, Based, Live
  <2>. QED BY <2>1, <2>2, <2>3
<1>. QED BY <1>3, <1>4 DEF InTurn

\* The type of a task is settled before it has done anything.
LEMMA ChoiceStaysInTurn ==
  ASSUME TypeOK, InTurn, NEW j \in Jobs, NEW k \in Kinds, ChooseType(j, k)
  PROVE  InTurn'
<1>1. /\ pc[j] = "idle" /\ pc' = [pc EXCEPT ![j] = "chosen"]
      /\ UNCHANGED <<functions, indexed, base, found, todo, parsed>>
  BY DEF ChooseType, Goto, index, locals
<1>2. \A i \in Jobs : IF i = j THEN pc'[i] = "chosen" ELSE pc'[i] = pc[i]
  BY <1>1 DEF TypeOK
<1>3. \A i \in Jobs \ {j} : kind'[i] = kind[i]
  BY DEF ChooseType, TypeOK
<1>4. Alone'
  BY <1>2 DEF InTurn, Alone, Live
<1>5. Cleared(j)' /\ NoBase(j)' /\ BaseKept(j)'
  BY <1>1, <1>2 DEF InTurn, Cleared, Unparsed, Early, ClearedFull,
                    ClearedChanged, NoBase, BaseKept, Based, Live, Empty
<1>6. ASSUME NEW i \in Jobs \ {j}
      PROVE  Cleared(i)' /\ NoBase(i)' /\ BaseKept(i)'
  <2>1. Changed(i)' = Changed(i) /\ Parsed(i)' = Parsed(i)
    BY <1>1 DEF Changed, Parsed, Present
  <2>. QED BY <1>1, <1>2, <1>3, <2>1
           DEF InTurn, Cleared, Unparsed, ClearedFull, ClearedChanged, NoBase,
               BaseKept, Empty
<1>. QED BY <1>4, <1>5, <1>6 DEF InTurn

LEMMA QuietStaysInTurn ==
  ASSUME InTurn, UNCHANGED <<index, tasks, pc, locals>>
  PROVE  InTurn'
<1>1. Alone'
  BY DEF InTurn, Alone
<1>2. ASSUME NEW j \in Jobs
      PROVE  Cleared(j)' /\ NoBase(j)' /\ BaseKept(j)'
  BY DEF InTurn, Cleared, Unparsed, ClearedFull, ClearedChanged, NoBase, BaseKept,
         Changed, Parsed, Present, Empty, index, tasks, locals
<1>. QED BY <1>1, <1>2 DEF InTurn

LEMMA NextIInv == ASSUME IInv, [Next]_vars PROVE IInv'
<1>1. TypeOK'
  BY StepTypes DEF IInv
<1> SUFFICES ASSUME ~Overlap PROVE InTurn'
  BY <1>1 DEF IInv
<1>2. TypeOK /\ InTurn
  BY DEF IInv
<1>3. CASE UNCHANGED <<index, tasks, pc, locals>>
  BY <1>2, <1>3, QuietStaysInTurn
<1>4. ASSUME NEW f \in Files, Write(f) \/ Remove(f) PROVE InTurn'
  BY <1>3, <1>4 DEF Write, Remove
<1>5. ASSUME NEW j \in Jobs, Admit(j) PROVE InTurn'
  BY <1>2, <1>5, AdmitStaysInTurn
<1>8. ASSUME NEW j \in Jobs, NEW k \in Kinds, ChooseType(j, k) PROVE InTurn'
  BY <1>2, <1>8, ChoiceStaysInTurn
<1>6. ASSUME NEW j \in Jobs, RunStep(j) \/ StatementFails(j) \/ Crash(j)
      PROVE  InTurn'
  BY <1>2, <1>6, RunStaysInTurn
<1>7. CASE UNCHANGED vars
  BY <1>3, <1>7 DEF vars
<1>. QED BY <1>4, <1>5, <1>6, <1>7, <1>8 DEF Next

LEMMA InTurnClears == IInv => LeftoversCleared
<1> SUFFICES ASSUME IInv, ~Overlap, NEW j \in Jobs, pc[j] = "parse",
                    NEW r \in Records(j), NEW s \in functions, r.file = s.file
             PROVE  FALSE
  BY DEF LeftoversCleared
<1>1. ClearedChanged(j)
  BY DEF IInv, InTurn, Cleared
<1>2. r.file \in Parsed(j)
  BY DEF Records
<1>. QED BY <1>1, <1>2 DEF ClearedChanged

\* As long as runs follow each other, what an earlier run left behind, however
\* it ended, collides with nothing the next one is about to insert.
THEOREM NothingLeftCollides == Spec => []LeftoversCleared
BY InitIInv, NextIInv, InTurnClears, PTL DEF Spec

-----------------------------------------------------------------------------
(* What the next incremental run may skip.                                   *)

\* Times are given once: an edit never brings back a time anybody remembers.
Past(t) == \A f \in Files : t[f] <= clock
NoLater == /\ Past(fs) /\ Past(indexed)
           /\ \A j \in Jobs : Past(base[j]) /\ Past(found[j])

LEMMA EditIsNew ==
  ASSUME TypeOK, NEW f \in Files, Write(f) \/ Remove(f), NEW g \in Files,
         NEW v \in Nat \ {0}, v <= clock, fs'[g] = v
  PROVE  fs[g] = v
<1>1. clock \in Nat /\ fs \in [Files -> Times] /\ clock' = clock + 1
  BY DEF TypeOK, Trees, Write, Remove
<1>2. fs' = [fs EXCEPT ![f] = clock + 1] \/ fs' = [fs EXCEPT ![f] = 0]
  BY DEF Write, Remove
<1>. QED BY <1>1, <1>2

LEMMA InitNoLater == Init => NoLater
<1> SUFFICES ASSUME Init PROVE NoLater
  OBVIOUS
<1>1. clock = 1 /\ \A f \in Files : fs[f] \in {0, 1}
  BY DEF Init
<1>2. /\ \A f \in Files : indexed[f] = 0
      /\ \A j \in Jobs : \A f \in Files : base[j][f] = 0 /\ found[j][f] = 0
  BY DEF Init, Empty
<1>. QED BY <1>1, <1>2 DEF NoLater, Past

LEMMA NextNoLater ==
  ASSUME TypeOK, NoLater, [Next]_vars PROVE NoLater'
<1>t. /\ clock \in Nat /\ fs \in [Files -> Times] /\ indexed \in [Files -> Times]
      /\ base \in [Jobs -> [Files -> Times]] /\ found \in [Jobs -> [Files -> Times]]
      /\ Times \subseteq Nat
  BY DEF TypeOK, Trees, Times
<1>1. ASSUME NEW f \in Files, Write(f) \/ Remove(f) PROVE NoLater'
  <2>1. /\ clock' = clock + 1 /\ UNCHANGED <<indexed, base, found>>
        /\ fs' = [fs EXCEPT ![f] = clock + 1] \/ fs' = [fs EXCEPT ![f] = 0]
    BY <1>1 DEF Write, Remove, index, locals
  <2>2. Past(fs)'
    <3>1. SUFFICES ASSUME NEW g \in Files PROVE fs'[g] <= clock'
      BY DEF Past
    <3>2. fs[g] \in Nat /\ fs[g] <= clock
      BY <1>t DEF NoLater, Past
    <3>. QED BY <2>1, <3>2, <1>t
  <2>3. Past(indexed)'
    <3>1. SUFFICES ASSUME NEW g \in Files PROVE indexed[g] <= clock + 1
      BY <2>1 DEF Past
    <3>2. indexed[g] \in Nat /\ indexed[g] <= clock
      BY <1>t DEF NoLater, Past
    <3>. QED BY <3>2, <1>t
  <2>4. \A j \in Jobs : Past(base[j])' /\ Past(found[j])'
    <3>1. SUFFICES ASSUME NEW j \in Jobs, NEW g \in Files
                   PROVE base[j][g] <= clock + 1 /\ found[j][g] <= clock + 1
      BY <2>1 DEF Past
    <3>2. base[j] \in [Files -> Times] /\ found[j] \in [Files -> Times]
      BY <1>t
    <3>3. base[j][g] \in Nat /\ found[j][g] \in Nat
      BY <1>t, <3>2
    <3>4. base[j][g] <= clock /\ found[j][g] <= clock
      BY DEF NoLater, Past
    <3>. QED BY <3>3, <3>4, <1>t
  <2>. QED BY <2>2, <2>3, <2>4 DEF NoLater
<1>2. CASE UNCHANGED <<fs, clock, indexed, base, found>>
  BY <1>2 DEF NoLater, Past
<1>3. ASSUME NEW j \in Jobs, Admit(j) PROVE NoLater'
  BY <1>2, <1>3 DEF Admit, tree, index, locals
<1>6. ASSUME NEW j \in Jobs, NEW k \in Kinds, ChooseType(j, k) PROVE NoLater'
  BY <1>2, <1>6 DEF ChooseType, tree, index, locals
<1>4. ASSUME NEW j \in Jobs, RunStep(j) \/ StatementFails(j) \/ Crash(j)
      PROVE  NoLater'
  <2>1. /\ UNCHANGED <<fs, clock>>
        /\ \A k \in Jobs \ {j} : base'[k] = base[k] /\ found'[k] = found[k]
    BY <1>4, OthersStay DEF TypeOK
  <2>2. /\ indexed' = indexed \/ indexed' = found[j]
        /\ base'[j] = base[j] \/ base'[j] = Empty \/ base'[j] = indexed
        /\ found'[j] = found[j] \/ found'[j] = Empty \/ found'[j] = fs
    <3>1. CASE MovesOn(j) \/ Ends(j)
      BY <3>1, <1>t DEF MovesOn, Ends, EndRun, index
    <3>2. CASE GetRepo(j)
      BY <3>2, <1>t DEF GetRepo, index
    <3>3. CASE DeleteFunctionsByRepo(j) \/ DeleteFunctionsByFiles(j)
      BY <3>3 DEF DeleteFunctionsByRepo, DeleteFunctionsByFiles, DeleteRows,
                  locals
    <3>4. CASE CollectSourceFiles(j)
      BY <3>4, <1>t DEF CollectSourceFiles, index
    <3>5. CASE \E f \in Files : ParseFile(j, f)
      BY <3>5 DEF ParseFile, index
    <3>6. CASE BulkInsertFunctions(j) /\ ~FailTask(j)
      BY <3>6 DEF BulkInsertFunctions, locals
    <3>7. CASE UpdateRepoIndexedFiles(j)
      BY <3>7 DEF UpdateRepoIndexedFiles, locals
    <3>. QED BY <1>4, <3>1, <3>2, <3>3, <3>4, <3>5, <3>6, <3>7, StepOfRun
  <2>3. \A f \in Files : Empty[f] <= clock
    BY <1>t DEF Empty
  <2>4. Past(fs)' /\ Past(indexed)'
    BY <2>1, <2>2 DEF NoLater, Past
  <2>5. Past(base[j])' /\ Past(found[j])'
    BY <2>1, <2>2, <2>3 DEF NoLater, Past
  <2>6. \A k \in Jobs \ {j} : Past(base[k])' /\ Past(found[k])'
    BY <2>1 DEF NoLater, Past
  <2>. QED BY <2>4, <2>5, <2>6 DEF NoLater
<1>5. CASE UNCHANGED vars
  BY <1>2, <1>5 DEF vars, tree, index, locals
<1>. QED BY <1>1, <1>3, <1>4, <1>5, <1>6 DEF Next

\* A file that did not change since a tree was recorded is indexed as it is.
Right(f) ==
  /\ {r.name : r \in RowsOf(f)} = Defined(Source[f][fs[f]])
  /\ \A r \in RowsOf(f) : r.ver = fs[f]
RightFor(t) == \A f \in Present(t) : t[f] = fs[f] => Right(f)

\* A full run that has deleted the functions leaves the index hollow, unless
\* there was no snapshot; the files whose rows an incremental run has deleted
\* are not what the stored snapshot says they are; a file is parsed as it was
\* collected, or it has changed since; and once the functions are stored, the
\* snapshot a full run will write is true, and that of an incremental run is
\* as true as the stored one.
Stored == {"map", "edges", "unresolved", "recreate", "snapshot"}
FirstOrHollow(j) ==
  kind[j] = "full" /\ pc[j] \in {"collect", "parse"} \cup Stored =>
    hollow \/ indexed = Empty
Outdated(j) ==
  pc[j] \in {"delete", "parse"} \cup Stored =>
    \A f \in Present(base[j]) : base[j][f] # found[j][f] => fs[f] # base[j][f]
Covered(j) ==
  pc[j] = "parse" =>
    \A f \in Changed(j) :
      f \in todo[j] \/ parsed[j][f] = found[j][f] \/ fs[f] # found[j][f]
StoredRight(j) ==
  pc[j] \in Stored /\ (kind[j] = "full" \/ ~hollow) => RightFor(found[j])
Skips(j) == FirstOrHollow(j) /\ Outdated(j) /\ Covered(j) /\ StoredRight(j)
IndexedRight == ~hollow => RightFor(indexed)
SkipInv == NoLater /\ IndexedRight /\ \A j \in Jobs : Skips(j)

LEMMA SameRight ==
  ASSUME NEW f \in Files, fs'[f] = fs[f], RowsOf(f)' = RowsOf(f), Right(f)
  PROVE  Right(f)'
BY DEF Right

LEMMA RecordsOfFile ==
  ASSUME NEW j \in Jobs, NEW f \in Files
  PROVE  {r \in Records(j) : r.file = f} =
           IF f \in Parsed(j)
           THEN {[job |-> j, file |-> f, name |-> n, ver |-> parsed[j][f]] :
                   n \in Defined(Text(j, f))}
           ELSE {}
BY DEF Records

LEMMA EditKeepsSkips ==
  ASSUME TypeOK, SkipInv, NEW f \in Files, Write(f) \/ Remove(f)
  PROVE  IndexedRight' /\ \A j \in Jobs : Skips(j)'
<1>1. UNCHANGED <<functions, indexed, hollow, kind, pc, base, found, todo, parsed>>
  BY DEF Write, Remove, index, tasks, locals
<1>2. /\ indexed \in [Files -> Nat]
      /\ base \in [Jobs -> [Files -> Nat]] /\ found \in [Jobs -> [Files -> Nat]]
  BY DEF TypeOK, Trees, Times
<1>3. ASSUME NEW g \in Files, Right(g), fs'[g] = fs[g] PROVE Right(g)'
  BY <1>1, <1>3, SameRight DEF RowsOf
<1>4. IndexedRight'
  <2>1. SUFFICES ASSUME ~hollow, NEW g \in Files, indexed[g] # 0,
                        indexed[g] = fs'[g]
                 PROVE  Right(g)'
    BY <1>1 DEF IndexedRight, RightFor, Present
  <2>2. fs[g] = indexed[g]
    BY <1>2, <2>1, EditIsNew DEF SkipInv, NoLater, Past
  <2>. QED BY <1>3, <2>1, <2>2 DEF SkipInv, IndexedRight, RightFor, Present
<1>5. ASSUME NEW j \in Jobs PROVE Skips(j)'
  <2>1. FirstOrHollow(j)'
    BY <1>1 DEF SkipInv, Skips, FirstOrHollow, Empty
  <2>2. Outdated(j)'
    <3>1. SUFFICES ASSUME pc[j] \in {"delete", "parse"} \cup Stored,
                          NEW g \in Files, base[j][g] # 0,
                          base[j][g] # found[j][g], fs'[g] = base[j][g]
                   PROVE  FALSE
      BY <1>1 DEF Outdated, Present
    <3>2. fs[g] = base[j][g]
      BY <1>2, <3>1, EditIsNew DEF SkipInv, NoLater, Past
    <3>. QED BY <3>1, <3>2 DEF SkipInv, Skips, Outdated, Present
  <2>3. Covered(j)'
    <3>1. SUFFICES ASSUME pc[j] = "parse", NEW g \in Changed(j),
                          fs'[g] = found[j][g]
                   PROVE  g \in todo[j] \/ parsed[j][g] = found[j][g]
      BY <1>1 DEF Covered, Changed, Present
    <3>2. g \in Files /\ found[j][g] # 0
      BY DEF Changed, Present
    <3>3. fs[g] = found[j][g]
      BY <1>2, <3>1, <3>2, EditIsNew DEF SkipInv, NoLater, Past
    <3>. QED BY <3>1, <3>3 DEF SkipInv, Skips, Covered
  <2>4. StoredRight(j)'
    <3>1. SUFFICES ASSUME pc[j] \in Stored, kind[j] = "full" \/ ~hollow,
                          NEW g \in Files, found[j][g] # 0, found[j][g] = fs'[g]
                   PROVE  Right(g)'
      BY <1>1 DEF StoredRight, RightFor, Present
    <3>2. fs[g] = found[j][g]
      BY <1>2, <3>1, EditIsNew DEF SkipInv, NoLater, Past
    <3>. QED BY <1>3, <3>1, <3>2 DEF SkipInv, Skips, StoredRight, RightFor, Present
  <2>. QED BY <2>1, <2>2, <2>3, <2>4 DEF Skips
<1>. QED BY <1>4, <1>5

LEMMA InsertKeepsSkips ==
  ASSUME TypeOK, InTurn, SkipInv, NEW j \in Jobs,
         BulkInsertFunctions(j), ~FailTask(j)
  PROVE  IndexedRight' /\ Skips(j)'
<1>1. /\ pc[j] = "parse" /\ todo[j] = {} /\ functions' = functions \cup Records(j)
      /\ pc'[j] = "map" /\ UNCHANGED <<fs, indexed, hollow, kind, base, found>>
  BY DEF BulkInsertFunctions, Goto, TypeOK, tree, tasks, locals
<1>2. /\ FirstOrHollow(j) /\ Outdated(j) /\ Covered(j) /\ IndexedRight
      /\ ClearedChanged(j) /\ NoBase(j) /\ BaseKept(j)
      /\ kind[j] \in {"full", "incremental"}
  BY DEF SkipInv, Skips, InTurn, Cleared, TypeOK
<1>3. IF kind[j] = "full" THEN base[j] = Empty ELSE base[j] = indexed
  BY <1>1, <1>2 DEF NoBase, BaseKept, Based, Live
<1>4. ASSUME NEW f \in Files, f \notin Parsed(j), Right(f) PROVE Right(f)'
  <2>1. RowsOf(f)' = RowsOf(f)
    BY <1>1, <1>4, RecordsOfFile DEF RowsOf
  <2>. QED BY <1>1, <1>4, <2>1, SameRight
<1>5. IndexedRight'
  <2>1. SUFFICES ASSUME ~hollow, NEW f \in Files, indexed[f] # 0,
                        indexed[f] = fs[f]
                 PROVE  Right(f)'
    BY <1>1 DEF IndexedRight, RightFor, Present
  <2>2. kind[j] # "full"
    BY <1>1, <1>2, <2>1 DEF FirstOrHollow, Empty
  <2>3. f \notin Changed(j)
    BY <1>1, <1>2, <1>3, <2>1, <2>2 DEF Outdated, Present, Changed
  <2>4. f \notin Parsed(j)
    BY <1>1, <1>2, <2>3 DEF ClearedChanged
  <2>. QED BY <1>2, <1>4, <2>1, <2>4 DEF IndexedRight, RightFor, Present
<1>6. StoredRight(j)'
  <2>1. SUFFICES ASSUME kind[j] = "full" \/ ~hollow,
                        NEW f \in Files, found[j][f] # 0, found[j][f] = fs[f]
                 PROVE  Right(f)'
    BY <1>1 DEF StoredRight, RightFor, Present
  <2>2. CASE f \in Changed(j)
    <3>1. parsed[j][f] = fs[f] /\ f \in Parsed(j)
      BY <1>1, <1>2, <2>1, <2>2 DEF Covered, Parsed, Present
    <3>2. \A r \in functions : r.file # f
      BY <1>1, <1>2, <2>2 DEF ClearedChanged
    <3>3. RowsOf(f)' = {r \in Records(j) : r.file = f}
      BY <1>1, <3>2 DEF RowsOf
    <3>4. RowsOf(f)' = {[job |-> j, file |-> f, name |-> n, ver |-> fs[f]] :
                          n \in Defined(Source[f][fs[f]])}
      BY <3>1, <3>3, RecordsOfFile DEF Text
    <3> DEFINE S == RowsOf(f)'
               D == Defined(Source[f][fs[f]])
    <3>5. /\ \A r \in S : \E n \in D :
               r = [job |-> j, file |-> f, name |-> n, ver |-> fs[f]]
          /\ \A n \in D : [job |-> j, file |-> f, name |-> n, ver |-> fs[f]] \in S
      BY <3>4
    <3> HIDE DEF S, D
    <3>6. \A r \in S : r.name \in D /\ r.ver = fs[f]
      BY <3>5
    <3>7. \A n \in D : \E r \in S : r.name = n
      BY <3>5
    <3>8. {r.name : r \in S} = D
      BY <3>6, <3>7
    <3>. QED BY <1>1, <3>6, <3>8 DEF Right, S, D
  <2>3. CASE f \notin Changed(j)
    <3>1. base[j][f] = fs[f] /\ fs[f] # 0
      BY <2>1, <2>3 DEF Changed, Present
    <3>2. kind[j] # "full" /\ indexed[f] = fs[f]
      BY <1>3, <3>1 DEF Empty
    <3>4. Right(f)
      BY <1>2, <2>1, <3>1, <3>2 DEF IndexedRight, RightFor, Present
    <3>3. f \notin Parsed(j)
      BY <1>1, <1>2, <2>3 DEF ClearedChanged
    <3>. QED BY <1>4, <3>4, <3>3
  <2>. QED BY <2>2, <2>3
<1>7. FirstOrHollow(j)'
  BY <1>1, <1>2 DEF FirstOrHollow, Empty
<1>8. Outdated(j)'
  BY <1>1, <1>2 DEF Outdated, Present, Stored
<1>9. Covered(j)'
  BY <1>1 DEF Covered
<1>. QED BY <1>5, <1>6, <1>7, <1>8, <1>9 DEF Skips

LEMMA RunKeepsSkips ==
  ASSUME TypeOK, InTurn, SkipInv, "parse" \notin Faults, NEW j \in Jobs,
         RunStep(j) \/ StatementFails(j) \/ Crash(j)
  PROVE  IndexedRight' /\ Skips(j)'
<1> DEFINE Goal == IndexedRight' /\ Skips(j)'
<1>t. /\ pc \in [Jobs -> PCs] /\ kind \in [Jobs -> {"full", "incremental"}]
      /\ base \in [Jobs -> Trees] /\ found \in [Jobs -> Trees]
      /\ todo \in [Jobs -> SUBSET Files] /\ parsed \in [Jobs -> [Files -> Times]]
  BY DEF TypeOK, Trees
<1>i. /\ FirstOrHollow(j) /\ Outdated(j) /\ Covered(j) /\ StoredRight(j)
      /\ IndexedRight
      /\ ClearedChanged(j) /\ NoBase(j) /\ BaseKept(j)
  BY DEF SkipInv, Skips, InTurn, Cleared
<1>r. ASSUME UNCHANGED <<fs, functions>>, NEW f \in Files, Right(f)
      PROVE  Right(f)'
  BY <1>r DEF Right, RowsOf
<1>k. ASSUME UNCHANGED <<fs, functions, indexed, hollow>> PROVE IndexedRight'
  BY <1>k, <1>r, <1>i DEF IndexedRight, RightFor, Present
<1>1. CASE MovesOn(j)
  <2>1. UNCHANGED <<fs, functions, indexed, hollow, kind, base, found>>
    BY <1>1 DEF MovesOn
  <2>2. \/ pc[j] = "start" /\ pc'[j] = "read"
        \/ pc[j] = "drop" /\ pc'[j] = "delete"
        \/ pc[j] \in Stored /\ pc'[j] \in Stored
    BY <1>t, <1>1 DEF MovesOn, Goto, Stored
  <2>3. FirstOrHollow(j)'
    BY <1>i, <2>1, <2>2 DEF FirstOrHollow, Stored, Empty
  <2>4. Outdated(j)'
    BY <1>i, <2>1, <2>2 DEF Outdated, NoBase, Present, Stored, Empty
  <2>5. Covered(j)'
    BY <2>2 DEF Covered, Stored
  <2>6. StoredRight(j)'
    BY <1>i, <1>r, <2>1, <2>2 DEF StoredRight, RightFor, Present, Stored
  <2>. QED BY <1>k, <2>1, <2>3, <2>4, <2>5, <2>6 DEF Skips
<1>2. CASE Ends(j)
  <2>1. pc'[j] = "ended" /\ UNCHANGED <<fs, functions, indexed, hollow>>
    BY <1>t, <1>2 DEF Ends, EndRun, Goto, index
  <2>. QED BY <1>k, <2>1
           DEF Skips, FirstOrHollow, Outdated, Covered, StoredRight, Stored
<1>3. CASE GetRepo(j)
  <2>1. /\ UNCHANGED <<fs, functions, indexed, hollow, kind>> /\ pc[j] = "read"
        /\ pc'[j] = "drop" \/ (pc'[j] = "collect" /\ kind[j] # "full")
    BY <1>t, <1>3 DEF GetRepo, tree, index, tasks, Goto
  <2>2. FirstOrHollow(j)'
    BY <2>1 DEF FirstOrHollow, Stored
  <2>. QED BY <1>k, <2>1, <2>2 DEF Skips, Outdated, Covered, StoredRight, Stored
<1>4. CASE DeleteFunctionsByRepo(j)
  <2>1. /\ UNCHANGED indexed /\ pc'[j] = "collect"
        /\ hollow' = (hollow \/ indexed # Empty)
    BY <1>t, <1>4 DEF DeleteFunctionsByRepo, DeleteRows, Goto
  <2>2. hollow' \/ indexed' = Empty
    BY <2>1
  <2>3. IndexedRight'
    BY <2>2 DEF IndexedRight, RightFor, Present, Empty
  <2>4. FirstOrHollow(j)'
    BY <2>2 DEF FirstOrHollow, Empty
  <2>. QED BY <2>1, <2>3, <2>4 DEF Skips, Outdated, Covered, StoredRight, Stored
<1>5. CASE CollectSourceFiles(j)
  <2>1. /\ UNCHANGED <<fs, functions, indexed, hollow, kind, base>>
        /\ pc[j] = "collect"
        /\ found'[j] = fs /\ pc'[j] \in {"parse", "delete"}
        /\ pc'[j] = "parse" => todo'[j] = Present(fs)
    BY <1>t, <1>5 DEF CollectSourceFiles, tree, index, tasks, Goto
  <2>2. FirstOrHollow(j)'
    BY <1>i, <2>1 DEF FirstOrHollow, Empty
  <2>3. Outdated(j)'
    BY <2>1 DEF Outdated, Present
  <2>4. Covered(j)'
    BY <2>1 DEF Covered, Changed, Present
  <2>. QED BY <1>k, <2>1, <2>2, <2>3, <2>4 DEF Skips, StoredRight, Stored
<1>6. CASE DeleteFunctionsByFiles(j)
  <2>1. /\ UNCHANGED <<fs, indexed, hollow, kind, base, found>> /\ pc[j] = "delete"
        /\ kind[j] = "incremental" /\ pc'[j] = "parse" /\ todo'[j] = Changed(j)
        /\ functions' = {r \in functions :
                           r.file \notin Changed(j) \cup Deleted(j)}
    BY <1>6, <1>t DEF DeleteFunctionsByFiles, DeleteRows, Goto, tree, tasks
  <2>2. base[j] = indexed
    BY <1>i, <2>1 DEF BaseKept, Based, Live
  <2>3. ASSUME ~hollow, NEW f \in Files, indexed[f] # 0, indexed[f] = fs[f]
        PROVE  Right(f)'
    <3>1. f \notin Changed(j) \cup Deleted(j)
      BY <1>i, <2>1, <2>2, <2>3 DEF Outdated, Changed, Deleted, Present
    <3>2. RowsOf(f)' = RowsOf(f)
      BY <2>1, <3>1 DEF RowsOf
    <3>3. Right(f)
      BY <1>i, <2>3 DEF IndexedRight, RightFor, Present
    <3>. QED BY <2>1, <3>2, <3>3, SameRight
  <2>4. IndexedRight'
    BY <2>1, <2>3 DEF IndexedRight, RightFor, Present
  <2>5. FirstOrHollow(j)'
    BY <2>1 DEF FirstOrHollow
  <2>6. Outdated(j)'
    BY <1>i, <2>1 DEF Outdated, Present
  <2>7. Covered(j)'
    BY <2>1 DEF Covered, Changed, Present
  <2>. QED BY <2>1, <2>4, <2>5, <2>6, <2>7 DEF Skips, StoredRight, Stored
<1>7. ASSUME NEW f \in Files, ParseFile(j, f) PROVE Goal
  <2>1. /\ UNCHANGED <<fs, functions, indexed, hollow, kind, pc, base, found>>
        /\ pc[j] = "parse" /\ f \in todo[j] /\ todo'[j] = todo[j] \ {f}
    BY <1>7, <1>t DEF ParseFile, tree, index, tasks
  <2>2. \/ parsed' = [parsed EXCEPT ![j][f] = fs[f]]
        \/ parsed' = parsed /\ fs[f] = 0
    BY <1>7 DEF ParseFile
  <2>3. /\ \A g \in Files \ {f} : parsed'[j][g] = parsed[j][g]
        /\ parsed'[j][f] = fs[f] \/ fs[f] = 0
    BY <1>t, <2>2
  <2>4. Changed(j)' = Changed(j) /\ Changed(j) \subseteq Present(found[j])
    BY <2>1 DEF Changed, Present
  <2>5. ASSUME NEW g \in Changed(j)
        PROVE  \/ g \in todo'[j] \/ parsed'[j][g] = found[j][g]
               \/ fs[g] # found[j][g]
    BY <1>i, <2>1, <2>3, <2>4 DEF Covered, Present
  <2>6. Covered(j)'
    BY <2>1, <2>4, <2>5 DEF Covered
  <2>7. FirstOrHollow(j)' /\ Outdated(j)' /\ StoredRight(j)'
    BY <1>i, <2>1 DEF FirstOrHollow, Outdated, StoredRight, Stored, Present, Empty
  <2>. QED BY <1>k, <2>1, <2>6, <2>7 DEF Skips
<1>8. CASE BulkInsertFunctions(j) /\ ~FailTask(j)
  BY <1>8, InsertKeepsSkips
<1>9. CASE UpdateRepoIndexedFiles(j)
  <2>1. /\ UNCHANGED <<fs, functions>> /\ pc[j] = "snapshot"
        /\ pc'[j] = "finish" /\ indexed' = found[j]
        /\ ~hollow' => kind[j] = "full" \/ ~hollow
    BY <1>9, <1>t DEF UpdateRepoIndexedFiles, Goto, tree
  <2>2. IndexedRight'
    BY <1>i, <1>r, <2>1 DEF IndexedRight, StoredRight, Stored, RightFor, Present
  <2>. QED BY <2>1, <2>2
           DEF Skips, FirstOrHollow, Outdated, Covered, StoredRight, Stored
<1>. QED BY <1>1, <1>2, <1>3, <1>4, <1>5, <1>6, <1>7, <1>8, <1>9, StepOfRun

\* What the code needs: runs follow each other, and no file that is there fails
\* to parse.
Careful == ~Overlap /\ "parse" \notin Faults

LEMMA IdleSkips ==
  ASSUME NEW j \in Jobs, pc[j] \notin Live PROVE Skips(j)
BY DEF Skips, FirstOrHollow, Outdated, Covered, StoredRight, Stored, Live

LEMMA InitSkipInv == Init => SkipInv
<1> SUFFICES ASSUME Init PROVE SkipInv
  OBVIOUS
<1>1. \A j \in Jobs : pc[j] \notin Live
  BY DEF Init, Live
<1>2. IndexedRight
  BY DEF Init, IndexedRight, RightFor, Present, Empty
<1>. QED BY <1>1, <1>2, IdleSkips, InitNoLater DEF SkipInv

\* Neither the choice of a type nor an admission touches the index.
LEMMA RequestKeepsSkips ==
  ASSUME TypeOK, SkipInv, Careful, NEW j \in Jobs,
         Admit(j) \/ \E k \in Kinds : ChooseType(j, k)
  PROVE  IndexedRight' /\ \A i \in Jobs : Skips(i)'
<1>t. pc \in [Jobs -> PCs] /\ kind \in [Jobs -> {"full", "incremental"}]
  BY DEF TypeOK
<1>1. /\ UNCHANGED <<fs, functions, indexed, hollow, base, found, todo, parsed>>
      /\ pc'[j] \in {"chosen", "start"}
      /\ \A i \in Jobs \ {j} : pc'[i] = pc[i] /\ kind'[i] = kind[i]
  <2>1. CASE Admit(j)
    BY <1>t, <2>1 DEF Admit, Goto, tree, index, locals
  <2>2. CASE \E k \in Kinds : ChooseType(j, k)
    BY <1>t, <2>2 DEF ChooseType, Goto, tree, index, locals
  <2>. QED BY <2>1, <2>2
<1>r. \A f \in Files : Right(f)' <=> Right(f)
  BY <1>1 DEF Right, RowsOf
<1>2. IndexedRight'
  BY <1>1, <1>r DEF SkipInv, IndexedRight, RightFor, Present
<1>3. ASSUME NEW i \in Jobs \ {j} PROVE Skips(i)'
  <2>s. Skips(i) /\ pc'[i] = pc[i] /\ kind'[i] = kind[i]
    BY <1>1 DEF SkipInv
  <2>1. FirstOrHollow(i)'
    BY <1>1, <2>s DEF Skips, FirstOrHollow, Empty
  <2>2. Outdated(i)'
    BY <1>1, <2>s DEF Skips, Outdated, Present
  <2>3. Covered(i)'
    BY <1>1, <2>s DEF Skips, Covered, Changed, Present
  <2>4. StoredRight(i)'
    <3>1. RightFor(found[i]) => RightFor(found[i])'
      BY <1>1, <1>r DEF RightFor, Present
    <3>. QED BY <1>1, <2>s, <3>1 DEF Skips, StoredRight
  <2>. QED BY <2>1, <2>2, <2>3, <2>4 DEF Skips
<1>4. Skips(j)'
  BY <1>1 DEF Skips, FirstOrHollow, Outdated, Covered, StoredRight, Stored
<1>. QED BY <1>2, <1>3, <1>4

LEMMA NextSkipInv ==
  ASSUME Careful, IInv, SkipInv, [Next]_vars PROVE SkipInv'
<1>1. TypeOK /\ InTurn /\ NoLater'
  BY NextNoLater DEF IInv, Careful, SkipInv
<1> SUFFICES IndexedRight' /\ \A j \in Jobs : Skips(j)'
  BY <1>1 DEF SkipInv
<1>2. ASSUME NEW f \in Files, Write(f) \/ Remove(f)
      PROVE  IndexedRight' /\ \A j \in Jobs : Skips(j)'
  BY <1>1, <1>2, EditKeepsSkips
<1>3. ASSUME NEW j \in Jobs, Admit(j) \/ \E k \in Kinds : ChooseType(j, k)
      PROVE  IndexedRight' /\ \A i \in Jobs : Skips(i)'
  BY <1>1, <1>3, RequestKeepsSkips
<1>4. ASSUME NEW j \in Jobs, RunStep(j) \/ StatementFails(j) \/ Crash(j)
      PROVE  IndexedRight' /\ \A i \in Jobs : Skips(i)'
  <2>1. IndexedRight' /\ Skips(j)'
    BY <1>1, <1>4, RunKeepsSkips DEF Careful
  <2>2. pc[j] \in Live /\ \A i \in Jobs \ {j} : pc'[i] = pc[i]
    BY <1>1, <1>4, OthersStay
  <2>3. ASSUME NEW i \in Jobs \ {j} PROVE Skips(i)'
    <3>1. pc'[i] \notin Live
      BY <1>1, <2>2 DEF InTurn, Alone
    <3>. QED BY <3>1
             DEF Skips, FirstOrHollow, Outdated, Covered, StoredRight, Stored, Live
  <2>. QED BY <2>1, <2>3
<1>5. CASE UNCHANGED vars
  <2>1. UNCHANGED <<fs, functions, indexed, hollow, kind, pc, base, found, todo,
                    parsed>>
    BY <1>5 DEF vars, tree, index, tasks, locals
  <2>r. \A f \in Files : Right(f)' <=> Right(f)
    BY <2>1 DEF Right, RowsOf
  <2>2. IndexedRight'
    BY <2>1, <2>r DEF SkipInv, IndexedRight, RightFor, Present
  <2>3. ASSUME NEW j \in Jobs PROVE Skips(j)'
    <3>1. FirstOrHollow(j)' /\ Outdated(j)' /\ Covered(j)'
      BY <2>1 DEF SkipInv, Skips, FirstOrHollow, Outdated, Covered, Changed,
                  Present, Empty
    <3>2. StoredRight(j)'
      <4>1. RightFor(found[j]) => RightFor(found[j])'
        BY <2>1, <2>r DEF RightFor, Present
      <4>. QED BY <2>1, <4>1 DEF SkipInv, Skips, StoredRight
    <3>. QED BY <3>1, <3>2 DEF Skips
  <2>. QED BY <2>2, <2>3
<1>. QED BY <1>2, <1>3, <1>4, <1>5 DEF Next

\* A file the next incremental run will skip is indexed as it is now, unless a
\* full run emptied the functions under the stored snapshot: whatever statement
\* fails, wherever a run dies, whenever the tree is edited and however old the
\* snapshot was by which a request became full or incremental.
THEOREM SkippedIsIndexed == ASSUME Careful PROVE Spec => []SkippedUnlessHollow
<1>1. SkipInv => SkippedUnlessHollow
  BY DEF SkipInv, IndexedRight, RightFor, Right, SkippedFileIndexed,
         SkippedUnlessHollow
<1>. QED BY <1>1, InitIInv, NextIInv, InitSkipInv, NextSkipInv, PTL DEF Spec

-----------------------------------------------------------------------------
(* What no later incremental run would delete.                               *)

\* A run that has ended without saying so is one that was cut off.
Marked(j) == /\ pc[j] \in Live => status[j] \in {"pending", "running"}
             /\ pc[j] \in {"idle", "chosen"} <=> status[j] = "none"
Whole == \A j \in Jobs : pc[j] = "ended" => status[j] \in {"completed", "partial"}

\* No function is stored of a file that a tree does not have: the tree the
\* live run collected once it has deleted, and the snapshot but for the time
\* from the insert of the functions to the new snapshot.
Outside(t) == \A f \in Files : t[f] = 0 => RowsOf(f) = {}
Lean(j) == pc[j] \in {"parse"} \cup Stored => Outside(found[j])
SnapshotLean == (\E j \in Jobs : pc[j] \in Stored) \/ Outside(indexed)

LeanInv == /\ \A j \in Jobs : Marked(j)
           /\ Whole => SnapshotLean /\ \A j \in Jobs : Lean(j)

LEMMA OwnStepMarks ==
  ASSUME TypeOK, NEW j \in Jobs, Marked(j),
         RunStep(j) \/ StatementFails(j) \/ Crash(j)
  PROVE  Marked(j)'
<1>t. /\ pc \in [Jobs -> PCs]
      /\ status \in [Jobs -> {"none", "pending", "running", "completed",
                              "partial", "failed"}]
      /\ pc[j] \in Live
  BY OthersStay DEF TypeOK
<1>1. CASE MovesOn(j)
  <2>1. pc'[j] \in Live /\ pc'[j] \notin {"idle", "chosen"}
    BY <1>t, <1>1 DEF MovesOn, Goto, Live
  <2>2. status'[j] \in {"pending", "running"}
    BY <1>t, <1>1 DEF MovesOn, Marked
  <2>. QED BY <2>1, <2>2 DEF Marked
<1>2. CASE Ends(j)
  <2>1. pc'[j] = "ended"
    BY <1>t, <1>2 DEF Ends, EndRun, Goto
  <2>2. status'[j] # "none"
    BY <1>t, <1>2 DEF Ends, UpdateTaskStatus, Marked, Live
  <2>. QED BY <2>1, <2>2 DEF Marked, Live
<1>3. ASSUME status' = status, pc'[j] \in Live PROVE Marked(j)'
  BY <1>t, <1>3 DEF Marked, Live
<1>4. CASE GetRepo(j) \/ CollectSourceFiles(j)
  BY <1>t, <1>3, <1>4 DEF GetRepo, CollectSourceFiles, Goto, tasks, Live
<1>5. CASE DeleteFunctionsByRepo(j) \/ DeleteFunctionsByFiles(j)
  BY <1>t, <1>3, <1>5 DEF DeleteFunctionsByRepo, DeleteFunctionsByFiles, Goto,
                          tasks, Live
<1>6. CASE \E f \in Files : ParseFile(j, f)
  BY <1>t, <1>3, <1>6 DEF ParseFile, tasks
<1>7. CASE BulkInsertFunctions(j) /\ ~FailTask(j)
  BY <1>t, <1>3, <1>7 DEF BulkInsertFunctions, Goto, tasks, Live
<1>8. CASE UpdateRepoIndexedFiles(j)
  BY <1>t, <1>3, <1>8 DEF UpdateRepoIndexedFiles, Goto, tasks, Live
<1>. QED BY <1>1, <1>2, <1>4, <1>5, <1>6, <1>7, <1>8, StepOfRun

LEMMA OwnStepLean ==
  ASSUME TypeOK, InTurn, NEW j \in Jobs, Marked(j), Lean(j), Whole',
         pc[j] \in Stored \/ Outside(indexed),
         RunStep(j) \/ StatementFails(j) \/ Crash(j)
  PROVE  Lean(j)' /\ (pc'[j] \in Stored \/ Outside(indexed)')
<1>t. /\ pc \in [Jobs -> PCs] /\ pc[j] \in Live
      /\ status \in [Jobs -> {"none", "pending", "running", "completed",
                              "partial", "failed"}]
      /\ found \in [Jobs -> Trees]
  BY OthersStay DEF TypeOK
<1>i. ClearedFull(j) /\ ClearedChanged(j) /\ BaseKept(j)
  BY DEF InTurn, Cleared
<1>s. ASSUME UNCHANGED <<functions, indexed>>, Outside(indexed)
      PROVE  Outside(indexed)'
  BY <1>s DEF Outside, RowsOf
<1>f. ASSUME UNCHANGED functions, found'[j] = found[j], Outside(found[j])
      PROVE  Outside(found[j])'
  BY <1>f DEF Outside, RowsOf
<1>1. CASE MovesOn(j)
  <2>1. UNCHANGED <<functions, indexed, found>>
    BY <1>1 DEF MovesOn
  <2>2. \/ pc[j] \in {"start", "drop"} /\ pc'[j] \in {"read", "delete"}
        \/ pc[j] \in Stored /\ pc'[j] \in Stored
    BY <1>t, <1>1 DEF MovesOn, Goto, Stored
  <2>. QED BY <1>s, <1>f, <2>1, <2>2 DEF Lean, Stored
<1>2. CASE Ends(j)
  <2>1. pc'[j] = "ended" /\ UNCHANGED <<functions, indexed>>
    BY <1>t, <1>2 DEF Ends, EndRun, Goto, index
  <2>2. status'[j] \in {"completed", "partial"}
    BY <2>1 DEF Whole
  <2>3. UpdateTaskStatus(j)
    BY <1>t, <1>2, <2>2 DEF Ends, Marked
  <2>4. pc[j] = "finish"
    BY <2>3 DEF UpdateTaskStatus
  <2>. QED BY <1>s, <2>1, <2>4 DEF Lean, Stored
<1>3. CASE GetRepo(j)
  <2>1. /\ UNCHANGED <<functions, indexed>> /\ pc[j] = "read"
        /\ pc'[j] \in {"drop", "collect"}
    BY <1>t, <1>3 DEF GetRepo, index, Goto
  <2>. QED BY <1>s, <2>1 DEF Lean, Stored
<1>4. CASE DeleteFunctionsByRepo(j)
  <2>1. functions' = {} /\ pc'[j] = "collect"
    BY <1>t, <1>4 DEF DeleteFunctionsByRepo, DeleteRows, Goto
  <2>. QED BY <2>1 DEF Lean, Stored, Outside, RowsOf
<1>5. CASE CollectSourceFiles(j)
  <2>1. /\ UNCHANGED <<functions, indexed>> /\ pc[j] = "collect"
        /\ pc'[j] = "delete" \/ (pc'[j] = "parse" /\ kind[j] = "full")
    BY <1>t, <1>5 DEF CollectSourceFiles, index, Goto
  <2>2. pc'[j] = "parse" => functions' = {}
    BY <1>i, <2>1 DEF ClearedFull
  <2>. QED BY <1>s, <2>1, <2>2 DEF Lean, Stored, Outside, RowsOf
<1>6. CASE DeleteFunctionsByFiles(j)
  <2>1. /\ UNCHANGED <<indexed, base, found>> /\ pc[j] = "delete"
        /\ kind[j] = "incremental" /\ pc'[j] = "parse"
        /\ functions' = {r \in functions :
                           r.file \notin Changed(j) \cup Deleted(j)}
    BY <1>6, <1>t DEF DeleteFunctionsByFiles, DeleteRows, Goto
  <2>2. base[j] = indexed /\ Outside(indexed)
    BY <1>i, <2>1 DEF BaseKept, Based, Live, Stored
  <2>3. Outside(indexed)'
    BY <2>1, <2>2 DEF Outside, RowsOf
  <2>4. ASSUME NEW f \in Files, found[j][f] = 0 PROVE RowsOf(f)' = {}
    <3>1. CASE indexed[f] = 0
      BY <2>3, <2>1, <3>1 DEF Outside
    <3>2. CASE indexed[f] # 0
      <4>1. f \in Deleted(j)
        BY <2>2, <2>4, <3>2 DEF Deleted, Present
      <4>. QED BY <2>1, <4>1 DEF RowsOf
    <3>. QED BY <3>1, <3>2
  <2>5. Outside(found[j])'
    BY <2>1, <2>4 DEF Outside
  <2>. QED BY <2>1, <2>3, <2>5 DEF Lean
<1>7. CASE \E f \in Files : ParseFile(j, f)
  <2>1. UNCHANGED <<functions, indexed, found, pc>> /\ pc[j] = "parse"
    BY <1>7 DEF ParseFile, index
  <2>. QED BY <1>s, <1>f, <2>1 DEF Lean, Stored
<1>8. CASE BulkInsertFunctions(j) /\ ~FailTask(j)
  <2>1. /\ UNCHANGED found /\ pc[j] = "parse" /\ pc'[j] = "map"
        /\ functions' = functions \cup Records(j)
    BY <1>8, <1>t DEF BulkInsertFunctions, Goto, locals
  <2>2. ASSUME NEW f \in Files, found[j][f] = 0 PROVE RowsOf(f)' = {}
    <3>1. f \notin Parsed(j)
      BY <1>i, <2>1, <2>2 DEF ClearedChanged, Changed, Present
    <3>2. RowsOf(f) = {}
      BY <2>1, <2>2 DEF Lean, Outside
    <3>. QED BY <2>1, <3>1, <3>2, RecordsOfFile DEF RowsOf
  <2>. QED BY <2>1, <2>2 DEF Lean, Stored, Outside
<1>9. CASE UpdateRepoIndexedFiles(j)
  <2>1. /\ UNCHANGED functions /\ pc[j] = "snapshot" /\ pc'[j] = "finish"
        /\ indexed' = found[j]
    BY <1>9, <1>t DEF UpdateRepoIndexedFiles, Goto
  <2>. QED BY <2>1 DEF Lean, Stored, Outside, RowsOf
<1>. QED BY <1>1, <1>2, <1>3, <1>4, <1>5, <1>6, <1>7, <1>8, <1>9, StepOfRun

LEMMA InitLeanInv == Init => LeanInv
BY DEF Init, LeanInv, Marked, Live, SnapshotLean, Outside, RowsOf, Lean, Stored

LEMMA NextLeanInv ==
  ASSUME ~Overlap, IInv, LeanInv, [Next]_vars PROVE LeanInv'
<1>i. TypeOK /\ InTurn
  BY DEF IInv
<1>1. ASSUME UNCHANGED <<functions, indexed, pc, status, found>> PROVE LeanInv'
  <2>1. (\A j \in Jobs : Marked(j)') /\ (Whole' => Whole)
    BY <1>1 DEF LeanInv, Marked, Whole
  <2>2. Whole => SnapshotLean' /\ \A j \in Jobs : Lean(j)'
    BY <1>1 DEF LeanInv, SnapshotLean, Lean, Outside, RowsOf
  <2>. QED BY <2>1, <2>2 DEF LeanInv
<1>2. ASSUME NEW f \in Files, Write(f) \/ Remove(f) PROVE LeanInv'
  BY <1>1, <1>2 DEF Write, Remove, index, tasks, locals
<1>6. ASSUME NEW j \in Jobs, NEW k \in Kinds, ChooseType(j, k) PROVE LeanInv'
  <2>1. /\ UNCHANGED <<functions, indexed, found, status>> /\ pc[j] = "idle"
        /\ pc'[j] = "chosen" /\ \A i \in Jobs \ {j} : pc'[i] = pc[i]
    BY <1>i, <1>6 DEF TypeOK, ChooseType, Goto, index, locals
  <2>2. \A i \in Jobs : Marked(i)'
    BY <2>1 DEF LeanInv, Marked, Live
  <2>3. Whole' => Whole
    BY <2>1 DEF Whole
  <2>4. \A i \in Jobs : Lean(i) => Lean(i)'
    BY <2>1 DEF Lean, Outside, RowsOf, Stored
  <2>5. SnapshotLean => SnapshotLean'
    BY <2>1 DEF SnapshotLean, Outside, RowsOf, Stored
  <2>. QED BY <2>2, <2>3, <2>4, <2>5 DEF LeanInv
<1>3. ASSUME NEW j \in Jobs, Admit(j) PROVE LeanInv'
  <2>1. /\ UNCHANGED <<functions, indexed, found>> /\ pc[j] = "chosen"
        /\ \A i \in Jobs : pc[i] \notin Live
        /\ pc' = [pc EXCEPT ![j] = "start"]
        /\ status' = [status EXCEPT ![j] = "pending"]
    BY <1>3 DEF Admit, Busy, Goto, index, locals
  <2>2. /\ pc'[j] = "start" /\ status'[j] = "pending"
        /\ \A i \in Jobs \ {j} : pc'[i] = pc[i] /\ status'[i] = status[i]
    BY <1>i, <2>1 DEF TypeOK
  <2>3. \A i \in Jobs : Marked(i)'
    BY <2>2 DEF LeanInv, Marked, Live
  <2>4. Whole' => Whole
    BY <2>1, <2>2 DEF Whole
  <2>5. \A i \in Jobs : pc[i] \notin Stored /\ pc'[i] \notin {"parse"} \cup Stored
    BY <2>1, <2>2 DEF Stored, Live
  <2>6. Whole => SnapshotLean'
    BY <2>1, <2>5 DEF LeanInv, SnapshotLean, Outside, RowsOf
  <2>. QED BY <2>3, <2>4, <2>5, <2>6 DEF LeanInv, Lean
<1>4. ASSUME NEW j \in Jobs, RunStep(j) \/ StatementFails(j) \/ Crash(j)
      PROVE  LeanInv'
  <2>1. /\ pc[j] \in Live
        /\ \A i \in Jobs \ {j} : pc'[i] = pc[i] /\ status'[i] = status[i]
    BY <1>i, <1>4, OthersStay
  <2>2. \A i \in Jobs \ {j} : pc[i] \notin Live /\ pc'[i] \notin Live
    BY <1>i, <2>1 DEF InTurn, Alone
  <2>3. \A i \in Jobs : Marked(i)'
    BY <1>i, <1>4, <2>1, OwnStepMarks DEF LeanInv, Marked
  <2>4. Whole' => Whole
    BY <2>1 DEF Whole, Live
  <2>5. Whole => pc[j] \in Stored \/ Outside(indexed)
    BY <2>2 DEF LeanInv, SnapshotLean, Stored, Live
  <2>6. Whole' => Lean(j)' /\ (pc'[j] \in Stored \/ Outside(indexed)')
    BY <1>i, <1>4, <2>4, <2>5, OwnStepLean DEF LeanInv
  <2>7. \A i \in Jobs \ {j} : Lean(i)'
    BY <2>2 DEF Lean, Stored, Live
  <2>. QED BY <2>3, <2>6, <2>7 DEF LeanInv, SnapshotLean
<1>5. CASE UNCHANGED vars
  BY <1>1, <1>5 DEF vars, index, tasks, locals
<1>. QED BY <1>2, <1>3, <1>4, <1>5, <1>6 DEF Next

\* No function of a file outside the snapshot outlives a completed run, as long
\* as runs follow each other and every run so far reached its end.
THEOREM DeletedIsForgotten == ASSUME ~Overlap PROVE Spec => []DeletedFileForgotten
<1>1. LeanInv => DeletedFileForgotten
  <2> SUFFICES ASSUME LeanInv, Settled,
                      \A j \in Jobs : status[j] \in {"none", "completed", "partial"},
                      NEW f \in Files, indexed[f] = 0
               PROVE  RowsOf(f) = {}
    BY DEF DeletedFileForgotten
  <2>1. Whole
    BY DEF Whole, LeanInv, Marked
  <2>2. \A j \in Jobs : pc[j] \notin Stored
    BY DEF Settled, Busy, Stored, Live
  <2>. QED BY <2>1, <2>2 DEF LeanInv, SnapshotLean, Outside
<1>. QED BY <1>1, InitIInv, NextIInv, InitLeanInv, NextLeanInv, PTL DEF Spec

-----------------------------------------------------------------------------
(* Full runs of one repository that overlap.                                 *)

\* Nothing fails, every run is a full one, and nobody edits the tree.
Undisturbed == Faults = {} /\ Kinds \subseteq {"full"} /\ MaxWrites = 1

\* What a run inserts if the table lets it: every function of the tree.
AllRows(j) ==
  UNION {{[job |-> j, file |-> f, name |-> n, ver |-> fs[f]] :
            n \in Defined(Source[f][fs[f]])} : f \in Present(fs)}
Storable == \A f \in Present(fs) : ~Repeats(Source[f][fs[f]])

\* A run parses the whole tree; one that got past its insert has shown that the
\* tree can be stored.
FullRun(j) ==
  /\ kind[j] = "full"
  /\ pc[j] = "parse" => todo[j] \cup Parsed(j) = Present(fs)
  /\ pc[j] \in Stored => Parsed(j) = Present(fs)
  /\ \A f \in Parsed(j) : parsed[j][f] = fs[f]
  /\ pc[j] \in Stored \cup {"finish"} \/ status[j] = "completed" => Storable
  /\ status[j] = "completed" => pc[j] = "ended"

\* The run whose rows are the stored ones: nothing can stop it, and its calls
\* are accounted for once it is past its inserts.
Resolved ==
  \A r \in functions : \A n \in CalledBy(r) : \A s \in functions :
    s.name = n => \E t \in functions : t.name = n /\ <<r, t>> \in edges
Holder(j) ==
  /\ functions = AllRows(j)
  /\ pc[j] \in Stored \cup {"finish", "ended"}
  /\ pc[j] \in {"edges", "unresolved"} => fmap[j] = functions
  /\ pc[j] = "unresolved" => Resolved
  /\ pc[j] \in {"recreate", "snapshot", "finish", "ended"} => CallsAccounted

\* Once the first DELETE is done, the stored rows are one run's, or there are
\* none and a run is on its way to its insert, which then succeeds; and as long
\* as the HNSW index is missing, somebody will create it.
AtFront == {"idle", "chosen", "start", "read", "drop", "delete"}
Untouched == \A j \in Jobs : pc[j] \in AtFront
Building == functions = {} /\ \E j \in Jobs : pc[j] \in {"collect", "parse"}
Mid == {"map", "edges", "unresolved", "recreate"}
Core ==
  /\ functions # {} => \E j \in Jobs : Holder(j)
  /\ Storable => Untouched \/ Building \/ \E j \in Jobs : Holder(j)
  /\ Storable /\ ~hnsw =>
       \/ \E j \in Jobs : pc[j] = "delete"
       \/ Building
       \/ \E j \in Jobs : Holder(j) /\ pc[j] \in Mid
OverlapInv == Core /\ \A j \in Jobs : FullRun(j) /\ Unparsed(j)

LEMMA RecordsAll ==
  ASSUME NEW j \in Jobs, FullRun(j), Parsed(j) = Present(fs)
  PROVE  Records(j) = AllRows(j)
<1>1. \A f \in Present(fs) : parsed[j][f] = fs[f] /\ Text(j, f) = Source[f][fs[f]]
  BY DEF FullRun, Text
<1>. QED BY <1>1 DEF Records, AllRows

\* Two runs that parsed the same tree cannot both have rows.
LEMMA SecondCollides ==
  ASSUME NEW j \in Jobs, NEW i \in Jobs, functions = AllRows(i), functions # {},
         Records(j) = AllRows(j)
  PROVE  ~Unique(j)
<1> DEFINE rows(k, g) == {[job |-> k, file |-> g, name |-> m, ver |-> fs[g]] :
                            m \in Defined(Source[g][fs[g]])}
<1>1. \A k : AllRows(k) = UNION {rows(k, g) : g \in Present(fs)}
  BY DEF AllRows
<1>2. PICK f \in Present(fs) : \E x : x \in rows(i, f)
  BY <1>1
<1>s. PICK s : s \in rows(i, f)
  BY <1>2
<1>3. PICK n \in Defined(Source[f][fs[f]]) :
        s = [job |-> i, file |-> f, name |-> n, ver |-> fs[f]]
  BY <1>s
<1> DEFINE r == [job |-> j, file |-> f, name |-> n, ver |-> fs[f]]
<1>4. r \in rows(j, f) /\ s \in functions
  BY <1>1, <1>s
<1>5. r \in Records(j)
  BY <1>1, <1>4
<1>6. r.file = s.file /\ r.name = s.name
  BY <1>3
<1>. QED BY <1>4, <1>5, <1>6 DEF Unique

LEMMA FirstFits ==
  ASSUME NEW j \in Jobs, FullRun(j), Parsed(j) = Present(fs), functions = {},
         Storable
  PROVE  Unique(j)
<1>1. \A f \in Parsed(j) : Text(j, f) = Source[f][fs[f]]
  BY DEF FullRun, Text
<1>. QED BY <1>1 DEF Unique, Storable

\* What others do to the tables leaves a holder what it is.
LEMMA HolderStays ==
  ASSUME NEW j \in Jobs, Holder(j), UNCHANGED <<fs, functions>>,
         edges \subseteq edges', unresolved \subseteq unresolved',
         pc'[j] = pc[j], fmap'[j] = fmap[j]
  PROVE  Holder(j)'
<1>1. AllRows(j)' = AllRows(j)
  BY DEF AllRows, Present
<1>2. Resolved => Resolved'
  BY DEF Resolved, CalledBy
<1>3. CallsAccounted => CallsAccounted'
  BY DEF CallsAccounted, CalledBy
<1>. QED BY <1>1, <1>2, <1>3 DEF Holder

\* A step that keeps every holder and everybody's way to its insert.
LEMMA CoreStays ==
  ASSUME Core, UNCHANGED <<fs, functions>>,
         \A j \in Jobs : Holder(j) =>
           Holder(j)' /\ (pc[j] \in Mid => pc'[j] \in Mid \/ hnsw'),
         Untouched => Untouched',
         \A j \in Jobs : pc[j] \in {"collect", "parse"} =>
           pc'[j] \in {"collect", "parse"},
         \A j \in Jobs : pc[j] = "delete" => pc'[j] = "delete",
         hnsw => hnsw' \/ \E j \in Jobs : pc'[j] = "delete"
  PROVE  Core'
<1>1. Storable' = Storable
  BY DEF Storable, Present
<1>2. Building => Building'
  BY DEF Building
<1>3. (\E j \in Jobs : Holder(j)) => \E j \in Jobs : Holder(j)'
  OBVIOUS
<1>4. (\E j \in Jobs : Holder(j) /\ pc[j] \in Mid) =>
        hnsw' \/ \E j \in Jobs : Holder(j)' /\ pc'[j] \in Mid
  OBVIOUS
<1>5. functions' # {} => \E j \in Jobs : Holder(j)'
  BY <1>3 DEF Core
<1>6. Storable => Untouched' \/ Building' \/ \E j \in Jobs : Holder(j)'
  BY <1>2, <1>3 DEF Core
<1>7. Storable /\ ~hnsw' =>
        \/ \E j \in Jobs : pc'[j] = "delete"
        \/ Building' \/ \E j \in Jobs : Holder(j)' /\ pc'[j] \in Mid
  BY <1>2, <1>4 DEF Core
<1>. QED BY <1>1, <1>5, <1>6, <1>7 DEF Core

\* The edges of a run whose rows are the stored ones are inserted, for what they
\* reference is there; every call to a stored name is then resolved.
LEMMA EdgesResolve ==
  ASSUME TypeOK, NEW j \in Jobs, Records(j) = functions, fmap[j] = functions,
         BulkInsertCallEdges(j)
  PROVE  Resolved' /\ pc'[j] = "unresolved" /\ UNCHANGED <<tree, functions, locals>>
<1>t. pc \in [Jobs -> PCs]
  BY DEF TypeOK
<1> DEFINE new(first) == {<<c[1], first[c[2]]>> :
                            c \in {c \in RawEdges(j) : c[2] \in DOMAIN first}}
<1>1. PICK first \in [{n \in Names : Callees(j, n) # {}} -> fmap[j]] :
        /\ \A n \in DOMAIN first : first[n] \in Callees(j, n)
        /\ IF \A e \in new(first) : e[1] \in functions /\ e[2] \in functions
           THEN /\ edges' = edges \cup new(first) /\ Goto(j, "unresolved")
                /\ UNCHANGED <<tree, functions, unresolved, indexed, hnsw,
                               hollow, tasks, locals>>
           ELSE FailTask(j)
  BY DEF BulkInsertCallEdges
<1>2. \A c \in RawEdges(j) : c[1] \in functions
  BY RawEdgesArePairs
<1>3. \A n \in DOMAIN first : first[n] \in functions /\ first[n].name = n
  BY <1>1 DEF Callees
<1>4. \A e \in new(first) : e[1] \in functions /\ e[2] \in functions
  BY <1>2, <1>3
<1>5. /\ edges' = edges \cup new(first) /\ pc'[j] = "unresolved"
      /\ UNCHANGED <<tree, functions, locals>>
  BY <1>1, <1>4, <1>t DEF Goto
<1>6. ASSUME NEW r \in functions, NEW n \in CalledBy(r), NEW s \in functions,
             s.name = n
      PROVE  \E t \in functions : t.name = n /\ <<r, t>> \in edges'
  <2>1. <<r, n>> \in RawEdges(j)
    BY <1>6 DEF RawEdges
  <2>2. n \in Names /\ s \in Callees(j, n)
    BY <1>6 DEF CalledBy, Callees
  <2>3. n \in DOMAIN first
    BY <2>2
  <2>4. <<r, first[n]>> \in new(first)
    BY <2>1, <2>3
  <2>. QED BY <1>3, <1>5, <2>3, <2>4
<1>u. functions' = functions
  BY <1>5
<1>7. Resolved'
  BY <1>u, <1>6 DEF Resolved, CalledBy
<1>. QED BY <1>5, <1>7

\* So are its unresolved calls, and no call is left out: one that is not
\* listed has a single row of its name, hence an edge.
LEMMA UnresolvedAccounts ==
  ASSUME TypeOK, NEW j \in Jobs, Records(j) = functions, fmap[j] = functions,
         Resolved, BulkInsertUnresolvedEdges(j)
  PROVE  /\ CallsAccounted' /\ UNCHANGED <<tree, functions, edges>>
         /\ pc'[j] = IF kind[j] = "full" THEN "recreate" ELSE "snapshot"
<1> DEFINE new == {c \in RawEdges(j) : Cardinality(Callees(j, c[2])) # 1}
<1>t. pc \in [Jobs -> PCs]
  BY DEF TypeOK
<1>1. \A u \in new : u[1] \in functions
  BY RawEdgesArePairs
<1>2. /\ unresolved' = unresolved \cup new
      /\ pc'[j] = IF kind[j] = "full" THEN "recreate" ELSE "snapshot"
      /\ UNCHANGED <<tree, functions, edges>>
  BY <1>1, <1>t DEF BulkInsertUnresolvedEdges, Goto
<1>3. ASSUME NEW r \in functions, NEW n \in CalledBy(r)
      PROVE  \/ <<r, n>> \in unresolved'
             \/ \E s \in functions : s.name = n /\ <<r, s>> \in edges
  <2>1. <<r, n>> \in RawEdges(j)
    BY <1>3 DEF RawEdges
  <2>2. CASE Cardinality(Callees(j, n)) # 1
    BY <1>2, <2>1, <2>2
  <2>3. CASE Cardinality(Callees(j, n)) = 1
    <3>1. Callees(j, n) # {}
      <4>1. ASSUME Callees(j, n) = {} PROVE Cardinality(Callees(j, n)) = 0
        BY <4>1, FS_EmptySet, Zenon
      <4>2. 0 # 1
        OBVIOUS
      <4>. QED BY <2>3, <4>1, <4>2, Zenon
    <3>2. PICK s \in functions : s.name = n
      BY <3>1 DEF Callees
    <3>. QED BY <3>2 DEF Resolved
  <2>. QED BY <2>2, <2>3
<1>4. CallsAccounted'
  BY <1>2, <1>3 DEF CallsAccounted, CalledBy
<1>. QED BY <1>2, <1>4

\* The holder's own inserts.
LEMMA HolderInserts ==
  ASSUME TypeOK, NEW j \in Jobs, Holder(j), FullRun(j),
         BulkInsertCallEdges(j) \/ BulkInsertUnresolvedEdges(j)
  PROVE  Holder(j)' /\ pc'[j] \in {"unresolved", "recreate"}
<1>1. pc[j] \in {"edges", "unresolved"} /\ fmap[j] = functions
  BY DEF BulkInsertCallEdges, BulkInsertUnresolvedEdges, Holder
<1>2. Records(j) = functions
  BY <1>1, RecordsAll DEF FullRun, Holder, Stored
<1>3. UNCHANGED <<fs, functions>> => AllRows(j)' = AllRows(j)
  BY DEF AllRows, Present
<1>4. CASE BulkInsertCallEdges(j)
  BY <1>1, <1>2, <1>3, <1>4, EdgesResolve DEF Holder, Stored, tree, locals
<1>5. CASE BulkInsertUnresolvedEdges(j)
  <2>1. Resolved /\ kind[j] = "full"
    BY <1>5 DEF BulkInsertUnresolvedEdges, Holder, FullRun
  <2>. QED BY <1>1, <1>2, <1>3, <1>5, <2>1, UnresolvedAccounts
           DEF Holder, Stored, tree
<1>. QED BY <1>4, <1>5

\* The other steps of a run past its insert.
LEMMA HolderMovesOn ==
  ASSUME TypeOK, NEW j \in Jobs, Holder(j), FullRun(j),
         \/ GetFunctionMap(j) \/ RecreateHNSWIndex(j)
         \/ UpdateRepoIndexedFiles(j) \/ UpdateTaskStatus(j)
  PROVE  Holder(j)' /\ (pc[j] \in Mid => pc'[j] \in Mid \/ hnsw')
<1>t. pc \in [Jobs -> PCs] /\ fmap \in [Jobs -> SUBSET Rows]
  BY DEF TypeOK
<1>1. UNCHANGED <<fs, functions, edges, unresolved>>
  BY DEF GetFunctionMap, RecreateHNSWIndex, UpdateRepoIndexedFiles,
         UpdateTaskStatus, tree, index
<1>a. AllRows(j)' = AllRows(j)
  <2>1. fs' = fs
    BY <1>1
  <2>. QED BY <2>1 DEF AllRows, Present
<1>2. AllRows(j)' = AllRows(j) /\ (CallsAccounted => CallsAccounted')
  BY <1>1, <1>a DEF CallsAccounted, CalledBy
<1>3. CASE GetFunctionMap(j)
  <2>1. pc'[j] = "edges" /\ fmap'[j] = functions
    BY <1>t, <1>3 DEF GetFunctionMap, Goto
  <2>. QED BY <1>1, <1>2, <2>1 DEF Holder, Stored, Mid
<1>4. CASE RecreateHNSWIndex(j)
  <2>1. pc[j] = "recreate" /\ pc'[j] = "snapshot" /\ hnsw'
    BY <1>t, <1>4 DEF RecreateHNSWIndex, Goto
  <2>. QED BY <1>1, <1>2, <2>1 DEF Holder, Stored
<1>5. CASE UpdateRepoIndexedFiles(j)
  <2>1. pc[j] = "snapshot" /\ pc'[j] = "finish"
    BY <1>t, <1>5 DEF UpdateRepoIndexedFiles, Goto
  <2>. QED BY <1>1, <1>2, <2>1 DEF Holder, Mid
<1>6. CASE UpdateTaskStatus(j)
  <2>1. pc[j] = "finish" /\ pc'[j] = "ended"
    BY <1>t, <1>6 DEF UpdateTaskStatus, EndRun, Goto
  <2>. QED BY <1>1, <1>2, <2>1 DEF Holder, Mid
<1>. QED BY <1>3, <1>4, <1>5, <1>6

\* Where a run goes, and what it shows about itself.
LEMMA OwnFullRun ==
  ASSUME TypeOK, Undisturbed, NEW j \in Jobs, FullRun(j), Unparsed(j), RunStep(j)
  PROVE  FullRun(j)'
<1>t. /\ pc \in [Jobs -> PCs] /\ kind \in [Jobs -> {"full", "incremental"}]
      /\ todo \in [Jobs -> SUBSET Files] /\ parsed \in [Jobs -> [Files -> Times]]
      /\ status \in [Jobs -> {"none", "pending", "running", "completed",
                              "partial", "failed"}]
      /\ fs' = fs /\ kind' = kind /\ pc[j] \in Live
  BY OthersStay DEF TypeOK, Trees
<1>s. Present(fs)' = Present(fs) /\ Storable' = Storable
  BY <1>t DEF Present, Storable
<1>q. status[j] # "completed"
  BY <1>t DEF FullRun, Live
<1>k. kind'[j] = "full"
  BY <1>t DEF FullRun
<1>p. parsed' = parsed => Parsed(j)' = Parsed(j)
  BY DEF Parsed, Present
<1>1. CASE MovesOn(j)
  <2>1. /\ parsed' = parsed /\ status'[j] # "completed"
        /\ \/ pc'[j] \in {"read", "delete"}
           \/ pc[j] \in Stored /\ pc'[j] \in Stored
    BY <1>t, <1>q, <1>1 DEF MovesOn, Goto, Stored
  <2>. QED BY <1>s, <1>k, <1>p, <1>t, <2>1 DEF FullRun, Stored
<1>2. CASE Ends(j)
  <2>1. pc'[j] = "ended" /\ parsed'[j] = Empty
    BY <1>t, <1>2 DEF Ends, EndRun, Goto
  <2>2. Parsed(j)' = {}
    BY <2>1 DEF Parsed, Present, Empty
  <2>3. status'[j] = "completed" => Storable
    BY <1>t, <1>q, <1>2 DEF Ends, UpdateTaskStatus, FullRun
  <2>. QED BY <1>s, <1>k, <2>1, <2>2, <2>3 DEF FullRun, Stored
<1>3. CASE GetRepo(j) \/ DeleteFunctionsByRepo(j)
  <2>1. parsed' = parsed /\ status' = status /\ pc'[j] \in {"drop", "collect"}
    BY <1>t, <1>3 DEF GetRepo, DeleteFunctionsByRepo, Goto, tasks, locals
  <2>. QED BY <1>s, <1>k, <1>p, <1>q, <1>t, <2>1 DEF FullRun, Stored
<1>4. CASE CollectSourceFiles(j)
  <2>1. /\ parsed' = parsed /\ status' = status /\ pc'[j] = "parse"
        /\ todo'[j] = Present(fs) /\ pc[j] = "collect"
    BY <1>t, <1>4 DEF CollectSourceFiles, Goto, tasks, FullRun
  <2>2. Parsed(j) = {}
    BY <2>1 DEF Unparsed, Early, Parsed, Present, Empty
  <2>. QED BY <1>s, <1>k, <1>p, <1>q, <2>1, <2>2 DEF FullRun, Stored
<1>5. ~DeleteFunctionsByFiles(j)
  BY DEF DeleteFunctionsByFiles, FullRun
<1>6. ASSUME NEW f \in Files, ParseFile(j, f) PROVE FullRun(j)'
  <2>1. /\ pc' = pc /\ pc[j] = "parse" /\ status' = status /\ f \in todo[j]
        /\ todo'[j] = todo[j] \ {f}
    BY <1>t, <1>6 DEF ParseFile, tasks
  <2>2. f \in Present(fs) /\ fs[f] # 0
    BY <2>1 DEF FullRun, Present
  <2>3. parsed' = [parsed EXCEPT ![j][f] = fs[f]]
    BY <1>6, <2>2 DEF ParseFile, Undisturbed
  <2>4. Parsed(j)' = Parsed(j) \cup {f}
    BY <1>t, <2>2, <2>3 DEF Parsed, Present
  <2>5. \A g \in Parsed(j)' : parsed'[j][g] = fs[g]
    BY <1>t, <2>3, <2>4 DEF FullRun, Parsed, Present
  <2>. QED BY <1>s, <1>k, <1>q, <1>t, <2>1, <2>2, <2>4, <2>5 DEF FullRun, Stored
<1>7. CASE BulkInsertFunctions(j) /\ ~FailTask(j)
  <2>1. /\ pc[j] = "parse" /\ todo[j] = {} /\ Unique(j) /\ pc'[j] = "map"
        /\ parsed' = parsed /\ status' = status
    BY <1>7, <1>t DEF BulkInsertFunctions, Goto, tasks, locals
  <2>2. Parsed(j) = Present(fs)
    BY <2>1 DEF FullRun
  <2>3. Storable
    BY <2>1, <2>2 DEF Unique, Text, FullRun, Storable
  <2>. QED BY <1>s, <1>k, <1>p, <1>q, <1>t, <2>1, <2>2, <2>3 DEF FullRun, Stored
<1>8. CASE UpdateRepoIndexedFiles(j)
  <2>1. /\ pc[j] = "snapshot" /\ pc'[j] = "finish" /\ parsed' = parsed
        /\ status' = status
    BY <1>8, <1>t DEF UpdateRepoIndexedFiles, Goto, tasks, locals
  <2>. QED BY <1>s, <1>k, <1>p, <1>q, <1>t, <2>1 DEF FullRun, Stored
<1>. QED BY <1>1, <1>2, <1>3, <1>4, <1>5, <1>6, <1>7, <1>8, StepOfRun

LEMMA OwnUnparsed ==
  ASSUME TypeOK, NEW j \in Jobs, Unparsed(j), RunStep(j) PROVE Unparsed(j)'
<1>t. pc \in [Jobs -> PCs]
  BY DEF TypeOK
<1>1. CASE MovesOn(j)
  BY <1>t, <1>1 DEF MovesOn, Goto, Unparsed, Early, Empty
<1>2. CASE Ends(j)
  BY <1>t, <1>2 DEF Ends, EndRun, Goto, Unparsed, Early
<1>3. ASSUME parsed' = parsed, pc[j] \in Early PROVE Unparsed(j)'
  BY <1>3 DEF Unparsed, Empty
<1>4. CASE GetRepo(j) \/ CollectSourceFiles(j)
  BY <1>3, <1>4 DEF GetRepo, CollectSourceFiles, Early
<1>5. CASE DeleteFunctionsByRepo(j) \/ DeleteFunctionsByFiles(j)
  BY <1>3, <1>5 DEF DeleteFunctionsByRepo, DeleteFunctionsByFiles, Early, locals
<1>6. CASE \E f \in Files : ParseFile(j, f)
  BY <1>6 DEF ParseFile, Unparsed, Early
<1>7. CASE BulkInsertFunctions(j) /\ ~FailTask(j)
  BY <1>t, <1>7 DEF BulkInsertFunctions, Goto, Unparsed, Early
<1>8. CASE UpdateRepoIndexedFiles(j)
  BY <1>t, <1>8 DEF UpdateRepoIndexedFiles, Goto, Unparsed, Early
<1>. QED BY <1>1, <1>2, <1>4, <1>5, <1>6, <1>7, <1>8, StepOfRun

\* The insert of a run either makes it the holder or leaves the one there is.
LEMMA InsertKeepsCore ==
  ASSUME TypeOK, Core, NEW j \in Jobs, FullRun(j), BulkInsertFunctions(j),
         \A k \in Jobs \ {j} : pc'[k] = pc[k] /\ fmap'[k] = fmap[k]
  PROVE  Core'
<1>1. /\ pc \in [Jobs -> PCs] /\ pc[j] = "parse" /\ Parsed(j) = Present(fs)
      /\ UNCHANGED <<fs, edges, unresolved, hnsw>>
  BY DEF TypeOK, BulkInsertFunctions, FailTask, FullRun, tree, index
<1>a. \A k \in Jobs : AllRows(k)' = AllRows(k)
  <2>1. fs' = fs
    BY <1>1
  <2>. QED BY <2>1 DEF AllRows, Present
<1>s. Storable' = Storable
  BY <1>1 DEF Storable, Present
<1>2. CASE Unique(j)
  <2>1. functions' = functions \cup Records(j) /\ pc'[j] = "map"
    BY <1>1, <1>2 DEF BulkInsertFunctions, Goto
  <2>2. functions = {}
    BY <1>1, <1>2, RecordsAll, SecondCollides DEF Core, Holder
  <2>3. functions' = AllRows(j)
    BY <1>1, <2>1, <2>2, RecordsAll
  <2>4. Holder(j)'
    BY <1>a, <2>1, <2>3 DEF Holder, Stored
  <2>. QED BY <2>1, <2>4 DEF Core, Mid
<1>3. CASE ~Unique(j)
  <2>1. functions' = functions /\ pc'[j] = "ended"
    BY <1>1, <1>3 DEF BulkInsertFunctions, FailTask, EndRun, Goto, index
  <2>2. functions # {} \/ ~Storable
    BY <1>1, <1>3, FirstFits
  <2>3. ASSUME NEW k \in Jobs, Holder(k) PROVE Holder(k)' /\ pc'[k] = pc[k]
    <3>1. k # j
      BY <1>1, <2>3 DEF Holder, Stored
    <3>. QED BY <1>1, <2>1, <2>3, <3>1, HolderStays
  <2>4. CASE functions = {}
    BY <1>s, <2>1, <2>2, <2>4 DEF Core
  <2>5. CASE functions # {}
    <3>1. \E k \in Jobs : Holder(k)'
      BY <2>3, <2>5 DEF Core
    <3>2. ASSUME Storable, ~hnsw
          PROVE  \/ \E k \in Jobs : pc'[k] = "delete"
                 \/ \E k \in Jobs : Holder(k)' /\ pc'[k] \in Mid
      <4>1. CASE \E k \in Jobs : pc[k] = "delete"
        BY <1>1, <4>1
      <4>2. CASE \E k \in Jobs : Holder(k) /\ pc[k] \in Mid
        BY <2>3, <4>2
      <4>. QED BY <2>5, <3>2, <4>1, <4>2 DEF Core, Building
    <3>. QED BY <1>1, <1>s, <3>1, <3>2 DEF Core
  <2>. QED BY <2>4, <2>5
<1>. QED BY <1>2, <1>3

LEMMA RunKeepsCore ==
  ASSUME TypeOK, Core, NEW j \in Jobs, FullRun(j), RunStep(j) PROVE Core'
<1>t. pc \in [Jobs -> PCs] /\ fs' = fs /\ hnsw \in BOOLEAN
  BY OthersStay DEF TypeOK
<1>o. \A k \in Jobs \ {j} : pc'[k] = pc[k] /\ fmap'[k] = fmap[k]
  BY OthersStay
<1> DEFINE Way == {"collect", "parse"}
<1>c. ASSUME functions' = functions, edges \subseteq edges',
             unresolved \subseteq unresolved',
             Holder(j) =>
               Holder(j)' /\ (pc[j] \in Mid => pc'[j] \in Mid \/ hnsw'),
             pc[j] \in AtFront => pc'[j] \in AtFront,
             pc[j] \in Way => pc'[j] \in Way,
             pc[j] # "delete", hnsw => hnsw' \/ pc'[j] = "delete"
      PROVE  Core'
  <2>1. \A k \in Jobs : Holder(k) =>
          Holder(k)' /\ (pc[k] \in Mid => pc'[k] \in Mid \/ hnsw')
    <3> SUFFICES ASSUME NEW k \in Jobs \ {j}, Holder(k)
                 PROVE  Holder(k)' /\ pc'[k] = pc[k]
      BY <1>c
    <3>. QED BY <1>t, <1>o, <1>c, HolderStays
  <2>2. Untouched => Untouched'
    BY <1>o, <1>c DEF Untouched
  <2>3. \A k \in Jobs : pc[k] \in Way => pc'[k] \in Way
    BY <1>o, <1>c
  <2>4. \A k \in Jobs : pc[k] = "delete" => pc'[k] = "delete"
    BY <1>o, <1>c
  <2>. QED BY <1>t, <1>c, <2>1, <2>2, <2>3, <2>4, CoreStays
<1>1. CASE UpdateTaskStarted(j) \/ GetRepo(j) \/ DropHNSWIndex(j)
  <2>1. /\ UNCHANGED <<functions, edges, unresolved>>
        /\ pc[j] \in {"start", "read", "drop"}
        /\ pc'[j] \in {"read", "drop", "delete"}
        /\ hnsw => hnsw' \/ pc'[j] = "delete"
    BY <1>t, <1>1 DEF UpdateTaskStarted, GetRepo, DropHNSWIndex, Goto, index,
                      FullRun
  <2>2. ~Holder(j)
    BY <2>1 DEF Holder, Stored
  <2>. QED BY <1>c, <2>1, <2>2 DEF AtFront
<1>2. CASE CollectSourceFiles(j) \/ \E f \in Files : ParseFile(j, f)
  <2>1. /\ UNCHANGED <<functions, edges, unresolved, hnsw>>
        /\ pc[j] \in Way /\ pc'[j] \in Way
    BY <1>t, <1>2 DEF CollectSourceFiles, ParseFile, Goto, index, FullRun
  <2>2. ~Holder(j)
    BY <2>1 DEF Holder, Stored
  <2>. QED BY <1>c, <2>1, <2>2 DEF AtFront
<1>3. CASE DeleteFunctionsByRepo(j)
  <2>1. functions' = {} /\ pc'[j] = "collect"
    BY <1>t, <1>3 DEF DeleteFunctionsByRepo, DeleteRows, Goto
  <2>. QED BY <2>1 DEF Core, Building
<1>4. ~DeleteFunctionsByFiles(j)
  BY DEF DeleteFunctionsByFiles, FullRun
<1>5. CASE BulkInsertFunctions(j)
  BY <1>5, <1>o, InsertKeepsCore
<1>6. CASE \/ GetFunctionMap(j) \/ RecreateHNSWIndex(j)
           \/ UpdateRepoIndexedFiles(j) \/ UpdateTaskStatus(j)
  <2>1. /\ UNCHANGED <<functions, edges, unresolved>> /\ (hnsw => hnsw')
        /\ pc[j] \in {"map", "recreate", "snapshot", "finish"}
    BY <1>6 DEF GetFunctionMap, RecreateHNSWIndex, UpdateRepoIndexedFiles,
                UpdateTaskStatus, index
  <2>2. Holder(j) => Holder(j)' /\ (pc[j] \in Mid => pc'[j] \in Mid \/ hnsw')
    BY <1>6, HolderMovesOn
  <2>. QED BY <1>c, <2>1, <2>2 DEF AtFront
<1>7. CASE BulkInsertCallEdges(j)
  <2>1. /\ UNCHANGED <<functions, unresolved, hnsw>> /\ edges \subseteq edges'
        /\ pc[j] = "edges"
    BY <1>7 DEF BulkInsertCallEdges, FailTask, index
  <2>2. Holder(j) => Holder(j)' /\ (pc[j] \in Mid => pc'[j] \in Mid \/ hnsw')
    BY <1>7, HolderInserts DEF Mid
  <2>. QED BY <1>c, <2>1, <2>2 DEF AtFront
<1>8. CASE BulkInsertUnresolvedEdges(j)
  <2>1. /\ UNCHANGED <<functions, edges, hnsw>> /\ unresolved \subseteq unresolved'
        /\ pc[j] = "unresolved"
    BY <1>8 DEF BulkInsertUnresolvedEdges, FailTask, index
  <2>2. Holder(j) => Holder(j)' /\ (pc[j] \in Mid => pc'[j] \in Mid \/ hnsw')
    BY <1>8, HolderInserts DEF Mid
  <2>. QED BY <1>c, <2>1, <2>2 DEF AtFront
<1>. QED BY <1>1, <1>2, <1>3, <1>4, <1>5, <1>6, <1>7, <1>8 DEF RunStep

LEMMA RequestKeepsOverlap ==
  ASSUME TypeOK, Undisturbed, OverlapInv, NEW j \in Jobs,
         Admit(j) \/ \E k \in Kinds : ChooseType(j, k)
  PROVE  OverlapInv'
<1>1. /\ pc \in [Jobs -> PCs] /\ kind \in [Jobs -> {"full", "incremental"}]
      /\ status \in [Jobs -> {"none", "pending", "running", "completed",
                              "partial", "failed"}]
  BY DEF TypeOK
<1>2. /\ UNCHANGED <<fs, functions, edges, unresolved, hnsw, todo, parsed, fmap>>
      /\ pc[j] \in {"idle", "chosen"} /\ pc'[j] \in {"chosen", "start"}
      /\ status'[j] = "completed" => status[j] = "completed" /\ UNCHANGED status
      /\ kind'[j] = "full"
      /\ \A i \in Jobs \ {j} : /\ pc'[i] = pc[i] /\ status'[i] = status[i]
                               /\ kind'[i] = kind[i]
  <2>1. CASE Admit(j)
    BY <1>1, <2>1 DEF Admit, Goto, tree, index, locals, OverlapInv, FullRun
  <2>2. CASE \E k \in Kinds : ChooseType(j, k)
    BY <1>1, <2>2 DEF ChooseType, Undisturbed, Goto, tree, index, locals
  <2>. QED BY <2>1, <2>2
<1>3. status[j] # "completed"
  BY <1>2 DEF OverlapInv, FullRun
<1>5. Core'
  <2>1. \A i \in Jobs : Holder(i) => Holder(i)' /\ pc'[i] = pc[i]
    <3> SUFFICES ASSUME NEW i \in Jobs, Holder(i) PROVE Holder(i)' /\ pc'[i] = pc[i]
      OBVIOUS
    <3>1. i # j
      BY <1>2 DEF Holder, Stored
    <3>. QED BY <1>2, <3>1, HolderStays
  <2>2. Untouched => Untouched'
    BY <1>2 DEF Untouched, AtFront
  <2>3. \A i \in Jobs : pc[i] \notin {"idle", "chosen"} => pc'[i] = pc[i]
    BY <1>2
  <2>. QED BY <1>2, <2>1, <2>2, <2>3, CoreStays DEF OverlapInv
<1>6. ASSUME NEW i \in Jobs PROVE FullRun(i)' /\ Unparsed(i)'
  <2>1. FullRun(i) /\ Unparsed(i)
    BY DEF OverlapInv
  <2>2. /\ Present(fs)' = Present(fs) /\ Storable' = Storable
        /\ Parsed(i)' = Parsed(i)
    BY <1>2 DEF Present, Storable, Parsed
  <2>3. \/ pc'[i] = pc[i]
        \/ pc'[i] \in {"chosen", "start"} /\ pc[i] \in {"idle", "chosen"}
    BY <1>2
  <2>4. /\ kind'[i] = "full"
        /\ status'[i] = "completed" => status[i] = "completed" /\ pc'[i] = pc[i]
    BY <1>2, <1>3, <2>1 DEF FullRun
  <2>. QED BY <1>2, <2>1, <2>2, <2>3, <2>4
           DEF FullRun, Unparsed, Early, Stored, Empty
<1>. QED BY <1>5, <1>6 DEF OverlapInv

LEMMA InitOverlapInv == Init => OverlapInv
<1> SUFFICES ASSUME Init PROVE OverlapInv
  OBVIOUS
<1>1. Core
  BY DEF Init, Core, Untouched, AtFront
<1>2. ASSUME NEW j \in Jobs PROVE FullRun(j) /\ Unparsed(j)
  <2>1. Parsed(j) = {}
    BY DEF Init, Parsed, Present, Empty
  <2>. QED BY <2>1 DEF Init, FullRun, Unparsed, Stored
<1>. QED BY <1>1, <1>2 DEF OverlapInv

LEMMA NextOverlapInv ==
  ASSUME Undisturbed, TypeOK, OverlapInv, [Next]_vars PROVE OverlapInv'
<1>1. ASSUME NEW f \in Files PROVE ~Write(f) /\ ~Remove(f)
  <2>1. ~(clock < MaxWrites)
    BY DEF TypeOK, Undisturbed
  <2>. QED BY <2>1 DEF Write, Remove
<1>2. ASSUME NEW j \in Jobs, Admit(j) \/ \E k \in Kinds : ChooseType(j, k)
      PROVE  OverlapInv'
  BY <1>2, RequestKeepsOverlap
<1>3. ASSUME NEW j \in Jobs PROVE ~StatementFails(j) /\ ~Crash(j)
  BY DEF Undisturbed, StatementFails, Crash
<1>4. ASSUME NEW j \in Jobs, RunStep(j) PROVE OverlapInv'
  <2>1. Core' /\ FullRun(j)' /\ Unparsed(j)'
    BY <1>4, RunKeepsCore, OwnFullRun, OwnUnparsed DEF OverlapInv
  <2>2. ASSUME NEW i \in Jobs \ {j} PROVE FullRun(i)' /\ Unparsed(i)'
    <3>1. /\ UNCHANGED <<fs, kind>>
          /\ pc'[i] = pc[i] /\ status'[i] = status[i] /\ todo'[i] = todo[i]
          /\ parsed'[i] = parsed[i]
      BY <1>4, OthersStay
    <3>2. /\ Present(fs)' = Present(fs) /\ Storable' = Storable
          /\ Parsed(i)' = Parsed(i)
      BY <3>1 DEF Present, Storable, Parsed
    <3>. QED BY <3>1, <3>2 DEF OverlapInv, FullRun, Unparsed, Empty
  <2>. QED BY <2>1, <2>2 DEF OverlapInv
<1>5. CASE UNCHANGED vars
  <2>1. UNCHANGED <<fs, functions, edges, unresolved, hnsw, status, kind, pc,
                    todo, parsed, fmap>>
    BY <1>5 DEF vars, tree, index, tasks, locals
  <2>2. Core'
    <3>1. \A j \in Jobs : Holder(j) => Holder(j)'
      BY <2>1, HolderStays
    <3>2. Untouched => Untouched'
      BY <2>1 DEF Untouched
    <3>. QED BY <2>1, <3>1, <3>2, CoreStays DEF OverlapInv
  <2>3. ASSUME NEW j \in Jobs PROVE FullRun(j)' /\ Unparsed(j)'
    <3>1. /\ Present(fs)' = Present(fs) /\ Storable' = Storable
          /\ Parsed(j)' = Parsed(j)
      BY <2>1 DEF Present, Storable, Parsed
    <3>. QED BY <2>1, <3>1 DEF OverlapInv, FullRun, Unparsed, Empty
  <2>. QED BY <2>2, <2>3 DEF OverlapInv
<1>. QED BY <1>1, <1>2, <1>3, <1>4, <1>5 DEF Next

\* However full runs overlap, the index is the complete index of the tree once
\* they have ended and one of them completed: the unique constraint lets one
\* insert through after each DELETE, and nothing later can take the rows of
\* that run or the HNSW index away without another run bringing them back.
THEOREM OverlapsHarmless == ASSUME Undisturbed PROVE Spec => []OverlapHarmless
<1>1. OverlapInv => OverlapHarmless
  <2> SUFFICES ASSUME OverlapInv, ~Busy, NEW c \in Jobs, status[c] = "completed"
               PROVE  /\ hnsw
                      /\ \A f \in Files :
                           {r.name : r \in RowsOf(f)} =
                             IF fs[f] = 0 THEN {} ELSE Defined(Source[f][fs[f]])
                      /\ CallsAccounted
    BY DEF OverlapHarmless
  <2>1. \A j \in Jobs : pc[j] \notin Live
    BY DEF Busy
  <2>2. Storable /\ pc[c] = "ended"
    BY DEF OverlapInv, FullRun
  <2>3. ~Untouched /\ ~Building
    BY <2>1, <2>2 DEF Untouched, AtFront, Building, Live
  <2>4. PICK e \in Jobs : Holder(e)
    BY <2>2, <2>3 DEF OverlapInv, Core
  <2>5. functions = AllRows(e) /\ CallsAccounted
    BY <2>1, <2>4 DEF Holder, Live, Stored
  <2>6. hnsw
    BY <2>1, <2>2, <2>3 DEF OverlapInv, Core, Mid, Live
  <2>7. ASSUME NEW f \in Files
        PROVE  {r.name : r \in RowsOf(f)} =
                 IF fs[f] = 0 THEN {} ELSE Defined(Source[f][fs[f]])
    <3>1. \A r \in RowsOf(f) : /\ fs[f] # 0
                               /\ r.name \in Defined(Source[f][fs[f]])
      <4> SUFFICES ASSUME NEW r \in RowsOf(f)
                   PROVE  fs[f] # 0 /\ r.name \in Defined(Source[f][fs[f]])
        OBVIOUS
      <4>1. PICK g \in Present(fs) : \E n \in Defined(Source[g][fs[g]]) :
              r = [job |-> e, file |-> g, name |-> n, ver |-> fs[g]]
        BY <2>5 DEF AllRows, RowsOf
      <4>. QED BY <4>1 DEF RowsOf, Present
    <3>2. ASSUME NEW n \in Defined(Source[f][fs[f]]), fs[f] # 0
          PROVE  \E r \in RowsOf(f) : r.name = n
      <4> DEFINE r == [job |-> e, file |-> f, name |-> n, ver |-> fs[f]]
      <4> DEFINE rows(g) ==
            {[job |-> e, file |-> g, name |-> m, ver |-> fs[g]] :
               m \in Defined(Source[g][fs[g]])}
      <4>1. r \in rows(f) /\ f \in Present(fs)
        BY <3>2 DEF Present
      <4>2. functions = UNION {rows(g) : g \in Present(fs)}
        BY <2>5 DEF AllRows
      <4>3. r \in functions
        <5> HIDE DEF r, rows
        <5>. QED BY <4>1, <4>2
      <4>. QED BY <4>3 DEF RowsOf
    <3>3. CASE fs[f] = 0
      <4>1. RowsOf(f) = {}
        BY <3>1, <3>3
      <4>. QED BY <3>3, <4>1
    <3>4. CASE fs[f] # 0
      <4>1. {r.name : r \in RowsOf(f)} = Defined(Source[f][fs[f]])
        BY <3>1, <3>2, <3>4
      <4>. QED BY <3>4, <4>1
    <3>. QED BY <3>3, <3>4
  <2>. QED BY <2>5, <2>6, <2>7
<1>. QED BY <1>1, TypeCorrect, InitOverlapInv, NextOverlapInv, PTL DEF Spec

-----------------------------------------------------------------------------
(* Full runs drop no call.                                                   *)

\* From its insert on the stored rows are those of the run, what its names
\* resolve to are these rows, and its calls are accounted for once both inserts
\* of calls are done.
Accounts(j) ==
  /\ pc[j] \in {"map", "edges", "unresolved"} => functions = Records(j)
  /\ pc[j] \in {"edges", "unresolved"} => fmap[j] = functions
  /\ pc[j] = "unresolved" => Resolved
  /\ pc[j] \in {"recreate", "snapshot", "finish"} => CallsAccounted
AccountInv ==
  /\ EveryCallAccounted
  /\ \A j \in Jobs : /\ kind[j] = "full" /\ Accounts(j) /\ Marked(j)
                     /\ pc[j] \in Live => latest = j

LEMMA SameAccounts ==
  ASSUME NEW j \in Jobs, Accounts(j), UNCHANGED <<functions, edges, unresolved>>,
         pc'[j] = pc[j], parsed'[j] = parsed[j], fmap'[j] = fmap[j]
  PROVE  Accounts(j)'
<1>1. Records(j)' = Records(j)
  BY DEF Records, Parsed, Present, Text
<1>2. (Resolved => Resolved') /\ (CallsAccounted => CallsAccounted')
  BY DEF Resolved, CallsAccounted, CalledBy
<1>. QED BY <1>1, <1>2 DEF Accounts

LEMMA OwnStepAccounts ==
  ASSUME TypeOK, InTurn, NEW j \in Jobs, kind[j] = "full", Accounts(j),
         RunStep(j) \/ StatementFails(j) \/ Crash(j)
  PROVE  Accounts(j)' /\ (UpdateTaskStatus(j) => CallsAccounted')
<1>t. /\ pc \in [Jobs -> PCs] /\ parsed \in [Jobs -> Trees]
      /\ fmap \in [Jobs -> SUBSET Rows]
  BY DEF TypeOK
<1>1. ASSUME pc'[j] \in {"read", "drop", "delete", "collect", "parse", "ended"}
      PROVE  Accounts(j)'
  BY <1>1 DEF Accounts
<1>2. CASE \/ UpdateTaskStarted(j) \/ GetRepo(j) \/ DropHNSWIndex(j)
           \/ DeleteFunctionsByRepo(j) \/ CollectSourceFiles(j)
           \/ DeleteFunctionsByFiles(j) \/ \E f \in Files : ParseFile(j, f)
  BY <1>t, <1>1, <1>2 DEF UpdateTaskStarted, GetRepo, DropHNSWIndex,
     DeleteFunctionsByRepo, CollectSourceFiles, DeleteFunctionsByFiles, ParseFile,
     UpdateTaskStatus, Goto
<1>3. CASE Ends(j)
  <2>1. pc'[j] = "ended"
    BY <1>t, <1>3 DEF Ends, EndRun, Goto
  <2>2. ASSUME UpdateTaskStatus(j) PROVE CallsAccounted'
    <3>1. CallsAccounted /\ UNCHANGED <<functions, edges, unresolved>>
      BY <2>2 DEF UpdateTaskStatus, Accounts, index
    <3>. QED BY <3>1 DEF CallsAccounted, CalledBy
  <2>. QED BY <1>1, <2>1, <2>2
<1>4. CASE BulkInsertFunctions(j) /\ ~FailTask(j)
  <2>1. functions' = functions \cup Records(j) /\ pc'[j] = "map" /\ parsed' = parsed
    BY <1>t, <1>4 DEF BulkInsertFunctions, Goto, locals
  <2>2. functions = {}
    BY <1>4 DEF BulkInsertFunctions, InTurn, Cleared, ClearedFull
  <2>3. Records(j)' = Records(j)
    BY <2>1 DEF Records, Parsed, Present, Text
  <2>. QED BY <1>4, <2>1, <2>2, <2>3 DEF Accounts, BulkInsertFunctions,
                                         UpdateTaskStatus
<1>5. CASE GetFunctionMap(j)
  <2>1. /\ UNCHANGED <<functions, parsed>> /\ pc[j] = "map"
        /\ pc'[j] = "edges" /\ fmap'[j] = functions
    BY <1>t, <1>5 DEF GetFunctionMap, Goto, index
  <2>2. Records(j)' = Records(j)
    BY <2>1 DEF Records, Parsed, Present, Text
  <2>. QED BY <2>1, <2>2 DEF Accounts, UpdateTaskStatus
<1>6. CASE BulkInsertCallEdges(j)
  <2>1. pc[j] = "edges" /\ Records(j) = functions /\ fmap[j] = functions
    BY <1>6 DEF BulkInsertCallEdges, Accounts
  <2>2. /\ Resolved' /\ pc'[j] = "unresolved"
        /\ UNCHANGED <<functions, parsed, fmap>>
    BY <1>6, <2>1, EdgesResolve DEF locals
  <2>3. Records(j)' = Records(j)
    BY <2>2 DEF Records, Parsed, Present, Text
  <2>. QED BY <2>1, <2>2, <2>3 DEF Accounts, UpdateTaskStatus
<1>7. CASE BulkInsertUnresolvedEdges(j)
  <2>1. /\ pc[j] = "unresolved" /\ Records(j) = functions /\ fmap[j] = functions
        /\ Resolved
    BY <1>7 DEF BulkInsertUnresolvedEdges, Accounts
  <2>2. CallsAccounted' /\ pc'[j] = "recreate"
    BY <1>7, <2>1, UnresolvedAccounts
  <2>. QED BY <2>1, <2>2 DEF Accounts, UpdateTaskStatus
<1>8. CASE RecreateHNSWIndex(j) \/ UpdateRepoIndexedFiles(j)
  <2>1. /\ CallsAccounted /\ UNCHANGED <<functions, edges, unresolved>>
        /\ pc[j] # "finish" /\ pc'[j] \in {"snapshot", "finish"}
    BY <1>t, <1>8 DEF RecreateHNSWIndex, UpdateRepoIndexedFiles, Goto, Accounts
  <2>2. CallsAccounted'
    BY <2>1 DEF CallsAccounted, CalledBy
  <2>. QED BY <2>1, <2>2 DEF Accounts, UpdateTaskStatus
<1>9. UpdateTaskStatus(j) \/ StatementFails(j) \/ Crash(j) \/ FailTask(j) => Ends(j)
  BY DEF UpdateTaskStatus, StatementFails, Crash, FailTask, Ends, tree, tasks
<1>. QED BY <1>2, <1>3, <1>4, <1>5, <1>6, <1>7, <1>8, <1>9 DEF RunStep

\* A run completes with its last statement only.
LEMMA CompletesLast ==
  ASSUME TypeOK, NEW j \in Jobs, Marked(j), status'[j] = "completed",
         RunStep(j) \/ StatementFails(j) \/ Crash(j)
  PROVE  UpdateTaskStatus(j)
<1>t. /\ status[j] \in {"pending", "running"}
      /\ status \in [Jobs -> {"none", "pending", "running", "completed",
                              "partial", "failed"}]
  BY OthersStay DEF Marked, TypeOK
<1>1. status' # status
  BY <1>t
<1>2. ~MovesOn(j) /\ (Ends(j) => UpdateTaskStatus(j))
  BY <1>t, <1>1 DEF MovesOn, Ends
<1>3. /\ ~GetRepo(j) /\ ~DeleteFunctionsByRepo(j) /\ ~CollectSourceFiles(j)
      /\ ~DeleteFunctionsByFiles(j) /\ ~(\E f \in Files : ParseFile(j, f))
      /\ ~(BulkInsertFunctions(j) /\ ~FailTask(j)) /\ ~UpdateRepoIndexedFiles(j)
  BY <1>1 DEF GetRepo, DeleteFunctionsByRepo, CollectSourceFiles,
     DeleteFunctionsByFiles, ParseFile, BulkInsertFunctions,
     UpdateRepoIndexedFiles, tasks
<1>. QED BY <1>2, <1>3, StepOfRun

LEMMA RunKeepsAccounts ==
  ASSUME TypeOK, InTurn, AccountInv, NEW j \in Jobs,
         RunStep(j) \/ StatementFails(j) \/ Crash(j)
  PROVE  AccountInv'
<1>1. /\ pc[j] \in Live /\ latest = j /\ UNCHANGED <<latest, kind>>
      /\ Marked(j) /\ Accounts(j) /\ kind[j] = "full"
  BY OthersStay DEF AccountInv
<1>2. \A k \in Jobs \ {j} : /\ pc'[k] = pc[k] /\ status'[k] = status[k]
                            /\ pc[k] \notin Live
  BY <1>1, OthersStay DEF InTurn, Alone
<1>3. Accounts(j)' /\ Marked(j)' /\ (UpdateTaskStatus(j) => CallsAccounted')
  BY <1>1, OwnStepAccounts, OwnStepMarks
<1>4. \A k \in Jobs \ {j} : Accounts(k)' /\ Marked(k)'
  BY <1>2 DEF AccountInv, Accounts, Marked, Live
<1>5. EveryCallAccounted'
  <2> SUFFICES ASSUME Settled' PROVE CallsAccounted'
    BY DEF EveryCallAccounted
  <2>1. status'[j] = "completed"
    BY <1>1 DEF Settled
  <2>. QED BY <1>1, <1>3, <2>1, CompletesLast
<1>6. ASSUME NEW k \in Jobs
      PROVE  /\ kind'[k] = "full" /\ Accounts(k)' /\ Marked(k)'
             /\ pc'[k] \in Live => latest' = k
  BY <1>1, <1>2, <1>3, <1>4 DEF AccountInv
<1>. QED BY <1>5, <1>6 DEF AccountInv

\* Full runs that follow each other drop no call, whatever fails, dies or is
\* edited between any two of their statements: what run_calls shows of an
\* incremental run needs the rows an incremental run does not replace.
THEOREM FullRunsAccount ==
  ASSUME ~Overlap, Kinds \subseteq {"full"} PROVE Spec => []EveryCallAccounted
<1>1. Init => AccountInv
  BY DEF Init, AccountInv, EveryCallAccounted, Settled, Accounts, Marked, Live
<1>2. ASSUME IInv, AccountInv, [Next]_vars PROVE AccountInv'
  <2>i. TypeOK /\ InTurn
    BY <1>2 DEF IInv
  <2>1. ASSUME UNCHANGED <<index, tasks, pc, locals>> PROVE AccountInv'
    <3>1. \A j \in Jobs : Accounts(j)'
      BY <1>2, <2>1, SameAccounts DEF AccountInv, index, locals
    <3>2. EveryCallAccounted'
      BY <1>2, <2>1 DEF AccountInv, EveryCallAccounted, Settled, Busy,
                        CallsAccounted, CalledBy, index, tasks
    <3>. QED BY <1>2, <2>1, <3>1, <3>2 DEF AccountInv, Marked, tasks
  <2>2. ASSUME NEW f \in Files, Write(f) \/ Remove(f) PROVE AccountInv'
    BY <2>1, <2>2 DEF Write, Remove
  <2>6. ASSUME NEW j \in Jobs, NEW k \in Kinds, ChooseType(j, k)
        PROVE  AccountInv'
    <3>1. /\ k = "full" /\ pc[j] = "idle"
          /\ pc' = [pc EXCEPT ![j] = "chosen"]
          /\ kind' = [kind EXCEPT ![j] = "full"]
          /\ UNCHANGED <<functions, edges, unresolved, latest, status, locals>>
      BY <2>6 DEF ChooseType, Goto, index
    <3>2. /\ pc'[j] = "chosen" /\ kind'[j] = "full"
          /\ \A i \in Jobs \ {j} : pc'[i] = pc[i] /\ kind'[i] = kind[i]
      BY <2>i, <3>1 DEF TypeOK
    <3>3. Accounts(j)' /\ \A i \in Jobs : Marked(i)'
      BY <1>2, <3>1, <3>2 DEF AccountInv, Accounts, Marked, Live
    <3>4. \A i \in Jobs \ {j} : Accounts(i)'
      BY <1>2, <3>1, <3>2, SameAccounts DEF AccountInv, locals
    <3>5. EveryCallAccounted'
      <4> SUFFICES ASSUME Settled' PROVE CallsAccounted'
        BY DEF EveryCallAccounted
      <4>1. Settled
        BY <3>1, <3>2 DEF Settled, Busy, Live
      <4>. QED BY <1>2, <3>1, <4>1
               DEF AccountInv, EveryCallAccounted, CallsAccounted, CalledBy
    <3>. QED BY <1>2, <3>1, <3>2, <3>3, <3>4, <3>5 DEF AccountInv, Live
  <2>3. ASSUME NEW j \in Jobs, Admit(j) PROVE AccountInv'
    <3>1. /\ pc' = [pc EXCEPT ![j] = "start"] /\ latest' = j
          /\ status' = [status EXCEPT ![j] = "pending"]
          /\ \A i \in Jobs : pc[i] \notin Live
          /\ UNCHANGED <<functions, edges, unresolved, kind, locals>>
      BY <2>3 DEF Admit, Busy, Goto, index
    <3>2. /\ pc'[j] = "start" /\ status'[j] = "pending"
          /\ \A i \in Jobs \ {j} : pc'[i] = pc[i] /\ status'[i] = status[i]
      BY <2>i, <3>1 DEF TypeOK
    <3>3. \A i \in Jobs : Accounts(i)' /\ Marked(i)'
      BY <1>2, <3>1, <3>2 DEF AccountInv, Accounts, Marked, Live
    <3>4. EveryCallAccounted'
      BY <3>2 DEF EveryCallAccounted, Settled, Busy, Live
    <3>. QED BY <1>2, <3>1, <3>2, <3>3, <3>4 DEF AccountInv
  <2>4. ASSUME NEW j \in Jobs, RunStep(j) \/ StatementFails(j) \/ Crash(j)
        PROVE  AccountInv'
    BY <1>2, <2>i, <2>4, RunKeepsAccounts
  <2>5. CASE UNCHANGED vars
    BY <2>1, <2>5 DEF vars
  <2>. QED BY <1>2, <2>2, <2>3, <2>4, <2>5, <2>6 DEF Next
<1>3. AccountInv => EveryCallAccounted
  BY DEF AccountInv
<1>. QED BY <1>1, <1>2, <1>3, InitIInv, NextIInv, PTL DEF Spec
=============================================================================
