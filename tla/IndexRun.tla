------------------------------ MODULE IndexRun ------------------------------
(***************************************************************************)
(* What index runs do to the stored index of one repository: the code of   *)
(* RunFullIndex, RunIncrementalIndex and processFiles in                   *)
(* internal/indexer/indexer.go over the statements of its store.go.        *)
(*                                                                         *)
(* Each statement commits on its own, so a failure, a crash, an edit of a  *)
(* source file or another run of the same repository can come between any  *)
(* two of them.                                                            *)
(*                                                                         *)
(* A file is its modification time, 0 when it is absent.  The text written *)
(* at a time is a constant, and SourceParser says what the parser makes of *)
(* it.                                                                     *)
(***************************************************************************)
EXTENDS SourceParser, FiniteSets

CONSTANTS
  Files,
  Source,    \* the text a file has when it was written at a time
  Jobs,      \* index tasks, each run at most once
  Kinds,     \* the types requests ask for: "full", "incremental", "default"
  Faults,    \* "store", "parse", "crash"
  Overlap,   \* more than one run may be live (a race, or a stale task)
  MaxWrites, \* bound: edits of the source tree
  NoJob

ASSUME IndexRunAssumption ==
  /\ Source \in [Files -> [1..MaxWrites -> Texts]]
  /\ IsFiniteSet(Files)
  /\ Kinds \subseteq {"full", "incremental", "default"}
  /\ Faults \subseteq {"store", "parse", "crash"}
  /\ Overlap \in BOOLEAN
  /\ MaxWrites \in Nat \ {0}
  /\ NoJob \notin Jobs

VARIABLES
  fs, clock,      \* the source tree, and the time of its last edit
  functions,      \* rows of functions; a row's id is its job, file and name
  edges,          \* rows of call_edges
  unresolved,     \* rows of unresolved_edges
  indexed,        \* repos.indexed_files
  hnsw,           \* functions_embedding_idx exists
  hollow,         \* history: functions was emptied under the snapshot
  latest,         \* the newest task of the repository
  status, kind,   \* tasks.status and tasks.type
  pc,             \* the next statement of a run
  base, found,    \* its locals: the old snapshot and the files collected,
  todo, parsed, errored,  \* the files to parse, their contents, the errors,
  fmap            \* and the result of GetFunctionMap

tree  == <<fs, clock>>
index == <<functions, edges, unresolved, indexed, hnsw, hollow>>
tasks == <<latest, status, kind>>
locals == <<base, found, todo, parsed, errored, fmap>>
vars == <<tree, index, tasks, pc, locals>>

Times == 0..MaxWrites
Trees == [Files -> Times]
Empty == [f \in Files |-> 0]
Rows  == [job : Jobs, file : Files, name : FuncNames, ver : Times]
Present(t) == {f \in Files : t[f] # 0}

Live == {"start", "read", "drop", "delete", "collect", "parse", "map",
         "edges", "unresolved", "recreate", "snapshot", "finish"}
PCs == Live \cup {"idle", "chosen", "ended"}

Init ==
  /\ fs \in [Files -> {0, 1}] /\ clock = 1
  /\ functions = {} /\ edges = {} /\ unresolved = {}
  /\ indexed = Empty /\ hnsw = TRUE /\ hollow = FALSE
  /\ latest = NoJob
  /\ status = [j \in Jobs |-> "none"] /\ kind = [j \in Jobs |-> "full"]
  /\ pc = [j \in Jobs |-> "idle"]
  /\ base = [j \in Jobs |-> Empty] /\ found = [j \in Jobs |-> Empty]
  /\ todo = [j \in Jobs |-> {}] /\ parsed = [j \in Jobs |-> Empty]
  /\ errored = [j \in Jobs |-> {}] /\ fmap = [j \in Jobs |-> {}]

-----------------------------------------------------------------------------
(* The source tree, which anybody may edit at any time.                    *)

Write(f) ==
  /\ clock < MaxWrites
  /\ clock' = clock + 1
  /\ fs' = [fs EXCEPT ![f] = clock']
  /\ UNCHANGED <<index, tasks, pc, locals>>

Remove(f) ==
  /\ fs[f] # 0
  /\ clock < MaxWrites
  /\ clock' = clock + 1
  /\ fs' = [fs EXCEPT ![f] = 0]
  /\ UNCHANGED <<index, tasks, pc, locals>>

-----------------------------------------------------------------------------
(* The steps of a run.                                                     *)

Goto(j, l) == pc' = [pc EXCEPT ![j] = l]

Busy == \E j \in Jobs : pc[j] \in Live

\* The handler settles the type of the run.  A request without one asks for an
\* incremental run if the repository has a snapshot at this moment.
ChooseType(j, k) ==
  /\ pc[j] = "idle"
  /\ kind' = [kind EXCEPT ![j] =
                IF k # "default" THEN k
                ELSE IF indexed # Empty THEN "incremental" ELSE "full"]
  /\ Goto(j, "chosen")
  /\ UNCHANGED <<tree, index, latest, status, locals>>

\* TriggerIndex admits it, maybe much later; one that is refused stays here.
Admit(j) ==
  /\ pc[j] = "chosen"
  /\ Busy => Overlap
  /\ status' = [status EXCEPT ![j] = "pending"]
  /\ latest' = j
  /\ Goto(j, "start")
  /\ UNCHANGED <<tree, index, kind, locals>>

UpdateTaskStarted(j) ==
  /\ pc[j] = "start"
  /\ status' = [status EXCEPT ![j] = "running"]
  /\ Goto(j, "read")
  /\ UNCHANGED <<tree, index, latest, kind, locals>>

\* GetRepo; only an incremental run uses the snapshot it returns.
GetRepo(j) ==
  /\ pc[j] = "read"
  /\ IF kind[j] = "full"
     THEN Goto(j, "drop") /\ UNCHANGED base
     ELSE Goto(j, "collect") /\ base' = [base EXCEPT ![j] = indexed]
  /\ UNCHANGED <<tree, index, tasks, found, todo, parsed, errored, fmap>>

DropHNSWIndex(j) ==
  /\ pc[j] = "drop"
  /\ hnsw' = FALSE
  /\ Goto(j, "delete")
  /\ UNCHANGED <<tree, functions, edges, unresolved, indexed, hollow, tasks,
                 locals>>

\* A bug: callee_id without ON DELETE CASCADE.
DeleteRowsOfCallers(gone) ==
  /\ functions' = functions \ gone
  /\ edges' = {e \in edges : e[1] \notin gone}
  /\ unresolved' = {u \in unresolved : u[1] \notin gone}
  /\ UNCHANGED <<indexed, hnsw>>

\* Both edge tables reference functions ON DELETE CASCADE.
DeleteRows(gone) ==
  /\ functions' = functions \ gone
  /\ edges' = {e \in edges : e[1] \notin gone /\ e[2] \notin gone}
  /\ unresolved' = {u \in unresolved : u[1] \notin gone}
  /\ UNCHANGED <<indexed, hnsw>>

DeleteFunctionsByRepo(j) ==
  /\ pc[j] = "delete" /\ kind[j] = "full"
  /\ DeleteRows(functions)
  /\ hollow' = (hollow \/ indexed # Empty)
  /\ Goto(j, "collect")
  /\ UNCHANGED <<tree, tasks, locals>>

\* A bug: files that are no longer there are forgotten.
DeletedNone(j) == {}

Changed(j) == {f \in Present(found[j]) : base[j][f] # found[j][f]}
Deleted(j) == Present(base[j]) \ Present(found[j])

\* A full run parses every file (its base is empty); an incremental run
\* deletes the rows of changed and deleted files before it parses.
CollectSourceFiles(j) ==
  /\ pc[j] = "collect"
  /\ found' = [found EXCEPT ![j] = fs]
  /\ IF kind[j] = "full"
     THEN Goto(j, "parse") /\ todo' = [todo EXCEPT ![j] = Present(fs)]
     ELSE Goto(j, "delete") /\ UNCHANGED todo
  /\ UNCHANGED <<tree, index, tasks, base, parsed, errored, fmap>>

\* A bug: only files the old snapshot knows are deleted.
DeleteFunctionsByKnownFiles(j) ==
  /\ pc[j] = "delete" /\ kind[j] = "incremental"
  /\ DeleteRows({r \in functions : /\ r.file \in Changed(j) \cup Deleted(j)
                                   /\ base[j][r.file] # 0})
  /\ todo' = [todo EXCEPT ![j] = Changed(j)]
  /\ Goto(j, "parse")
  /\ UNCHANGED <<tree, hollow, tasks, base, found, parsed, errored, fmap>>

DeleteFunctionsByFiles(j) ==
  /\ pc[j] = "delete" /\ kind[j] = "incremental"
  /\ DeleteRows({r \in functions : r.file \in Changed(j) \cup Deleted(j)})
  /\ todo' = [todo EXCEPT ![j] = Changed(j)]
  /\ Goto(j, "parse")
  /\ UNCHANGED <<tree, hollow, tasks, base, found, parsed, errored, fmap>>

\* One file is read, parsed and embedded.  A file that has gone since, or
\* that does not parse or embed, is recorded and skipped.
ParseFile(j, f) ==
  /\ pc[j] = "parse" /\ f \in todo[j]
  /\ todo' = [todo EXCEPT ![j] = @ \ {f}]
  /\ \/ /\ fs[f] # 0
        /\ parsed' = [parsed EXCEPT ![j][f] = fs[f]]
        /\ UNCHANGED errored
     \/ /\ fs[f] = 0 \/ "parse" \in Faults
        /\ errored' = [errored EXCEPT ![j] = @ \cup {f}]
        /\ UNCHANGED parsed
  /\ UNCHANGED <<tree, index, tasks, pc, base, found, fmap>>

\* The function records of a run, each with the content it was parsed from.
Parsed(j) == Present(parsed[j])
Text(j, f) == Source[f][parsed[j][f]]
Records(j) ==
  UNION {{[job |-> j, file |-> f, name |-> n, ver |-> parsed[j][f]] :
            n \in Defined(Text(j, f))} : f \in Parsed(j)}

\* A run that returns: its locals are gone.
EndRun(j) ==
  /\ Goto(j, "ended")
  /\ base' = [base EXCEPT ![j] = Empty] /\ found' = [found EXCEPT ![j] = Empty]
  /\ todo' = [todo EXCEPT ![j] = {}] /\ parsed' = [parsed EXCEPT ![j] = Empty]
  /\ errored' = [errored EXCEPT ![j] = {}] /\ fmap' = [fmap EXCEPT ![j] = {}]

\* A bug: a failed run cleans up by deleting the repository's functions.
FailTaskAndClean(j) ==
  /\ status' = [status EXCEPT ![j] = "failed"]
  /\ EndRun(j)
  /\ DeleteRows(functions)
  /\ UNCHANGED <<tree, hollow, latest, kind>>

\* failTask.
FailTask(j) ==
  /\ status' = [status EXCEPT ![j] = "failed"]
  /\ EndRun(j)
  /\ UNCHANGED <<tree, index, latest, kind>>

\* UNIQUE (repo_id, file_path, name): COPY inserts all the rows or none.
Unique(j) ==
  /\ \A f \in Parsed(j) : ~Repeats(Text(j, f))
  /\ \A r \in Records(j), s \in functions : r.file = s.file => r.name # s.name

BulkInsertFunctions(j) ==
  /\ pc[j] = "parse" /\ todo[j] = {}
  /\ IF Unique(j)
     THEN /\ functions' = functions \cup Records(j)
          /\ Goto(j, "map")
          /\ UNCHANGED <<tree, edges, unresolved, indexed, hnsw, hollow, tasks,
                         locals>>
     ELSE FailTask(j)

GetFunctionMap(j) ==
  /\ pc[j] = "map"
  /\ fmap' = [fmap EXCEPT ![j] = functions]
  /\ Goto(j, "edges")
  /\ UNCHANGED <<tree, index, tasks, base, found, todo, parsed, errored>>

\* The calls of the parsed files, and the rows a name may resolve to.
CalledBy(r) ==
  {n \in Names : <<r.name, n>> \in RawCallEdges(Source[r.file][r.ver])}
RawEdges(j) == UNION {{<<r, n>> : n \in CalledBy(r)} : r \in Records(j)}
Callees(j, n) == {r \in fmap[j] : r.name = n}

\* A name resolves to the first of its rows, in whatever order the SELECT
\* returned them; the batch fails as a whole when a referenced row is gone.
BulkInsertCallEdges(j) ==
  /\ pc[j] = "edges"
  /\ \E first \in [{n \in Names : Callees(j, n) # {}} -> fmap[j]] :
       /\ \A n \in DOMAIN first : first[n] \in Callees(j, n)
       /\ LET new == {<<c[1], first[c[2]]>> :
                        c \in {c \in RawEdges(j) : c[2] \in DOMAIN first}}
          IN  IF \A e \in new : e[1] \in functions /\ e[2] \in functions
              THEN /\ edges' = edges \cup new
                   /\ Goto(j, "unresolved")
                   /\ UNCHANGED <<tree, functions, unresolved, indexed, hnsw,
                                  hollow, tasks, locals>>
              ELSE FailTask(j)

\* Names with no row, and names with more than one, marked ambiguous.
BulkInsertUnresolvedEdges(j) ==
  LET new == {c \in RawEdges(j) : Cardinality(Callees(j, c[2])) # 1}
  IN  /\ pc[j] = "unresolved"
      /\ IF \A u \in new : u[1] \in functions
         THEN /\ unresolved' = unresolved \cup new
              /\ Goto(j, IF kind[j] = "full" THEN "recreate" ELSE "snapshot")
              /\ UNCHANGED <<tree, functions, edges, indexed, hnsw, hollow,
                             tasks, locals>>
         ELSE FailTask(j)

RecreateHNSWIndex(j) ==
  /\ pc[j] = "recreate"
  /\ hnsw' = TRUE
  /\ Goto(j, "snapshot")
  /\ UNCHANGED <<tree, functions, edges, unresolved, indexed, hollow, tasks,
                 locals>>

\* A bug: the snapshot is taken again when the run ends.
UpdateRepoFilesNow(j) ==
  /\ pc[j] = "snapshot"
  /\ indexed' = fs
  /\ hollow' = (hollow /\ kind[j] # "full")
  /\ Goto(j, "finish")
  /\ UNCHANGED <<tree, functions, edges, unresolved, hnsw, tasks, locals>>

\* The snapshot is what was collected before anything was parsed, the files
\* with errors included.
UpdateRepoIndexedFiles(j) ==
  /\ pc[j] = "snapshot"
  /\ indexed' = found[j]
  /\ hollow' = (hollow /\ kind[j] # "full")
  /\ Goto(j, "finish")
  /\ UNCHANGED <<tree, functions, edges, unresolved, hnsw, tasks, locals>>

Total(j) == IF kind[j] = "full" THEN Cardinality(Present(found[j]))
            ELSE Cardinality(Changed(j) \cup Deleted(j))

\* Partial when more than a fifth of the files had errors.
UpdateTaskStatus(j) ==
  /\ pc[j] = "finish"
  /\ status' = [status EXCEPT ![j] =
                  IF 5 * Cardinality(errored[j]) > Total(j)
                  THEN "partial" ELSE "completed"]
  /\ EndRun(j)
  /\ UNCHANGED <<tree, index, latest, kind>>

\* A statement fails: the run ends as failed.  If it was UpdateTaskStarted, or
\* if failTask's or the last statement fails, the status stays what it is.
StatementFails(j) ==
  /\ "store" \in Faults
  /\ pc[j] \in Live
  /\ \/ pc[j] \notin {"start", "finish"} /\ FailTask(j)
     \/ EndRun(j) /\ UNCHANGED <<tree, index, tasks>>

Crash(j) ==
  /\ "crash" \in Faults
  /\ pc[j] \in Live
  /\ EndRun(j)
  /\ UNCHANGED <<tree, index, tasks>>

-----------------------------------------------------------------------------
RunStep(j) ==
  \/ UpdateTaskStarted(j) \/ GetRepo(j)
  \/ DropHNSWIndex(j) \/ DeleteFunctionsByRepo(j)
  \/ CollectSourceFiles(j) \/ DeleteFunctionsByFiles(j)
  \/ \E f \in Files : ParseFile(j, f)
  \/ BulkInsertFunctions(j) \/ GetFunctionMap(j)
  \/ BulkInsertCallEdges(j) \/ BulkInsertUnresolvedEdges(j)
  \/ RecreateHNSWIndex(j) \/ UpdateRepoIndexedFiles(j)
  \/ UpdateTaskStatus(j)

Next ==
  \/ \E f \in Files : Write(f) \/ Remove(f)
  \/ \E j \in Jobs, k \in Kinds : ChooseType(j, k)
  \/ \E j \in Jobs : Admit(j) \/ RunStep(j) \/ StatementFails(j) \/ Crash(j)

Spec == Init /\ [][Next]_vars

-----------------------------------------------------------------------------
(* What makes the index right.                                             *)

\* The type invariant; an edge always joins two stored functions.
TypeOK ==
  /\ fs \in Trees /\ clock \in 1..MaxWrites
  /\ functions \subseteq Rows
  /\ edges \subseteq functions \X functions
  /\ unresolved \subseteq functions \X Names
  /\ indexed \in Trees /\ hnsw \in BOOLEAN /\ hollow \in BOOLEAN
  /\ latest \in Jobs \cup {NoJob}
  /\ status \in [Jobs -> {"none", "pending", "running", "completed",
                          "partial", "failed"}]
  /\ kind \in [Jobs -> {"full", "incremental"}]
  /\ pc \in [Jobs -> PCs]
  /\ base \in [Jobs -> Trees] /\ found \in [Jobs -> Trees]
  /\ todo \in [Jobs -> SUBSET Files] /\ errored \in [Jobs -> SUBSET Files]
  /\ parsed \in [Jobs -> Trees] /\ fmap \in [Jobs -> SUBSET Rows]

\* The repository is queryable and nothing is being written.
Settled == ~Busy /\ latest # NoJob /\ status[latest] = "completed"

RowsOf(f) == {r \in functions : r.file = f}

\* After a run that completed, a file the tree still holds as the snapshot
\* recorded it has exactly its functions, with its present content: this is
\* what lets the next incremental run skip it.  An edit made during the run
\* must therefore not be hidden by the snapshot that run writes.  It is what
\* the plan promises of every failed run, and a full run may break it.
SkippedFileIndexed ==
  Settled =>
    \A f \in Present(indexed) :
      indexed[f] = fs[f] =>
        /\ {r.name : r \in RowsOf(f)} = Defined(Source[f][fs[f]])
        /\ \A r \in RowsOf(f) : r.ver = fs[f]

\* Whatever fails or dies, and however old the view was that made a request
\* full or incremental, there is one way to break that promise: a full run
\* deletes the functions of a repository that has a snapshot and is cut off
\* before it replaces the snapshot; and the next full run that does mends it.
SkippedUnlessHollow == ~hollow => SkippedFileIndexed

\* After a run that completed, no function of a file outside the snapshot is
\* stored: no later incremental run would ever delete it.  A run that was cut
\* off between its inserts and its snapshot may leave such functions; as long
\* as every run reached its end, none does.
DeletedFileForgotten ==
  /\ Settled
  /\ \A j \in Jobs : status[j] \in {"none", "completed", "partial"}
  => \A f \in Files : indexed[f] = 0 => RowsOf(f) = {}

\* Runs one after the other never trip over each other: whatever an earlier
\* run left behind when it failed or died, the next one has deleted every row
\* that would collide with a row it is about to insert.
LeftoversCleared ==
  ~Overlap => \A j \in Jobs : pc[j] = "parse" =>
    \A r \in Records(j), s \in functions : r.file = s.file => r.name # s.name

\* After a run that completed, every call of every stored function is a call
\* edge to a function of that name, or is listed as unresolved: none is
\* dropped.  Full runs keep this; an incremental run does not.
CallsAccounted ==
  \A r \in functions : \A n \in CalledBy(r) :
    \/ <<r, n>> \in unresolved
    \/ \E s \in functions : s.name = n /\ <<r, s>> \in edges
EveryCallAccounted == Settled => CallsAccounted

\* However full runs of one repository overlap, once they have ended and one
\* of them completed, the stored index is the complete index of the tree.
OverlapHarmless ==
  /\ ~Busy
  /\ \E j \in Jobs : status[j] = "completed"
  => /\ hnsw
     /\ \A f \in Files :
          {r.name : r \in RowsOf(f)} =
            IF fs[f] = 0 THEN {} ELSE Defined(Source[f][fs[f]])
     /\ CallsAccounted
=============================================================================
