-------------------------- MODULE BatchEmbedProofs --------------------------
(* For every number of batches and every size of the semaphore: how many     *)
(* calls are out, what a caller is told, and what it may rely on.            *)
EXTENDS BatchEmbed, FiniteSetTheorems, TLAPS

USE BatchEmbedAssumption

-----------------------------------------------------------------------------
(* The inductive invariant.                                                  *)

PCs == {"none", "embed", "cancel", "release", "done"}

Types ==
  /\ caller \in {"spawn", "wait", "returned"}
  /\ next \in 1..N + 1
  /\ pc \in [Batches -> PCs]
  /\ errCh \in {"none"} \cup Errors
  /\ cancelled \in BOOLEAN /\ parent \in BOOLEAN /\ done \in BOOLEAN
  /\ stored \subseteq Batches /\ failed \subseteq Batches
  /\ result \in {"none", "vectors"} \cup Errors

\* The goroutines from `next` on do not exist yet; the others hold a unit
\* each until they end.
Units ==
  /\ \A b \in Batches : b >= next <=> pc[b] = "none"
  /\ held = Cardinality(Running)
  /\ held <= Concurrency

\* While the caller listens and nobody cancelled it, the context is done only
\* after an error of a call was put into the channel, where it stays.
Cause ==
  ~parent =>
    /\ result # "ctx"
    /\ caller # "returned" =>
         /\ errCh # "ctx"
         /\ cancelled => errCh = "own"
         /\ \A b \in Batches : pc[b] = "cancel" => errCh = "own"

\* A goroutine past its call has stored its vectors or failed.
Outcome ==
  /\ \A b \in Batches :
       pc[b] \in {"cancel", "release", "done"} => b \in stored \cup failed
  /\ done => \A b \in Batches : pc[b] = "done"
  /\ result = "vectors" => done

IInv == Types /\ Units /\ Cause /\ Outcome

-----------------------------------------------------------------------------
(* Counting the goroutines that run.                                         *)

LEMMA RunningFinite == IsFiniteSet(Running) /\ Running \subseteq Batches
<1>1. IsFiniteSet(Batches)
  BY FS_Interval DEF Batches
<1>2. Running \subseteq Batches
  BY DEF Running
<1>. QED BY <1>1, <1>2, FS_Subset

\* A goroutine moves on without ending: as many run as before.
LEMMA MovesOn ==
  ASSUME Types, NEW b \in Batches, pc[b] \in {"embed", "cancel"},
         NEW l \in {"cancel", "release"}, Goto(b, l)
  PROVE  Running' = Running
BY DEF Types, Goto, Running, PCs

-----------------------------------------------------------------------------
LEMMA InitIInv == Init => IInv
<1> SUFFICES ASSUME Init PROVE IInv
  OBVIOUS
<1>1. Types
  <2>1. pc \in [Batches -> PCs]
    BY DEF Init, PCs
  <2>2. next \in 1..N + 1
    BY DEF Init
  <2>3. cancelled \in BOOLEAN /\ parent \in BOOLEAN /\ done \in BOOLEAN
    BY Zenon DEF Init
  <2>. QED BY <2>1, <2>2, <2>3 DEF Init, Types, Errors
<1>2. Units
  <2>1. Running = {}
    BY DEF Running, Init
  <2>2. held = Cardinality(Running)
    BY <2>1, FS_EmptySet DEF Init
  <2>. QED BY <2>2 DEF Init, Units, Batches
<1>3. Cause
  BY DEF Init, Cause
<1>4. Outcome
  BY DEF Init, Outcome
<1>. QED BY <1>1, <1>2, <1>3, <1>4 DEF IInv

LEMMA SpawnInv == ASSUME IInv, Spawn PROVE IInv'
<1>1. next \in Batches /\ next \in Nat /\ pc[next] = "none"
  BY DEF Spawn, IInv, Types, Units, Batches
<1>2. pc' = [pc EXCEPT ![next] = "embed"] /\ next' = next + 1
  BY DEF Spawn, Goto
<1>3. Types'
  <2>1. pc' \in [Batches -> PCs] /\ next' \in 1..N + 1
    BY <1>1, <1>2 DEF Spawn, IInv, Types, PCs
  <2>. QED BY <2>1 DEF Spawn, IInv, Types
<1>4. Units'
  <2>1. \A b \in Batches : b >= next' <=> pc'[b] = "none"
    BY <1>1, <1>2 DEF IInv, Types, Units, Batches
  <2>2. Running' = Running \cup {next} /\ next \notin Running
    BY <1>1, <1>2 DEF Running, IInv, Types
  <2>3. Cardinality(Running') = Cardinality(Running) + 1
    BY <2>2, RunningFinite, FS_AddElement
  <2>4. held \in Nat
    BY RunningFinite, FS_CardinalityType DEF IInv, Units
  <2>. QED BY <2>1, <2>3, <2>4 DEF Spawn, IInv, Units
<1>5. Cause'
  BY <1>1, <1>2 DEF Spawn, IInv, Types, Cause
<1>6. Outcome'
  BY <1>1, <1>2 DEF Spawn, IInv, Types, Outcome
<1>. QED BY <1>3, <1>4, <1>5, <1>6 DEF IInv

\* The caller returns with the first error or with that of the context.
LEMMA ReturnErrorInv ==
  ASSUME IInv, caller # "returned", cancelled \/ errCh # "none", ReturnError
  PROVE  IInv'
<1>1. Types'
  BY DEF ReturnError, Return, IInv, Types, Errors
<1>2. Units'
  BY DEF ReturnError, Return, IInv, Units, Running
<1>3. Cause'
  BY DEF ReturnError, Return, IInv, Types, Errors, Cause
<1>4. Outcome'
  BY DEF ReturnError, Return, IInv, Types, Errors, Outcome
<1>. QED BY <1>1, <1>2, <1>3, <1>4 DEF IInv

LEMMA CallerInv == ASSUME IInv, CallerStep PROVE IInv'
<1>1. CASE Spawn
  BY <1>1, SpawnInv
<1>2. CASE AcquireFails
  BY <1>2, ReturnErrorInv DEF AcquireFails
<1>3. CASE Wait
  <2>1. Types'
    BY <1>3 DEF Wait, IInv, Types
  <2>2. Units' /\ Outcome'
    BY <1>3 DEF Wait, IInv, Units, Running, Outcome
  <2>3. Cause'
    BY <1>3 DEF Wait, IInv, Cause
  <2>. QED BY <2>1, <2>2, <2>3 DEF IInv
<1>4. CASE SelectError
  BY <1>4, ReturnErrorInv DEF SelectError
<1>5. CASE SelectDone
  <2>1. Types'
    BY <1>5 DEF SelectDone, Return, IInv, Types
  <2>2. Units' /\ Outcome'
    BY <1>5 DEF SelectDone, Return, IInv, Units, Running, Outcome
  <2>3. Cause'
    BY <1>5 DEF SelectDone, Return, IInv, Cause
  <2>. QED BY <2>1, <2>2, <2>3 DEF IInv
<1>6. CASE SelectCancelled
  BY <1>6, ReturnErrorInv DEF SelectCancelled
<1>. QED BY <1>1, <1>2, <1>3, <1>4, <1>5, <1>6 DEF CallerStep

LEMMA BatchInv == ASSUME IInv, NEW b \in Batches, BatchStep(b) PROVE IInv'
<1>1. CASE EmbedSucceeds(b)
  <2>1. Types'
    BY <1>1 DEF EmbedSucceeds, Goto, IInv, Types, PCs
  <2>2. Units'
    <3>1. Running' = Running
      BY <1>1, MovesOn DEF EmbedSucceeds, IInv
    <3>2. \A a \in Batches : a >= next' <=> pc'[a] = "none"
      BY <1>1 DEF EmbedSucceeds, Goto, IInv, Types, Units
    <3>. QED BY <1>1, <3>1, <3>2 DEF EmbedSucceeds, IInv, Units
  <2>3. Cause'
    BY <1>1 DEF EmbedSucceeds, Goto, IInv, Types, Cause
  <2>4. Outcome'
    BY <1>1 DEF EmbedSucceeds, Goto, IInv, Types, Outcome
  <2>. QED BY <2>1, <2>2, <2>3, <2>4 DEF IInv
<1>2. CASE EmbedFails(b)
  <2>0. PICK l \in {"cancel", "release"} : Goto(b, l)
    BY <1>2 DEF EmbedFails
  <2>1. Types'
    BY <1>2, <2>0 DEF EmbedFails, Goto, IInv, Types, PCs, Errors
  <2>2. Units'
    <3>1. Running' = Running
      BY <1>2, <2>0, MovesOn DEF EmbedFails, IInv
    <3>2. \A a \in Batches : a >= next' <=> pc'[a] = "none"
      BY <1>2, <2>0 DEF EmbedFails, Goto, IInv, Types, Units
    <3>. QED BY <1>2, <3>1, <3>2 DEF EmbedFails, IInv, Units
  <2>3. Cause'
    BY <1>2 DEF EmbedFails, Goto, IInv, Types, Cause, Errors
  <2>4. Outcome'
    BY <1>2, <2>0 DEF EmbedFails, Goto, IInv, Types, Outcome
  <2>. QED BY <2>1, <2>2, <2>3, <2>4 DEF IInv
<1>3. CASE Cancel(b)
  <2>1. Types'
    BY <1>3 DEF Cancel, Goto, IInv, Types, PCs
  <2>2. Units'
    <3>1. Running' = Running
      BY <1>3, MovesOn DEF Cancel, IInv
    <3>2. \A a \in Batches : a >= next' <=> pc'[a] = "none"
      BY <1>3 DEF Cancel, Goto, IInv, Types, Units
    <3>. QED BY <1>3, <3>1, <3>2 DEF Cancel, IInv, Units
  <2>3. Cause'
    BY <1>3 DEF Cancel, Goto, IInv, Types, Cause
  <2>4. Outcome'
    BY <1>3 DEF Cancel, Goto, IInv, Types, Outcome
  <2>. QED BY <2>1, <2>2, <2>3, <2>4 DEF IInv
<1>4. CASE Release(b)
  <2>1. Types'
    BY <1>4 DEF Release, Goto, IInv, Types, PCs
  <2>2. Units'
    <3>1. Running' = Running \ {b} /\ b \in Running
      BY <1>4 DEF Release, Goto, IInv, Types, Running
    <3>2. Cardinality(Running') = Cardinality(Running) - 1
      BY <3>1, RunningFinite, FS_RemoveElement
    <3>3. held \in Nat
      BY RunningFinite, FS_CardinalityType DEF IInv, Units
    <3>4. \A a \in Batches : a >= next' <=> pc'[a] = "none"
      BY <1>4 DEF Release, Goto, IInv, Types, Units
    <3>. QED BY <1>4, <3>2, <3>3, <3>4 DEF Release, IInv, Units
  <2>3. Cause'
    BY <1>4 DEF Release, Goto, IInv, Types, Cause
  <2>4. Outcome'
    BY <1>4 DEF Release, Goto, IInv, Types, Outcome
  <2>. QED BY <2>1, <2>2, <2>3, <2>4 DEF IInv
<1>. QED BY <1>1, <1>2, <1>3, <1>4 DEF BatchStep

LEMMA NextIInv == IInv /\ [Next]_vars => IInv'
<1> SUFFICES ASSUME IInv, [Next]_vars PROVE IInv'
  OBVIOUS
<1>1. CASE CallerStep
  BY <1>1, CallerInv
<1>2. CASE ParentCancelled
  <2>1. Types'
    BY <1>2 DEF ParentCancelled, IInv, Types
  <2>2. Units' /\ Outcome'
    BY <1>2 DEF ParentCancelled, IInv, Units, Running, Outcome
  <2>3. Cause'
    BY <1>2 DEF ParentCancelled, Cause
  <2>. QED BY <2>1, <2>2, <2>3 DEF IInv
<1>3. ASSUME NEW b \in Batches, BatchStep(b) PROVE IInv'
  BY <1>3, BatchInv
<1>4. CASE CloseDone
  <2>1. \A b \in Batches : pc[b] = "done"
    BY <1>4 DEF CloseDone, Running, IInv, Types, Units, Batches
  <2>2. Types'
    BY <1>4 DEF CloseDone, IInv, Types
  <2>3. Units' /\ Outcome'
    BY <1>4, <2>1 DEF CloseDone, IInv, Units, Running, Outcome
  <2>4. Cause'
    BY <1>4 DEF CloseDone, IInv, Cause
  <2>. QED BY <2>2, <2>3, <2>4 DEF IInv
<1>5. CASE UNCHANGED vars
  BY <1>5 DEF vars, IInv, Types, Units, Running, Cause, Outcome
<1>. QED BY <1>1, <1>2, <1>3, <1>4, <1>5 DEF Next

LEMMA Invariance == Spec => []IInv
BY InitIInv, NextIInv, PTL DEF Spec

-----------------------------------------------------------------------------
(* The theorems.                                                             *)

\* The semaphore counts the goroutines that run, whatever fails.
THEOREM TypeCorrect == Spec => []TypeOK
<1>1. IInv => TypeOK
  BY DEF IInv, Types, Units, TypeOK, PCs
<1>. QED BY <1>1, Invariance, PTL

\* EMBEDDING_CONCURRENCY bounds the calls that are out.
THEOREM ConcurrencyRespected == Spec => []CallsBounded
<1>1. IInv => CallsBounded
  <2> SUFFICES ASSUME IInv PROVE CallsBounded
    OBVIOUS
  <2> DEFINE Out == {b \in Batches : pc[b] = "embed"}
  <2>1. Out \subseteq Running
    BY DEF Running
  <2>2. /\ Cardinality(Out) <= Cardinality(Running)
        /\ Cardinality(Out) \in Nat /\ Cardinality(Running) \in Nat
    BY <2>1, RunningFinite, FS_Subset, FS_CardinalityType
  <2>. QED BY <2>2 DEF CallsBounded, IInv, Units
<1>. QED BY <1>1, Invariance, PTL

\* If a caller nobody cancelled is told an error, it is the error of a call; that
\* it is told is not claimed, as done may overtake the error in the select.
THEOREM FirstErrorWins == Spec => []CauseReported
<1>1. IInv => CauseReported
  BY DEF IInv, Cause, CauseReported
<1>. QED BY <1>1, Invariance, PTL

\* Without failures, returning vectors means that all of them are there.
THEOREM ResultsComplete == Spec => []VectorsInPlace
<1>1. IInv => VectorsInPlace
  BY DEF IInv, Types, Outcome, VectorsInPlace
<1>. QED BY <1>1, Invariance, PTL
=============================================================================
