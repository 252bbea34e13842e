----------------------- MODULE DeleteExecutionProofs -----------------------
(***************************************************************************)
(* Proofs about DeleteExecution, for every table, every job, and every     *)
(* bound on the operator's decisions and the other sessions' changes.      *)
(***************************************************************************)
EXTENDS DeleteExecution, FiniteSetTheorems, TLAPS

USE RowsAssumption, JobsAssumption, BoundsAssumption

-----------------------------------------------------------------------------
(* The candidates are finitely many, so the recount is a number.           *)
LEMMA CandidatesFinite ==
  /\ IsFiniteSet(Candidates)
  /\ Cardinality(Candidates) \in Nat
<1>1. IsFiniteSet(Candidates)
  BY FS_Subset DEF Candidates
<1> QED
  BY <1>1, FS_CardinalityType

(* A batch removes a finite number of rows.                                *)
LEMMA DeletableFinite ==
  ASSUME TypeOK, NEW S \in Deletable
  PROVE  /\ S \subseteq doomed /\ S \subseteq Candidates
         /\ IsFiniteSet(S) /\ Cardinality(S) \in Nat
         /\ Cardinality(S) <= Cardinality(doomed)
<1>1. S \subseteq doomed /\ S \subseteq Candidates
  BY DEF Deletable
<1>2. IsFiniteSet(doomed)
  BY FS_Subset DEF TypeOK
<1>3. IsFiniteSet(S) /\ Cardinality(S) <= Cardinality(doomed)
  BY <1>1, <1>2, FS_Subset
<1> QED
  BY <1>1, <1>3, FS_CardinalityType

(* A progress event that arrives is an event.                              *)
LEMMA EmitType ==
  ASSUME TypeOK, NEW type \in EventTypes, NEW number \in Nat, NEW rows \in Nat,
         Emit(type, number, rows)
  PROVE  received' \in SUBSET [type: EventTypes, sequence: Nat, rows: Nat]
BY DEF Emit, TypeOK

(* Sealing leaves a result of the protocol to deliver.                     *)
LEMMA SealType ==
  ASSUME TypeOK, NEW status \in Statuses, NEW rows \in Nat \cup {NoRows},
         Seal(status, rows)
  PROVE  /\ result' \in Results /\ pc' \in Pcs
         /\ attempts' \in Nat /\ completed' \in SUBSET Results
BY DEF Seal, TypeOK, Results, Pcs

(* An execution that ends early seals a result that carries no statistics. *)
LEMMA AbortType ==
  ASSUME TypeOK, NEW status \in {"FAILED", "CANCELLED"}, Abort(status)
  PROVE  /\ result' \in Results /\ pc' \in Pcs /\ sequence' \in Nat
         /\ attempts' \in Nat /\ completed' \in SUBSET Results
         /\ received' \in SUBSET [type: EventTypes, sequence: Nat, rows: Nat]
<1>1. received' \in SUBSET [type: EventTypes, sequence: Nat, rows: Nat]
  <2>1. Emit("ABORTED", sequence + 1, rowsDeleted)
    BY DEF Abort
  <2>2. "ABORTED" \in EventTypes /\ sequence + 1 \in Nat /\ rowsDeleted \in Nat
    BY DEF TypeOK, EventTypes
  <2> QED
    BY <2>1, <2>2, EmitType
<1>2. /\ status \in Statuses
      /\ (IF status = "CANCELLED" THEN rowsDeleted ELSE NoRows) \in Nat \cup {NoRows}
  BY DEF TypeOK, Statuses
<1>3. /\ result' \in Results /\ pc' \in Pcs
      /\ attempts' \in Nat /\ completed' \in SUBSET Results
  BY <1>2, SealType DEF Abort
<1> QED
  BY <1>1, <1>3 DEF Abort, TypeOK

(* An execution that ends regularly seals the statistics it counted.       *)
LEMMA FinishType ==
  ASSUME TypeOK, NEW complete \in BOOLEAN, Finish(complete)
  PROVE  /\ result' \in Results /\ pc' \in Pcs
         /\ attempts' \in Nat /\ completed' \in SUBSET Results
         /\ UNCHANGED <<received, sequence>>
<1>1. /\ (IF complete \/ rowsDeleted >= measured THEN "COMPLETED" ELSE "PARTIAL") \in Statuses
      /\ rowsDeleted \in Nat \cup {NoRows}
  BY DEF Statuses, TypeOK
<1> QED
  BY <1>1, SealType DEF Finish

(* The types the code gives its state hold of every reachable state.       *)
THEOREM TypeCorrect == Spec => []TypeOK
<1>1. Init => TypeOK
  <2> SUFFICES ASSUME Init PROVE TypeOK
    OBVIOUS
  <2>1. decisions \in Seq(Actions) /\ Len(decisions) = 1
    BY DEF Init, Actions
  <2>2. result \in Results
    BY DEF Init, NoResult, NoRows, Results
  <2>3. table \in [Rows -> RowStates]
    BY DEF Init, RowStates
  <2>4. paused \in BOOLEAN /\ shutdown \in BOOLEAN
    BY DEF Init
  <2> QED
    BY <2>1, <2>2, <2>3, <2>4 DEF Init, TypeOK, Pcs, Versions
<1>2. TypeOK /\ [Next]_vars => TypeOK'
  <2> SUFFICES ASSUME TypeOK, [Next]_vars PROVE TypeOK'
    OBVIOUS
  <2> USE DEF TypeOK, Versions, dbVars, controlVars, gateVars, countVars, reportVars
  <2>1. CASE Count
    <3>1. measured' \in Nat
      BY <2>1, CandidatesFinite DEF Count
    <3>2. CASE DriftExceeded(job, measured')
      <4>1. Seal("PLAN_STALE", 0)
        BY <2>1, <3>2 DEF Count
      <4> QED
        BY <2>1, <3>1, <3>2, <4>1, SealType DEF Count, Statuses
    <3>3. CASE ~DriftExceeded(job, measured')
      <4>1. Emit("ACCEPTED", sequence, 0) /\ pc' = "request" /\ UNCHANGED reportVars
        BY <2>1, <3>3 DEF Count
      <4> QED
        BY <2>1, <3>1, <4>1, EmitType DEF Count, EventTypes, Pcs
    <3> QED
      BY <3>2, <3>3
  <2>2. CASE CountFails
    BY <2>2, SealType DEF CountFails, Statuses
  <2>3. CASE RequestControl
    BY <2>3 DEF RequestControl, Pcs
  <2>4. CASE ControlUnavailable
    BY <2>4 DEF ControlUnavailable, Pcs
  <2>5. CASE ControlInterrupted
    <3>1. CASE Abort("FAILED")
      BY <2>5, <3>1, AbortType DEF ControlInterrupted
    <3>2. CASE Seal("FAILED", NoRows) /\ UNCHANGED <<sequence, received>>
      BY <2>5, <3>2, SealType DEF ControlInterrupted, Statuses
    <3> QED
      BY <2>5, <3>1, <3>2 DEF ControlInterrupted
  <2>6. ASSUME NEW v \in Versions, ReceiveControl(v) PROVE TypeOK'
    <3>0. /\ highestVersion' = v /\ v \in 0..Len(decisions)
          /\ UNCHANGED <<job, dbVars, controlVars, gate, countVars, shutdown>>
      BY <2>6 DEF ReceiveControl
    <3>1. CASE ObeyRun
      <4>1. received' \in SUBSET [type: EventTypes, sequence: Nat, rows: Nat]
        <5>1. CASE UNCHANGED received
          BY <5>1
        <5>2. CASE Emit("RESUMED", sequence + 1, rowsDeleted)
          <6>1. "RESUMED" \in EventTypes /\ sequence + 1 \in Nat /\ rowsDeleted \in Nat
            BY DEF EventTypes
          <6> QED
            BY <5>2, <6>1, EmitType
        <5> QED
          BY <3>1, <5>1, <5>2 DEF ObeyRun
      <4>2. sequence' \in Nat
        BY <3>1 DEF ObeyRun
      <4>3. paused' \in BOOLEAN
        BY <3>1 DEF ObeyRun
      <4>4. pc' \in Pcs
        BY <3>1 DEF ObeyRun, Pcs
      <4> QED
        <5>1. UNCHANGED <<reportVars, pausedAt>>
          BY <3>1 DEF ObeyRun
        <5> QED
          BY <3>0, <4>1, <4>2, <4>3, <4>4, <5>1
    <3>2. CASE ObeyCancel
      <4>1. CASE Abort("CANCELLED")
        <5>1. /\ result' \in Results /\ pc' \in Pcs /\ sequence' \in Nat
              /\ attempts' \in Nat /\ completed' \in SUBSET Results
              /\ received' \in SUBSET [type: EventTypes, sequence: Nat, rows: Nat]
          BY <4>1, AbortType
        <5>2. UNCHANGED <<paused, pausedAt>>
          BY <3>2 DEF ObeyCancel
        <5> QED
          BY <3>0, <5>1, <5>2
      <4>2. CASE Seal("CANCELLED", 0) /\ UNCHANGED <<sequence, received>>
        <5>1. /\ result' \in Results /\ pc' \in Pcs
              /\ attempts' \in Nat /\ completed' \in SUBSET Results
          BY <4>2, SealType DEF Statuses
        <5> QED
          BY <3>0, <3>2, <4>2, <5>1 DEF ObeyCancel
      <4> QED
        BY <3>2, <4>1, <4>2 DEF ObeyCancel
    <3>3. CASE ObeyPause(v)
      <4>1. sequence' \in Nat
        BY <3>3 DEF ObeyPause
      <4>2. received' \in SUBSET [type: EventTypes, sequence: Nat, rows: Nat]
        BY <3>3, <4>1, EmitType DEF ObeyPause, EventTypes
      <4> QED
        <5>1. /\ pausedAt' \in 0..Len(decisions) /\ paused' \in BOOLEAN
              /\ pc' \in Pcs /\ UNCHANGED reportVars
          BY <3>0, <3>3 DEF ObeyPause, Pcs
        <5> QED
          BY <3>0, <4>1, <4>2, <5>1
    <3> QED
      BY <2>6, <3>1, <3>2, <3>3 DEF ReceiveControl
  <2>7. CASE ConnectExecutor
    BY <2>7 DEF ConnectExecutor, Pcs
  <2>8. CASE BeginBatch
    BY <2>8 DEF BeginBatch, Pcs, Candidates
  <2>9. CASE CommitBatch
    <3>1. PICK affected \in Deletable :
            /\ Delete(affected)
            /\ rowsDeleted' = rowsDeleted + Cardinality(affected)
            /\ \/ affected = {} /\ Finish(TRUE) /\ UNCHANGED <<gate, paused>>
               \/ /\ affected # {}
                  /\ sequence' = sequence + 1
                  /\ Emit("BATCH_COMMITTED", sequence', rowsDeleted')
                  /\ gate' = "batch" /\ paused' = FALSE
                  /\ pc' = "request"
                  /\ UNCHANGED reportVars
      BY <2>9 DEF CommitBatch
    <3>2. table' \in [Rows -> RowStates]
      BY <3>1 DEF Delete, RowStates
    <3>3. rowsDeleted' \in Nat
      <4>1. rowsDeleted \in Nat
        OBVIOUS
      <4> HIDE DEF TypeOK, Versions, dbVars, controlVars, gateVars, countVars, reportVars
      <4>2. Cardinality(affected) \in Nat
        BY DeletableFinite
      <4>3. rowsDeleted' = rowsDeleted + Cardinality(affected)
        BY <3>1
      <4> QED
        BY <4>1, <4>2, <4>3
    <3>4. CASE affected = {}
      <4>1. Finish(TRUE)
        BY <3>1, <3>4
      <4> QED
        BY <2>9, <3>1, <3>2, <3>3, <3>4, <4>1, FinishType DEF CommitBatch
    <3>5. CASE affected # {}
      <4>0. sequence' = sequence + 1
        BY <3>1, <3>5, Zenon
      <4>1. received' \in SUBSET [type: EventTypes, sequence: Nat, rows: Nat]
        <5>1. sequence' \in Nat
          BY <4>0
        <5>2. Emit("BATCH_COMMITTED", sequence', rowsDeleted')
          BY <3>1, <3>5
        <5>3. "BATCH_COMMITTED" \in EventTypes
          BY DEF EventTypes
        <5> QED
          BY <3>3, <5>1, <5>2, <5>3, EmitType
      <4>2. sequence' \in Nat
        BY <4>0
      <4>3. gate' \in {"first", "batch"} /\ paused' \in BOOLEAN
        BY <3>1, <3>5
      <4>4. pc' \in Pcs
        BY <3>1, <3>5 DEF Pcs
      <4>5. UNCHANGED reportVars
        BY <3>1, <3>5
      <4> QED
        BY <2>9, <3>2, <3>3, <4>1, <4>2, <4>3, <4>4, <4>5 DEF CommitBatch
    <3> QED
      BY <3>4, <3>5
  <2>10. CASE BatchFails
    <3>1. table' \in [Rows -> RowStates]
      BY <2>10 DEF BatchFails, Delete, RowStates
    <3> QED
      BY <2>10, <3>1, AbortType DEF BatchFails
  <2>11. CASE DatabaseUnavailable
    BY <2>11, AbortType DEF DatabaseUnavailable
  <2>12. CASE NextBatch
    <3>1. CASE Finish(FALSE)
      BY <2>12, <3>1, FinishType DEF NextBatch
    <3>2. CASE Abort("FAILED")
      BY <2>12, <3>2, AbortType DEF NextBatch
    <3>3. CASE pc' = "batch" /\ UNCHANGED <<reportVars, sequence, received>>
      BY <2>12, <3>3 DEF NextBatch, Pcs
    <3> QED
      BY <2>12, <3>1, <3>2, <3>3 DEF NextBatch
  <2>13. CASE CeilingReached
    BY <2>13, FinishType DEF CeilingReached
  <2>14. CASE Report
    BY <2>14 DEF Report, Pcs, Terminal
  <2>15. CASE AnswerControl
    BY <2>15 DEF AnswerControl
  <2>16. ASSUME NEW action \in Actions, Decide(action) PROVE TypeOK'
    <3>1. /\ decisions' = Append(decisions, action) /\ begunAfterStop' = 0
          /\ Len(decisions) < MaxVersion
          /\ UNCHANGED <<job, dbVars, fresh, replayable, pc, gateVars, sequence, countVars,
                         reportVars, shutdown, received>>
      BY <2>16 DEF Decide
    <3>2. decisions' \in Seq(Actions) /\ Len(decisions') = Len(decisions) + 1
      BY <3>1
    <3>3. /\ Len(decisions') \in 1..MaxVersion
          /\ 1..Len(decisions) \subseteq 1..Len(decisions')
          /\ 0..Len(decisions) \subseteq 0..Len(decisions')
      BY <3>1, <3>2
    <3> QED
      BY <3>1, <3>2, <3>3
  <2>17. ASSUME NEW r \in Rows, NEW state \in RowStates \ {"deleted"}, ChangeRow(r, state)
         PROVE  TypeOK'
    BY <2>17 DEF ChangeRow, Terminal
  <2>18. CASE Shutdown
    BY <2>18 DEF Shutdown
  <2>19. CASE Crash
    <3>1. table' \in [Rows -> RowStates]
      BY <2>19 DEF Crash, Delete, RowStates
    <3> QED
      BY <2>19, <3>1 DEF Crash, Pcs, Terminal
  <2>20. CASE UNCHANGED vars
    BY <2>20 DEF vars
  <2> QED
    BY <2>1, <2>2, <2>3, <2>4, <2>5, <2>6, <2>7, <2>8, <2>9, <2>10, <2>11, <2>12, <2>13,
       <2>14, <2>15, <2>16, <2>17, <2>18, <2>19, <2>20
    DEF Next, Connector, Environment, Ended
<1> QED
  BY <1>1, <1>2, PTL DEF Spec

-----------------------------------------------------------------------------
(* Removing S, candidates all, adds S to what the job removed.             *)
LEMMA DeleteCounts ==
  ASSUME TypeOK, NEW S \in Deletable, Delete(S)
  PROVE  /\ Cardinality(Removed') = Cardinality(Removed) + Cardinality(S)
         /\ Cardinality(Removed) \in Nat
<1>1. Removed' = Removed \cup S
  BY DeletableFinite DEF Delete, Removed, Candidates, TypeOK
<1>2. Removed \cap S = {}
  BY DeletableFinite DEF Removed, Candidates
<1>3. IsFiniteSet(Removed) /\ IsFiniteSet(S)
  BY DeletableFinite, FS_Subset DEF Removed
<1>4. Cardinality(Removed) \in Nat /\ Cardinality(S) \in Nat /\ Cardinality({}) = 0
  BY <1>3, FS_CardinalityType, FS_EmptySet
<1>5. Cardinality(Removed \cup S)
        = Cardinality(Removed) + Cardinality(S) - Cardinality(Removed \cap S)
  BY <1>3, FS_Union
<1>6. Cardinality(Removed \cap S) = 0 /\ Cardinality(Removed') = Cardinality(Removed \cup S)
  BY <1>1, <1>2, <1>4, Zenon
<1> QED
  BY <1>4, <1>5, <1>6

(* Other sessions neither undo a removal nor remove on the job's account.  *)
LEMMA ChangeKeepsRemoved ==
  ASSUME TypeOK, NEW r \in Rows, NEW state \in RowStates \ {"deleted"}, ChangeRow(r, state)
  PROVE  Removed' = Removed
BY DEF ChangeRow, Removed, TypeOK, RowStates

(* So the number of rows the job removed is a number.                      *)
LEMMA RemovedFinite == Cardinality(Removed) \in Nat
<1>1. IsFiniteSet(Removed)
  BY FS_Subset DEF Removed
<1> QED
  BY <1>1, FS_CardinalityType

(* What is left of the ceiling when a batch begins bounds the batch.       *)
LEMMA BatchFits ==
  ASSUME TypeOK, CountInv, BeginBatch
  PROVE  Cardinality(doomed') <= job.maxRows - rowsDeleted
BY CandidatesFinite DEF BeginBatch, NextBatchSize, Smaller, TypeOK, CountInv

(* A working step that neither removes nor counts keeps the books.         *)
LEMMA WorkKeepsCount ==
  ASSUME TypeOK, CountInv, UNCHANGED <<job, table, gate, rowsDeleted, result>>,
         pc \in Working, pc' \in Working \ {"count", "deleting"}
  PROVE  CountInv'
<1>1. Removed' = Removed
  BY DEF Removed
<1> QED
  BY <1>1 DEF CountInv, CeilingRespected, ResultCountsRemoved

(* So does sealing a result that counts every row, or none.                *)
LEMMA SealKeepsCount ==
  ASSUME TypeOK, CountInv, UNCHANGED <<job, table, gate, rowsDeleted>>,
         pc \in Working, NEW status, NEW rows \in {NoRows, rowsDeleted},
         Seal(status, rows)
  PROVE  CountInv'
<1>1. Removed' = Removed
  BY DEF Removed
<1>2. pc' = "report" /\ result'.rows = rows
  BY DEF Seal
<1> QED
  BY <1>1, <1>2 DEF CountInv, CeilingRespected, ResultCountsRemoved, Working

(* After the report has begun, nothing moves the books.                    *)
LEMMA ReportKeepsCount ==
  ASSUME TypeOK, CountInv, UNCHANGED <<job, gate, rowsDeleted, result>>,
         Removed' = Removed,
         pc' \notin Working
  PROVE  CountInv'
BY DEF CountInv, CeilingRespected, ResultCountsRemoved, Working

(* A step that leaves the connector and its removals alone.                *)
LEMMA IdleKeepsCount ==
  ASSUME TypeOK, CountInv, UNCHANGED <<job, gate, rowsDeleted, result, pc, doomed>>,
         Removed' = Removed
  PROVE  CountInv'
BY DEF CountInv, CeilingRespected, ResultCountsRemoved

(* A batch that takes effect without being counted, because its COMMIT was *)
(* answered by an error or by nobody, is still under the ceiling.          *)
LEMMA BatchUnderCeiling ==
  ASSUME TypeOK, CountInv, pc = "deleting",
         \/ UNCHANGED table
         \/ \E affected \in Deletable : Delete(affected)
  PROVE  Cardinality(Removed') <= job.maxRows
<1>1. /\ Cardinality(Removed) = rowsDeleted
      /\ Cardinality(doomed) <= job.maxRows - rowsDeleted
      /\ job.maxRows \in Nat /\ rowsDeleted \in Nat /\ rowsDeleted <= job.maxRows
  BY DEF CountInv, TypeOK, Working
<1>2. CASE UNCHANGED table
  <2>1. Removed' = Removed
    BY <1>2 DEF Removed
  <2> QED
    BY <1>1, <2>1
<1>3. ASSUME NEW affected \in Deletable, Delete(affected)
      PROVE  Cardinality(Removed') <= job.maxRows
  <2>1. /\ Cardinality(affected) \in Nat /\ Cardinality(affected) <= Cardinality(doomed)
        /\ Cardinality(doomed) \in Nat
    BY DeletableFinite, FS_Subset, FS_CardinalityType DEF TypeOK
  <2> QED
    BY <1>1, <1>3, <2>1, DeleteCounts
<1> QED
  BY <1>2, <1>3

(* CountInv is inductive.                                                  *)
LEMMA CountInvInductive == TypeOK /\ CountInv /\ [Next]_vars => CountInv'
<1> SUFFICES ASSUME TypeOK, CountInv, [Next]_vars PROVE CountInv'
  OBVIOUS
<1> USE DEF dbVars, controlVars, gateVars, countVars, reportVars
<1>1. CASE Count
  <2>1. CASE Seal("PLAN_STALE", 0)
    <3>1. rowsDeleted = 0
      BY <1>1 DEF Count, CountInv
    <3> QED
      BY <1>1, <2>1, <3>1, SealKeepsCount DEF Count, Working
  <2>2. CASE pc' = "request" /\ UNCHANGED reportVars
    BY <1>1, <2>2, WorkKeepsCount DEF Count, Working
  <2> QED
    BY <1>1, <2>1, <2>2 DEF Count
<1>2. CASE CountFails
  BY <1>2, SealKeepsCount DEF CountFails, Working
<1>3. CASE RequestControl
  BY <1>3, WorkKeepsCount DEF RequestControl, Working
<1>4. CASE ControlUnavailable
  BY <1>4, WorkKeepsCount DEF ControlUnavailable, Working
<1>5. CASE ControlInterrupted
  <2>1. Seal("FAILED", NoRows)
    BY <1>5 DEF ControlInterrupted, Abort
  <2> QED
    BY <1>5, <2>1, SealKeepsCount DEF ControlInterrupted, Working
<1>6. ASSUME NEW v \in Versions, ReceiveControl(v) PROVE CountInv'
  <2>1. UNCHANGED <<job, table, gate, rowsDeleted>> /\ pc \in Working
    BY <1>6 DEF ReceiveControl, Working
  <2>2. CASE ObeyRun
    <3>1. pc' \in Working \ {"count", "deleting"} /\ UNCHANGED result
      BY <2>2 DEF ObeyRun, Working
    <3> QED
      BY <2>1, <3>1, WorkKeepsCount
  <2>3. CASE ObeyCancel
    <3>1. CASE gate = "first" /\ Seal("CANCELLED", 0)
      <4>1. rowsDeleted = 0
        BY <3>1 DEF CountInv
      <4> QED
        BY <2>1, <3>1, <4>1, SealKeepsCount
    <3>2. CASE Abort("CANCELLED")
      <4>1. Seal("CANCELLED", rowsDeleted)
        BY <3>2 DEF Abort
      <4> QED
        BY <2>1, <4>1, SealKeepsCount
    <3> QED
      BY <2>3, <3>1, <3>2 DEF ObeyCancel
  <2>4. CASE ObeyPause(v)
    <3>1. pc' \in Working \ {"count", "deleting"} /\ UNCHANGED result
      BY <2>4 DEF ObeyPause, Working
    <3> QED
      BY <2>1, <3>1, WorkKeepsCount
  <2> QED
    BY <1>6, <2>2, <2>3, <2>4 DEF ReceiveControl
<1>7. CASE ConnectExecutor
  BY <1>7, WorkKeepsCount DEF ConnectExecutor, Working
<1>8. CASE BeginBatch
  <2>1. Removed' = Removed
    BY <1>8 DEF BeginBatch, Removed
  <2>2. /\ UNCHANGED <<job, gate, rowsDeleted, result>>
        /\ pc \in Working /\ pc' = "deleting"
    BY <1>8 DEF BeginBatch, Working
  <2> QED
    BY <1>8, <2>1, <2>2, BatchFits DEF CountInv, CeilingRespected, ResultCountsRemoved
<1>9. CASE CommitBatch
  <2>1. PICK affected \in Deletable :
          /\ Delete(affected)
          /\ rowsDeleted' = rowsDeleted + Cardinality(affected)
          /\ \/ affected = {} /\ Finish(TRUE) /\ UNCHANGED <<gate, paused>>
             \/ affected # {} /\ gate' = "batch" /\ pc' = "request" /\ UNCHANGED reportVars
    BY <1>9 DEF CommitBatch
  <2>2. /\ pc = "deleting" /\ UNCHANGED job /\ result = NoResult
        /\ Cardinality(Removed) = rowsDeleted
    BY <1>9 DEF CommitBatch, CountInv, Working
  <2>3. /\ Cardinality(Removed') = rowsDeleted'
        /\ rowsDeleted' \in Nat /\ rowsDeleted' <= job.maxRows
    <3>1. /\ Cardinality(doomed) <= job.maxRows - rowsDeleted
          /\ job.maxRows \in Nat /\ rowsDeleted \in Nat
      BY <2>2 DEF CountInv, TypeOK
    <3>2. /\ Cardinality(affected) \in Nat /\ Cardinality(affected) <= Cardinality(doomed)
          /\ Cardinality(doomed) \in Nat
      BY DeletableFinite, FS_Subset, FS_CardinalityType DEF TypeOK
    <3> QED
      BY <2>1, <2>2, <3>1, <3>2, DeleteCounts
  <2>4. CASE affected = {}
    <3>1. UNCHANGED gate /\ Finish(TRUE)
      BY <2>1, <2>4, Zenon
    <3>2. rowsDeleted' = rowsDeleted
      <4>1. Cardinality(affected) = 0
        BY <2>4, FS_EmptySet
      <4> QED
        BY <2>1, <4>1 DEF TypeOK
    <3>3. pc' = "report" /\ result'.rows = rowsDeleted
      BY <3>1 DEF Finish, Seal
    <3> QED
      BY <2>2, <2>3, <3>1, <3>2, <3>3 DEF CountInv, CeilingRespected, ResultCountsRemoved, Working
  <2>5. CASE affected # {}
    <3>1. gate' = "batch" /\ pc' = "request" /\ result' = NoResult
      BY <2>1, <2>2, <2>5
    <3> QED
      BY <2>2, <2>3, <3>1 DEF CountInv, CeilingRespected, ResultCountsRemoved, NoResult, NoRows
  <2> QED
    BY <2>4, <2>5
<1>10. CASE BatchFails
  <2>1. /\ pc = "deleting" /\ UNCHANGED <<job, gate, rowsDeleted>>
        /\ pc' = "report" /\ result'.rows = NoRows
    BY <1>10 DEF BatchFails, Abort, Seal
  <2>2. Cardinality(Removed') <= job.maxRows
    BY <1>10, <2>1, BatchUnderCeiling DEF BatchFails
  <2> QED
    BY <2>1, <2>2 DEF CountInv, CeilingRespected, ResultCountsRemoved, Working
<1>11. CASE DatabaseUnavailable
  <2>1. Seal("FAILED", NoRows)
    BY <1>11 DEF DatabaseUnavailable, Abort
  <2> QED
    BY <1>11, <2>1, SealKeepsCount DEF DatabaseUnavailable, Working
<1>12. CASE NextBatch
  <2>1. UNCHANGED <<job, table, gate, rowsDeleted>> /\ pc \in Working
    BY <1>12 DEF NextBatch, Working
  <2>2. CASE Finish(FALSE)
    BY <2>1, <2>2, SealKeepsCount DEF Finish
  <2>3. CASE Abort("FAILED")
    <3>1. Seal("FAILED", NoRows)
      BY <2>3 DEF Abort
    <3> QED
      BY <2>1, <3>1, SealKeepsCount
  <2>4. CASE pc' = "batch" /\ UNCHANGED result
    BY <2>1, <2>4, WorkKeepsCount DEF Working
  <2> QED
    BY <1>12, <2>2, <2>3, <2>4 DEF NextBatch
<1>13. CASE CeilingReached
  BY <1>13, SealKeepsCount DEF CeilingReached, Finish, Working
<1>14. CASE Report
  BY <1>14, ReportKeepsCount DEF Report, Removed, Working
<1>15. CASE AnswerControl
  BY <1>15, WorkKeepsCount DEF AnswerControl, Working
<1>16. ASSUME NEW action \in Actions, Decide(action) PROVE CountInv'
  BY <1>16, IdleKeepsCount DEF Decide, Removed
<1>17. ASSUME NEW r \in Rows, NEW state \in RowStates \ {"deleted"}, ChangeRow(r, state)
       PROVE  CountInv'
  BY <1>17, ChangeKeepsRemoved, IdleKeepsCount DEF ChangeRow
<1>18. CASE Shutdown
  BY <1>18, IdleKeepsCount DEF Shutdown, Removed
<1>19. CASE Crash
  <2>1. /\ UNCHANGED <<job, gate, rowsDeleted, result>> /\ pc' = "crashed"
    BY <1>19 DEF Crash
  <2>2. CASE pc = "deleting"
    <3>1. Cardinality(Removed') <= job.maxRows
      BY <1>19, <2>2, BatchUnderCeiling DEF Crash
    <3>2. result = NoResult
      BY <2>2 DEF CountInv, Working
    <3> QED
      BY <2>1, <3>1, <3>2 DEF CountInv, CeilingRespected, ResultCountsRemoved, Working,
                              NoResult, NoRows
  <2>3. CASE pc # "deleting"
    <3>1. Removed' = Removed
      BY <1>19, <2>3 DEF Crash, Removed
    <3> QED
      BY <2>1, <3>1, ReportKeepsCount DEF Working
  <2> QED
    BY <2>2, <2>3
<1>20. CASE UNCHANGED vars
  BY <1>20, IdleKeepsCount DEF vars, Removed
<1> QED
  BY <1>1, <1>2, <1>3, <1>4, <1>5, <1>6, <1>7, <1>8, <1>9, <1>10, <1>11, <1>12, <1>13,
     <1>14, <1>15, <1>16, <1>17, <1>18, <1>19, <1>20
  DEF Next, Connector, Environment, Ended

(* CountInv holds initially, nothing being removed.                        *)
LEMMA CountInvInitial == Init => CountInv
<1> SUFFICES ASSUME Init PROVE CountInv
  OBVIOUS
<1>1. Removed = {}
  BY DEF Init, Removed, RowStates
<1>2. Cardinality(Removed) = 0
  BY <1>1, FS_EmptySet
<1>3. job.maxRows \in Nat
  BY DEF Init
<1> QED
  BY <1>2, <1>3 DEF Init, CountInv, CeilingRespected, ResultCountsRemoved, NoResult, NoRows

(* The ceiling of adapter.Delete: whatever fails, a DELETE job removes at  *)
(* most max_rows rows.                                                     *)
THEOREM CeilingHolds == Spec => []CeilingRespected
<1>1. CountInv => CeilingRespected
  BY DEF CountInv
<1> QED
  BY <1>1, CountInvInitial, CountInvInductive, TypeCorrect, PTL DEF Spec

(* A sealed result that carries statistics counts the rows removed.        *)
THEOREM ResultIsTruthful == Spec => []ResultCountsRemoved
<1>1. CountInv => ResultCountsRemoved
  BY DEF CountInv
<1> QED
  BY <1>1, CountInvInitial, CountInvInductive, TypeCorrect, PTL DEF Spec

-----------------------------------------------------------------------------
(* A removed row is a candidate at the moment it is removed.               *)
THEOREM RemovalsAreCandidates == Spec => OnlyCandidatesRemoved
<1> DEFINE Step == \A r \in Rows : table'[r] = "deleted" => table[r] \in {"candidate", "deleted"}
<1>1. ASSUME NEW S \in Deletable, Delete(S) PROVE Step
  BY <1>1 DEF Delete, Deletable, Candidates
<1>2. ASSUME UNCHANGED table PROVE Step
  BY <1>2
<1>3. TypeOK /\ [Next]_vars => [Step]_vars
  <2> SUFFICES ASSUME TypeOK, Next PROVE Step
    OBVIOUS
  <2>1. CASE CommitBatch \/ BatchFails \/ Crash
    BY <2>1, <1>1, <1>2 DEF CommitBatch, BatchFails, Crash
  <2>2. ASSUME NEW r \in Rows, NEW state \in RowStates \ {"deleted"}, ChangeRow(r, state)
        PROVE  Step
    BY <2>2 DEF ChangeRow, TypeOK
  <2>3. CASE UNCHANGED table
    BY <2>3, <1>2
  <2> HIDE DEF Step
  <2> QED
    BY <2>1, <2>2, <2>3
    DEF Next, Connector, Environment, Ended, vars, dbVars, Count, CountFails, RequestControl,
        ControlUnavailable, ControlInterrupted, ReceiveControl, ConnectExecutor, BeginBatch,
        DatabaseUnavailable, NextBatch, CeilingReached, Report, AnswerControl, Decide, Shutdown
<1> QED
  BY <1>3, TypeCorrect, PTL DEF Spec, OnlyCandidatesRemoved

-----------------------------------------------------------------------------
(* A step that leaves the checkpoint's memory alone and does not pass it.  *)
LEMMA GateUntouched ==
  ASSUME GateInv, UNCHANGED <<decisions, highestVersion, pausedAt>>,
         \/ pc' \notin {"connect", "batch", "deleting", "next"}
         \/ pc \in {"connect", "batch", "deleting", "next"}
  PROVE  GateInv'
BY DEF GateInv, PauseNeedsNewerRun

(* GateInv is inductive.                                                   *)
LEMMA GateInvInductive == TypeOK /\ GateInv /\ [Next]_vars => GateInv'
<1> SUFFICES ASSUME TypeOK, GateInv, [Next]_vars PROVE GateInv'
  OBVIOUS
<1> USE DEF controlVars, gateVars
<1>1. ASSUME NEW v \in Versions, ReceiveControl(v) PROVE GateInv'
  <2>1. v \in Nat /\ v >= highestVersion /\ highestVersion' = v /\ UNCHANGED decisions
    BY <1>1 DEF ReceiveControl, StaleVersion, Versions, TypeOK
  <2>2. CASE decisions[v] = "RUN" /\ ObeyRun
    <3>1. pausedAt' = pausedAt /\ pausedAt \in Nat /\ highestVersion \in Nat
      BY <2>2 DEF ObeyRun, TypeOK
    <3>2. v # pausedAt
      BY <2>2, <3>1, <2>1 DEF GateInv, Versions
    <3> QED
      BY <2>1, <3>1, <3>2 DEF GateInv, PauseNeedsNewerRun
  <2>3. CASE ObeyCancel
    <3>1. pausedAt' = pausedAt /\ pausedAt \in Nat /\ highestVersion \in Nat /\ pc' = "report"
      BY <2>3 DEF ObeyCancel, Abort, Seal, TypeOK
    <3> QED
      BY <2>1, <3>1 DEF GateInv, PauseNeedsNewerRun
  <2>4. CASE decisions[v] = "PAUSE" /\ ObeyPause(v)
    <3>1. pausedAt' = v /\ pc' = "request"
      BY <2>4 DEF ObeyPause
    <3> QED
      BY <2>1, <2>4, <3>1 DEF GateInv, PauseNeedsNewerRun
  <2> QED
    BY <1>1, <2>2, <2>3, <2>4 DEF ReceiveControl
<1>2. ASSUME NEW action \in Actions, Decide(action) PROVE GateInv'
  BY <1>2 DEF Decide, GateInv, PauseNeedsNewerRun, TypeOK
<1>3. CASE CommitBatch
  <2>1. UNCHANGED <<decisions, highestVersion, pausedAt>> /\ pc = "deleting"
    BY <1>3 DEF CommitBatch
  <2> QED
    BY <2>1, GateUntouched
<1>4. CASE NextBatch \/ ConnectExecutor \/ BeginBatch \/ DatabaseUnavailable \/ CeilingReached \/ BatchFails
  BY <1>4, GateUntouched DEF NextBatch, ConnectExecutor, BeginBatch, DatabaseUnavailable,
                             CeilingReached, BatchFails
<1>5. CASE Count \/ CountFails \/ RequestControl \/ ControlUnavailable \/ ControlInterrupted \/ Report
  <2>1. UNCHANGED <<decisions, highestVersion, pausedAt>>
    BY <1>5 DEF Count, CountFails, RequestControl, ControlUnavailable, ControlInterrupted, Report
  <2>2. pc' \in {"request", "awaiting", "report", "done"}
    BY <1>5 DEF Count, CountFails, RequestControl, ControlUnavailable, ControlInterrupted,
                Report, Seal, Abort
  <2> QED
    BY <2>1, <2>2, GateUntouched
<1>6. CASE AnswerControl \/ Shutdown \/ Crash \/ UNCHANGED vars
  BY <1>6, GateUntouched DEF AnswerControl, Shutdown, Crash, vars
<1>7. ASSUME NEW r \in Rows, NEW state \in RowStates \ {"deleted"}, ChangeRow(r, state)
      PROVE  GateInv'
  BY <1>7, GateUntouched DEF ChangeRow
<1> QED
  BY <1>1, <1>2, <1>3, <1>4, <1>5, <1>6, <1>7 DEF Next, Connector, Environment, Ended

(* However far the replicas of the control plane trail, a pause the        *)
(* connector has obeyed is ended only by a newer decision.                 *)
THEOREM PauseHolds == Spec => []PauseNeedsNewerRun
<1>1. Init => GateInv
  BY DEF Init, GateInv, PauseNeedsNewerRun
<1>2. GateInv => PauseNeedsNewerRun
  BY DEF GateInv
<1> QED
  BY <1>1, <1>2, GateInvInductive, TypeCorrect, PTL DEF Spec

-----------------------------------------------------------------------------
(* StopInv is inductive when the control plane answers with the decision   *)
(* it holds.                                                               *)
LEMMA StopInvInductive ==
  ASSUME MaxLag = 0
  PROVE  TypeOK /\ StopInv /\ [Next]_vars => StopInv'
<1> SUFFICES ASSUME TypeOK, StopInv, [Next]_vars PROVE StopInv'
  OBVIOUS
<1> USE DEF controlVars, gateVars
<1>1. ASSUME NEW v \in Versions, ReceiveControl(v) PROVE StopInv'
  <2>1. /\ UNCHANGED <<decisions, fresh, begunAfterStop>> /\ pc = "awaiting"
        /\ v \in fresh /\ begunAfterStop \in Nat
    BY <1>1 DEF ReceiveControl, ValidControl, TypeOK
  <2>2. CASE begunAfterStop = 0
    BY <2>1, <2>2 DEF StopInv, Decision
  <2>3. CASE begunAfterStop = 1
    <3>1. v = Len(decisions) /\ decisions[v] # "RUN"
      BY <2>1, <2>3 DEF StopInv, Decision
    <3>2. pc' \in {"report", "request"}
      BY <1>1, <3>1 DEF ReceiveControl, ObeyCancel, ObeyPause, Abort, Seal
    <3> QED
      BY <2>1, <2>3, <3>2 DEF StopInv, Decision
  <2> QED
    BY <2>1, <2>2, <2>3 DEF StopInv
<1>2. ASSUME NEW action \in Actions, Decide(action) PROVE StopInv'
  BY <1>2 DEF Decide, StopInv
<1>3. CASE BeginBatch
  BY <1>3 DEF BeginBatch, StopInv, Decision, TypeOK
<1>4. CASE RequestControl
  BY <1>4 DEF RequestControl, StopInv, Decision
<1>5. CASE AnswerControl
  <2>1. PICK v \in Versions : v + MaxLag >= Len(decisions) /\ fresh' = {v}
    BY <1>5 DEF AnswerControl
  <2>2. v = Len(decisions)
    BY <2>1 DEF Versions, TypeOK
  <2> QED
    BY <1>5, <2>1, <2>2 DEF AnswerControl, StopInv, Decision
<1>6. ASSUME UNCHANGED <<decisions, fresh, begunAfterStop>>,
             \/ pc' \notin {"count", "connect", "batch", "next", "awaiting"}
             \/ pc' = "awaiting" /\ pc = "awaiting"
             \/ pc \in {"count", "connect", "batch", "next"}
             \/ pc' = pc
      PROVE  StopInv'
  BY <1>6 DEF StopInv, Decision, TypeOK
<1>7. CASE CommitBatch
  <2>1. UNCHANGED <<decisions, fresh, begunAfterStop>> /\ pc' \in {"request", "report"}
    BY <1>7 DEF CommitBatch, Finish, Seal
  <2> QED
    BY <2>1, <1>6
<1>8. CASE BatchFails \/ ControlInterrupted \/ ControlUnavailable \/ Report
  BY <1>8, <1>6 DEF BatchFails, ControlInterrupted, ControlUnavailable, Report, Abort, Seal
<1>9. CASE Count \/ CountFails \/ NextBatch \/ ConnectExecutor \/ DatabaseUnavailable \/ CeilingReached
  BY <1>9, <1>6 DEF Count, CountFails, NextBatch, ConnectExecutor, DatabaseUnavailable, CeilingReached
<1>10. CASE Shutdown \/ Crash \/ UNCHANGED vars
  BY <1>10, <1>6 DEF Shutdown, Crash, vars
<1>11. ASSUME NEW r \in Rows, NEW state \in RowStates \ {"deleted"}, ChangeRow(r, state)
       PROVE  StopInv'
  BY <1>11, <1>6 DEF ChangeRow
<1> QED
  BY <1>1, <1>2, <1>3, <1>4, <1>5, <1>7, <1>8, <1>9, <1>10, <1>11
  DEF Next, Connector, Environment, Ended

(* After the operator's PAUSE or CANCEL at most one more batch begins.     *)
THEOREM StopBound == Spec => []AtMostOneBatchAfterStop
<1>1. CASE MaxLag = 0
  <2>1. Init => StopInv
    BY DEF Init, StopInv
  <2>2. StopInv => AtMostOneBatchAfterStop
    BY DEF StopInv, AtMostOneBatchAfterStop
  <2>3. TypeOK /\ StopInv /\ [Next]_vars => StopInv'
    BY <1>1, StopInvInductive
  <2> QED
    BY <2>1, <2>2, <2>3, TypeCorrect, PTL DEF Spec
<1>2. CASE MaxLag # 0
  <2>1. AtMostOneBatchAfterStop
    BY <1>2 DEF AtMostOneBatchAfterStop
  <2> QED
    BY <2>1, PTL
<1> QED
  BY <1>1, <1>2

-----------------------------------------------------------------------------
(* An event under the next sequence number is newer than all there are.    *)
LEMMA EmitNewer ==
  ASSUME TypeOK, EventInv, pc \in Working, NEW type, NEW rows \in Nat, rows >= rowsDeleted,
         Emit(type, sequence + 1, rows)
  PROVE  /\ EventsConsistent'
         /\ \A e \in received' : e.sequence <= sequence + 1 /\ e.rows <= rows
         /\ \A e \in received' : e.sequence = sequence + 1 => e.type = type /\ e.rows = rows
         /\ \A e \in received' : e.sequence = sequence => e \in received
<1> DEFINE new == [type |-> type, sequence |-> sequence + 1, rows |-> rows]
<1>1. received' = received \/ received' = received \cup {new}
  BY DEF Emit
<1>2. new.sequence = sequence + 1 /\ new.rows = rows /\ new.type = type
  OBVIOUS
<1>3. \A e \in received : /\ e.sequence \in Nat /\ e.rows \in Nat
                          /\ e.sequence <= sequence /\ e.rows <= rowsDeleted
  BY DEF EventInv, TypeOK
<1>4. sequence \in Nat /\ rowsDeleted \in Nat
  BY DEF TypeOK
<1> HIDE DEF new
<1>5. \A e \in received' : e = new \/ e \in received
  BY <1>1
<1>6. EventsConsistent'
  <2> SUFFICES ASSUME NEW e \in received', NEW f \in received'
               PROVE  /\ e.sequence = f.sequence => e = f
                      /\ e.sequence < f.sequence => e.rows <= f.rows
    BY DEF EventsConsistent
  <2>1. CASE e = new \/ f = new
    BY <1>2, <1>3, <1>4, <1>5, <2>1
  <2>2. CASE e \in received /\ f \in received
    BY <2>2 DEF EventInv, EventsConsistent
  <2> QED
    BY <1>5, <2>1, <2>2
<1> QED
  BY <1>2, <1>3, <1>4, <1>5, <1>6

(* A step that announces and counts nothing.                               *)
LEMMA SilenceKeepsEvents ==
  ASSUME EventInv, UNCHANGED <<received, sequence, rowsDeleted, paused>>,
         pc' \in Working => pc \in Working, pc' = "count" => pc = "count"
  PROVE  EventInv'
BY DEF EventInv, EventsConsistent

(* Sealing ends the work, so that nothing is announced after it.           *)
LEMMA SealKeepsEvents ==
  ASSUME EventInv, UNCHANGED <<received, sequence, rowsDeleted, paused>>,
         NEW status, NEW rows, Seal(status, rows)
  PROVE  EventInv'
BY SilenceKeepsEvents DEF Seal, Working

(* An ABORTED event is the last one.                                       *)
LEMMA AbortKeepsEvents ==
  ASSUME TypeOK, EventInv, pc \in Working, UNCHANGED <<rowsDeleted, paused>>,
         NEW status, Abort(status)
  PROVE  EventInv'
<1>1. Emit("ABORTED", sequence + 1, rowsDeleted) /\ UNCHANGED sequence /\ pc' = "report"
  BY DEF Abort, Seal
<1>2. rowsDeleted \in Nat /\ rowsDeleted >= rowsDeleted
  BY DEF TypeOK
<1>3. EventsConsistent' /\ \A e \in received' : e.sequence = sequence => e \in received
  BY <1>1, <1>2, EmitNewer
<1> QED
  BY <1>1, <1>3 DEF EventInv, Working

(* EventInv is inductive.                                                  *)
LEMMA EventInvInductive == TypeOK /\ EventInv /\ [Next]_vars => EventInv'
<1> SUFFICES ASSUME TypeOK, EventInv, [Next]_vars PROVE EventInv'
  OBVIOUS
<1> USE DEF gateVars, countVars
<1>1. CASE Count
  <2>1. UNCHANGED <<sequence, rowsDeleted, paused>> /\ pc = "count" /\ received = {}
    BY <1>1 DEF Count, EventInv
  <2>2. CASE UNCHANGED received /\ Seal("PLAN_STALE", 0)
    BY <2>1, <2>2, SealKeepsEvents
  <2>3. CASE Emit("ACCEPTED", sequence, 0) /\ pc' = "request"
    <3>1. received' \subseteq {[type |-> "ACCEPTED", sequence |-> sequence, rows |-> 0]}
      BY <2>1, <2>3 DEF Emit
    <3>2. ~paused
      BY <2>1 DEF EventInv
    <3> QED
      BY <2>1, <2>3, <3>1, <3>2 DEF EventInv, EventsConsistent, TypeOK
  <2> QED
    BY <1>1, <2>2, <2>3 DEF Count
<1>2. CASE CountFails
  BY <1>2, SealKeepsEvents DEF CountFails
<1>3. CASE RequestControl \/ ControlUnavailable \/ ConnectExecutor \/ BeginBatch
  BY <1>3, SilenceKeepsEvents
  DEF RequestControl, ControlUnavailable, ConnectExecutor, BeginBatch, Working
<1>4. CASE ControlInterrupted
  <2>1. UNCHANGED <<rowsDeleted, paused>> /\ pc \in Working
    BY <1>4 DEF ControlInterrupted, Working
  <2> QED
    BY <1>4, <2>1, SealKeepsEvents, AbortKeepsEvents DEF ControlInterrupted
<1>5. ASSUME NEW v \in Versions, ReceiveControl(v) PROVE EventInv'
  <2>1. UNCHANGED rowsDeleted /\ pc \in Working /\ rowsDeleted \in Nat /\ sequence \in Nat
    BY <1>5 DEF ReceiveControl, Working, TypeOK
  <2>2. CASE ObeyRun
    <3>1. pc' \in Working \ {"count"} /\ paused' = FALSE
      BY <2>2 DEF ObeyRun, Working
    <3>2. CASE paused
      <4>1. sequence' = sequence + 1 /\ Emit("RESUMED", sequence + 1, rowsDeleted)
        BY <2>2, <3>2 DEF ObeyRun
      <4>2. EventsConsistent' /\ \A e \in received' : e.sequence <= sequence + 1 /\ e.rows <= rowsDeleted
        BY <2>1, <4>1, EmitNewer
      <4> QED
        BY <2>1, <3>1, <4>1, <4>2 DEF EventInv
    <3>3. CASE ~paused
      <4>1. UNCHANGED <<sequence, received>>
        BY <2>2, <3>3 DEF ObeyRun
      <4> QED
        BY <2>1, <3>1, <4>1 DEF EventInv, EventsConsistent
    <3> QED
      BY <3>2, <3>3
  <2>3. CASE ObeyCancel
    <3>1. UNCHANGED paused
      BY <2>3 DEF ObeyCancel
    <3> QED
      BY <2>1, <2>3, <3>1, SealKeepsEvents, AbortKeepsEvents DEF ObeyCancel
  <2>4. CASE ObeyPause(v)
    <3>1. pc' = "request" /\ paused' = TRUE
      BY <2>4 DEF ObeyPause
    <3>2. CASE paused
      <4>1. UNCHANGED sequence /\ Emit("PAUSED", sequence, rowsDeleted)
        BY <2>4, <3>2 DEF ObeyPause
      <4> DEFINE again == [type |-> "PAUSED", sequence |-> sequence, rows |-> rowsDeleted]
      <4>2. received' = received \/ received' = received \cup {again}
        BY <4>1 DEF Emit
      <4>3. \A e \in received :
              /\ e \in [type: EventTypes, sequence: Nat, rows: Nat]
              /\ e.sequence <= sequence /\ e.rows <= rowsDeleted
              /\ e.sequence = sequence => e.type = "PAUSED" /\ e.rows = rowsDeleted
        BY <2>1, <3>2 DEF EventInv, TypeOK
      <4>4. \A e \in received : e.sequence = sequence => e = again
        BY <4>3
      <4>5. again.sequence = sequence /\ again.rows = rowsDeleted /\ again.type = "PAUSED"
        OBVIOUS
      <4> HIDE DEF again
      <4>6. \A e \in received' : e = again \/ e \in received
        BY <4>2
      <4>7. \A e \in received :
              e.sequence \in Nat /\ e.rows \in Nat
        BY DEF TypeOK
      <4>8. EventsConsistent'
        <5> SUFFICES ASSUME NEW e \in received', NEW f \in received'
                     PROVE  /\ e.sequence = f.sequence => e = f
                            /\ e.sequence < f.sequence => e.rows <= f.rows
          BY DEF EventsConsistent
        <5>1. CASE e = again \/ f = again
          BY <2>1, <4>3, <4>4, <4>5, <4>6, <4>7, <5>1
        <5>2. CASE e \in received /\ f \in received
          BY <5>2 DEF EventInv, EventsConsistent
        <5> QED
          BY <4>6, <5>1, <5>2
      <4>9. \A e \in received' :
              /\ e.sequence <= sequence /\ e.rows <= rowsDeleted
              /\ e.sequence = sequence => e.type = "PAUSED" /\ e.rows = rowsDeleted
        BY <2>1, <4>3, <4>5, <4>6
      <4> QED
        BY <2>1, <3>1, <4>1, <4>8, <4>9 DEF EventInv
    <3>3. CASE ~paused
      <4>1. sequence' = sequence + 1 /\ Emit("PAUSED", sequence + 1, rowsDeleted)
        BY <2>4, <3>3 DEF ObeyPause
      <4>2. /\ EventsConsistent'
            /\ \A e \in received' : e.sequence <= sequence + 1 /\ e.rows <= rowsDeleted
            /\ \A e \in received' :
                 e.sequence = sequence + 1 => e.type = "PAUSED" /\ e.rows = rowsDeleted
        BY <2>1, <4>1, EmitNewer
      <4> QED
        BY <2>1, <3>1, <4>1, <4>2 DEF EventInv
    <3> QED
      BY <3>2, <3>3
  <2> QED
    BY <1>5, <2>2, <2>3, <2>4 DEF ReceiveControl
<1>6. CASE CommitBatch
  <2>1. PICK affected \in Deletable :
          /\ rowsDeleted' = rowsDeleted + Cardinality(affected)
          /\ \/ affected = {} /\ Finish(TRUE) /\ UNCHANGED paused
             \/ /\ affected # {}
                /\ sequence' = sequence + 1
                /\ Emit("BATCH_COMMITTED", sequence', rowsDeleted')
                /\ paused' = FALSE
                /\ pc' = "request"
    BY <1>6 DEF CommitBatch
  <2>2. Cardinality(affected) \in Nat /\ rowsDeleted \in Nat /\ pc \in Working
    BY <1>6, DeletableFinite DEF CommitBatch, Working, TypeOK
  <2>3. CASE affected = {}
    <3>1. Cardinality(affected) = 0
      BY <2>3, FS_EmptySet
    <3>2. UNCHANGED <<rowsDeleted, paused>>
      BY <2>1, <2>2, <2>3, <3>1
    <3>3. UNCHANGED <<received, sequence>> /\ pc' = "report"
      BY <2>1, <2>3 DEF Finish, Seal
    <3> QED
      BY <3>2, <3>3, SilenceKeepsEvents DEF Working
  <2>4. CASE affected # {}
    <3>1. /\ sequence' = sequence + 1 /\ ~paused' /\ pc' = "request"
          /\ Emit("BATCH_COMMITTED", sequence + 1, rowsDeleted')
      BY <2>1, <2>4
    <3>2. rowsDeleted' \in Nat /\ rowsDeleted' >= rowsDeleted
      BY <2>1, <2>2
    <3>3. /\ EventsConsistent'
          /\ \A e \in received' : e.sequence <= sequence + 1 /\ e.rows <= rowsDeleted'
      BY <2>2, <3>1, <3>2, EmitNewer
    <3> QED
      BY <3>1, <3>3 DEF EventInv
  <2> QED
    BY <2>3, <2>4
<1>7. CASE BatchFails
  BY <1>7, AbortKeepsEvents DEF BatchFails, Working
<1>8. CASE DatabaseUnavailable
  BY <1>8, AbortKeepsEvents DEF DatabaseUnavailable, Working
<1>9. CASE NextBatch
  <2>1. UNCHANGED <<rowsDeleted, paused>> /\ pc \in Working
    BY <1>9 DEF NextBatch, Working
  <2>2. CASE Finish(FALSE)
    BY <2>1, <2>2, SealKeepsEvents DEF Finish
  <2>3. CASE Abort("FAILED")
    BY <2>1, <2>3, AbortKeepsEvents
  <2>4. CASE pc' = "batch" /\ UNCHANGED <<sequence, received>>
    BY <2>1, <2>4, SilenceKeepsEvents
  <2> QED
    BY <1>9, <2>2, <2>3, <2>4 DEF NextBatch
<1>10. CASE CeilingReached
  BY <1>10, SealKeepsEvents DEF CeilingReached, Finish
<1>11. CASE Report
  BY <1>11, SilenceKeepsEvents DEF Report, Working
<1>12. CASE AnswerControl \/ Shutdown \/ Crash \/ UNCHANGED vars
  BY <1>12, SilenceKeepsEvents DEF AnswerControl, Shutdown, Crash, vars, Working, Terminal
<1>13. ASSUME NEW action \in Actions, Decide(action) PROVE EventInv'
  BY <1>13, SilenceKeepsEvents DEF Decide
<1>14. ASSUME NEW r \in Rows, NEW state \in RowStates \ {"deleted"}, ChangeRow(r, state)
       PROVE  EventInv'
  BY <1>14, SilenceKeepsEvents DEF ChangeRow
<1> QED
  BY <1>1, <1>2, <1>3, <1>4, <1>5, <1>6, <1>7, <1>8, <1>9, <1>10, <1>11, <1>12, <1>13, <1>14
  DEF Next, Connector, Environment, Ended

(* Whatever is lost or sent again, a sequence number stands for one event  *)
(* and the rows announced grow with it (delete's emit and awaitControl).   *)
THEOREM EventsAreConsistent == Spec => []EventsConsistent
<1>1. Init => EventInv
  BY DEF Init, EventInv, EventsConsistent
<1>2. EventInv => EventsConsistent
  BY DEF EventInv
<1> QED
  BY <1>1, <1>2, EventInvInductive, TypeCorrect, PTL DEF Spec

-----------------------------------------------------------------------------
(* Nobody else writing, a batch removes the rows it selected, all of them. *)
LEMMA BatchRemovesSelection ==
  ASSUME TypeOK, CompletionInv, changes = 0, pc = "deleting", NEW S \in Deletable
  PROVE  S = doomed
BY DEF CompletionInv, Deletable

(* Removing candidates leaves that many fewer.                             *)
LEMMA DeleteUncounts ==
  ASSUME TypeOK, NEW S \in Deletable, Delete(S)
  PROVE  Cardinality(Candidates') = Cardinality(Candidates) - Cardinality(S)
<1>1. Candidates' = Candidates \ S
  BY DEF Delete, Candidates, TypeOK
<1>2. S \subseteq Candidates
  BY DeletableFinite
<1>3. Cardinality(Candidates \ S) = Cardinality(Candidates) - Cardinality(Candidates \cap S)
  BY CandidatesFinite, DeletableFinite, FS_Difference
<1>4. Candidates \cap S = S
  BY <1>2
<1> QED
  BY <1>1, <1>3, <1>4, Zenon

(* A step that leaves the table and the counts alone, and goes on.         *)
LEMMA WorkKeepsCompletion ==
  ASSUME CompletionInv, UNCHANGED <<table, touched, changes, measured, rowsDeleted, result>>,
         pc' \in Working => pc \in Working \ {"count"},
         pc' = "deleting" => pc = "deleting" /\ UNCHANGED doomed
  PROVE  CompletionInv'
<1>1. Candidates' = Candidates
  BY DEF Candidates
<1> QED
  BY <1>1 DEF CompletionInv, TruthfulCompletion

(* A result that is no verdict on the candidates.                          *)
LEMMA VerdictlessKeepsCompletion ==
  ASSUME CompletionInv, UNCHANGED <<touched, changes>>,
         pc' \notin Working, result'.status \notin {"COMPLETED", "PARTIAL"}
  PROVE  CompletionInv'
BY DEF CompletionInv, TruthfulCompletion, Working

(* The verdict after the loop was ended: the recount decides.              *)
LEMMA FinishKeepsCompletion ==
  ASSUME TypeOK, CompletionInv, pc \in Working \ {"count"},
         UNCHANGED <<table, touched, changes, measured, rowsDeleted>>, Finish(FALSE)
  PROVE  CompletionInv'
<1>1. Candidates' = Candidates
  BY DEF Candidates
<1>2. pc' \notin Working
  BY DEF Finish, Seal, Working
<1>3. result'.status = IF rowsDeleted >= measured THEN "COMPLETED" ELSE "PARTIAL"
  BY DEF Finish, Seal
<1>4. ASSUME changes = 0 PROVE TruthfulCompletion'
  <2>1. measured = rowsDeleted + Cardinality(Candidates)
    BY <1>4 DEF CompletionInv
  <2>2. measured \in Nat /\ rowsDeleted \in Nat /\ Cardinality(Candidates) \in Nat
    BY CandidatesFinite DEF TypeOK
  <2>3. Cardinality(Candidates) = 0 <=> Candidates = {}
    BY CandidatesFinite, FS_EmptySet
  <2>4. CASE rowsDeleted >= measured
    <3>1. Cardinality(Candidates) = 0
      BY <2>1, <2>2, <2>4
    <3> QED
      BY <1>1, <1>3, <2>3, <2>4, <3>1 DEF TruthfulCompletion
  <2>5. CASE ~(rowsDeleted >= measured)
    <3>1. Cardinality(Candidates) # 0
      BY <2>1, <2>2, <2>5
    <3> QED
      BY <1>1, <1>3, <2>3, <2>5, <3>1 DEF TruthfulCompletion
  <2> QED
    BY <2>4, <2>5
<1> QED
  BY <1>2, <1>4 DEF CompletionInv, Working

(* CompletionInv is inductive; CountInv tells what the books say.          *)
LEMMA CompletionInvInductive ==
  TypeOK /\ CountInv /\ CompletionInv /\ [Next]_vars => CompletionInv'
<1> SUFFICES ASSUME TypeOK, CountInv, CompletionInv, [Next]_vars PROVE CompletionInv'
  OBVIOUS
<1> USE DEF dbVars, countVars, reportVars
<1>1. CASE Count
  <2>1. /\ pc = "count" /\ rowsDeleted = 0 /\ UNCHANGED <<table, touched, changes, rowsDeleted>>
        /\ measured' = Cardinality(Candidates)
    BY <1>1 DEF Count, CountInv
  <2>2. Candidates' = Candidates /\ Cardinality(Candidates) \in Nat
    BY <2>1, CandidatesFinite DEF Candidates
  <2>3. CASE Seal("PLAN_STALE", 0)
    BY <2>1, <2>3, VerdictlessKeepsCompletion DEF Seal, Working
  <2>4. CASE pc' = "request" /\ UNCHANGED result
    BY <2>1, <2>2, <2>4 DEF CompletionInv, TruthfulCompletion
  <2> QED
    BY <1>1, <2>3, <2>4 DEF Count
<1>2. CASE CountFails
  BY <1>2, VerdictlessKeepsCompletion DEF CountFails, Seal, Working
<1>3. CASE RequestControl \/ ControlUnavailable \/ ConnectExecutor
  BY <1>3, WorkKeepsCompletion DEF RequestControl, ControlUnavailable, ConnectExecutor, Working
<1>4. CASE ControlInterrupted
  BY <1>4, VerdictlessKeepsCompletion DEF ControlInterrupted, Abort, Seal, Working
<1>5. ASSUME NEW v \in Versions, ReceiveControl(v) PROVE CompletionInv'
  <2>1. pc = "awaiting" /\ UNCHANGED <<table, touched, changes, measured, rowsDeleted>>
    BY <1>5 DEF ReceiveControl
  <2>2. CASE ObeyCancel
    BY <2>1, <2>2, VerdictlessKeepsCompletion DEF ObeyCancel, Abort, Seal, Working
  <2>3. CASE ObeyRun \/ ObeyPause(v)
    <3>1. UNCHANGED result /\ pc' \in {"connect", "next", "request"}
      BY <2>3 DEF ObeyRun, ObeyPause
    <3> QED
      BY <2>1, <3>1, WorkKeepsCompletion DEF Working
  <2> QED
    BY <1>5, <2>2, <2>3 DEF ReceiveControl
<1>6. CASE BeginBatch
  <2>1. /\ pc = "batch" /\ pc' = "deleting" /\ touched' = {}
        /\ UNCHANGED <<table, changes, measured, rowsDeleted, result>>
        /\ doomed' \subseteq Candidates
        /\ Cardinality(doomed') = Smaller(NextBatchSize, Cardinality(Candidates))
        /\ rowsDeleted < job.maxRows
    BY <1>6 DEF BeginBatch, gateVars
  <2>2. Candidates' = Candidates
    BY <2>1 DEF Candidates
  <2>3. doomed' = {} => Candidates = {}
    <3>1. /\ Cardinality(Candidates) \in Nat
          /\ Cardinality(Candidates) = 0 <=> Candidates = {}
      BY CandidatesFinite, FS_EmptySet
    <3>2. Cardinality({}) = 0
      BY FS_EmptySet
    <3>3. NextBatchSize \in Nat \ {0}
      BY <2>1 DEF NextBatchSize, Smaller, TypeOK
    <3>4. doomed' = {} => Smaller(NextBatchSize, Cardinality(Candidates)) = 0
      BY <2>1, <3>2
    <3> QED
      BY <3>1, <3>3, <3>4 DEF Smaller
  <2> QED
    BY <2>1, <2>2, <2>3 DEF CompletionInv, TruthfulCompletion, Working
<1>7. CASE CommitBatch
  <2> SUFFICES ASSUME changes' = 0 PROVE CompletionInv'
    BY DEF CompletionInv
  <2>1. PICK affected \in Deletable :
          /\ Delete(affected)
          /\ rowsDeleted' = rowsDeleted + Cardinality(affected)
          /\ \/ affected = {} /\ Finish(TRUE)
             \/ affected # {} /\ pc' = "request" /\ UNCHANGED result
    BY <1>7 DEF CommitBatch
  <2>2. pc = "deleting" /\ UNCHANGED <<touched, changes, measured>> /\ changes = 0
    BY <1>7 DEF CommitBatch
  <2>3. /\ affected = doomed /\ touched' = {}
        /\ measured = rowsDeleted + Cardinality(Candidates)
        /\ doomed = {} => Candidates = {}
    BY <2>2, BatchRemovesSelection DEF CompletionInv, Working
  <2>4. CASE affected = {}
    <3>1. Candidates' = {}
      BY <2>1, <2>3, <2>4 DEF Delete, Candidates, TypeOK
    <3>2. pc' \notin Working /\ result'.status = "COMPLETED"
      BY <2>1, <2>4 DEF Finish, Seal, Working
    <3> QED
      BY <2>3, <3>1, <3>2 DEF CompletionInv, TruthfulCompletion, Working
  <2>5. CASE affected # {}
    <3>1. pc' = "request" /\ result' = NoResult
      BY <2>1, <2>2, <2>5 DEF CountInv, Working
    <3>2. measured' = rowsDeleted' + Cardinality(Candidates')
      <4>1. Cardinality(Candidates') = Cardinality(Candidates) - Cardinality(affected)
        BY <2>1, DeleteUncounts
      <4>2. Cardinality(affected) \in Nat /\ Cardinality(Candidates) \in Nat /\ rowsDeleted \in Nat
        BY DeletableFinite, CandidatesFinite DEF TypeOK
      <4> QED
        BY <2>1, <2>2, <2>3, <4>1, <4>2
    <3> QED
      BY <2>3, <3>1, <3>2 DEF CompletionInv, TruthfulCompletion, NoResult
  <2> QED
    BY <2>4, <2>5
<1>8. CASE BatchFails
  BY <1>8, VerdictlessKeepsCompletion DEF BatchFails, Abort, Seal, Working
<1>9. CASE DatabaseUnavailable
  BY <1>9, VerdictlessKeepsCompletion DEF DatabaseUnavailable, Abort, Seal, Working
<1>10. CASE NextBatch
  <2>1. pc = "next" /\ UNCHANGED <<table, touched, changes, measured, rowsDeleted>>
    BY <1>10 DEF NextBatch
  <2>2. CASE Finish(FALSE)
    BY <2>1, <2>2, FinishKeepsCompletion DEF Working
  <2>3. CASE Abort("FAILED")
    BY <2>1, <2>3, VerdictlessKeepsCompletion DEF Abort, Seal, Working
  <2>4. CASE pc' = "batch" /\ UNCHANGED result
    BY <2>1, <2>4, WorkKeepsCompletion DEF Working
  <2> QED
    BY <1>10, <2>2, <2>3, <2>4 DEF NextBatch
<1>11. CASE CeilingReached
  BY <1>11, FinishKeepsCompletion DEF CeilingReached, Working
<1>12. CASE Report
  BY <1>12, WorkKeepsCompletion DEF Report, Working
<1>13. CASE AnswerControl \/ Shutdown \/ UNCHANGED vars
  <2>1. UNCHANGED <<table, doomed, touched, changes, measured, rowsDeleted, result, pc>>
    BY <1>13 DEF AnswerControl, Shutdown, vars
  <2>2. Candidates' = Candidates
    BY <2>1 DEF Candidates
  <2> QED
    BY <2>1, <2>2 DEF CompletionInv, TruthfulCompletion
<1>14. ASSUME NEW action \in Actions, Decide(action) PROVE CompletionInv'
  <2>1. UNCHANGED <<table, doomed, touched, changes, measured, rowsDeleted, result, pc>>
    BY <1>14 DEF Decide
  <2>2. Candidates' = Candidates
    BY <2>1 DEF Candidates
  <2> QED
    BY <2>1, <2>2 DEF CompletionInv, TruthfulCompletion
<1>15. ASSUME NEW r \in Rows, NEW state \in RowStates \ {"deleted"}, ChangeRow(r, state)
       PROVE  CompletionInv'
  <2>1. changes' # 0
    BY <1>15 DEF ChangeRow, TypeOK
  <2> QED
    BY <2>1 DEF CompletionInv
<1>16. CASE Crash
  <2>1. pc' \notin Working /\ UNCHANGED <<touched, changes, result>>
    BY <1>16 DEF Crash, Working
  <2>2. CASE pc = "deleting"
    <3>1. result' = NoResult
      BY <2>1, <2>2 DEF CountInv, Working
    <3> QED
      BY <2>1, <3>1, VerdictlessKeepsCompletion DEF NoResult
  <2>3. CASE pc # "deleting"
    <3>1. UNCHANGED <<table, measured, rowsDeleted>>
      BY <1>16, <2>3 DEF Crash
    <3> QED
      BY <2>1, <3>1, WorkKeepsCompletion DEF Working
  <2> QED
    BY <2>2, <2>3
<1> QED
  BY <1>1, <1>2, <1>3, <1>4, <1>5, <1>6, <1>7, <1>8, <1>9, <1>10, <1>11, <1>12, <1>13, <1>14,
     <1>15, <1>16
  DEF Next, Connector, Environment, Ended

(* When nobody else writes to the table, the verdict of adapter.Delete,    *)
(* corrected against the recount, is the truth about what is left of it,   *)
(* wherever the loop was stopped.                                          *)
THEOREM CompletionIsTruthful == Spec => []TruthfulCompletion
<1>1. Init => CompletionInv
  BY DEF Init, CompletionInv, TruthfulCompletion, NoResult
<1>2. CompletionInv => TruthfulCompletion
  BY DEF CompletionInv, TruthfulCompletion
<1> QED
  BY <1>1, <1>2, CompletionInvInductive, CountInvInitial, CountInvInductive, TypeCorrect, PTL
  DEF Spec

-----------------------------------------------------------------------------
(* Above what the plan expected, fewer rows have drifted less.             *)
LEMMA DriftGrows ==
  ASSUME NEW drift, NEW less \in Int, NEW more \in Int,
         drift.expectedRows \in Nat, drift.driftRows \in Nat, drift.driftBasisPoints \in Nat,
         drift.expectedRows < less, less <= more, ~DriftExceeded(drift, more)
  PROVE  ~DriftExceeded(drift, less)
<1> DEFINE expected == drift.expectedRows
           small == Difference(expected, less)
           large == Difference(expected, more)
<1>1. /\ small \in Nat /\ large \in Nat /\ small <= large
      /\ small # 0 /\ large # 0
  BY DEF Difference
<1>2. small * 10000 <= large * 10000 /\ small * 10000 \in Int /\ large * 10000 \in Int
  <2> HIDE DEF small, large
  <2> QED
    BY <1>1
<1>3. ~(drift.driftRows = 0 /\ drift.driftBasisPoints = 0)
  BY <1>1 DEF DriftExceeded
<1>4. /\ ~(drift.driftRows > 0 /\ large > drift.driftRows)
      /\ ~(drift.driftBasisPoints > 0 /\ expected > 0
             /\ large * 10000 > expected * drift.driftBasisPoints)
  BY <1>3 DEF DriftExceeded
<1>5. ~(drift.driftRows > 0 /\ small > drift.driftRows)
  <2> HIDE DEF small, large
  <2> QED
    BY <1>1, <1>4
<1>6. ~(drift.driftBasisPoints > 0 /\ expected > 0
          /\ small * 10000 > expected * drift.driftBasisPoints)
  <2>1. expected * drift.driftBasisPoints \in Int
    OBVIOUS
  <2> HIDE DEF small, large
  <2> QED
    BY <1>2, <1>4, <2>1
<1> QED
  BY <1>3, <1>5, <1>6 DEF DriftExceeded

(* One change by another session adds one candidate at most.               *)
LEMMA ChangeAddsOne ==
  ASSUME TypeOK, NEW r \in Rows, NEW state \in RowStates \ {"deleted"}, ChangeRow(r, state)
  PROVE  Cardinality(Candidates') <= Cardinality(Candidates) + 1
<1>1. Candidates' \subseteq Candidates \cup {r}
  BY DEF ChangeRow, Candidates, TypeOK
<1>2. IsFiniteSet(Candidates \cup {r}) /\ Cardinality(Candidates \cup {r}) <= Cardinality(Candidates) + 1
  <2>1. CASE r \in Candidates
    <3>1. Candidates \cup {r} = Candidates
      BY <2>1
    <3>2. Cardinality(Candidates) <= Cardinality(Candidates) + 1
      BY CandidatesFinite
    <3> QED
      BY <3>1, <3>2, CandidatesFinite, Zenon
  <2>2. CASE r \notin Candidates
    <3>1. /\ IsFiniteSet(Candidates \cup {r})
          /\ Cardinality(Candidates \cup {r}) = Cardinality(Candidates) + 1
      BY <2>2, CandidatesFinite, FS_AddElement
    <3> QED
      BY <3>1, CandidatesFinite
  <2> QED
    BY <2>1, <2>2
<1>3. /\ Cardinality(Candidates') <= Cardinality(Candidates \cup {r})
      /\ Cardinality(Candidates') \in Nat /\ Cardinality(Candidates \cup {r}) \in Nat
  BY <1>1, <1>2, FS_Subset, FS_CardinalityType
<1> QED
  BY <1>2, <1>3, CandidatesFinite

(* A step that leaves the table and the recount alone and does not begin   *)
(* to work.                                                                *)
LEMMA UntouchedBalance ==
  ASSUME BalanceInv, UNCHANGED <<job, table, changes, measured>>,
         pc' \in Working \ {"count"} => pc \in Working \ {"count"}
  PROVE  BalanceInv'
<1>1. Removed' = Removed /\ Candidates' = Candidates
  BY DEF Removed, Candidates
<1> QED
  BY <1>1 DEF BalanceInv

(* A batch moves rows from the candidates to the removed.                  *)
LEMMA BatchKeepsBalance ==
  ASSUME TypeOK, BalanceInv, pc = "deleting", UNCHANGED <<job, changes, measured>>,
         NEW S \in Deletable, Delete(S)
  PROVE  BalanceInv'
<1>1. /\ ~DriftExceeded(job, measured)
      /\ Cardinality(Removed) + Cardinality(Candidates) <= measured + changes
  BY DEF BalanceInv, Working
<1>2. /\ Cardinality(Removed') = Cardinality(Removed) + Cardinality(S)
      /\ Cardinality(Candidates') = Cardinality(Candidates) - Cardinality(S)
  BY DeleteCounts, DeleteUncounts
<1>3. /\ Cardinality(Removed) \in Nat /\ Cardinality(Candidates) \in Nat
      /\ Cardinality(S) \in Nat /\ Cardinality(Candidates') \in Nat
      /\ measured \in Nat /\ changes \in Nat
  <2>1. IsFiniteSet(Candidates')
    BY FS_Subset DEF Candidates
  <2> QED
    BY <2>1, RemovedFinite, CandidatesFinite, DeletableFinite, FS_CardinalityType DEF TypeOK
<1>4. /\ Cardinality(Removed') + Cardinality(Candidates') <= measured + changes
      /\ Cardinality(Removed') <= measured + changes
  BY <1>1, <1>2, <1>3
<1> QED
  BY <1>1, <1>4 DEF BalanceInv

(* A batch that was rolled back, or took effect without an answer.         *)
LEMMA UnansweredKeepsBalance ==
  ASSUME TypeOK, BalanceInv, UNCHANGED <<job, changes, measured>>, pc' \notin Working,
         \/ UNCHANGED table
         \/ pc = "deleting" /\ \E affected \in Deletable : Delete(affected)
  PROVE  BalanceInv'
<1>1. CASE UNCHANGED table
  BY <1>1, UntouchedBalance
<1>2. CASE pc = "deleting" /\ \E affected \in Deletable : Delete(affected)
  BY <1>2, BatchKeepsBalance
<1> QED
  BY <1>1, <1>2

(* BalanceInv is inductive; CountInv says that the recount comes first.    *)
LEMMA BalanceInvInductive == TypeOK /\ CountInv /\ BalanceInv /\ [Next]_vars => BalanceInv'
<1> SUFFICES ASSUME TypeOK, CountInv, BalanceInv, [Next]_vars PROVE BalanceInv'
  OBVIOUS
<1> USE DEF dbVars, countVars
<1>1. CASE Count
  <2>1. /\ pc = "count" /\ UNCHANGED <<job, table, changes>>
        /\ measured' = Cardinality(Candidates)
    BY <1>1 DEF Count
  <2>2. Removed' = Removed /\ Candidates' = Candidates
    BY <2>1 DEF Removed, Candidates
  <2>3. Cardinality(Removed) = 0 /\ Removed = {}
    <3>1. Cardinality(Removed) = 0
      BY <2>1 DEF CountInv, Working
    <3>2. IsFiniteSet(Removed)
      BY FS_Subset DEF Removed
    <3> QED
      BY <3>1, <3>2, FS_EmptySet
  <2>4. CASE pc' = "report"
    BY <2>2, <2>3, <2>4 DEF BalanceInv, Working
  <2>5. CASE ~DriftExceeded(job, measured')
    <3>1. Cardinality(Candidates) \in Nat /\ changes \in Nat
      BY CandidatesFinite DEF TypeOK
    <3>2. Cardinality(Removed) + Cardinality(Candidates) <= measured' + changes
      BY <2>1, <2>3, <3>1
    <3> QED
      BY <2>1, <2>2, <2>3, <2>5, <3>2 DEF BalanceInv
  <2> QED
    BY <1>1, <2>4, <2>5 DEF Count, Seal
<1>2. CASE CountFails \/ ControlInterrupted \/ DatabaseUnavailable \/ CeilingReached \/ Report
  <2>1. UNCHANGED <<job, table, changes, measured>>
    BY <1>2 DEF CountFails, ControlInterrupted, DatabaseUnavailable, CeilingReached, Report
  <2>2. pc' \notin Working
    BY <1>2 DEF CountFails, ControlInterrupted, DatabaseUnavailable, CeilingReached, Report,
                Finish, Abort, Seal, Working
  <2> QED
    BY <2>1, <2>2, UntouchedBalance
<1>3. CASE RequestControl \/ ControlUnavailable \/ ConnectExecutor \/ BeginBatch \/ NextBatch
  BY <1>3, UntouchedBalance
  DEF RequestControl, ControlUnavailable, ConnectExecutor, BeginBatch, NextBatch, Working
<1>4. ASSUME NEW v \in Versions, ReceiveControl(v) PROVE BalanceInv'
  BY <1>4, UntouchedBalance DEF ReceiveControl, Working
<1>5. CASE CommitBatch
  BY <1>5, BatchKeepsBalance DEF CommitBatch
<1>6. CASE BatchFails
  BY <1>6, UnansweredKeepsBalance DEF BatchFails, Abort, Seal, Working
<1>7. CASE Crash
  BY <1>7, UnansweredKeepsBalance DEF Crash, Working
<1>8. CASE AnswerControl \/ Shutdown \/ UNCHANGED vars
  BY <1>8, UntouchedBalance DEF AnswerControl, Shutdown, vars
<1>9. ASSUME NEW action \in Actions, Decide(action) PROVE BalanceInv'
  BY <1>9, UntouchedBalance DEF Decide
<1>10. ASSUME NEW r \in Rows, NEW state \in RowStates \ {"deleted"}, ChangeRow(r, state)
       PROVE  BalanceInv'
  <2>1. changes' = changes + 1 /\ UNCHANGED <<job, pc, measured>>
    BY <1>10 DEF ChangeRow
  <2>2. Removed' = Removed /\ Cardinality(Candidates') <= Cardinality(Candidates) + 1
    BY <1>10, ChangeKeepsRemoved, ChangeAddsOne
  <2>3. /\ Cardinality(Removed) \in Nat /\ Cardinality(Candidates) \in Nat
        /\ Cardinality(Candidates') \in Nat /\ measured \in Nat /\ changes \in Nat
    <3>1. IsFiniteSet(Candidates')
      BY FS_Subset DEF Candidates
    <3> QED
      BY <3>1, RemovedFinite, CandidatesFinite, FS_CardinalityType DEF TypeOK
  <2>4. /\ Cardinality(Removed) + Cardinality(Candidates) <= measured + changes
             => Cardinality(Removed) + Cardinality(Candidates') <= measured + (changes + 1)
        /\ Cardinality(Removed) <= measured + changes
             => Cardinality(Removed) <= measured + (changes + 1)
    BY <2>2, <2>3
  <2> QED
    BY <2>1, <2>2, <2>4 DEF BalanceInv
<1> QED
  BY <1>1, <1>2, <1>3, <1>4, <1>5, <1>6, <1>7, <1>8, <1>9, <1>10
  DEF Next, Connector, Environment, Ended

(* The recount of execute bounds what the batches remove: whatever fails   *)
(* in between, the rows removed are within the plan's drift but for one    *)
(* row for each change that other sessions made.                           *)
THEOREM RemovalsWithinDrift == Spec => []DriftBoundsRemovals
<1>1. Init => BalanceInv
  <2> SUFFICES ASSUME Init PROVE BalanceInv
    OBVIOUS
  <2>1. Removed = {} /\ pc = "count"
    BY DEF Init, Removed, RowStates
  <2> QED
    BY <2>1 DEF BalanceInv
<1>2. TypeOK /\ BalanceInv => DriftBoundsRemovals
  <2> SUFFICES ASSUME TypeOK, BalanceInv,
                      Cardinality(Removed) - changes > job.expectedRows
               PROVE  ~DriftExceeded(job, Cardinality(Removed) - changes)
    BY DEF DriftBoundsRemovals
  <2>1. /\ Cardinality(Removed) \in Nat /\ changes \in Nat /\ measured \in Nat
        /\ job.expectedRows \in Nat /\ job.driftRows \in Nat /\ job.driftBasisPoints \in Nat
    BY RemovedFinite DEF TypeOK
  <2>2. Removed # {}
    <3>1. Cardinality(Removed) # 0
      BY <2>1
    <3> QED
      BY <3>1, FS_EmptySet
  <2>3. ~DriftExceeded(job, measured) /\ Cardinality(Removed) - changes <= measured
    BY <2>1, <2>2 DEF BalanceInv
  <2> QED
    BY <2>1, <2>3, DriftGrows
<1> QED
  BY <1>1, <1>2, BalanceInvInductive, CountInvInitial, CountInvInductive, TypeCorrect, PTL
  DEF Spec

-----------------------------------------------------------------------------
(* Nothing reaches the control plane but the result the job was settled    *)
(* with: Seal comes before the first attempt and never twice.              *)
LEMMA DeliveryInvInductive == TypeOK /\ CountInv /\ DeliveryInv /\ [Next]_vars => DeliveryInv'
<1> SUFFICES ASSUME TypeOK, CountInv, DeliveryInv, [Next]_vars PROVE DeliveryInv'
  OBVIOUS
<1> USE DEF reportVars
<1>1. ASSUME pc \in Working, UNCHANGED completed PROVE DeliveryInv'
  BY <1>1 DEF DeliveryInv
<1>2. ASSUME pc \notin Working, UNCHANGED <<result, completed>>, pc' \notin Working
      PROVE  DeliveryInv'
  BY <1>2 DEF DeliveryInv
<1>3. CASE Report
  BY <1>3 DEF Report, DeliveryInv, Working
<1>4. CASE Count \/ CountFails \/ RequestControl \/ ControlUnavailable \/ ControlInterrupted
  BY <1>1, <1>4 DEF Count, CountFails, RequestControl, ControlUnavailable, ControlInterrupted,
                    Abort, Seal, Working
<1>5. ASSUME NEW v \in Versions, ReceiveControl(v) PROVE DeliveryInv'
  BY <1>1, <1>5 DEF ReceiveControl, ObeyRun, ObeyCancel, ObeyPause, Abort, Seal, Working
<1>6. CASE ConnectExecutor \/ BeginBatch \/ BatchFails \/ DatabaseUnavailable \/ NextBatch
           \/ CeilingReached
  BY <1>1, <1>6 DEF ConnectExecutor, BeginBatch, BatchFails, DatabaseUnavailable, NextBatch,
                    CeilingReached, Finish, Abort, Seal, Working
<1>7. CASE CommitBatch
  <2>1. pc \in Working /\ UNCHANGED completed
    BY <1>7 DEF CommitBatch, Finish, Seal, Working
  <2> QED
    BY <1>1, <2>1
<1>8. ASSUME UNCHANGED <<pc, result, completed>> PROVE DeliveryInv'
  BY <1>8 DEF DeliveryInv
<1>9. CASE AnswerControl \/ Shutdown \/ UNCHANGED vars
  BY <1>8, <1>9 DEF AnswerControl, Shutdown, vars
<1>10. ASSUME NEW action \in Actions, Decide(action) PROVE DeliveryInv'
  BY <1>8, <1>10 DEF Decide
<1>11. ASSUME NEW r \in Rows, NEW state \in RowStates \ {"deleted"}, ChangeRow(r, state)
       PROVE  DeliveryInv'
  BY <1>8, <1>11 DEF ChangeRow
<1>12. CASE Crash
  <2>1. UNCHANGED <<result, completed>> /\ pc' \notin Working
    BY <1>12 DEF Crash, Working
  <2> QED
    BY <1>1, <1>2, <2>1
<1> QED
  BY <1>3, <1>4, <1>5, <1>6, <1>7, <1>9, <1>10, <1>11, <1>12
  DEF Next, Connector, Environment, Ended

(* The promise and the execution speak of the same rows.                   *)
LEMMA SameRows == Removal!Candidates = Candidates /\ Removal!Removed = Removed
BY DEF Removal!Candidates, Removal!Removed, Candidates, Removed

(* They count them alike.                                                  *)
LEMMA SameCount == \A S : Removal!Cardinality(S) = Cardinality(S)
BY DEF Removal!Cardinality, Cardinality, Removal!IsFiniteSet, IsFiniteSet

(* A batch in flight that takes effect removes candidates under the        *)
(* ceiling.                                                                *)
LEMMA BatchRemoves ==
  ASSUME TypeOK, CountInv, pc = "deleting", NEW S \in Deletable, Delete(S)
  PROVE  S \in SUBSET Removal!Candidates /\ Removal!Remove(S)
<1>1. S \subseteq Candidates
  BY DeletableFinite
<1>2. Removed' = Removed \cup S
  BY <1>1 DEF Delete, Removed, Candidates, TypeOK
<1>3. Cardinality(Removed') <= job.maxRows
  BY BatchUnderCeiling
<1>4. Cardinality(Removed \cup S) <= job.maxRows
  BY <1>2, <1>3, Zenon
<1> QED
  BY <1>1, <1>4, SameRows, SameCount DEF Removal!Remove, Delete

(* A table left alone has lost no row.                                     *)
LEMMA NothingRemoved ==
  ASSUME TypeOK, CountInv, UNCHANGED table
  PROVE  {} \in SUBSET Removal!Candidates /\ Removal!Remove({})
<1>1. Removed \cup {} = Removed
  OBVIOUS
<1>2. Cardinality(Removed \cup {}) <= job.maxRows
  BY <1>1, Zenon DEF CountInv, CeilingRespected
<1>3. table' = [r \in Rows |-> IF r \in {} THEN "deleted" ELSE table[r]]
  BY DEF TypeOK
<1> QED
  BY <1>2, <1>3, SameRows, SameCount DEF Removal!Remove

(* A batch in flight took effect, or it did not, or there was none.        *)
LEMMA InFlightRemoves ==
  ASSUME TypeOK, CountInv,
         \/ UNCHANGED table
         \/ pc = "deleting" /\ \E affected \in Deletable : Delete(affected)
  PROVE  \E rows \in SUBSET Removal!Candidates : Removal!Remove(rows)
<1>1. CASE UNCHANGED table
  BY <1>1, NothingRemoved
<1>2. CASE pc = "deleting" /\ \E affected \in Deletable : Delete(affected)
  BY <1>2, BatchRemoves
<1> QED
  BY <1>1, <1>2

(* Sealing what was counted settles the job.                               *)
LEMMA SealSettles ==
  ASSUME TypeOK, CountInv, pc \in Working, UNCHANGED <<job, table>>,
         NEW status \in {"COMPLETED", "PARTIAL", "CANCELLED", "PLAN_STALE"},
         status = "PLAN_STALE" => Removed = {},
         Seal(status, rowsDeleted)
  PROVE  Removal!Settle
<1>1. Phase = "open" /\ Phase' = "settled"
  BY DEF Phase, Seal, Working
<1>2. result' = [status |-> status, rows |-> Cardinality(Removed)] /\ UNCHANGED completed
  BY DEF Seal, CountInv
<1> QED
  BY <1>1, <1>2, SameRows, SameCount DEF Removal!Settle

(* Sealing no statistics admits that the removals are not known.           *)
LEMMA SealFails ==
  ASSUME TypeOK, CountInv, pc \in Working, UNCHANGED job, Seal("FAILED", NoRows),
         \/ UNCHANGED table
         \/ pc = "deleting" /\ \E affected \in Deletable : Delete(affected)
  PROVE  Removal!Fail
<1>1. Phase = "open" /\ Phase' = "settled"
  BY DEF Phase, Seal, Working
<1>2. result' = Removal!CannotTell /\ UNCHANGED completed
  BY DEF Seal, NoRows, Removal!CannotTell
<1> QED
  BY <1>1, <1>2, InFlightRemoves DEF Removal!Fail

(* The steps between two checkpoints are no business of the promise.       *)
LEMMA WorkStutters ==
  ASSUME UNCHANGED <<job, table, result, completed>>,
         \/ UNCHANGED pc
         \/ pc \in Working /\ pc' \in Working
  PROVE  UNCHANGED Removal!vars
<1>1. UNCHANGED Phase
  BY DEF Phase, Working
<1> QED
  BY <1>1 DEF Removal!vars

(* Every step of the execution is one of the promise, or none.             *)
LEMMA StepKeepsPromise ==
  TypeOK /\ CountInv /\ DeliveryInv /\ [Next]_vars => [Removal!Next]_(Removal!vars)
<1> DEFINE Step == Removal!Next \/ UNCHANGED Removal!vars
<1> SUFFICES ASSUME TypeOK, CountInv, DeliveryInv, [Next]_vars PROVE Step
  OBVIOUS
<1> USE DEF dbVars, countVars, reportVars
<1>s. ASSUME Removal!Settle \/ Removal!Fail PROVE Step
  BY <1>s DEF Removal!Next
<1>w. ASSUME UNCHANGED <<job, table, result, completed>>,
             UNCHANGED pc \/ (pc \in Working /\ pc' \in Working)
      PROVE  Step
  BY <1>w, WorkStutters
<1> HIDE DEF Step
<1>1. CASE Count
  <2>1. UNCHANGED <<job, table>> /\ pc = "count" /\ pc \in Working /\ rowsDeleted = 0
    BY <1>1 DEF Count, CountInv, Working
  <2>2. CASE Seal("PLAN_STALE", 0)
    <3>1. IsFiniteSet(Removed) /\ Cardinality(Removed) = 0
      BY <2>1, FS_Subset DEF Removed, CountInv
    <3>2. Removed = {}
      BY <3>1, FS_EmptySet
    <3> QED
      BY <1>s, <2>1, <2>2, <3>2, SealSettles
  <2>3. CASE pc' = "request" /\ UNCHANGED reportVars
    BY <1>w, <2>1, <2>3 DEF Working
  <2> QED
    BY <1>1, <2>2, <2>3 DEF Count
<1>2. CASE CountFails
  BY <1>2, <1>s, SealFails DEF CountFails, Working
<1>3. CASE RequestControl \/ ControlUnavailable \/ ConnectExecutor \/ BeginBatch
  BY <1>3, <1>w DEF RequestControl, ControlUnavailable, ConnectExecutor, BeginBatch, Working
<1>4. CASE ControlInterrupted
  <2>1. Seal("FAILED", NoRows) /\ UNCHANGED <<job, table>> /\ pc \in Working
    BY <1>4 DEF ControlInterrupted, Abort, Working
  <2> QED
    BY <1>s, <2>1, SealFails
<1>5. ASSUME NEW v \in Versions, ReceiveControl(v) PROVE Step
  <2>1. UNCHANGED <<job, table>> /\ pc \in Working
    BY <1>5 DEF ReceiveControl, Working
  <2>2. CASE ObeyRun \/ ObeyPause(v)
    <3>1. UNCHANGED <<result, completed>> /\ pc' \in {"connect", "next", "request"}
      BY <2>2 DEF ObeyRun, ObeyPause
    <3> QED
      BY <1>w, <2>1, <3>1 DEF Working
  <2>3. CASE ObeyCancel
    <3>1. Seal("CANCELLED", rowsDeleted)
      BY <2>3 DEF ObeyCancel, Abort, CountInv
    <3> QED
      BY <1>s, <2>1, <3>1, SealSettles
  <2> QED
    BY <1>5, <2>2, <2>3 DEF ReceiveControl
<1>6. CASE CommitBatch
  <2>1. PICK affected \in Deletable :
          /\ Delete(affected)
          /\ \/ affected = {} /\ Finish(TRUE)
             \/ affected # {} /\ pc' = "request" /\ UNCHANGED <<result, completed>>
    BY <1>6 DEF CommitBatch
  <2>2. pc = "deleting" /\ UNCHANGED job /\ pc \in Working
    BY <1>6 DEF CommitBatch, Working
  <2>3. CASE affected = {}
    <3>1. UNCHANGED table
      BY <2>1, <2>3 DEF Delete, TypeOK
    <3>2. Seal("COMPLETED", rowsDeleted)
      BY <2>1, <2>3 DEF Finish
    <3> QED
      BY <1>s, <2>2, <3>1, <3>2, SealSettles
  <2>4. CASE affected # {}
    <3>1. Phase = "open" /\ Phase' = "open" /\ UNCHANGED <<result, completed>>
      BY <2>1, <2>2, <2>4 DEF Phase, Working
    <3>2. Removal!Batch
      BY <2>1, <2>2, <3>1, BatchRemoves DEF Removal!Batch
    <3> QED
      BY <3>2 DEF Removal!Next, Step
  <2> QED
    BY <2>3, <2>4
<1>7. CASE BatchFails
  BY <1>7, <1>s, SealFails DEF BatchFails, Abort, Working
<1>8. CASE DatabaseUnavailable
  BY <1>8, <1>s, SealFails DEF DatabaseUnavailable, Abort, Working
<1>9. CASE NextBatch
  <2>1. UNCHANGED <<job, table>> /\ pc \in Working
    BY <1>9 DEF NextBatch, Working
  <2>2. CASE Finish(FALSE)
    BY <1>s, <2>1, <2>2, SealSettles DEF Finish
  <2>3. CASE Abort("FAILED")
    BY <1>s, <2>1, <2>3, SealFails DEF Abort
  <2>4. CASE pc' = "batch" /\ UNCHANGED reportVars
    BY <1>w, <2>1, <2>4 DEF Working
  <2> QED
    BY <1>9, <2>2, <2>3, <2>4 DEF NextBatch
<1>10. CASE CeilingReached
  BY <1>10, <1>s, SealSettles DEF CeilingReached, Finish, Working
<1>11. CASE Report
  <2>1. /\ UNCHANGED <<job, table, result>> /\ Phase = "settled" /\ Phase' = "settled"
        /\ completed' \in {completed, completed \cup {result}}
    BY <1>11 DEF Report, Phase, Working
  <2>2. CASE completed' = completed
    BY <2>1, <2>2 DEF Step, Removal!vars
  <2>3. CASE completed' = completed \cup {result}
    <3>1. completed' = {result}
      BY <2>3 DEF DeliveryInv
    <3> QED
      BY <2>1, <3>1 DEF Step, Removal!Next, Removal!Deliver
  <2> QED
    BY <2>1, <2>2, <2>3
<1>12. CASE AnswerControl \/ Shutdown \/ UNCHANGED vars
  BY <1>12, <1>w DEF AnswerControl, Shutdown, vars
<1>13. ASSUME NEW action \in Actions, Decide(action) PROVE Step
  BY <1>13, <1>w DEF Decide
<1>14. ASSUME NEW r \in Rows, NEW state \in RowStates \ {"deleted"}, ChangeRow(r, state)
       PROVE  Step
  <2>1. /\ table[r] # "deleted" /\ table' = [table EXCEPT ![r] = state]
        /\ UNCHANGED <<job, pc, result, completed>> /\ state \in Removal!Alive
    BY <1>14 DEF ChangeRow, RowStates, Removal!Alive
  <2>2. UNCHANGED Phase
    BY <2>1 DEF Phase
  <2>3. Removal!OtherSession
    BY <2>1, <2>2 DEF Removal!OtherSession
  <2> QED
    BY <2>3 DEF Step, Removal!Next
<1>15. CASE Crash
  <2>1. UNCHANGED <<job, result, completed>> /\ Phase # "crashed" /\ Phase' = "crashed"
    BY <1>15 DEF Crash, Phase, Terminal, Working
  <2>2. UNCHANGED table \/ (pc = "deleting" /\ \E affected \in Deletable : Delete(affected))
    BY <1>15 DEF Crash
  <2>3. pc = "deleting" => Phase = "open"
    BY DEF Phase, Working
  <2>4. Removal!Crash
    BY <2>1, <2>2, <2>3, InFlightRemoves DEF Removal!Crash
  <2> QED
    BY <2>4 DEF Step, Removal!Next
<1> QED
  BY <1>1, <1>2, <1>3, <1>4, <1>5, <1>6, <1>7, <1>8, <1>9, <1>10, <1>11, <1>12, <1>13, <1>14,
     <1>15
  DEF Next, Connector, Environment, Ended

(* The execution of a DELETE job implements its promise: candidates are    *)
(* removed under the ceiling, and the job is settled once, with one        *)
(* truthful result, whatever is lost, refused, repeated, interrupted or    *)
(* killed on the way (execute, delete, awaitControl, report).              *)
THEOREM ExecutionKeepsPromise == Spec => ImplementsRemoval
<1>1. Init => Removal!Init
  <2> SUFFICES ASSUME Init PROVE Removal!Init
    OBVIOUS
  <2>1. job.maxRows \in Nat \ {0}
    BY DEF Init
  <2>2. table \in [Rows -> Removal!Alive]
    BY DEF Init, RowStates, Removal!Alive
  <2>3. Phase = "open" /\ result = Removal!Unsettled /\ completed = {}
    BY DEF Init, Phase, Working, NoResult, Removal!Unsettled
  <2> QED
    BY <2>1, <2>2, <2>3 DEF Removal!Init
<1>2. Init => DeliveryInv
  BY DEF Init, DeliveryInv
<1> QED
  BY <1>1, <1>2, StepKeepsPromise, DeliveryInvInductive, CountInvInitial, CountInvInductive,
     TypeCorrect, PTL
  DEF Spec, ImplementsRemoval, Removal!Spec
=============================================================================
