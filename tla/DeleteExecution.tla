-------------------------- MODULE DeleteExecution --------------------------
(***************************************************************************)
(* One DELETE job, from the recount to the signed result, as the connector *)
(* runs it: internal/agent/agent.go (execute, delete, awaitControl, emit,  *)
(* report) driving adapters/postgres/adapter.go (Count, Delete) and        *)
(* internal/controlplane/client.go (Control, Event, Complete).             *)
(*                                                                         *)
(* Four parties move independently: the connector's job goroutine, the     *)
(* customer's table (other sessions keep writing to it), the operator at   *)
(* the control plane, and the network, which loses answers and replays old *)
(* ones.  The process may be asked to stop (the context is cancelled) or   *)
(* be killed at any point.                                                 *)
(*                                                                         *)
(* The job is the one policy.Authorize let through; a job never resumes in *)
(* another process, because its nonce is spent (module JobVerification),   *)
(* so a crash ends this module's story.                                    *)
(***************************************************************************)
EXTENDS Integers, Sequences, FiniteSets, RecountDrift

CONSTANTS
  Rows,           \* identities of the rows the target table may hold
  Jobs,           \* the authorized jobs: limits and drift policy of each
  MaxVersion,     \* bound: operator decisions, i.e. execution versions
  MaxLag,         \* how many versions an answering replica may trail by
  MaxChanges,     \* bound: row changes made by other database sessions
  ReportAttempts  \* attempts report makes at delivering the result

ASSUME RowsAssumption == IsFiniteSet(Rows)

ASSUME JobsAssumption ==
  Jobs \subseteq [maxRows: Nat \ {0}, batchSize: Nat \ {0}, timed: BOOLEAN,
                  expectedRows: Nat, driftRows: Nat, driftBasisPoints: Nat]

ASSUME BoundsAssumption ==
  /\ MaxVersion \in Nat \ {0}
  /\ MaxLag \in Nat
  /\ MaxChanges \in Nat
  /\ ReportAttempts \in Nat \ {0}

VARIABLES
  job,            \* the immutable envelope and its effective limits
  table,          \* Rows -> what the row is to this job, right now
  doomed,         \* the rows the running DELETE selected
  touched,        \* rows another session updated since that selection
  changes,        \* row changes made so far by other sessions
  decisions,      \* control plane: the action of each execution version
  fresh,          \* versions answered to the outstanding control request
  replayable,     \* versions of answers to earlier control requests
  pc,             \* where the job goroutine is
  gate,           \* which call of awaitControl is running
  paused,         \* awaitControl's paused
  highestVersion, \* delete's controlVersion
  sequence,       \* delete's event sequence
  measured,       \* the recount's CandidateRows
  rowsDeleted,    \* statistics.RowsDeleted
  result,         \* the sealed JobResult, or NoResult
  attempts,       \* report's attempt counter
  shutdown,       \* the run context has been cancelled
  received,       \* control plane: the events that arrived
  completed,      \* control plane: the results that arrived
  pausedAt,       \* history: version of the last PAUSE the connector obeyed
  begunAfterStop  \* history: batches begun since the operator said stop

dbVars      == <<table, doomed, touched, changes>>
controlVars == <<decisions, fresh, replayable, begunAfterStop>>
gateVars    == <<gate, paused, highestVersion, pausedAt>>
countVars   == <<measured, rowsDeleted>>
reportVars  == <<result, attempts, completed>>
vars == <<job, dbVars, controlVars, pc, gateVars, sequence, countVars,
          reportVars, shutdown, received>>

RowStates == {"candidate", "held", "outside", "deleted"}
Actions   == {"RUN", "PAUSE", "CANCEL"}
Statuses  == {"COMPLETED", "PARTIAL", "CANCELLED", "PLAN_STALE", "FAILED"}
NoResult  == [status |-> "NONE", rows |-> -1]
NoRows    == -1   \* a result without statistics

Versions   == 1..Len(decisions)
Decision   == decisions[Len(decisions)]
Candidates == {r \in Rows : table[r] = "candidate"}
Removed    == {r \in Rows : table[r] = "deleted"}
Smaller(a, b) == IF a < b THEN a ELSE b
Terminal   == {"done", "crashed"}
Working    == {"count", "request", "awaiting", "connect", "batch", "deleting", "next"}

-----------------------------------------------------------------------------
(* Initially the job is authorized and nothing has been asked of the       *)
(* database; the control plane's first decision is to run it.              *)
Init ==
  /\ job \in Jobs
  /\ table \in [Rows -> RowStates \ {"deleted"}]
  /\ doomed = {} /\ touched = {} /\ changes = 0
  /\ decisions = <<"RUN">>
  /\ fresh = {} /\ replayable = {}
  /\ pc = "count"
  /\ gate = "first" /\ paused = FALSE /\ highestVersion = 0
  /\ sequence = 0
  /\ measured = 0 /\ rowsDeleted = 0
  /\ result = NoResult /\ attempts = 0 /\ completed = {}
  /\ shutdown = FALSE
  /\ received = {}
  /\ pausedAt = 0 /\ begunAfterStop = 0

(* A progress event is sent once and may be lost; nothing waits for it.    *)
Emit(type, number, rows) ==
  \/ /\ ~shutdown
     /\ received' = received \cup {[type |-> type, sequence |-> number,
                                    rows |-> rows]}
  \/ UNCHANGED received

(* execute: seal what happened and start delivering it.                    *)
Seal(status, rows) ==
  /\ result' = [status |-> status, rows |-> rows]
  /\ pc' = "report"
  /\ UNCHANGED <<attempts, completed>>

(* Mutant of Abort: a cancelled run is sealed without its statistics.      *)
AbortForgetsRows(status) ==
  /\ Emit("ABORTED", sequence + 1, rowsDeleted)
  /\ Seal(status, IF status = "CANCELLED" THEN 0 ELSE NoRows)
  /\ UNCHANGED sequence

(* Mutant of Abort: missing statistics are announced as -1 rows.           *)
AbortAnnouncesNoRows(status) ==
  /\ Emit("ABORTED", sequence + 1, NoRows)
  /\ Seal(status, IF status = "CANCELLED" THEN rowsDeleted ELSE NoRows)
  /\ UNCHANGED sequence

(* delete, on an error from adapter.Delete: an ABORTED event, then the     *)
(* result.  A cancelled job reports its statistics, a failed one carries   *)
(* none (evidence.Failure).                                                *)
Abort(status) ==
  /\ Emit("ABORTED", sequence + 1, rowsDeleted)
  /\ Seal(status, IF status = "CANCELLED" THEN rowsDeleted ELSE NoRows)
  /\ UNCHANGED sequence

(* Mutant of Finish: the recount no longer corrects the loop's verdict.    *)
FinishUncorrected(complete) ==
  /\ Seal(IF complete THEN "COMPLETED" ELSE "PARTIAL", rowsDeleted)
  /\ UNCHANGED <<received, sequence>>

(* delete, on a clean return: a recount that the deletions cover makes the *)
(* run complete whatever stopped the loop.                                 *)
Finish(complete) ==
  /\ Seal(IF complete \/ rowsDeleted >= measured THEN "COMPLETED"
                                                 ELSE "PARTIAL", rowsDeleted)
  /\ UNCHANGED <<received, sequence>>

-----------------------------------------------------------------------------
(* Mutant of Count: only a plan that shrank is called stale.               *)
CountAdmitsGrowth ==
  /\ pc = "count" /\ ~shutdown
  /\ measured' = Cardinality(Candidates)
  /\ LET stale == measured' < job.expectedRows /\ DriftExceeded(job, measured')
     IN \/ stale /\ Seal("PLAN_STALE", 0) /\ UNCHANGED received
        \/ /\ ~stale
           /\ Emit("ACCEPTED", sequence, 0)
           /\ pc' = "request"
           /\ UNCHANGED reportVars
  /\ UNCHANGED <<job, dbVars, controlVars, gateVars, sequence, rowsDeleted,
                 shutdown>>

(* The recount, as the reader role.                                        *)
Count ==
  /\ pc = "count" /\ ~shutdown
  /\ measured' = Cardinality(Candidates)
  /\ \/ /\ DriftExceeded(job, measured')
        /\ Seal("PLAN_STALE", 0)
        /\ UNCHANGED received
     \/ /\ ~DriftExceeded(job, measured')
        /\ Emit("ACCEPTED", sequence, 0)
        /\ pc' = "request"
        /\ UNCHANGED reportVars
  /\ UNCHANGED <<job, dbVars, controlVars, gateVars, sequence, rowsDeleted,
                 shutdown>>

(* The recount could not be made: no statistics, no event.                 *)
CountFails ==
  /\ pc = "count"
  /\ Seal("FAILED", NoRows)
  /\ UNCHANGED <<job, dbVars, controlVars, gateVars, sequence, countVars,
                 shutdown, received>>

(* awaitControl asks again, under a challenge of its own: any earlier      *)
(* answer now answers a request nobody is waiting for.                     *)
RequestControl ==
  /\ pc = "request" /\ ~shutdown
  /\ replayable' = replayable \cup fresh
  /\ fresh' = {}
  /\ pc' = "awaiting"
  /\ UNCHANGED <<job, dbVars, decisions, begunAfterStop, gateVars, sequence,
                 countVars, reportVars, shutdown, received>>

(* The control plane signs the decision it currently holds, or one a       *)
(* trailing replica still holds.                                           *)
AnswerControl ==
  /\ pc = "awaiting" /\ fresh = {}
  /\ \E v \in Versions : v + MaxLag >= Len(decisions) /\ fresh' = {v}
  /\ UNCHANGED <<job, dbVars, decisions, replayable, begunAfterStop, pc,
                 gateVars, sequence, countVars, reportVars, shutdown, received>>

(* Mutant of ValidControl: the challenge is not compared.                  *)
ValidControlAnyChallenge(version) == version \in fresh \cup replayable

(* Client.Control: an answer counts only when it echoes this request's     *)
(* challenge.  Everything else it checks (identities, window, signature)   *)
(* fails the same way as no answer: ControlUnavailable.                    *)
ValidControl(version) == version \in fresh

(* No usable answer: wait locally and ask again.                           *)
ControlUnavailable ==
  /\ pc = "awaiting"
  /\ pc' = "request"
  /\ UNCHANGED <<job, dbVars, controlVars, gateVars, sequence, countVars,
                 reportVars, shutdown, received>>

(* Mutant of StaleVersion: lower execution versions are obeyed.            *)
StaleVersionIgnored(version) == FALSE

(* Mutant of StaleVersion: a decision is obeyed once only.                 *)
StaleVersionOrRepeated(version) == version <= highestVersion

(* A version below one already obeyed is refused, not obeyed.              *)
StaleVersion(version) == version < highestVersion

(* A RUN: the checkpoint is passed, and a pause is announced as over.      *)
ObeyRun ==
  /\ \/ /\ paused
        /\ sequence' = sequence + 1
        /\ Emit("RESUMED", sequence', rowsDeleted)
     \/ ~paused /\ UNCHANGED <<sequence, received>>
  /\ paused' = FALSE
  /\ pc' = IF gate = "first" THEN "connect" ELSE "next"
  /\ UNCHANGED <<reportVars, pausedAt>>

(* A CANCEL: before the first batch there is no adapter run to abort.      *)
ObeyCancel ==
  /\ \/ gate = "first" /\ Seal("CANCELLED", 0) /\ UNCHANGED <<sequence, received>>
     \/ gate = "batch" /\ Abort("CANCELLED")
  /\ UNCHANGED <<paused, pausedAt>>

(* Mutant of ObeyPause: the pause reuses the last event's sequence number. *)
ObeyPauseSameSequence(version) ==
  /\ paused' = TRUE
  /\ Emit("PAUSED", sequence, rowsDeleted)
  /\ pausedAt' = version
  /\ pc' = "request"
  /\ UNCHANGED <<reportVars, sequence>>

(* A PAUSE: announced under one sequence number however often it is sent,  *)
(* then asked about again.                                                 *)
ObeyPause(version) ==
  /\ paused' = TRUE
  /\ sequence' = IF paused THEN sequence ELSE sequence + 1
  /\ Emit("PAUSED", sequence', rowsDeleted)
  /\ pausedAt' = version
  /\ pc' = "request"
  /\ UNCHANGED reportVars

(* awaitControl receives a signed answer, this request's or an old one.    *)
ReceiveControl(version) ==
  /\ pc = "awaiting"
  /\ version \in fresh \cup replayable
  /\ ValidControl(version) /\ ~StaleVersion(version)
  /\ highestVersion' = version
  /\ \/ decisions[version] = "RUN"    /\ ObeyRun
     \/ decisions[version] = "CANCEL" /\ ObeyCancel
     \/ decisions[version] = "PAUSE"  /\ ObeyPause(version)
  /\ UNCHANGED <<job, dbVars, controlVars, gate, countVars, shutdown>>

(* The context ended while waiting at a checkpoint: awaitControl returns   *)
(* its error.                                                              *)
ControlInterrupted ==
  /\ pc \in {"request", "awaiting"} /\ shutdown
  /\ \/ gate = "first" /\ Seal("FAILED", NoRows) /\ UNCHANGED <<sequence, received>>
     \/ gate = "batch" /\ Abort("FAILED")
  /\ UNCHANGED <<job, dbVars, controlVars, gateVars, countVars, shutdown>>

-----------------------------------------------------------------------------
(* adapter.Delete opens the executor connection.                           *)
ConnectExecutor ==
  /\ pc = "connect" /\ ~shutdown
  /\ pc' = "batch"
  /\ UNCHANGED <<job, dbVars, controlVars, gateVars, sequence, countVars,
                 reportVars, shutdown, received>>

(* Mutant of NextBatchSize: the last batch is not trimmed.                 *)
NextBatchSizeUntrimmed == job.batchSize

(* The size of the next batch, trimmed to what is left of the ceiling.     *)
NextBatchSize == Smaller(job.batchSize, job.maxRows - rowsDeleted)

(* A batch begins: the statement's snapshot picks at most size candidates. *)
BeginBatch ==
  /\ pc = "batch" /\ ~shutdown
  /\ rowsDeleted < job.maxRows
  /\ doomed' \in {S \in SUBSET Candidates :
                    Cardinality(S) = Smaller(NextBatchSize, Cardinality(Candidates))}
  /\ touched' = {}
  /\ begunAfterStop' = IF Decision = "RUN" THEN 0 ELSE begunAfterStop + 1
  /\ pc' = "deleting"
  /\ UNCHANGED <<job, table, changes, decisions, fresh, replayable, gateVars,
                 sequence, countVars, reportVars, shutdown, received>>

(* Mutant of Deletable: the DELETE trusts the selection and drops the      *)
(* repeated predicate.                                                     *)
DeletableUnchecked == {S \in SUBSET (doomed \ Removed) : doomed \ touched \subseteq S}

(* What the DELETE may remove: selected rows that still satisfy the        *)
(* repeated predicate; a row updated meanwhile may also be skipped.        *)
Deletable == {S \in SUBSET (doomed \cap Candidates) : doomed \ touched \subseteq S}

Delete(rows) == table' = [r \in Rows |-> IF r \in rows THEN "deleted" ELSE table[r]]

(* The batch's transaction commits and is counted.  No affected row means  *)
(* the candidates are exhausted; otherwise the observer announces the      *)
(* batch and stops at the next checkpoint.                                 *)
CommitBatch ==
  /\ pc = "deleting"
  /\ \E affected \in Deletable :
       /\ Delete(affected)
       /\ rowsDeleted' = rowsDeleted + Cardinality(affected)
       /\ \/ affected = {} /\ Finish(TRUE) /\ UNCHANGED <<gate, paused>>
          \/ /\ affected # {}
             /\ sequence' = sequence + 1
             /\ Emit("BATCH_COMMITTED", sequence', rowsDeleted')
             /\ gate' = "batch" /\ paused' = FALSE
             /\ pc' = "request"
             /\ UNCHANGED reportVars
  /\ doomed' = {}
  /\ UNCHANGED <<job, touched, changes, controlVars, highestVersion, pausedAt,
                 measured, shutdown>>

(* Mutant of BatchFails: an error is taken for a rollback, and the rows    *)
(* counted so far for all there are.                                       *)
BatchFailsCounted ==
  /\ pc = "deleting"
  /\ \/ UNCHANGED table
     \/ \E affected \in Deletable : Delete(affected)
  /\ doomed' = {}
  /\ Seal("PARTIAL", rowsDeleted)
  /\ UNCHANGED <<job, touched, changes, controlVars, gateVars, sequence,
                 countVars, received, shutdown>>

(* A batch ends in an error: rolled back, or committed by a server whose   *)
(* answer to COMMIT never arrived.                                         *)
BatchFails ==
  /\ pc = "deleting"
  /\ \/ UNCHANGED table
     \/ \E affected \in Deletable : Delete(affected)
  /\ doomed' = {}
  /\ Abort("FAILED")
  /\ UNCHANGED <<job, touched, changes, controlVars, gateVars, countVars,
                 shutdown>>

(* Connecting, or beginning the transaction, fails.                        *)
DatabaseUnavailable ==
  /\ \/ pc = "connect"
     \/ pc = "batch" /\ rowsDeleted < job.maxRows
  /\ Abort("FAILED")
  /\ UNCHANGED <<job, dbVars, controlVars, gateVars, countVars, shutdown>>

(* After a checkpoint: the duration ceiling ends the loop between batches, *)
(* the pause between batches ends with the context, or the loop goes on.   *)
NextBatch ==
  /\ pc = "next"
  /\ \/ /\ job.timed
        /\ Finish(FALSE)
     \/ /\ shutdown
        /\ Abort("FAILED")
     \/ /\ pc' = "batch"
        /\ UNCHANGED <<reportVars, sequence, received>>
  /\ UNCHANGED <<job, dbVars, controlVars, gateVars, countVars, shutdown>>

(* The row ceiling ends the loop.                                          *)
CeilingReached ==
  /\ pc = "batch" /\ rowsDeleted >= job.maxRows
  /\ Finish(FALSE)
  /\ UNCHANGED <<job, dbVars, controlVars, gateVars, countVars, shutdown>>

-----------------------------------------------------------------------------
(* report: one attempt at delivering the result.  The control plane may    *)
(* take it although the connector never learns that it did.                *)
Report ==
  /\ pc = "report"
  /\ attempts' = attempts + 1
  /\ \/ /\ ~shutdown
        /\ completed' = completed \cup {result}
        /\ pc' = "done"
     \/ /\ \/ UNCHANGED completed
           \/ ~shutdown /\ completed' = completed \cup {result}
        /\ pc' = IF attempts' >= ReportAttempts \/ shutdown THEN "done"
                                                            ELSE "report"
  /\ UNCHANGED <<job, dbVars, controlVars, gateVars, sequence, countVars,
                 result, shutdown, received>>

(* SIGTERM: the run context is cancelled.                                  *)
Shutdown ==
  /\ pc \notin Terminal /\ ~shutdown
  /\ shutdown' = TRUE
  /\ UNCHANGED <<job, dbVars, controlVars, pc, gateVars, sequence, countVars,
                 reportVars, received>>

(* The process is killed; a transaction in flight may still commit.        *)
Crash ==
  /\ pc \notin Terminal
  /\ pc' = "crashed"
  /\ \/ UNCHANGED table
     \/ pc = "deleting" /\ \E affected \in Deletable : Delete(affected)
  /\ doomed' = {}
  /\ UNCHANGED <<job, touched, changes, controlVars, gateVars, sequence,
                 countVars, reportVars, shutdown, received>>

-----------------------------------------------------------------------------
(* Another session inserts, updates, holds or removes a row.               *)
ChangeRow(r, state) ==
  /\ pc \notin Terminal /\ changes < MaxChanges
  /\ table[r] \notin {"deleted", state}
  /\ table' = [table EXCEPT ![r] = state]
  /\ touched' = touched \cup {r}
  /\ changes' = changes + 1
  /\ UNCHANGED <<job, doomed, controlVars, pc, gateVars, sequence, countVars,
                 reportVars, shutdown, received>>

(* The operator pauses, resumes or cancels; a cancelled job stays so.      *)
Decide(action) ==
  /\ pc \notin Terminal /\ Len(decisions) < MaxVersion
  /\ Decision \notin {"CANCEL", action}
  /\ decisions' = Append(decisions, action)
  /\ begunAfterStop' = 0
  /\ UNCHANGED <<job, dbVars, fresh, replayable, pc, gateVars, sequence,
                 countVars, reportVars, shutdown, received>>

(* Nothing is left to do for this job.                                     *)
Ended == pc \in Terminal /\ UNCHANGED vars

Connector ==
  \/ Count \/ CountFails
  \/ RequestControl \/ ControlUnavailable \/ ControlInterrupted
  \/ \E v \in Versions : ReceiveControl(v)
  \/ ConnectExecutor \/ BeginBatch \/ CommitBatch \/ BatchFails
  \/ DatabaseUnavailable \/ NextBatch \/ CeilingReached \/ Report

Environment ==
  \/ AnswerControl
  \/ \E action \in Actions : Decide(action)
  \/ \E r \in Rows, state \in RowStates \ {"deleted"} : ChangeRow(r, state)
  \/ Shutdown \/ Crash

Next == Connector \/ Environment \/ Ended

Spec == Init /\ [][Next]_vars

(* The job goroutine keeps running, and the control plane is not cut off   *)
(* for ever: a request asked again and again is at last answered, and an   *)
(* answer sent again and again at last arrives.                            *)
FairSpec ==
  /\ Spec
  /\ WF_vars(Connector)
  /\ SF_vars(AnswerControl)
  /\ SF_vars(\E v \in Versions : ReceiveControl(v))

-----------------------------------------------------------------------------
Pcs == {"count", "request", "awaiting", "connect", "batch", "deleting",
        "next", "report"} \cup Terminal
Results == [status: Statuses \cup {"NONE"}, rows: Nat \cup {NoRows}]
EventTypes == {"ACCEPTED", "BATCH_COMMITTED", "PAUSED", "RESUMED", "ABORTED"}

(* Every variable keeps the type the code gives it.                        *)
TypeOK ==
  /\ job \in Jobs
  /\ table \in [Rows -> RowStates]
  /\ doomed \in SUBSET Rows /\ touched \in SUBSET Rows
  /\ changes \in 0..MaxChanges
  /\ decisions \in Seq(Actions) /\ Len(decisions) \in 1..MaxVersion
  /\ fresh \in SUBSET Versions /\ replayable \in SUBSET Versions
  /\ pc \in Pcs
  /\ gate \in {"first", "batch"} /\ paused \in BOOLEAN
  /\ highestVersion \in 0..Len(decisions)
  /\ pausedAt \in 0..Len(decisions)
  /\ sequence \in Nat
  /\ measured \in Nat /\ rowsDeleted \in Nat
  /\ result \in Results
  /\ attempts \in Nat
  /\ completed \in SUBSET Results
  /\ shutdown \in BOOLEAN
  /\ received \in SUBSET [type: EventTypes, sequence: Nat, rows: Nat]
  /\ begunAfterStop \in Nat

(* The job never removes more rows than its approved ceiling, counting the *)
(* rows of a batch whose COMMIT was answered by an error (adapter.Delete   *)
(* trims the last batch to what is left of max_rows).                      *)
CeilingRespected == Cardinality(Removed) <= job.maxRows

(* A row is removed only while it satisfies the retention predicate and no *)
(* hold covers it, although the rows were selected at an earlier moment    *)
(* (deleteBatchStatement repeats the predicate on the DELETE).             *)
OnlyCandidatesRemoved ==
  [][\A r \in Rows : table'[r] = "deleted" => table[r] \in {"candidate", "deleted"}]_vars

(* A sealed result that carries statistics counts exactly the rows the job *)
(* removed; in particular a stale plan removed none.                       *)
ResultCountsRemoved ==
  result.rows # NoRows => result.rows = Cardinality(Removed)

(* On a table nobody else writes to, COMPLETED means that no candidate is  *)
(* left and PARTIAL means that some are (the complete flag of              *)
(* adapter.Delete, corrected by delete against the recount).               *)
TruthfulCompletion ==
  changes = 0 =>
    /\ result.status = "COMPLETED" => Candidates = {}
    /\ result.status = "PARTIAL"   => Candidates # {}

(* Once the operator has said PAUSE or CANCEL, at most one more batch      *)
(* begins: the one a RUN signed before that decision had already allowed   *)
(* (awaitControl and the request challenge).                               *)
AtMostOneBatchAfterStop == MaxLag = 0 => begunAfterStop <= 1

(* A batch that follows an obeyed PAUSE was allowed by a decision newer    *)
(* than the pause, even if replicas of the control plane trail             *)
(* (awaitControl's refusal of lower execution versions).                   *)
PauseNeedsNewerRun ==
  pc \in {"connect", "batch", "deleting", "next"} => highestVersion > pausedAt

(* The control plane may deduplicate events by sequence number: one number *)
(* never stands for two events, and cumulative rows grow with it.          *)
EventsConsistent ==
  \A e, f \in received :
    /\ e.sequence = f.sequence => e = f
    /\ e.sequence < f.sequence => e.rows <= f.rows

(* Unless the operator leaves it paused for ever, the job ends: it is not  *)
(* stuck at a checkpoint, and every way through delete ends in a report.   *)
JobEnds == <>[](Decision # "PAUSE") => <>(pc \in Terminal)

(* What the job is to its promise: open while it works, then settled or    *)
(* lost with its process.                                                  *)
Phase ==
  CASE pc \in Working    -> "open"
    [] pc = "crashed"    -> "crashed"
    [] OTHER             -> "settled"

Removal == INSTANCE BoundedRemoval
             WITH ceiling <- job.maxRows, phase <- Phase, delivered <- completed

(* The whole execution keeps the promise of BoundedRemoval: batches,       *)
(* checkpoints, lost answers, failed commits, shutdowns and repeated       *)
(* reports come to removing candidates under the ceiling and settling      *)
(* once, with one truthful result (execute, delete, report).               *)
ImplementsRemoval == Removal!Spec

(* The recount bounds what is removed: but for one row for each change     *)
(* that other sessions made, the rows removed are within the drift the     *)
(* plan declares (execute recounts before the first batch).                *)
DriftBoundsRemovals ==
  LET counted == Cardinality(Removed) - changes
  IN  counted > job.expectedRows => ~DriftExceeded(job, counted)

(* Documentation claim (docs/security.md): a batch that committed is       *)
(* included in the eventual signed result.  Of the batches delete has      *)
(* counted: one whose COMMIT was not answered is not known to be one.      *)
CommittedRowsInResult ==
  \A r \in completed : rowsDeleted > 0 => r.rows >= rowsDeleted

(* Documentation claim (docs/threat-model.md): rows added since the plan   *)
(* was approved are not deleted beyond the declared tolerance.             *)
DeletesWithinDrift ==
  Cardinality(Removed) > job.expectedRows =>
    ~DriftExceeded(job, Cardinality(Removed))

(* Comment claim (adapters/postgres/adapter.go, BatchObserver): a process  *)
(* killed mid-run still leaves an accurate record of what was removed.     *)
EventsRecordRemovals ==
  pc = "crashed" /\ Removed # {} =>
    \E e \in received : e.rows = Cardinality(Removed)

-----------------------------------------------------------------------------
(* The strengthenings the proofs rest on; TLC checks them first.           *)
(* The books balance: while the job works, the counter is the number of    *)
(* removed rows and the batch in flight fits under the ceiling; rows       *)
(* counted at the first gate are none.                                     *)
CountInv ==
  /\ rowsDeleted <= job.maxRows
  /\ pc \in Working => result = NoResult /\ Cardinality(Removed) = rowsDeleted
  /\ pc = "deleting" => Cardinality(doomed) <= job.maxRows - rowsDeleted
  /\ pc = "count" => gate = "first"
  /\ gate = "first" => rowsDeleted = 0
  /\ CeilingRespected
  /\ ResultCountsRemoved

(* The events: the job announces nothing above its sequence number and no  *)
(* more rows than it has counted, so the next number is a new event; and a *)
(* pause announced again is the same event.                                *)
EventInv ==
  /\ pc \in Working =>
       \A e \in received : e.sequence <= sequence /\ e.rows <= rowsDeleted
  /\ pc = "count" => received = {} /\ ~paused
  /\ paused => \A e \in received :
       e.sequence = sequence => e.type = "PAUSED" /\ e.rows = rowsDeleted
  /\ EventsConsistent

(* The recount's account: as long as nobody else writes, every candidate   *)
(* counted is still there or removed, and a batch that selected no row saw *)
(* none to select.                                                         *)
CompletionInv ==
  changes = 0 =>
    /\ touched = {}
    /\ pc \in Working \ {"count"} => measured = rowsDeleted + Cardinality(Candidates)
    /\ pc = "deleting" => doomed \subseteq Candidates /\ (doomed = {} => Candidates = {})
    /\ TruthfulCompletion

(* The balance: the rows removed and the candidates left are no more than  *)
(* the recount saw and other sessions changed since, and no row is removed *)
(* on a recount that drifted.                                              *)
BalanceInv ==
  /\ pc \in Working \ {"count"} =>
       /\ ~DriftExceeded(job, measured)
       /\ Cardinality(Removed) + Cardinality(Candidates) <= measured + changes
  /\ Removed # {} =>
       /\ ~DriftExceeded(job, measured)
       /\ Cardinality(Removed) <= measured + changes

(* One result: nothing is delivered before the job is settled, and nothing *)
(* but its result after; a job at its report has one.                      *)
DeliveryInv ==
  /\ pc \in Working => completed = {}
  /\ completed \subseteq {result}

(* The checkpoint's memory: the obeyed pause is one of the decisions, no   *)
(* newer than the highest version seen, and the connector moves only on a  *)
(* RUN.                                                                    *)
GateInv ==
  /\ pausedAt > 0 => decisions[pausedAt] = "PAUSE"
  /\ pausedAt <= highestVersion
  /\ PauseNeedsNewerRun

(* The stop bound: once a batch has begun after the operator's stop, the   *)
(* connector is past its last permit, and the outstanding request can only *)
(* be answered with the stop itself.                                       *)
StopInv ==
  /\ begunAfterStop <= 1
  /\ Decision = "RUN" => begunAfterStop = 0
  /\ begunAfterStop = 1 =>
       /\ pc \notin {"count", "connect", "batch", "next"}
       /\ pc = "awaiting" => fresh \subseteq {Len(decisions)}
=============================================================================
