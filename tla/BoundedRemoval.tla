--------------------------- MODULE BoundedRemoval ---------------------------
(***************************************************************************)
(* What one DELETE job promises, said without batches, checkpoints,        *)
(* transactions or retries: rows leave the table only while they are       *)
(* candidates and never more of them than the ceiling; the job is settled  *)
(* once, by a result that counts exactly what was removed or says that it  *)
(* cannot tell; after that it removes nothing, and the control plane is    *)
(* told that result and no other.  DeleteExecution implements it.          *)
(***************************************************************************)
EXTENDS Integers, FiniteSets

CONSTANT Rows       \* identities of the rows the target table may hold

VARIABLES
  ceiling,    \* the rows the job may remove
  table,      \* Rows -> what the row is to the job
  phase,      \* "open", "settled" or "crashed"
  result,     \* what the job was settled with
  delivered   \* the results the control plane was given

vars == <<ceiling, table, phase, result, delivered>>

Alive      == {"candidate", "held", "outside"}
Unsettled  == [status |-> "NONE", rows |-> -1]
CannotTell == [status |-> "FAILED", rows |-> -1]

Candidates == {r \in Rows : table[r] = "candidate"}
Removed    == {r \in Rows : table[r] = "deleted"}

Init ==
  /\ ceiling \in Nat \ {0}
  /\ table \in [Rows -> Alive]
  /\ phase = "open" /\ result = Unsettled /\ delivered = {}

(* Candidates leave the table, under the ceiling; perhaps none does.       *)
Remove(rows) ==
  /\ rows \subseteq Candidates
  /\ Cardinality(Removed \cup rows) <= ceiling
  /\ table' = [r \in Rows |-> IF r \in rows THEN "deleted" ELSE table[r]]

Batch ==
  /\ phase = "open"
  /\ \E rows \in SUBSET Candidates : Remove(rows)
  /\ UNCHANGED <<ceiling, phase, result, delivered>>

(* The job is over and its removals are known: none, if the plan is stale. *)
Settle ==
  /\ phase = "open" /\ phase' = "settled"
  /\ \E status \in {"COMPLETED", "PARTIAL", "CANCELLED", "PLAN_STALE"} :
       /\ status = "PLAN_STALE" => Removed = {}
       /\ result' = [status |-> status, rows |-> Cardinality(Removed)]
  /\ UNCHANGED <<ceiling, table, delivered>>

(* The job is over and nobody knows whether its last batch took effect.    *)
Fail ==
  /\ phase = "open" /\ phase' = "settled"
  /\ \E rows \in SUBSET Candidates : Remove(rows)
  /\ result' = CannotTell
  /\ UNCHANGED <<ceiling, delivered>>

Deliver ==
  /\ phase = "settled"
  /\ delivered' = {result}
  /\ UNCHANGED <<ceiling, table, phase, result>>

(* The process is gone, and with it the job.  Only a job still open can    *)
(* have a batch in flight.                                                 *)
Crash ==
  /\ phase # "crashed" /\ phase' = "crashed"
  /\ \/ phase = "open" /\ \E rows \in SUBSET Candidates : Remove(rows)
     \/ UNCHANGED table
  /\ UNCHANGED <<ceiling, result, delivered>>

(* Another session changes a row that is there.                            *)
OtherSession ==
  /\ \E r \in Rows, state \in Alive :
       /\ table[r] # "deleted"
       /\ table' = [table EXCEPT ![r] = state]
  /\ UNCHANGED <<ceiling, phase, result, delivered>>

Next == Batch \/ Settle \/ Fail \/ Deliver \/ Crash \/ OtherSession

Spec == Init /\ [][Next]_vars
=============================================================================
