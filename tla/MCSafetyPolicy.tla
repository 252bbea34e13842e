------------------------- MODULE MCSafetyPolicy -------------------------
(* Instances of SafetyPolicy for TLC. *)
EXTENDS SafetyPolicy

Table(actions, columns, rows, batch) ==
  [schema |-> "app", table |-> "logs", actions |-> actions, columns |-> columns,
   maxDeleteRows |-> rows, maxBatchSize |-> batch]

Strict == [mode |-> "strict", exactBelow |-> 0, driftRows |-> 0, driftBasisPoints |-> 0]
Bounded == [mode |-> "bounded", exactBelow |-> 4, driftRows |-> 2, driftBasisPoints |-> 2500]

Policy(schemas, approval, drift, rows, batch, seconds, tables) ==
  [schemas |-> schemas, requireApproval |-> approval, drift |-> drift,
   maxDeleteRows |-> rows, maxBatchSize |-> batch,
   statement |-> seconds, lock |-> seconds, duration |-> seconds, tables |-> tables]

Database(by, address, mode, executor, secret, safety) ==
  [configuredBy |-> by, address |-> address, tls |-> "verify-full", mode |-> mode,
   reader |-> "reader", executor |-> executor, readerSecret |-> TRUE,
   executorSecret |-> secret, safety |-> safety]

Delete(columns, rows, batch, seconds, drift, until) ==
  [operation |-> "DELETE", target |-> [schema |-> "app", table |-> "logs"],
   columns |-> columns, approvalUntil |-> until, drift |-> drift,
   limits |-> [maxRows |-> rows, batchSize |-> batch, statement |-> 2,
               lock |-> seconds, duration |-> seconds]]

Tolerance(expected, rows, points) ==
  [expectedRows |-> expected, driftRows |-> rows, driftBasisPoints |-> points]

(* Another table, in front of the one the jobs delete from. *)
Users == [Table({"inspect"}, {"at"}, 0, 0) EXCEPT !.table = "users"]

(* Grants: who may do what, with one row ceiling. *)
MCGrantSources ==
  { Database(by, address, mode, executor, executor # NoRole,
             Policy(schemas, approval, Strict, 0, 0, 0,
                    IF actions = {} THEN others
                    ELSE Append(others, Table(actions, columns, 2, 0)))) :
      by \in {"local", "retentionops"}, address \in {"db", Nowhere},
      mode \in {"discovery_only", "execution"},
      executor \in {"reader", "executor", NoRole}, others \in {<<>>, <<Users>>},
      schemas \in {{}, {"app"}, {"other"}}, approval \in BOOLEAN,
      actions \in SUBSET {"inspect", "delete"}, columns \in {{}, {"at"}, {"at", "hold"}} }

MCGrantJobs ==
  { [Delete(columns, 1, 1, 0, Tolerance(3, 0, 0), 1) EXCEPT !.operation = operation,
                                                            !.target.table = table] :
      columns \in {{"at"}, {"at", "hold"}}, table \in {"logs", "users"},
      operation \in {"TEST_CONNECTION", "COUNT", "DELETE"} }

(* Numbers: every ceiling and timeout from absent (zero, or negative where  *)
(* validation lets it pass) to larger than asked.                           *)
MCLimitSources ==
  { Database("local", "db", "execution", "executor", TRUE,
             Policy({"app"}, TRUE, Strict, rows, batch, seconds,
                    <<Table({"inspect", "delete"}, {"at"}, tableRows, tableBatch)>>)) :
      rows \in 0..3, batch \in 0..2, seconds \in -1..3,
      tableRows \in -1..3, tableBatch \in -1..2 }

MCLimitJobs ==
  { Delete({"at"}, rows, batch, seconds, Tolerance(3, 0, 0), 1) :
      rows \in 1..3, batch \in 1..3, seconds \in {0, 1, 3} }

(* Drift: both modes against tolerances below, at and above the maximum;   *)
(* 2500 basis points of 4 rows are one row, of 8 rows two.                 *)
MCDriftSources ==
  { Database("local", "db", "execution", "executor", TRUE,
             Policy({"app"}, FALSE, drift, 9, 0, 0,
                    <<Table({"inspect", "delete"}, {"at"}, 9, 0)>>)) :
      drift \in {Strict, Bounded} }

MCDriftJobs ==
  { Delete({"at"}, 9, 9, 0, Tolerance(expected, rows, points), 0) :
      expected \in 0..12, rows \in 0..3, points \in {0, 1250, 2500, 5000} }

MCTrials == (MCGrantSources \X MCGrantJobs) \cup (MCLimitSources \X MCLimitJobs)
              \cup (MCDriftSources \X MCDriftJobs)
=============================================================================
