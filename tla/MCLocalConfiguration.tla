---------------------- MODULE MCLocalConfiguration ----------------------
(* Instances of LocalConfiguration for TLC. *)
EXTENDS LocalConfiguration

(* A source that may only be inspected. *)
MCBase ==
  [configuredBy |-> "local", address |-> "db0", tls |-> "verify-full",
   mode |-> "discovery_only", reader |-> "reader", executor |-> NoRole,
   readerSecret |-> TRUE, executorSecret |-> FALSE,
   safety |-> [schemas |-> {"app"}, requireApproval |-> TRUE, maxDeleteRows |-> 0,
               maxBatchSize |-> 0, statement |-> 0, lock |-> 0, duration |-> 0,
               drift |-> [mode |-> "strict", exactBelow |-> 0, driftRows |-> 0,
                          driftBasisPoints |-> 0],
               tables |-> <<>>]]

Rule == [schema |-> "app", table |-> "logs", actions |-> {"inspect", "delete"},
         columns |-> {"at"}, maxDeleteRows |-> 9, maxBatchSize |-> 3]

(* Two bundles that differ in the executor they name. *)
MCRequests == {[role |-> "bob", rule |-> Rule], [role |-> "carol", rule |-> Rule]}

(* The console moves the database and names a reader that one of the       *)
(* bundles has as its executor: prepared after it, that bundle is refused. *)
(* It may also name another executor, which only a source that has the     *)
(* secret of one accepts.                                                  *)
MCConsole ==
  { [address |-> "db1", tls |-> "require", reader |-> "bob", executor |-> NoRole],
    [address |-> "db0", tls |-> "verify-full", reader |-> "reader", executor |-> "dave"] }
=============================================================================
