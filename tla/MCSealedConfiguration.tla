---------------------- MODULE MCSealedConfiguration ----------------------
(* Instances of SealedConfiguration for TLC. *)
EXTENDS SealedConfiguration

Policy ==
  [schemas |-> {"app"}, requireApproval |-> TRUE, maxDeleteRows |-> 9,
   maxBatchSize |-> 0, statement |-> 0, lock |-> 0, duration |-> 0,
   drift |-> [mode |-> "strict", exactBelow |-> 0, driftRows |-> 0,
              driftBasisPoints |-> 0],
   tables |-> <<[schema |-> "app", table |-> "logs",
                 actions |-> {"inspect", "delete"}, columns |-> {"at"},
                 maxDeleteRows |-> 0, maxBatchSize |-> 0]>>]

(* A source that may delete, described locally. *)
Executing ==
  [configuredBy |-> "local", address |-> "db0", tls |-> "verify-full",
   mode |-> "execution", reader |-> "reader", executor |-> "alice",
   readerSecret |-> TRUE, executorSecret |-> TRUE, safety |-> Policy]

(* A source the console is to describe, without any grant. *)
Waiting ==
  [Executing EXCEPT !.configuredBy = "retentionops", !.address = Nowhere,
                    !.mode = "discovery_only", !.reader = NoRole,
                    !.executor = NoRole, !.executorSecret = FALSE,
                    !.safety.schemas = {}, !.safety.tables = <<>>]

MCBase == [s \in SourceIds |-> IF s = "s1" THEN Executing ELSE Waiting]

Envelope(id, source, opens, address, tls, reader, executor) ==
  [id |-> id, source |-> source, opens |-> opens, dated |-> "open",
   settings |-> [address |-> address, tls |-> tls, reader |-> reader,
                 executor |-> executor]]

(* Two changes of one source.  The second makes the executor of the file   *)
(* the reader and leaves the executor out: it is refused unless the first  *)
(* was applied before it.  It is dated ahead of the connector's clock.     *)
MCChanges ==
  { Envelope(1, "s1", "yes", "db1", "require", "reader", "bob"),
    [Envelope(2, "s1", "yes", "db2", "verify-ca", "alice", NoRole)
       EXCEPT !.dated = "early"] }

(* The same with one for the other source, sealed for another connector.   *)
MCForeign ==
  MCChanges
    \cup {Envelope(3, "s2", "wrong_recipient", "db3", "verify-full", "reader", NoRole)}
=============================================================================
