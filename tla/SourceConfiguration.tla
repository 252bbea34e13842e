------------------------ MODULE SourceConfiguration ------------------------
(***************************************************************************)
(* One source of the connector's configuration and what makes it usable:   *)
(* internal/config/config.go (Source, Pending, validate, validatePending,  *)
(* Credential.validate) and internal/policy/policy.go (Safety.Validate,    *)
(* validateTable, DriftPolicy.validate).  Validation is a conjunction: the *)
(* code reports the first thing wrong, the model only whether there is one.*)
(*                                                                         *)
(* A source is a record                                                    *)
(*   configuredBy: who describes the database, "local" or "retentionops"   *)
(*   address:      host, port and database, or Nowhere                     *)
(*   tls, mode:    as written                                              *)
(*   reader, executor: role names, NoRole when empty                       *)
(*   readerSecret, executorSecret: is a provider and ref given?            *)
(*   safety:       the local policy, a record with                         *)
(*     schemas, requireApproval, maxDeleteRows, maxBatchSize, statement,   *)
(*     lock, duration (seconds), drift [mode, exactBelow, driftRows,       *)
(*     driftBasisPoints] and tables, a sequence of rules [schema, table,   *)
(*     actions, columns, maxDeleteRows, maxBatchSize].                     *)
(* Zero means "not configured" for every ceiling and timeout.              *)
(***************************************************************************)
EXTENDS Integers, Sequences

CONSTANT Roles   \* role names that are plain identifiers

Nowhere  == "nowhere"
NoRole   == "none"

ASSUME RolesAssumption == NoRole \notin Roles

Whole    == 10000   \* in basis points
TLSModes == {"verify-full", "verify-ca", "require"}

(* A source has these fields and no other.                                 *)
SourceFields == {"configuredBy", "address", "tls", "mode", "reader", "executor",
                 "readerSecret", "executorSecret", "safety"}
IsSource(source) == source = [f \in SourceFields |-> source[f]]

(* And so has a policy.                                                    *)
SafetyFields == {"schemas", "requireApproval", "maxDeleteRows", "maxBatchSize",
                 "statement", "lock", "duration", "drift", "tables"}
IsSafety(safety) == safety = [f \in SafetyFields |-> safety[f]]

Allows(rule, action) == action \in rule.actions

(* Does any table grant the destructive verb?                              *)
GrantsDelete(safety) ==
  \E i \in DOMAIN safety.tables : Allows(safety.tables[i], "delete")

(* The entry of the allow-list: a schema that is listed, a verb, and for   *)
(* delete a retention column and a row ceiling at either level.            *)
ValidTable(safety, rule) ==
  /\ rule.schema \in safety.schemas
  /\ rule.actions # {} /\ rule.actions \subseteq {"inspect", "delete"}
  /\ Allows(rule, "delete") =>
       /\ rule.columns # {}
       /\ rule.maxDeleteRows > 0 \/ safety.maxDeleteRows > 0

ValidDriftPolicy(drift) ==
  /\ drift.mode \in {"strict", "bounded"}
  /\ drift.exactBelow >= 0 /\ drift.driftRows >= 0
  /\ drift.driftBasisPoints \in 0..Whole
  /\ drift.mode = "strict" =>
       drift.exactBelow = 0 /\ drift.driftRows = 0 /\ drift.driftBasisPoints = 0
  /\ drift.mode = "bounded" =>
       drift.exactBelow # 0 /\ drift.driftRows # 0 /\ drift.driftBasisPoints # 0

ValidSafety(safety) ==
  /\ safety.schemas # {}
  /\ \A i \in DOMAIN safety.tables : ValidTable(safety, safety.tables[i])
  /\ \A i, j \in DOMAIN safety.tables :
       /\ safety.tables[i].schema = safety.tables[j].schema
       /\ safety.tables[i].table = safety.tables[j].table
       => i = j
  /\ safety.maxDeleteRows >= 0 /\ safety.maxBatchSize >= 0
  /\ ValidDriftPolicy(safety.drift)

(* Declared for the console to configure, and not configured yet.          *)
Pending(source) == source.configuredBy = "retentionops" /\ source.address = Nowhere

(* What a pending source is held to: a local secret, and no delete.        *)
ValidPending(source) ==
  /\ ~GrantsDelete(source.safety)
  /\ source.mode # "execution"
  /\ source.readerSecret
  /\ source.safety.schemas = {} \/ ValidSafety(source.safety)

(* The two identities: a reader always, an executor of another name as     *)
(* soon as any part of one is given or any table grants delete.            *)
ValidIdentities(source) ==
  /\ source.reader \in Roles /\ source.readerSecret
  /\ IF source.executor # NoRole \/ source.executorSecret
     THEN /\ source.executor \in Roles /\ source.executorSecret
          /\ source.executor # source.reader
     ELSE ~GrantsDelete(source.safety)

ValidConfigured(source) ==
  /\ source.address # Nowhere
  /\ \/ source.mode = "discovery_only" /\ ~GrantsDelete(source.safety)
     \/ source.mode = "execution" /\ GrantsDelete(source.safety)
  /\ source.tls \in TLSModes
  /\ ValidIdentities(source)
  /\ \/ /\ source.safety.schemas = {}
        /\ source.configuredBy = "retentionops"
        /\ ~GrantsDelete(source.safety)
     \/ ValidSafety(source.safety)

ValidSource(source) ==
  IF Pending(source) THEN ValidPending(source) ELSE ValidConfigured(source)

-----------------------------------------------------------------------------
(* What the console may set on a source: the managed overlay's entry.      *)
Settings == [address: STRING, tls: STRING, reader: STRING, executor: STRING]
NoSettings == [none |-> TRUE]

(* The settings laid over a source; an empty executor role changes nothing.*)
Overlaid(source, settings) ==
  [source EXCEPT !.address = settings.address, !.tls = settings.tls,
                 !.reader = settings.reader,
                 !.executor = IF settings.executor = NoRole THEN @
                                                            ELSE settings.executor]

(* ApplyManagedOverlay: a source of the operator's file, as it is loaded.  *)
Effective(source, settings) ==
  IF settings = NoSettings THEN source ELSE Overlaid(source, settings)
=============================================================================
