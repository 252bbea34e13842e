--------------------------- MODULE SafetyPolicy ---------------------------
(***************************************************************************)
(* May a verified job run?  internal/agent/agent.go (handle, from the      *)
(* source lookup to the decision) and internal/policy/policy.go            *)
(* (Authorize, checkCeilings, checkApproval, checkDrift, effectiveLimits), *)
(* on jobs that protocol/v1/job.go's Validate accepts and sources that     *)
(* config.Load accepts.                                                    *)
(*                                                                         *)
(* The decision is a pure function of source, job and clock.  The          *)
(* specification reads one job against one source and keeps the decision,  *)
(* so that TLC goes through every combination of its inputs and compares   *)
(* the code's sequence of checks with what the documentation promises.     *)
(***************************************************************************)
EXTENDS SourceConfiguration, RecountDrift, FiniteSets

CONSTANTS
  Trials,    \* a job for a source, as a pair; only valid ones are used
  Times,     \* readings of the clock
  Counts     \* recounts a drift tolerance is compared on

ASSUME CountsAssumption == Counts \subseteq Nat /\ Times \subseteq Nat

Destructive(operation) == operation = "DELETE"
NeedsTarget(operation) == operation \in {"COUNT", "DELETE"}

(* What the decoders guarantee of a policy and of a job before anything is *)
(* validated: numbers are integers, tables a sequence, and a job's limits  *)
(* and target have their fields and no other.                              *)
LimitFields == {"maxRows", "batchSize", "statement", "lock", "duration"}

DecodedSafety(safety) ==
  /\ {safety.maxDeleteRows, safety.maxBatchSize, safety.statement, safety.lock,
      safety.duration, safety.drift.exactBelow, safety.drift.driftRows} \subseteq Int
  /\ DOMAIN safety.tables = 1..Len(safety.tables) /\ Len(safety.tables) \in Nat
  /\ \A i \in DOMAIN safety.tables :
       safety.tables[i].maxDeleteRows \in Int /\ safety.tables[i].maxBatchSize \in Int

DecodedJob(j) ==
  /\ NeedsTarget(j.operation) =>
       /\ j.target \in [schema: STRING, table: STRING]
       /\ j.limits = [f \in LimitFields |-> j.limits[f]]
       /\ \A f \in LimitFields : j.limits[f] \in Int
  /\ Destructive(j.operation) => j.approvalUntil \in Int

ASSUME TrialsAssumption ==
  \A trial \in Trials : DecodedSafety(trial[1].safety) /\ DecodedJob(trial[2])

VARIABLES source, job, now, decision
vars == <<source, job, now, decision>>

Undecided == [allowed |-> FALSE, code |-> "UNDECIDED"]
Deny(code) == [allowed |-> FALSE, code |-> code]

-----------------------------------------------------------------------------
(* protocol/v1: the ranges a job's limits and drift block must lie in.     *)
MaxJobRows == 100 * 1000 * 1000

ValidLimits(limits) ==
  /\ limits.batchSize \in 1..50000
  /\ limits.maxRows \in 1..MaxJobRows
  /\ limits.statement \in 1..3600
  /\ limits.lock \in 0..600
  /\ limits.duration \in 0..86400
  /\ limits.batchSize <= limits.maxRows

ValidDrift(drift) ==
  /\ drift.expectedRows \in 0..MaxJobRows
  /\ drift.driftRows \in 0..MaxJobRows
  /\ drift.driftBasisPoints \in 0..Whole

(* A well-formed job: limits for a targeted operation, and for a delete    *)
(* also a drift block and an approval (whose expiry is approvalUntil).     *)
ValidJob(j) ==
  /\ NeedsTarget(j.operation) => ValidLimits(j.limits)
  /\ Destructive(j.operation) => ValidDrift(j.drift)

-----------------------------------------------------------------------------
(* The tighter of two ceilings, where zero or less is "not configured".    *)
smallestPositive(left, right) ==
  CASE left <= 0                  -> right
    [] left > 0 /\ right <= 0     -> left
    [] left > 0 /\ right > 0      -> IF left < right THEN left ELSE right

(* The allow-list entry for a target: the first, and only, one.            *)
HasRule(safety, target) ==
  \E i \in DOMAIN safety.tables :
    safety.tables[i].schema = target.schema /\ safety.tables[i].table = target.table

Rule(safety, target) ==
  safety.tables[CHOOSE i \in DOMAIN safety.tables :
    /\ safety.tables[i].schema = target.schema /\ safety.tables[i].table = target.table
    /\ \A k \in 1..(i - 1) : \/ safety.tables[k].schema # target.schema
                             \/ safety.tables[k].table # target.table]

(* A ceiling that is set and exceeded is refused, never lowered.           *)
Exceeds(requested, ceiling) == ceiling > 0 /\ requested > ceiling

(* Mutant of checkCeilings: the table's own ceilings replace the source's. *)
checkTableCeilings(safety, rule, limits) ==
  IF Exceeds(limits.maxRows, rule.maxDeleteRows)
  THEN "DENIED_ROW_LIMIT_EXCEEDED"
  ELSE IF Exceeds(limits.batchSize, rule.maxBatchSize)
       THEN "DENIED_BATCH_LIMIT_EXCEEDED" ELSE "NONE"

checkCeilings(safety, rule, limits) ==
  IF Exceeds(limits.maxRows, smallestPositive(rule.maxDeleteRows, safety.maxDeleteRows))
  THEN "DENIED_ROW_LIMIT_EXCEEDED"
  ELSE IF Exceeds(limits.batchSize, smallestPositive(rule.maxBatchSize, safety.maxBatchSize))
       THEN "DENIED_BATCH_LIMIT_EXCEEDED" ELSE "NONE"

(* Mutant of checkApproval: the instant of expiry still counts as approved. *)
checkApprovalLate(safety, j, t) ==
  IF Destructive(j.operation) /\ safety.requireApproval /\ t > j.approvalUntil
  THEN "DENIED_APPROVAL_EXPIRED" ELSE "NONE"

(* A delete needs an approval that is still valid, unless waived locally.  *)
checkApproval(safety, j, t) ==
  IF Destructive(j.operation) /\ safety.requireApproval /\ t >= j.approvalUntil
  THEN "DENIED_APPROVAL_EXPIRED" ELSE "NONE"

(* Mutant of checkDrift: either limit of the local maximum is enough.      *)
checkDriftEither(safety, j) ==
  LET local == safety.drift IN
  IF /\ Destructive(j.operation)
     /\ IF local.mode = "strict" \/ j.drift.expectedRows < local.exactBelow
        THEN j.drift.driftRows > 0 \/ j.drift.driftBasisPoints > 0
        ELSE /\ j.drift.driftRows > local.driftRows
             /\ j.drift.driftBasisPoints > local.driftBasisPoints
  THEN "DENIED_BY_LOCAL_POLICY" ELSE "NONE"

(* A job's drift tolerance against the local maximum: none at all in       *)
(* strict mode and for small plans, otherwise each number by itself.       *)
checkDrift(safety, j) ==
  LET local == safety.drift IN
  IF /\ Destructive(j.operation)
     /\ IF local.mode = "strict" \/ j.drift.expectedRows < local.exactBelow
        THEN j.drift.driftRows > 0 \/ j.drift.driftBasisPoints > 0
        ELSE \/ j.drift.driftRows > local.driftRows
             \/ j.drift.driftBasisPoints > local.driftBasisPoints
  THEN "DENIED_BY_LOCAL_POLICY" ELSE "NONE"

(* One protective timeout, lowered to the local maximum if there is one.   *)
Clamp(requested, local) ==
  IF local > 0 THEN smallestPositive(requested, local) ELSE requested

effectiveLimits(safety, limits) ==
  [limits EXCEPT !.statement = Clamp(limits.statement, safety.statement),
                 !.lock      = Clamp(limits.lock, safety.lock),
                 !.duration  = Clamp(limits.duration, safety.duration)]

(* Authorize's checks of a targeted job, in the order of the code.         *)
FirstRefusal(safety, j, t) ==
  IF j.target.schema \notin safety.schemas \/ ~HasRule(safety, j.target)
  THEN "DENIED_TARGET_NOT_ALLOWED"
  ELSE LET rule == Rule(safety, j.target)
           required == IF j.operation = "DELETE" THEN "delete" ELSE "inspect"
           checks == << IF ~Allows(rule, required)
                          THEN "DENIED_TARGET_NOT_ALLOWED" ELSE "NONE",
                        IF ~(j.columns \subseteq rule.columns)
                          THEN "DENIED_COLUMN_NOT_ALLOWED" ELSE "NONE",
                        checkCeilings(safety, rule, j.limits),
                        checkApproval(safety, j, t),
                        checkDrift(safety, j) >>
           failed == {i \in DOMAIN checks : checks[i] # "NONE"}
       IN IF failed = {} THEN "NONE"
          ELSE checks[CHOOSE i \in failed : \A k \in failed : i <= k]

Authorize(safety, j, t) ==
  IF ~NeedsTarget(j.operation) THEN [allowed |-> TRUE]
  ELSE LET code == FirstRefusal(safety, j, t)
       IN IF code = "NONE"
          THEN [allowed |-> TRUE, effective |-> effectiveLimits(safety, j.limits)]
          ELSE Deny(code)

(* handle, from the source lookup to the decision.                         *)
Decision(src, j, t) ==
  CASE Pending(src) -> Deny("DENIED_UNKNOWN_DATA_SOURCE")
    [] ~Pending(src) /\ j.operation = "DELETE" /\ src.mode = "discovery_only"
                    -> Deny("DENIED_BY_LOCAL_POLICY")
    [] OTHER        -> Authorize(src.safety, j, t)

-----------------------------------------------------------------------------
Init ==
  /\ \E trial \in Trials : source = trial[1] /\ job = trial[2]
  /\ ValidSource(source) /\ ValidJob(job)
  /\ now \in Times
  /\ decision = Undecided

Decide ==
  /\ decision = Undecided
  /\ decision' = Decision(source, job, now)
  /\ UNCHANGED <<source, job, now>>

(* The decision stands: neither the approval nor the policy is looked at   *)
(* again while the job runs.                                               *)
Decided == decision # Undecided /\ UNCHANGED vars

Next == Decide \/ Decided

Spec == Init /\ [][Next]_vars

-----------------------------------------------------------------------------
DeleteAllowed == decision.allowed /\ job.operation = "DELETE"

(* An authorized delete is one the customer opened every door for: the     *)
(* source is in execution mode with an executor distinct from the reader,  *)
(* the table grants delete, only retention columns are read, and the       *)
(* approval had not expired (handle, Authorize, Source.validate).          *)
DeleteFullyGranted ==
  DeleteAllowed =>
    /\ source.mode = "execution"
    /\ source.executorSecret /\ source.executor # source.reader
    /\ \E i \in DOMAIN source.safety.tables :
         LET rule == source.safety.tables[i] IN
         /\ [schema |-> rule.schema, table |-> rule.table] = job.target
         /\ rule.schema \in source.safety.schemas
         /\ "delete" \in rule.actions
         /\ job.columns \subseteq rule.columns
    /\ source.safety.requireApproval => now < job.approvalUntil

(* The row and batch ceilings of the rule and of the source that are       *)
(* configured bound the limits, and there is at least one for rows.        *)
WithinCeilings(limits) ==
  \E i \in DOMAIN source.safety.tables :
    LET rule == source.safety.tables[i]
        rows == {n \in {rule.maxDeleteRows, source.safety.maxDeleteRows} : n > 0}
        size == {n \in {rule.maxBatchSize, source.safety.maxBatchSize} : n > 0}
    IN /\ [schema |-> rule.schema, table |-> rule.table] = job.target
       /\ rows # {} /\ \A limit \in rows : limits.maxRows <= limit
       /\ \A limit \in size : limits.batchSize <= limit

(* What a job may use is within every local bound: a value of zero or less *)
(* (a table's ceiling and the timeouts may be negative), which means "not  *)
(* configured", never lifts the other level's ceiling, local timeouts      *)
(* bound even a job that asks for none, no timeout grows and the scope a   *)
(* human approved is never altered (checkCeilings, smallestPositive,       *)
(* validateTable and effectiveLimits together).                            *)
LimitsWithinLocal ==
  decision.allowed /\ NeedsTarget(job.operation) =>
    LET within(effective, limit) == limit <= 0 \/ (0 < effective /\ effective <= limit)
        tight(effective, requested, local) ==
          within(effective, requested) /\ within(effective, local)
    IN /\ DeleteAllowed => WithinCeilings(decision.effective)
       /\ decision.effective.maxRows = job.limits.maxRows
       /\ decision.effective.batchSize = job.limits.batchSize
       /\ tight(decision.effective.statement, job.limits.statement, source.safety.statement)
       /\ tight(decision.effective.lock, job.limits.lock, source.safety.lock)
       /\ tight(decision.effective.duration, job.limits.duration, source.safety.duration)

(* The local drift policy as a tolerance of its own.                       *)
LocalDrift ==
  [expectedRows |-> job.drift.expectedRows,
   driftRows |-> IF job.drift.expectedRows < source.safety.drift.exactBelow
                 THEN 0 ELSE source.safety.drift.driftRows,
   driftBasisPoints |-> IF job.drift.expectedRows < source.safety.drift.exactBelow
                        THEN 0 ELSE source.safety.drift.driftBasisPoints]

(* Every recount the job tolerates, the local policy tolerates.            *)
NoWiderThanLocal ==
  \A observed \in Counts :
    ~DriftExceeded(job.drift, observed) => ~DriftExceeded(LocalDrift, observed)

(* A job that sets both tolerances, or neither, never deletes on a recount *)
(* that the customer's own drift policy would call stale (checkDrift       *)
(* against DriftExceeded).                                                 *)
DriftWithinLocal ==
  DeleteAllowed /\ (job.drift.driftRows = 0 <=> job.drift.driftBasisPoints = 0) =>
    NoWiderThanLocal

(* Documentation claim (docs/configuration.md and docs/protocol.md): both  *)
(* local limits apply to every job; a signed job may request less          *)
(* tolerance, and one requesting more is refused.                          *)
DriftNeverWidened == DeleteAllowed => NoWiderThanLocal
=============================================================================
