------------------------- MODULE SafetyPolicyProofs -------------------------
(***************************************************************************)
(* Proofs about SafetyPolicy, for any policies, jobs, clocks and recounts  *)
(* that the decoders produce: the run goes through small numbers, the      *)
(* theorems hold for all of them.  The inductive invariant is that the     *)
(* decision is the one made of a valid source and a valid job; the rest is *)
(* what Authorize's sequence of checks establishes (AllowedPassed) and the *)
(* arithmetic of ceilings, timeouts and drift.                             *)
(***************************************************************************)
EXTENDS SafetyPolicy, TLAPS

(* The decision is open, or it is the one of this source, job and clock.   *)
IInv ==
  /\ DecodedSafety(source.safety) /\ DecodedJob(job)
  /\ ValidSource(source) /\ ValidJob(job)
  /\ now \in Int
  /\ decision \in {Undecided, Decision(source, job, now)}

(* The entry of the allow-list a job is for.                               *)
RuleFor(i) ==
  /\ i \in DOMAIN source.safety.tables
  /\ source.safety.tables[i].schema = job.target.schema
  /\ source.safety.tables[i].table = job.target.table

-----------------------------------------------------------------------------
(* smallestPositive: where both ceilings are set the result is within each,*)
(* and it is unset only if both are.                                       *)
LEMMA SmallestBounds ==
  ASSUME NEW left \in Int, NEW right \in Int
  PROVE  LET least == smallestPositive(left, right) IN
         /\ least \in Int
         /\ left > 0 => least > 0 /\ least <= left
         /\ right > 0 => least > 0 /\ least <= right
BY DEF smallestPositive

(* effectiveLimits on one timeout: it is within what was asked for and     *)
(* within the local maximum, each where it is set.                         *)
LEMMA ClampBounds ==
  ASSUME NEW requested \in Int, NEW local \in Int
  PROVE  LET effective == Clamp(requested, local) IN
         /\ requested > 0 => 0 < effective /\ effective <= requested
         /\ local > 0 => 0 < effective /\ effective <= local
BY SmallestBounds DEF Clamp

(* A limit that is not refused is within every ceiling that is set.        *)
LEMMA CeilingBounds ==
  ASSUME NEW requested \in Int, NEW left \in Int, NEW right \in Int,
         ~Exceeds(requested, smallestPositive(left, right))
  PROVE  \A limit \in {n \in {left, right} : n > 0} : requested <= limit
<1> DEFINE least == smallestPositive(left, right)
<1>1. /\ least \in Int
      /\ left > 0 => least > 0 /\ least <= left
      /\ right > 0 => least > 0 /\ least <= right
      BY SmallestBounds
<1>2. ~(least > 0 /\ requested > least) BY DEF Exceeds
<1> HIDE DEF least
<1>3. left > 0 => requested <= left BY <1>1, <1>2
<1>4. right > 0 => requested <= right BY <1>1, <1>2
<1> QED BY <1>3, <1>4

(* The bounds of the ranges jobs and policies are validated against.       *)
LEMMA RangesAreNumbers == MaxJobRows \in Nat /\ Whole \in Nat
BY DEF MaxJobRows, Whole

(* A larger number of basis points tolerates at least as much.             *)
LEMMA Monotone ==
  ASSUME NEW a \in Nat, NEW b \in Nat, NEW c \in Nat, b <= c
  PROVE  a * b <= a * c
<1>1. PICK d \in Nat : c = b + d
      <2>1. c - b \in Nat /\ c = b + (c - b) OBVIOUS
      <2> QED BY <2>1
<1>2. a * (b + d) = a * b + a * d OBVIOUS
<1>3. a * d >= 0 /\ a * b \in Int /\ a * d \in Int OBVIOUS
<1> QED BY <1>1, <1>2, <1>3

(* A tolerance with both limits set, or neither, within another that sets  *)
(* both: what the first accepts, the second accepts (DriftExceeded).       *)
LEMMA NarrowerDrift ==
  ASSUME NEW narrow, NEW wide, NEW observed \in Nat,
         narrow.expectedRows \in Nat, wide.expectedRows = narrow.expectedRows,
         narrow.driftRows \in Nat, wide.driftRows \in Nat,
         narrow.driftBasisPoints \in Nat, wide.driftBasisPoints \in Nat,
         narrow.driftRows = 0 <=> narrow.driftBasisPoints = 0,
         wide.driftRows > 0, wide.driftBasisPoints > 0,
         narrow.driftRows <= wide.driftRows,
         narrow.driftBasisPoints <= wide.driftBasisPoints,
         ~DriftExceeded(narrow, observed)
  PROVE  ~DriftExceeded(wide, observed)
<1> DEFINE expected == narrow.expectedRows
           difference == Difference(expected, observed)
           n == narrow.driftBasisPoints
           w == wide.driftBasisPoints
<1>1. difference \in Nat BY DEF Difference
<1>2. expected * n <= expected * w /\ expected * n \in Nat /\ expected * w \in Nat
      BY Monotone
<1>3. CASE narrow.driftRows = 0
      <2>1. difference = 0 BY <1>3 DEF DriftExceeded
      <2>2. ~(difference > wide.driftRows) BY <2>1
      <2>3. ~(difference * 10000 > expected * w)
            <3>1. difference * 10000 = 0 BY <2>1
            <3> HIDE DEF w, difference, expected
            <3> QED BY <1>2, <3>1
      <2> QED BY <2>2, <2>3 DEF DriftExceeded
<1>4. CASE narrow.driftRows # 0
      <2>1. /\ difference <= narrow.driftRows
            /\ expected > 0 => ~(difference * 10000 > expected * n)
            <3> HIDE DEF difference
            <3>1. ~(narrow.driftRows > 0 /\ difference > narrow.driftRows)
                  BY <1>4 DEF DriftExceeded, difference
            <3>2. ~(n > 0 /\ expected > 0 /\ difference * 10000 > expected * n)
                  BY <1>4 DEF DriftExceeded, difference
            <3> QED BY <1>1, <1>4, <3>1, <3>2
      <2>2. ~(difference > wide.driftRows) BY <1>1, <2>1
      <2>3. ~(expected > 0 /\ difference * 10000 > expected * w)
            <3> HIDE DEF w, n, difference, expected
            <3>1. difference * 10000 \in Int BY <1>1
            <3> QED BY <1>2, <2>1, <3>1
      <2> QED BY <2>2, <2>3 DEF DriftExceeded
<1> QED BY <1>3, <1>4

-----------------------------------------------------------------------------
(* Validation lets no two entries be for one table, so that the entry      *)
(* Authorize finds is the only one there is.                               *)
LEMMA RuleIsFound ==
  ASSUME DecodedSafety(source.safety), ValidSafety(source.safety),
         HasRule(source.safety, job.target)
  PROVE  \E i : RuleFor(i) /\ Rule(source.safety, job.target) = source.safety.tables[i]
<1> DEFINE tables == source.safety.tables
           First(i) ==
             /\ tables[i].schema = job.target.schema /\ tables[i].table = job.target.table
             /\ \A k \in 1..(i - 1) : \/ tables[k].schema # job.target.schema
                                    \/ tables[k].table # job.target.table
<1>1. PICK i \in DOMAIN tables :
        tables[i].schema = job.target.schema /\ tables[i].table = job.target.table
      BY DEF HasRule
<1>2. i \in 1..Len(tables) /\ Len(tables) \in Nat BY DEF DecodedSafety
<1>3. ASSUME NEW k \in 1..(i - 1)
      PROVE  tables[k].schema # job.target.schema \/ tables[k].table # job.target.table
      <2>1. k \in DOMAIN tables /\ k # i BY <1>2 DEF DecodedSafety
      <2> QED BY <1>1, <2>1 DEF ValidSafety
<1>4. First(i) BY <1>1, <1>3
<1> DEFINE c == CHOOSE j \in DOMAIN tables : First(j)
<1>5. c \in DOMAIN tables /\ First(c) BY <1>4
<1>6. Rule(source.safety, job.target) = tables[c] BY DEF Rule
<1> QED BY <1>5, <1>6 DEF RuleFor

(* Authorize's list of checks yields no code only if every check passed.   *)
LEMMA NoRefusal ==
  ASSUME NEW safety, NEW j, NEW t, FirstRefusal(safety, j, t) = "NONE"
  PROVE  LET rule == Rule(safety, j.target)
             required == IF j.operation = "DELETE" THEN "delete" ELSE "inspect"
         IN /\ j.target.schema \in safety.schemas
            /\ HasRule(safety, j.target)
            /\ Allows(rule, required)
            /\ j.columns \subseteq rule.columns
            /\ checkCeilings(safety, rule, j.limits) = "NONE"
            /\ checkApproval(safety, j, t) = "NONE"
            /\ checkDrift(safety, j) = "NONE"
<1> DEFINE rule == Rule(safety, j.target)
           required == IF j.operation = "DELETE" THEN "delete" ELSE "inspect"
           checks == << IF ~Allows(rule, required)
                          THEN "DENIED_TARGET_NOT_ALLOWED" ELSE "NONE",
                        IF ~(j.columns \subseteq rule.columns)
                          THEN "DENIED_COLUMN_NOT_ALLOWED" ELSE "NONE",
                        checkCeilings(safety, rule, j.limits),
                        checkApproval(safety, j, t),
                        checkDrift(safety, j) >>
           failed == {i \in DOMAIN checks : checks[i] # "NONE"}
           least == CHOOSE i \in failed : \A k \in failed : i <= k
<1>1. j.target.schema \in safety.schemas /\ HasRule(safety, j.target)
      BY DEF FirstRefusal
<1>2. failed = {} \/ checks[least] = "NONE"
      BY <1>1 DEF FirstRefusal
<1>3. failed \subseteq 1..5 BY DEF checks
<1>4. failed = {}
      <2> SUFFICES ASSUME failed # {} PROVE FALSE
          OBVIOUS
      <2>1. \E i \in failed : \A k \in failed : i <= k
            <3> HIDE DEF failed
            <3>1. CASE 1 \in failed BY <1>3, <3>1
            <3>2. CASE 1 \notin failed /\ 2 \in failed BY <1>3, <3>2
            <3>3. CASE 1 \notin failed /\ 2 \notin failed /\ 3 \in failed BY <1>3, <3>3
            <3>4. CASE 1 \notin failed /\ 2 \notin failed /\ 3 \notin failed /\ 4 \in failed
                  BY <1>3, <3>4
            <3>5. CASE failed \subseteq {5}
                  <4>1. 5 \in failed /\ \A k \in failed : k = 5 BY <3>5
                  <4> QED BY <4>1
            <3> QED BY <1>3, <3>1, <3>2, <3>3, <3>4, <3>5
      <2>2. least \in failed BY <2>1
      <2> QED BY <1>2, <2>2
<1>5. /\ checks[1] = "NONE" /\ checks[2] = "NONE" /\ checks[3] = "NONE"
      /\ checks[4] = "NONE" /\ checks[5] = "NONE"
      <2>1. DOMAIN checks = 1..5 OBVIOUS
      <2>2. \A i \in 1..5 : checks[i] = "NONE" BY <1>4, <2>1
      <2> HIDE DEF checks
      <2> QED BY <2>2
<1> QED BY <1>1, <1>5

-----------------------------------------------------------------------------
(* The decision is made of a valid source and a valid job.                 *)
LEMMA IInvAlways == Spec => []IInv
<1>1. Init => IInv
      BY CountsAssumption, TrialsAssumption DEF Init, IInv
<1>2. IInv /\ [Next]_vars => IInv'
      <2> SUFFICES ASSUME IInv, [Next]_vars PROVE IInv'
          OBVIOUS
      <2>1. CASE Decide BY <2>1 DEF Decide, IInv
      <2>2. CASE UNCHANGED vars BY <2>2 DEF vars, IInv
      <2> QED BY <2>1, <2>2 DEF Next, Decided
<1> QED BY <1>1, <1>2, PTL DEF Spec

(* What an allowed targeted job has passed: Authorize's checks against the *)
(* one rule for its target, in a source whose policy is valid.             *)
LEMMA AllowedPassed ==
  ASSUME IInv, decision.allowed, NeedsTarget(job.operation)
  PROVE  /\ ~Pending(source) /\ ValidConfigured(source) /\ ValidSafety(source.safety)
         /\ job.operation = "DELETE" => source.mode # "discovery_only"
         /\ FirstRefusal(source.safety, job, now) = "NONE"
         /\ decision.effective = effectiveLimits(source.safety, job.limits)
<1> DEFINE safety == source.safety
           code == FirstRefusal(safety, job, now)
<1>1. decision = Decision(source, job, now)
      BY DEF IInv, Undecided
<1>2. ~Pending(source) /\ (job.operation = "DELETE" => source.mode # "discovery_only")
      BY <1>1 DEF Decision, Deny
<1>3. decision = Authorize(safety, job, now)
      BY <1>1, <1>2 DEF Decision
<1>4. code = "NONE"
      BY <1>3 DEF Authorize, Deny
<1>5. decision.effective = effectiveLimits(safety, job.limits)
      BY <1>3, <1>4 DEF Authorize
<1>6. ValidConfigured(source)
      BY <1>2 DEF IInv, ValidSource
<1>7. safety.schemas # {} BY <1>4, NoRefusal
<1>8. ValidSafety(safety) BY <1>6, <1>7 DEF ValidConfigured
<1> QED BY <1>2, <1>4, <1>5, <1>6, <1>8

-----------------------------------------------------------------------------
(* An authorized delete is one the customer opened every door for: mode,   *)
(* executor, table, columns and a live approval (handle, Authorize,        *)
(* Source.validate).                                                       *)
THEOREM DeletesAreGranted == Spec => []DeleteFullyGranted
<1>1. IInv => DeleteFullyGranted
      <2> SUFFICES ASSUME IInv, DeleteAllowed PROVE DeleteFullyGranted
          BY DEF DeleteFullyGranted
      <2>1. job.operation = "DELETE" /\ decision.allowed /\ NeedsTarget(job.operation)
            BY DEF DeleteAllowed, NeedsTarget
      <2>2. /\ ValidConfigured(source) /\ ValidSafety(source.safety)
            /\ source.mode # "discovery_only"
            /\ FirstRefusal(source.safety, job, now) = "NONE"
            BY <2>1, AllowedPassed
      <2>3. /\ source.mode = "execution" /\ GrantsDelete(source.safety)
            /\ ValidIdentities(source)
            BY <2>2 DEF ValidConfigured
      <2>4. source.executorSecret /\ source.executor # source.reader
            BY <2>3 DEF ValidIdentities
      <2>5. /\ HasRule(source.safety, job.target)
            /\ job.target.schema \in source.safety.schemas
            /\ Allows(Rule(source.safety, job.target), "delete")
            /\ job.columns \subseteq Rule(source.safety, job.target).columns
            /\ checkApproval(source.safety, job, now) = "NONE"
            BY <2>1, <2>2, NoRefusal
      <2>6. PICK i : RuleFor(i) /\ Rule(source.safety, job.target) = source.safety.tables[i]
            BY <2>2, <2>5, RuleIsFound DEF IInv
      <2>7. [schema |-> source.safety.tables[i].schema,
             table |-> source.safety.tables[i].table] = job.target
            BY <2>1, <2>6 DEF RuleFor, IInv, DecodedJob
      <2>8. source.safety.requireApproval => now < job.approvalUntil
            BY <2>1, <2>5 DEF checkApproval, Destructive, IInv, DecodedJob
      <2> QED BY <2>3, <2>4, <2>5, <2>6, <2>7, <2>8
              DEF DeleteFullyGranted, RuleFor, Allows
<1> QED BY <1>1, IInvAlways, PTL

(* What a job may use is within every local bound that is set, at the      *)
(* table and at the source, for all integers; the approved scope is never  *)
(* altered (checkCeilings, smallestPositive, effectiveLimits).             *)
THEOREM LimitsAreLocal == Spec => []LimitsWithinLocal
<1>1. IInv => LimitsWithinLocal
      <2> SUFFICES ASSUME IInv, decision.allowed, NeedsTarget(job.operation)
                   PROVE  LimitsWithinLocal
          BY DEF LimitsWithinLocal
      <2> DEFINE safety == source.safety
                 limits == job.limits
                 effective == decision.effective
      <2>1. /\ ValidSafety(safety)
            /\ FirstRefusal(safety, job, now) = "NONE"
            /\ effective = effectiveLimits(safety, limits)
            BY AllowedPassed
      <2>2. /\ limits.maxRows \in Int /\ limits.batchSize \in Int
            /\ limits.statement \in Int /\ limits.lock \in Int /\ limits.duration \in Int
            BY DEF IInv, DecodedJob, LimitFields
      <2>3. /\ effective.maxRows = limits.maxRows /\ effective.batchSize = limits.batchSize
            /\ effective.statement = Clamp(limits.statement, safety.statement)
            /\ effective.lock = Clamp(limits.lock, safety.lock)
            /\ effective.duration = Clamp(limits.duration, safety.duration)
            BY <2>1 DEF effectiveLimits, IInv, DecodedJob, LimitFields
      <2>4. /\ safety.statement \in Int /\ safety.lock \in Int /\ safety.duration \in Int
            /\ safety.maxDeleteRows \in Int /\ safety.maxBatchSize \in Int
            BY DEF IInv, DecodedSafety
      <2> DEFINE Within(used, limit) == limit <= 0 \/ (0 < used /\ used <= limit)
      <2>5. /\ Within(effective.statement, limits.statement)
            /\ Within(effective.statement, safety.statement)
            /\ Within(effective.lock, limits.lock) /\ Within(effective.lock, safety.lock)
            /\ Within(effective.duration, limits.duration)
            /\ Within(effective.duration, safety.duration)
            BY <2>2, <2>3, <2>4, ClampBounds
      <2>6. ASSUME DeleteAllowed PROVE WithinCeilings(effective)
            <3>1. /\ HasRule(safety, job.target)
                  /\ Allows(Rule(safety, job.target), "delete")
                  /\ checkCeilings(safety, Rule(safety, job.target), limits) = "NONE"
                  BY <2>1, <2>6, NoRefusal DEF DeleteAllowed
            <3>2. PICK i : RuleFor(i) /\ Rule(safety, job.target) = safety.tables[i]
                  BY <2>1, <3>1, RuleIsFound DEF IInv
            <3> DEFINE rule == safety.tables[i]
                       rows == {n \in {rule.maxDeleteRows, safety.maxDeleteRows} : n > 0}
                       size == {n \in {rule.maxBatchSize, safety.maxBatchSize} : n > 0}
            <3>3. rule.maxDeleteRows \in Int /\ rule.maxBatchSize \in Int
                  BY <3>2 DEF RuleFor, IInv, DecodedSafety
            <3>4. ValidTable(safety, rule)
                  BY <2>1, <3>2 DEF RuleFor, ValidSafety
            <3>5. rule.maxDeleteRows > 0 \/ safety.maxDeleteRows > 0
                  BY <3>1, <3>2, <3>4 DEF ValidTable
            <3>6. /\ ~Exceeds(limits.maxRows,
                             smallestPositive(rule.maxDeleteRows, safety.maxDeleteRows))
                  /\ ~Exceeds(limits.batchSize,
                             smallestPositive(rule.maxBatchSize, safety.maxBatchSize))
                  BY <3>1, <3>2 DEF checkCeilings
            <3>7. /\ \A limit \in rows : effective.maxRows <= limit
                  /\ \A limit \in size : effective.batchSize <= limit
                  BY <2>2, <2>3, <2>4, <3>3, <3>6, CeilingBounds
            <3>8. rows # {} BY <3>5
            <3>9. [schema |-> rule.schema, table |-> rule.table] = job.target
                  BY <3>2 DEF RuleFor, IInv, DecodedJob
            <3> QED BY <3>2, <3>7, <3>8, <3>9 DEF WithinCeilings, RuleFor
      <2> QED BY <2>3, <2>5, <2>6 DEF LimitsWithinLocal
<1> QED BY <1>1, IInvAlways, PTL

(* A job that sets both tolerances, or neither, never deletes on a recount *)
(* the customer's own drift policy would call stale, for every recount     *)
(* (checkDrift against DriftExceeded).                                     *)
THEOREM DriftIsLocal == Spec => []DriftWithinLocal
<1>1. IInv => DriftWithinLocal
      <2> SUFFICES ASSUME IInv, DeleteAllowed,
                          job.drift.driftRows = 0 <=> job.drift.driftBasisPoints = 0,
                          NEW observed \in Counts, ~DriftExceeded(job.drift, observed)
                   PROVE  ~DriftExceeded(LocalDrift, observed)
          BY DEF DriftWithinLocal, NoWiderThanLocal
      <2> DEFINE local == source.safety.drift
                 asked == job.drift
      <2>1. job.operation = "DELETE" /\ decision.allowed /\ NeedsTarget(job.operation)
            BY DEF DeleteAllowed, NeedsTarget
      <2>2. /\ ValidSafety(source.safety)
            /\ FirstRefusal(source.safety, job, now) = "NONE"
            BY <2>1, AllowedPassed
      <2>3. checkDrift(source.safety, job) = "NONE"
            BY <2>2, NoRefusal
      <2>4. ValidDriftPolicy(local) /\ local.exactBelow \in Int /\ local.driftRows \in Int
            BY <2>2 DEF ValidSafety, IInv, DecodedSafety
      <2>5. /\ asked.expectedRows \in Nat /\ asked.driftRows \in Nat
            /\ asked.driftBasisPoints \in Nat
            <3>1. ValidDrift(asked) BY <2>1 DEF IInv, ValidJob, Destructive
            <3> QED BY <3>1, RangesAreNumbers DEF ValidDrift
      <2>6. observed \in Nat BY CountsAssumption
      <2>7. /\ LocalDrift.expectedRows = asked.expectedRows
            /\ LocalDrift.driftRows = IF asked.expectedRows < local.exactBelow
                                       THEN 0 ELSE local.driftRows
            /\ LocalDrift.driftBasisPoints = IF asked.expectedRows < local.exactBelow
                                              THEN 0 ELSE local.driftBasisPoints
            BY DEF LocalDrift
      <2>8. CASE local.mode = "strict" \/ asked.expectedRows < local.exactBelow
            <3>1. asked.driftRows = 0 /\ asked.driftBasisPoints = 0
                  BY <2>1, <2>3, <2>5, <2>8 DEF checkDrift, Destructive
            <3>2. LocalDrift.driftRows = 0 /\ LocalDrift.driftBasisPoints = 0
                  BY <2>4, <2>5, <2>7, <2>8, RangesAreNumbers DEF ValidDriftPolicy
            <3> QED BY <2>7, <3>1, <3>2 DEF DriftExceeded
      <2>9. CASE local.mode # "strict" /\ ~(asked.expectedRows < local.exactBelow)
            <3>1. ~(asked.driftRows > local.driftRows)
                  /\ ~(asked.driftBasisPoints > local.driftBasisPoints)
                  BY <2>1, <2>3, <2>9 DEF checkDrift, Destructive
            <3>2. /\ local.driftRows \in Nat /\ local.driftRows > 0
                  /\ local.driftBasisPoints \in Nat /\ local.driftBasisPoints > 0
                  BY <2>4, <2>9, RangesAreNumbers DEF ValidDriftPolicy
            <3>3. /\ LocalDrift.driftRows = local.driftRows
                  /\ LocalDrift.driftBasisPoints = local.driftBasisPoints
                  BY <2>7, <2>9
            <3>4. /\ asked.driftRows <= LocalDrift.driftRows
                  /\ asked.driftBasisPoints <= LocalDrift.driftBasisPoints
                  BY <2>5, <3>1, <3>2, <3>3
            <3> QED BY <2>5, <2>6, <2>7, <3>2, <3>3, <3>4, NarrowerDrift
      <2> QED BY <2>8, <2>9
<1> QED BY <1>1, IInvAlways, PTL
=============================================================================
