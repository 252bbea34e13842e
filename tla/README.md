# Verification of the RetentionOps connector

The connector runs on a customer's host, next to a PostgreSQL database. It polls
a control plane for signed jobs, decides against a local safety policy whether a
job may run, deletes expired rows in batches, and answers with signed results.
This directory holds TLA+ models of that program, the TLC configurations that
check them on small instances, and TLAPS proofs of the main properties for every
instance. `PROJECT.json` maps every modelling definition to the lines it
translates and lists runs, mutants, findings, hazards and theorems.

## The system

| Part | State | Operations | Talks to |
|---|---|---|---|
| Agent, job execution (`internal/agent`, `adapters/postgres`, `internal/evidence`) | counters, event sequence, control version of the running job | recount, control gate, batches, events, sealed result, report | database, control plane |
| Job verification (`internal/jobs`, `agent.handle`) | nonce files with their modification times | `Verify`, `Consume`, `Prune` | control plane; other processes on the same directory |
| Safety policy (`internal/policy`, `protocol/v1/job.go`) | none: a decision over a source, a job and the time | `Authorize` and its checks, effective limits | called once per job by the agent |
| Sealed configuration (`internal/agent/configuration.go`, `internal/sealedconfig`, `internal/config/managed.go`) | overlay file, outcome ledger, sources in memory | open, prepare, persist, activate, record, acknowledge | console through the control plane; the heartbeat goroutine reads the same map |
| Local commands (`internal/scope`, `internal/execution`, `cmd`) | configuration file, backups, review bundle, executor password | `source scope`, `execution enable`, `execution apply` | the operator; the running connector through files |
| Selection of rows (`protocol/v1/job.go`, `internal/policy`, `adapters/postgres/sql.go`) | none: a job's condition trees become statements | validate, authorize the columns, compile, count, delete | the database, which evaluates them |
| Enrollment (`internal/enrollment`, `internal/identity`, `installer.finishInstall`) | attempt file, identity file | `enroll`, `enroll --if-needed`, `install` | control plane, which burns tokens |
| Installation (`internal/initializer`, `internal/installer`, `internal/localsecret`) | bundle, manifest, runtime files and their backups, password, `install-state.json` | `init`, `install` with or without `--repair`, `secret set` | the operator, the DBA, the database; the console through the overlay |
| Doctor, secret providers, telemetry, packaging, canonical JSON, HTTP client | none | see *Not modelled* | |

What is hard here: rows change while they are being deleted; a commit's answer
can be lost; control answers can be replayed or stale; two processes may share a
state directory; a process may die between any two file operations; local
commands read a file, wait for a human and write it back; sequences of
individually valid console changes accumulate; an installation is resumed over
whatever an earlier one left; SQL's NULL is neither true nor false.

What makes each part correct:

* *execution*: never more rows than approved, only rows that are candidates at
  that moment, a result and events that agree with what was removed, at most
  one batch after a stop;
* *verification*: a signed job begins at most once, ever;
* *policy*: everything allowed is within every local limit;
* *sealed configuration*: the console cannot move the policy, answers are true
  and final, and every envelope is answered;
* *local commands*: only a reviewed bundle enables deletion, with its own
  password, and what it replaces is kept;
* *selection*: a row is deleted only if it is due and no hold can match it, on
  columns the operator listed, and a count counts what would be deleted;
* *installation*: an install that finishes is whole whatever came before it,
  and nothing in place is lost on the way;
* *enrollment*: no interruption strands a burned token or mixes identities.

## Modules

| Module | Models | Used by |
|---|---|---|
| `RecountDrift` | `evidence.DriftExceeded`, the tolerance between plan and recount | `DeleteExecution`, `SafetyPolicy` |
| `BoundedRemoval` | abstract specification: candidates leave under a ceiling, and one truthful result settles the job | `DeleteExecution` |
| `DeleteExecution` | one DELETE job: `execute`, `delete`, `awaitControl`, `emit`, `report`; `Adapter.Count`, `Delete` | `DeleteExecutionProofs`, `MCDeleteExecution` |
| `JobLifecycle` | abstract specification: a job begins at most once and then ends | `JobVerification` |
| `JobVerification` | `handle`, `Verify`, `Consume`, `Prune`, several processes | `JobVerificationProofs`, `MCJobVerification` |
| `SourceConfiguration` | a source, its validation, the overlay's merge | `SafetyPolicy`, `SealedConfiguration`, `LocalConfiguration` |
| `SafetyPolicy` | `Authorize` and its checks, job validation | `SafetyPolicyProofs`, `MCSafetyPolicy` |
| `ConfigurationExchange` | abstract specification: settings change by unanswered envelopes only, and no two answers about one differ | `SealedConfiguration` |
| `SealedConfiguration` | envelopes from the console | `SealedConfigurationProofs`, `MCSealedConfiguration` |
| `LocalConfiguration` | the operator's commands on the file | `LocalConfigurationProofs`, `MCLocalConfiguration` |
| `ThreeValuedLogic` | external: the tests and connectives of SQL, with NULL | `CandidateQuery`, `ThreeValuedLogicProofs` |
| `CandidateQuery` | condition trees: `Condition.validate`, `conditionColumns`, the compiled `WHERE` clauses, their evaluation | `MCCandidateQuery` |
| `Installation` | `init`, `install`, `secret set` on a systemd host | `InstallationProofs`, `MCInstallation` |
| `Enrollment` | token to identity | `EnrollmentProofs`, `MCEnrollment` |

An action is named after the function or the step it translates; where a
function makes several durable or visible effects, each is an action, because a
crash or another process may come between them. Data is abstract: a row is a
model value in one of four states (candidate, held, outside, deleted); a
document is a record of what its checks would say of it; a file is its contents,
possibly cut short. Operators whose comment begins "Mutant of" are plausible
mistakes used to show that a property can fail; no specification uses them.

**DeleteExecution.** `pc` is the job goroutine. `Count` recounts and
decides on drift; `RequestControl`, `AnswerControl`, `ReceiveControl` and
`ObeyRun/Pause/Cancel` are `awaitControl`; `BeginBatch`, `CommitBatch`,
`BatchFails` and `NextBatch` are `Adapter.Delete`'s loop. `BatchFails` includes
a commit that happened though its answer was an error. `ChangeRow` lets other
sessions change rows at any moment; `Deletable` is what a DELETE that repeats
its predicate can still remove. `Shutdown` cancels the context, `Crash` ends
the process. `Removal` maps a state to `BoundedRemoval`: the job is open while it
works (`Phase`), its ceiling is `max_rows`, what was delivered is `completed`.

**JobVerification.** Each process has a polling goroutine (`Receive`,
`Consume`, `Authorize`, `Execute`) and a pruning one (`PruneStart` to
`PruneEnd`); the clock moves between them, by at most `MaxDelay` between
`Verify`'s reading and `Consume`. `Record` is the exclusive creation of the
nonce's file; after it the file may fail to close (`ConsumeUnclosed`), which
drops the job with its nonce spent. `Phase` maps a state to `JobLifecycle`,
where such a job is over without having begun (`Drop`).

**SafetyPolicy.** One decision per behaviour: `Init` picks a source and a job
from `Trials`, `Decide` runs validation and `Authorize` in the code's order.

**SealedConfiguration.** `Take`, `Open`, `Persist`, `Activate`,
`RecordCreate`, `RecordWrite`, `Acknowledge` follow one envelope; `window`
is where the host's clock stands in its validity. `Exchange` maps a state to
`ConfigurationExchange`: the settings are the overlay's, what the console was
told are its acknowledgements with the two codes of a success made one (`Told`),
and an envelope was in force once it reached the overlay (`Reached`).

**LocalConfiguration.** Three commands with a step each of their own, an editor
(`Withdraw`), the console (`Configure`) and a connector restarted at any time.
`overlapped` records that a command, or an edit, began while another ran: some
properties hold only as long as none did.

**CandidateQuery.** One job per behaviour: validated, authorized, counted,
deleted. A clause is a tree with numbered placeholders and one list of
arguments, threaded through predicate, condition and holds as in the code;
`Evaluate` is PostgreSQL's three-valued evaluation. The reference, `Matches`,
`Due` and `Held`, does without SQL: it asks what a condition says of a row for
every value its nulls could stand for.

**Installation.** `command` is the command that runs and what it has read. For
`init` an artifact at a time is written in place (`WriteArtifact`,
`WriteManifest`), or cut short (`GenerateDies`); for `install` there is a step
per effect, from `LoadBundle` or `MigrateBundle` over the runtime files
(`KeepFile`, `BackUp`, `WriteFile`) to `Activate`, an early return for each of
the code's (`LoadBundle`, `InstallRefuses`), and an interruption anywhere
(`Interrupt`). Two files are written in place by `install` itself and can be cut
short: the manifest of a version 1 directory (`MigrateBundle`) and the pending
enrollment (`CreateAttempt`, `WriteAttempt`; `AttemptFails` is the write error
that cleans up). Enrollment is followed here as far as its files go: a pending
one is taken up or made, the identity saved, the pending one removed
(`LoadAttempt` to `CompleteAttempt`); tokens and keys are the subject of
`Enrollment`. The console's overlay is merged into whatever `config.Load` reads,
and may not fit the file (`Loads`, `Incompatible`).

**Enrollment.** One command at a time, interrupted anywhere, retried with any
token, organization or command.

## Runs

All bounds are named constants. Passing runs:

| Run | Shows | Bounds, and why they suffice |
|---|---|---|
| `MCDeleteExecution` | ceiling, counts, completion, events, only candidates; a pause is ended only by a newer RUN; removals within the drift but for foreign changes; implements `BoundedRemoval` | 4 rows, one foreign change, two versions, answers up to one version old: ceilings smaller and larger than the table, a last batch that is trimmed, a change inside a batch, a stale RUN after a pause |
| `MCDeleteGate` | one batch after a stop; the job ends | 3 rows in batches of one, 4 decisions: run, pause, run, cancel in any order |
| `MCJobVerification` | begins at most once; a replay refusal is true; implements `JobLifecycle` | two processes, every verdict a document can have, the window's whole length plus retention, with skew, lifetime and delay of one tick each and the shortest retention that covers them |
| `MCSafetyPolicy` | granted by every rule; limits and timeouts within the local ones; drift | three families of sources, each against its jobs: who may do what; negative, zero, equal and off-by-one values on both sides of each comparison; drift compared on the counts 0 to 16 |
| `MCSealedConfiguration` | policy stays local, only envelopes for this connector apply, success is true, answers are final; clean until a fault; implements `ConfigurationExchange` | two changes that depend on each other, one dated ahead, and a foreign envelope for a second source; two faults: one breaks a step, the second its repair |
| `MCSealedLiveness` | every envelope is answered, unless the configuration no longer loads | the two changes, two faults |
| `MCLocalConfiguration` | the file stays usable, no grant before the password; one command at a time also: only apply enables, as reviewed, with the executor's own password and a backup | five commands: enable, apply, withdraw and both again; four once two have overlapped: enable, apply, then scope and a withdrawal under its prompt; the console may move the reader to a bundle's executor, or name an executor itself |
| `MCEnrollment` | resumable, consistent identity, one organization per key, preservation | three tokens of two organizations, four commands |
| `MCInstallation` | an install that finishes is whole; every refusal of a repair with every input has one of ten causes, each of which occurs; conflicting files, password and identity are preserved | three answers that differ in reader, organization and certificate, one of them also as a version 1 directory and not compatible with one of the overlays; a first run, a repair and an unattended run; four commands (init, an interrupted install, another init, a repair), one edit, two seconds |
| `MCCandidateQuery` | only due rows, exact counts, listed columns, one budget | trees up to the depth and the budget and just past them, every operator and form, nested negation, lists, undecodable values; two listed columns and one that is not, each null or one of the values around the cutoff |

`CHECK_DEADLOCK FALSE` appears where the operator may simply stop issuing
commands (`MCLocalConfiguration`, `MCEnrollment`, `MCInstallation`). In the others a finished job or decision
stutters explicitly. Symmetry is used over rows and processes, and only in runs
without a liveness property.

Violations, each of which states what a comment says and finds that the code
does something else (`findings` in `PROJECT.json` quotes the lines):

| Run | What happens |
|---|---|
| `VCommittedRowsInResult` | a batch commits and is counted, the next one finds the database gone, and the sealed failure says nothing of the rows removed |
| `VOverlayLoads` | an envelope is validated over the running source, the overlay merged with the file at the next start is invalid, and the connector does not start |

### Further claims the code does not meet

The modules state these as well. Each is violated when it replaces the
properties of the configuration named.

| Claim | Configuration | Source of the claim, and what happens |
|---|---|---|
| `DeletesWithinDrift` | `MCDeleteExecution` | `docs/threat-model.md:64`: rows added since the plan are refused beyond the tolerance. The recount is made once; rows that become candidates after it are deleted up to the ceiling. `DriftBoundsRemovals` is what holds: at most one row more per foreign change. |
| `EventsRecordRemovals` | `MCDeleteExecution` | `adapters/postgres/adapter.go:359`: a process killed mid-run leaves an accurate record. Killed between a commit and its event it does not. |
| `RetentionAboveLifetimeSuffices` | `MCJobVerification`, `Retention = 2` | `internal/agent/agent.go:29`: retention must exceed the longest lifetime. It must cover the clock skew and the delay too. |
| `EveryExitReports` | `MCJobVerification` | `internal/agent/agent.go:172`: every exit reports something. A ledger that cannot be written is only logged. |
| `DriftNeverWidened` | `MCSafetyPolicy` | `docs/protocol.md:154`: a missing or wider tolerance is refused. It is compared only where it matters at the planned count. |
| `RefusedMeansUnchanged` | `MCSealedConfiguration` | `internal/agent/configuration.go:76`: REFUSED means nothing changed. An envelope applied before a crash may be refused as expired on redelivery. Until a fault it holds (`UninterruptedIsClean`). |
| `RestartKeepsExecutor` | `MCSealedConfiguration` | `internal/agent/configuration.go:75`: what runs is durably on disk. Settings that omit the executor keep the running one in memory only. |
| `ReapplyIsRedundant` | `MCSealedConfiguration` | `internal/sealedconfig/ledger.go:61`: re-applying is harmless. It may overwrite a newer configuration. |
| `AnswersAreCodes` | `MCSealedConfiguration` | `internal/sealedconfig/ledger.go:12`: outcomes are codes. A crash between creating and writing an entry makes the empty string the outcome for good. Until a fault it holds (`UninterruptedIsClean`). |
| `SourceMapUnshared` | `MCSealedConfiguration` | `internal/agent/configuration.go:14`: the poll loop is the only reader of the map. The heartbeat goroutine iterates over it. |
| `ScopeNeverEnables` | `MCLocalConfiguration` | `internal/scope/scope.go:8`: "Nothing here can make a deletion possible." `source scope`, waiting for its answer, writes back an execution policy withdrawn in the meantime. |
| `AppliedAsReviewed` without `~overlapped` | `MCLocalConfiguration` | `docs/installation-and-operation.md:277`: apply refuses if the live policy changed. An edit between the read and the digest, or between the check and the rename, is overwritten. |
| `PreviousKept` | `MCLocalConfiguration` | `internal/scope/scope.go:33`: the previous file is kept. Two replacements in one second share a backup name. |
| `ConsoleStaysOutOfFile` | `MCLocalConfiguration` | `internal/config/config.go:159`: the operator's file is never rewritten with what the console configured. The commands render the merged configuration. |
| `ConfirmsExistingScript` | `MCInstallation` | `internal/installer/installer.go:119-122`: for a source the console configures nothing is confirmed, as that "would be asking somebody to confirm they ran a script that does not exist". Once the console has configured it, a rerun asks exactly that. |
| `ConfirmationIsOfThisScript` | `MCInstallation` | `internal/installer/installer.go:188`: "Has the reviewed roles.sql completed successfully?" The answer is kept with the state file and not asked again for a bundle made anew in the same directory. `checkSource` catches it later. |
| `BackupsStay` | `MCInstallation`, `MaxStarts = 5` | `docs/installation-and-operation.md:150`: each replaced file is backed up. Two repairs in one second share a backup name. |
| `MigrationResumable` | `MCInstallation` | `docs/installation-and-operation.md:196`: after an interruption, run the same command again. The migration of a version 1 directory writes its manifest in place; cut short, no later run can read it. It is one of the causes `RefusedForCause` has to allow. |
| `AttemptStaysReadable` | `MCEnrollment` | `docs/installation-and-operation.md:196`: after an interruption, run the command again. A kill between creating and writing the attempt leaves a file every run refuses. It is the other cause of that kind in `RefusedForCause`. |
| `NewIdentityNewKey` | `MCEnrollment` | `docs/installation-and-operation.md:487`: enroll a new identity. An attempt left behind gives it the old private key. |

## Fairness

* `DeleteExecution!FairSpec`: weak fairness of the connector's steps (one
  goroutine that nothing blocks for ever: every call has a timeout) and strong
  fairness of the control answer being given and received, since `awaitControl`
  asks again at an interval for as long as it is paused. `JobEnds` excludes an
  operator who leaves the job paused for ever.
* `SealedConfiguration!FairSpec`: weak fairness of the connector, whose loop
  never ends and which its service manager restarts, and strong fairness of
  taking each pending envelope, since every idle poll handles all of them.
  Faults are bounded. A connector whose configuration no longer loads
  (`VOverlayLoads`) answers nothing; `EveryEnvelopeAnswered` excludes it.

Neither the operator, nor the console, nor other database sessions are fair.

## Proofs

Every safety property of a passing run, and each refinement, is a theorem for
every value of the constants, but for those of `CandidateQuery`. Each proof module names the
inductive invariant its theorems rest on (`IInv`, or the named parts below);
each was checked by TLC on the instance of the module's run before it was
proved. The proofs use the named assumptions on the constants, which TLC
evaluates in every run, and no other.

`DeleteExecutionProofs`, for any finite set of rows, any jobs and bounds:
`TypeCorrect`, `CeilingHolds`, `ResultIsTruthful`, `RemovalsAreCandidates`,
`PauseHolds`, `StopBound`, `EventsAreConsistent`, `CompletionIsTruthful`,
`RemovalsWithinDrift`, `ExecutionKeepsPromise`.

* The ceiling alone is not inductive: a batch in flight has to be known to fit
  into what is left, and the counter to equal the number of rows removed
  (`CountInv`).
* `PauseHolds` needs that the pause obeyed is one of the decisions and no newer
  than the highest version seen (`GateInv`).
* `StopBound` is about `MaxLag = 0` (answers carry the latest decision) and
  needs that after the one batch the outstanding request can only be answered
  with the stop (`StopInv`).
* `EventsAreConsistent`: while the job works, nothing was announced above its
  sequence number or beyond its count, so the next number is a new event; the
  one number that is announced repeatedly, a pause's, always carries the same
  event (`EventInv`).
* `CompletionIsTruthful`: as long as nobody else writes, the recount is the
  rows removed plus the candidates left, and a batch that selected nothing saw
  nothing to select (`CompletionInv`).
* `RemovalsWithinDrift` drops that condition. With other sessions writing, rows
  removed and candidates left are together no more than the recount and the
  changes since (`BalanceInv`): a batch moves rows from one side to the other
  (`BatchKeepsBalance`), a change adds one at most (`ChangeAddsOne`). Nothing is
  removed on a recount that drifted, and a larger count drifts no less
  (`DriftGrows`), which turns the balance into a bound by the plan's tolerance.
* `ExecutionKeepsPromise` maps each step to one of `BoundedRemoval`, or to a
  stutter (`StepKeepsPromise`): a committed batch is a removal under the ceiling
  (`BatchRemoves`), a failed one settles the job without a count after perhaps
  removing (`SealFails`), every other end settles it with the count of what was
  removed (`SealSettles`), and attempts at the report repeat one delivery. It
  needs that nothing was delivered before the end (`DeliveryInv`).

`JobVerificationProofs`, for any processes, envelopes and clock:
`TypeCorrect`, `ReplayRefusalHolds`, `AtMostOnce` and `Implementation`. The
last two assume `RetentionCovers` (lifetime + skew + delay fit into the
retention): the code keeps nonces for 48 hours, so it amounts to a limit on the
lifetimes the control plane signs, which the connector does not check itself.
The argument: a job handled past `Consume` has its nonce in the ledger
(`HandledInv`), a nonce that was never recorded is not in the ledger and one
that was belongs to a genuine job (`RecordedInv`), an entry is at least as
recent as the job could first have been accepted, so while the job can be
accepted at all no pruning cutoff reaches it (`RetainedInv`). `Implementation`
maps each step to a step of `JobLifecycle` or a stutter. `EnvelopesAssumption`
states what the control plane does: one signed document per nonce, with a
bounded window.

`EnrollmentProofs`, for any tokens and organizations: `TypeCorrect`,
`Resumable`, `IdentityHolds`, `KeyKeepsOrganization`, `IdentityKept`. The key a
command sends is the one its attempt file holds until the identity is in place
(`CommandInv`); an attempt's key has only been sent for the attempt's
organization, and a new key is new (`KeyInv`); an identity on disk matches the
control plane's record, and a command that must preserve one still finds none
(`IdentityInv`).

`SafetyPolicyProofs`, for any sources and jobs the decoders can produce
(`TrialsAssumption`: numbers are integers, of any sign and size, and tables a
list): `DeletesAreGranted`, `LimitsAreLocal`, `DriftIsLocal`. There is one
step, so the work is in the operators: what `smallestPositive`,
`effectiveLimits` and `checkCeilings` return (`SmallestBounds`, `ClampBounds`,
`CeilingBounds`), that the rule `Authorize` finds is the only one for its table
(`RuleIsFound`), and that a drift tolerance within another one tolerates no
more, for every recount (`NarrowerDrift`); the run compares counts up to 16.

`SealedConfigurationProofs`, for any sources, envelopes and number of faults:
`TypeCorrect`, `PolicyIsLocal`, `RestartIsFaithful`, `SuccessIsNeverInvented`,
`AnswerIsFinal`, `ExchangeIsKept`, `CleanUntilFault`. An envelope is opened, persisted and activated only while the
ledger does not know it, and what is persisted is acceptable to the source that
runs (`StepInv`); a success in memory or in the ledger is one on disk, and the
control plane hears only of what the ledger knows (`LedgerInv`); only the source
being activated may differ from the disk (`ConnectionInv`); the merge moves the
connection and the executor role and nothing else (`OverlaidFields`).
`BaseAssumption`: the operator's file passed validation when the connector was
first started. `ExchangeIsKept` needs that all answers given, and the one about
to be given, say what the ledger says (`ExchangeInv`): a redelivery then repeats
its answer, and persisting, which happens only while the ledger knows nothing,
comes before any answer. `CleanUntilFault`: without a fault an envelope that was
applied is in the ledger as applied or is the one being dealt with, and an entry
is empty only while it is being written (`CleanInv`).

`LocalConfigurationProofs`, for any base configuration, requests, console
settings and bounds: `FileIsAlwaysUsable`, `PasswordComesFirst`,
`ApplyAloneEnables`, `ApplyIsReviewed`, `BackupComesFirst`. Whatever reaches the
file was in a command's memory or in the bundle before: each holds a
configuration that is valid by itself (`DiskInv`, `CommandInv`) and one that
grants is past the storing of a password (`PasswordInv`); while no two commands
have overlapped, what a command holds was derived from the file as it still is
(`AloneInv`). A valid source in execution mode has an executor of its own name, with a
password reference, and a table that grants a deletion (`ExecutionHasExecutor`).
`LocalAssumption`: one starts from a valid, discovery-only file;
`RolesAssumption`: the empty role name is none of the roles.

`InstallationProofs`, for any answers, roles, certificates, options and bounds:
`TypeCorrect`, `FinishedIsWhole`, `RefusedOnlyForCause`,
`ConflictsArePreserved`. What a finished install promises is established stage
by stage, so the invariant says what each stage leaves true for the later ones:
the verified bundle (`BundleInv`), the runtime files and who reads them
(`RuntimeInv`), the password and that the database takes it (`SecretInv`), the
identity and its owner (`IdentityInv`). `BundleInv` also says that a version 1
directory's manifest is of what it holds unless it was cut short, so that such a
directory is refused only for that or for the overlay; `IdentityInv` that there
is no identity between the check for one and `Enroll`, whose rename would
replace it. `RefusedOnlyForCause` counts every refusal, from the bundle to the
identity. Its causes are for the operator, the DBA or the console to put right,
except two that an earlier run of the same install can leave: the torn manifest
and the torn pending enrollment. That is as much of "After an interruption, run
the same command again" as the code keeps. Two lemmas divide the steps: a step of
install continues or refuses its run and leaves bundle and database alone
(`InstallGoesOn`); any other step begins or ends a command or leaves the run's
files as they are (`OthersKeepOff`).

`ThreeValuedLogicProofs`, for condition trees of any size, depth and columns:
`ClausesTell`, `ClausesDecide`, `DeletedRowsAreDue`, `RowsAreDivided`,
`NeverCountedTwice`. The trees of a job are a forest of nodes; each carries the
truth that SQL computes from the nodes below it (`Evaluated`) and what its
condition means when the row's nulls stand for given values (`Meant`). A node
whose truth told something false would have a lowest such node under it
(`LowestNode`); a test never does (`TestsTell`), nor does a connective of nodes
that do not (`ConnectiveTells`). So `NOT (hold OR ...)` is true only if every
hold is false for every value of a null, which is what `DeletesOnlyDueRows` says
of the statements. The theorems are about the operators `CandidateQuery`
evaluates clauses with; that compilation yields such a forest, with the right
placeholders, is what the run checks.

Two properties were corrected when their proofs failed. `LimitsWithinLocal` took
only zero for "not configured", but validation lets a table's ceiling and every
timeout be negative, and the code treats these as not configured too.
`ExecutorHasPassword` said that the password is always that of the executor in
the file; but `source scope` writes the merged configuration back, and with it
an executor the console named, whose password may not be the one stored (see
`ConsoleStaysOutOfFile` above). Both runs now include such values. One operator
was corrected as well: `And3` had overlapping cases, so that a conjunction with a
false and an unknown part was left open by its definition, though not by TLC,
which takes the first.

Only model-checked: the liveness properties `JobEnds` and
`EveryEnvelopeAnswered` (the prover does not do fairness), and the four
invariants of `CandidateQuery`, whose validation and compilation are recursive
operators over trees that thread a budget and a list of arguments: what they
return for every tree is out of the prover's reach.

## Not modelled

* Encryption, signatures and canonical JSON are verdicts of a document. HTTP
  transport is modelled where it is used: a call succeeds, fails, or succeeds
  with its answer lost.
* Secret providers (files, environment, AWS), discovery, doctor and telemetry
  read and print; no decision depends on a state they keep. Packaging is a
  build tool.
* Of an installation: the compose platform, the control plane's own CA (which
  is installed like the database's), the prompts and the text of the artifacts,
  disk space, a state file left by a bundle in another directory, and `init` or
  `install` run twice at the same time. An operator's edit of the configuration
  leaves one that loads.
* The control plane answers an enrollment with a public key that decodes:
  `identity.Save` writes what it is given, and an identity with another key would
  be saved and then not load.
* A result that cannot be built (`internal/agent/agent.go:496-499`): nothing is
  sealed or sent, as in a run that ends before its report.
* Of a job: dates and identifiers as text. PostgreSQL compares values of one
  type; what it makes of a literal of another type is an error of the statement.
* Clocks never step back, though a nonce's age is its file's modification time
  (`internal/jobs/replay.go:72`). Enrollment commands do not run concurrently.
  A power failure that loses synced or unsynced writes is not modelled; a
  killed process is. A job paused past its expiry or its approval's
  (`internal/agent/agent.go:438`) resumes on a RUN; no line promises otherwise,
  and `DeleteExecution` has no clock.

## Plan

The order followed, most important first: `DeleteExecution` with its proofs,
`JobVerification` with `JobLifecycle`, `SafetyPolicy`, `SealedConfiguration`,
`LocalConfiguration`, `Enrollment`, `CandidateQuery`, `Installation`, then the
abstract specifications `BoundedRemoval` and `ConfigurationExchange` with their
refinements and the logic of clauses. What is left:

1. `Connector`: `JobVerification`, `SafetyPolicy`, `DeleteExecution` and
   `SealedConfiguration` composed on one poll loop: no source is reconfigured
   during a job, and a job runs under the policy that authorized it.
2. Enrollment commands that overlap, and the temporary file they share
   (`internal/identity/identity.go:238`).
3. The compilation of clauses over numbered nodes instead of recursive records,
   so that placeholders and budget can be proved about as well.
