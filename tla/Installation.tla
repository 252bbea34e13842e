---------------------------- MODULE Installation ----------------------------
(***************************************************************************)
(* From answers to a running connector on a systemd host: "init" writes a  *)
(* bundle (internal/initializer/initializer.go, Generate), "install"       *)
(* verifies it and applies it stage by stage (internal/installer/          *)
(* installer.go, Run), "secret set" stores a password                      *)
(* (internal/localsecret/localsecret.go, Set).                             *)
(*                                                                         *)
(* One command runs at a time; each may be interrupted between any two     *)
(* actions, and init also in the middle of a file, since it writes in      *)
(* place.  What install writes is staged and renamed, but for two files    *)
(* written in place: the manifest of a version 1 directory and the pending *)
(* enrollment.  Recording a stage is part of the action it follows, as the *)
(* one stage that is read back, database-role-confirmed, has no other      *)
(* effect before it.  Between commands the operator edits files and the    *)
(* DBA creates roles; the console may configure an enrolled connector at   *)
(* any moment, which changes what config.Load makes of any file (the       *)
(* overlay is merged in), and whether it makes anything of it.  Tokens and *)
(* keys in the exchange with the control plane are module Enrollment's.    *)
(***************************************************************************)
EXTENDS Naturals, FiniteSets

CONSTANTS
  Roles,         \* database roles a reader may be
  NoRole,        \* no role named: the console is to configure the source
  Organizations,
  Certificates,  \* contents of a CA file
  NoCertificate, \* the host's own roots are trusted
  Answers,       \* what init may be told
  Legacy,        \* the answers a version 1 init directory was made from
  Incompatible,  \* overlays, by their reader, that do not validate over a bundle's file
  Options,       \* how install is called: --repair, and the inputs it is given
  MaxStarts,     \* bound: commands started
  MaxEdits,      \* bound: edits of files by the operator
  MaxSeconds     \* bound: the clock that names backups

Inputs == {"role", "secret", "token", "organization", "ca"}

ASSUME InstallationAssumption ==
  /\ NoRole \notin Roles /\ NoCertificate \notin Certificates
  /\ Answers \subseteq [reader : Roles \cup {NoRole}, organization : Organizations,
                        certificate : Certificates \cup {NoCertificate}]
  /\ Legacy \subseteq {a \in Answers : a.reader # NoRole}
  /\ Incompatible \subseteq Roles \X Answers
  /\ Options \subseteq [repair : BOOLEAN, inputs : SUBSET Inputs]
  /\ MaxStarts \in Nat /\ MaxEdits \in Nat /\ MaxSeconds \in Nat

VARIABLES
  marker,     \* disk: whose directory it is: none, or init version 1 or 2
  artifacts,  \* disk: name -> the answers the file was rendered from
  manifest,   \* disk: bundle.json, as the answers whose digests it lists
  live,       \* disk: target -> contents of the runtime file
  readable,   \* disk: the service's group may read the runtime configuration
  backups,    \* disk: target -> second -> the backup named after that second
  secret,     \* disk: the reader's password file
  identity,   \* disk: the connector's identity
  attempt,    \* disk: the pending enrollment, .enrollment-attempt.json
  completed,  \* disk: the stages install-state.json records
  overlay,    \* disk: the reader the console configured, or NoRole
  granted,    \* database: the roles the DBA has created
  now,        \* the clock, in seconds
  command,    \* the command that runs: its step and what it has read
  starts, edits

bundleVars  == <<marker, artifacts, manifest>>
runtimeVars == <<live, readable, backups>>
enrollVars  == <<identity, attempt>>
hostVars    == <<overlay, granted, now>>
vars == <<bundleVars, runtimeVars, secret, enrollVars, completed, hostVars, command,
          starts, edits>>

Absent == [absent |-> TRUE]
Torn   == [torn |-> TRUE]      \* a file written in place, cut short
Edited == [edited |-> TRUE]    \* an operator's own version of a runtime file
Idle   == [at |-> "idle"]

Targets == {"config", "certificate"}
Stages  == {"runtime-prepared", "database-role-confirmed", "reader-secret-installed",
            "source-validated", "enrolled", "doctor-passed", "activation-pending"}

(* configuredBy: the answers describe the database, or leave it to the     *)
(* console; the configuration rendered from them says which.               *)
Described(a) == a.reader # NoRole

(* The artifacts whose digests the manifest lists; the rest of what init   *)
(* renders is written and verified the same way.  There is no roles.sql    *)
(* for a source the console configures.                                    *)
Listed(a) == {"connector.yaml"} \cup (IF Described(a) THEN {"roles.sql"} ELSE {})

(* The source as config.Load has it: the overlay over the file.            *)
Reader(a) == IF overlay # NoRole THEN overlay ELSE a.reader

(* config.Load refuses an overlay that names a source the file does not    *)
(* declare, or that does not validate over it: an executor the file has no *)
(* password for, or the same as the reader.                                *)
Loads(a) == <<overlay, a>> \notin Incompatible

(* A command starts; the operator runs one at a time.                      *)
Start == command = Idle /\ starts < MaxStarts /\ starts' = starts + 1

At(step) == command' = [command EXCEPT !.at = step]

-----------------------------------------------------------------------------
(* An empty host, or one with the directory of an init of version 1.       *)
Init ==
  /\ \/ /\ marker = "none"
        /\ artifacts = [name \in {"connector.yaml", "roles.sql"} |-> Absent]
     \/ \E a \in Legacy :
          /\ marker = "v1"
          /\ artifacts = [name \in {"connector.yaml", "roles.sql"} |-> a]
  /\ manifest = Absent
  /\ live = [t \in Targets |-> Absent] /\ readable = FALSE
  /\ backups = [t \in Targets |-> [s \in 0..MaxSeconds |-> Absent]]
  /\ secret = Absent /\ identity = Absent /\ attempt = Absent
  /\ completed = {}
  /\ overlay = NoRole /\ granted = {} /\ now = 0
  /\ command = Idle
  /\ starts = 0 /\ edits = 0

-----------------------------------------------------------------------------
(* prepareOutputDirectory: one that is new, or that this init has marked.  *)
Writable == marker # "v1"

(* init: the answers are complete, and the directory is marked.            *)
Generate(a) ==
  /\ Start
  /\ Writable
  /\ marker' = "v2"
  /\ command' = [at |-> "generate", answers |-> a, left |-> Listed(a)]
  /\ UNCHANGED <<artifacts, manifest, runtimeVars, secret, enrollVars, completed, hostVars,
                 edits>>

(* The artifacts are written in place, one by one, in no particular order. *)
WriteArtifact(name) ==
  /\ command.at = "generate" /\ name \in command.left
  /\ artifacts' = [artifacts EXCEPT ![name] = command.answers]
  /\ command' = [command EXCEPT !.left = @ \ {name}]
  /\ UNCHANGED <<marker, manifest, runtimeVars, secret, enrollVars, completed, hostVars,
                 starts, edits>>

(* bundle.json comes last.                                                 *)
WriteManifest ==
  /\ command.at = "generate" /\ command.left = {}
  /\ manifest' = [answers |-> command.answers, legacy |-> FALSE]
  /\ command' = Idle
  /\ UNCHANGED <<marker, artifacts, runtimeVars, secret, enrollVars, completed, hostVars,
                 starts, edits>>

(* init dies in the middle of a file.                                      *)
GenerateDies ==
  /\ command.at = "generate"
  /\ \/ /\ command.left = {}
        /\ manifest' = Torn /\ UNCHANGED artifacts
     \/ /\ \E name \in command.left : artifacts' = [artifacts EXCEPT ![name] = Torn]
        /\ UNCHANGED manifest
  /\ command' = Idle
  /\ UNCHANGED <<marker, runtimeVars, secret, enrollVars, completed, hostVars, starts, edits>>

-----------------------------------------------------------------------------
Whole(m) == m \notin {Absent, Torn}

(* LoadBundle: the manifest parses and every digest it lists agrees.       *)
Verified(m) == Whole(m) /\ \A name \in Listed(m.answers) : artifacts[name] = m.answers

(* loadLegacyBundle: no manifest, the old marker, a configuration that     *)
(* loads, every artifact there.                                            *)
Migratable ==
  /\ manifest = Absent /\ marker = "v1" /\ Loads(artifacts["connector.yaml"])
  /\ \A name \in DOMAIN artifacts : artifacts[name] \notin {Absent, Torn}

(* What a run has read by the time it touches the host: the manifest, and  *)
(* the source as the bundle's configuration and the overlay have it.       *)
Run(m, option) ==
  [at |-> "config", answers |-> m.answers, legacy |-> m.legacy, reader |-> Reader(m.answers),
   repair |-> option.repair, inputs |-> option.inputs]

Refused(option) == [at |-> "refused", repair |-> option.repair, inputs |-> option.inputs]

(* The bundle is verified, and its configuration loads with the overlay.   *)
LoadBundle(option) ==
  /\ Start
  /\ ~Migratable
  /\ command' = IF Verified(manifest) /\ Loads(manifest.answers)
                THEN Run(manifest, option)
                ELSE Refused(option)
  /\ UNCHANGED <<bundleVars, runtimeVars, secret, enrollVars, completed, hostVars, edits>>

(* The first install of a version 1 directory records its digests, in      *)
(* place: dying half way leaves a manifest that no longer parses.          *)
MigrateBundle(option) ==
  /\ Start
  /\ Migratable
  /\ \/ /\ manifest' = [answers |-> artifacts["connector.yaml"], legacy |-> TRUE]
        /\ command' = Run(manifest', option)
     \/ manifest' = Torn /\ command' = Idle
  /\ UNCHANGED <<marker, artifacts, runtimeVars, secret, enrollVars, completed, hostVars,
                 edits>>

Refuse ==
  /\ command' = Refused(command)
  /\ UNCHANGED <<bundleVars, runtimeVars, secret, enrollVars, completed, hostVars, starts,
                 edits>>

-----------------------------------------------------------------------------
(* prepareRuntime.  What goes into a target: the bundle's configuration;   *)
(* the certificate the answers name, which is also the one a --ca-file is  *)
(* taken to hold.                                                          *)
Wanted(t) == IF t = "config" THEN command.answers ELSE command.answers.certificate

(* No certificate to install: none is wanted, or a version 1 bundle does   *)
(* not say where it came from and one is in place.                         *)
CertificateSettled ==
  \/ command.answers.certificate = NoCertificate
  \/ command.legacy /\ "ca" \notin command.inputs /\ live["certificate"] # Absent

CertificateMissing ==
  /\ command.answers.certificate # NoCertificate
  /\ command.legacy /\ "ca" \notin command.inputs /\ live["certificate"] = Absent

Installing(t) ==
  /\ command.at = t
  /\ t = "certificate" => ~CertificateSettled /\ ~CertificateMissing

After(t) == IF t = "config" THEN "certificate" ELSE "confirm"

(* complete("runtime-prepared") follows the last file.                     *)
Prepared(t) == completed' = IF t = "config" THEN completed ELSE completed \cup {"runtime-prepared"}

SkipCertificate ==
  /\ command.at = "certificate" /\ CertificateSettled
  /\ At("confirm") /\ Prepared("certificate")
  /\ UNCHANGED <<bundleVars, runtimeVars, secret, enrollVars, hostVars, starts, edits>>

(* installBytes: a file that is already as wanted keeps its owner.         *)
KeepFile(t) ==
  /\ Installing(t) /\ live[t] = Wanted(t)
  /\ At(After(t)) /\ Prepared(t)
  /\ UNCHANGED <<bundleVars, runtimeVars, secret, enrollVars, hostVars, starts, edits>>

(* Mutant of ConflictRefused: --repair is not passed on for certificates.  *)
ConflictRefusedForCertificate(t) ==
  live[t] \notin {Absent, Wanted(t)} /\ (~command.repair \/ t = "certificate")

(* A file that differs is left alone unless --repair is given.             *)
ConflictRefused(t) == live[t] \notin {Absent, Wanted(t)} /\ ~command.repair

(* Mutant of BackUp: the file is left to be overwritten.                   *)
BackUpNothing(t) ==
  /\ Installing(t) /\ live[t] \notin {Absent, Wanted(t)} /\ ~ConflictRefused(t)
  /\ live' = [live EXCEPT ![t] = Absent]
  /\ UNCHANGED <<bundleVars, readable, backups, secret, enrollVars, completed, hostVars,
                 command, starts, edits>>

(* --repair renames it first, to a name made of the second.                *)
BackUp(t) ==
  /\ Installing(t) /\ live[t] \notin {Absent, Wanted(t)} /\ ~ConflictRefused(t)
  /\ live' = [live EXCEPT ![t] = Absent]
  /\ backups' = [backups EXCEPT ![t][now] = live[t]]
  /\ UNCHANGED <<bundleVars, readable, secret, enrollVars, completed, hostVars, command,
                 starts, edits>>

(* A new file is root's, and only root may read the configuration.         *)
WriteFile(t) ==
  /\ Installing(t) /\ live[t] = Absent
  /\ live' = [live EXCEPT ![t] = Wanted(t)]
  /\ readable' = (readable /\ t # "config")
  /\ At(After(t)) /\ Prepared(t)
  /\ UNCHANGED <<bundleVars, backups, secret, enrollVars, hostVars, starts, edits>>

-----------------------------------------------------------------------------
(* The source is still the console's to describe.                          *)
Pending == command.reader = NoRole

(* confirmDatabaseRole: asked once per state file, answered truthfully.    *)
Confirmed == "role" \in command.inputs /\ command.reader \in granted

ConfirmDatabaseRole ==
  /\ command.at = "confirm"
  /\ Pending \/ "database-role-confirmed" \in completed \/ Confirmed
  /\ completed' = IF Pending THEN completed ELSE completed \cup {"database-role-confirmed"}
  /\ At("secret")
  /\ UNCHANGED <<bundleVars, runtimeVars, secret, enrollVars, hostVars, starts, edits>>

ConfirmationMissing ==
  ~Pending /\ "database-role-confirmed" \notin completed /\ ~Confirmed

(* ensureReaderSecret: a password that is there stays; otherwise the one   *)
(* given is written, root's own for now.  For a source that is pending     *)
(* none is asked for, but one given in a file is written all the same.     *)
EnsureReaderSecret ==
  /\ command.at = "secret"
  /\ \/ secret # Absent /\ ~secret.exposed /\ UNCHANGED secret
     \/ secret = Absent /\ Pending /\ UNCHANGED secret
     \/ /\ secret = Absent /\ "secret" \in command.inputs
        /\ \E role \in (IF Pending THEN Roles ELSE {command.reader}) :
             secret' = [role |-> role, owned |-> FALSE, exposed |-> FALSE]
  /\ At("own")
  /\ UNCHANGED <<bundleVars, runtimeVars, enrollVars, completed, hostVars, starts, edits>>

SecretMissing ==
  \/ secret # Absent /\ secret.exposed
  \/ secret = Absent /\ ~Pending /\ "secret" \notin command.inputs

(* protectSystemdOwnership: what the service reads, then the password.     *)
OwnRuntime ==
  /\ command.at = "own"
  /\ readable' = TRUE
  /\ At("own-secret")
  /\ UNCHANGED <<bundleVars, live, backups, secret, enrollVars, completed, hostVars, starts,
                 edits>>

OwnSecret ==
  /\ command.at = "own-secret"
  /\ secret' = IF secret = Absent THEN secret
               ELSE [secret EXCEPT !.owned = TRUE, !.exposed = FALSE]
  /\ completed' = completed \cup {"reader-secret-installed"}
  /\ At("check")
  /\ UNCHANGED <<bundleVars, runtimeVars, enrollVars, hostVars, starts, edits>>

(* The database lets the reader in with the password stored.               *)
Admitted == command.reader \in granted /\ secret # Absent /\ secret.role = command.reader

(* Mutant of CheckSource: a source validated once is not tried again.      *)
CheckSourceOnce ==
  /\ command.at = "check"
  /\ Pending \/ Admitted \/ "source-validated" \in completed
  /\ completed' = IF Pending THEN completed ELSE completed \cup {"source-validated"}
  /\ At("identity")
  /\ UNCHANGED <<bundleVars, runtimeVars, secret, enrollVars, hostVars, starts, edits>>

(* checkSource connects and discovers, in every run.                       *)
CheckSource ==
  /\ command.at = "check"
  /\ Pending \/ Admitted
  /\ completed' = IF Pending THEN completed ELSE completed \cup {"source-validated"}
  /\ At("identity")
  /\ UNCHANGED <<bundleVars, runtimeVars, secret, enrollVars, hostVars, starts, edits>>

(* finishInstall: a version 1 bundle leaves the organization to            *)
(* --organization.                                                         *)
Organized == ~command.legacy \/ "organization" \in command.inputs

(* An identity of the same organization is kept, with or without a pending *)
(* enrollment beside it.                                                   *)
KeepIdentity ==
  /\ command.at = "identity" /\ Organized
  /\ identity # Absent /\ identity.usable
  /\ identity.organization = command.answers.organization
  /\ At("own-identity")
  /\ UNCHANGED <<bundleVars, runtimeVars, secret, enrollVars, completed, hostVars, starts,
                 edits>>

(* There is none, and a token to get one with.                             *)
Enrolling ==
  /\ command.at = "identity" /\ Organized
  /\ identity = Absent /\ "token" \in command.inputs

(* LoadOrCreateEnrollmentAttempt: one of this organization is taken up.    *)
LoadAttempt ==
  /\ Enrolling
  /\ Whole(attempt) /\ attempt.organization = command.answers.organization
  /\ At("exchange")
  /\ UNCHANGED <<bundleVars, runtimeVars, secret, enrollVars, completed, hostVars, starts,
                 edits>>

(* Otherwise the file is created, and then written: in place.              *)
CreateAttempt ==
  /\ Enrolling /\ attempt = Absent
  /\ attempt' = Torn
  /\ At("attempt")
  /\ UNCHANGED <<bundleVars, runtimeVars, secret, identity, completed, hostVars, starts, edits>>

WriteAttempt ==
  /\ command.at = "attempt"
  /\ attempt' = [organization |-> command.answers.organization]
  /\ At("exchange")
  /\ UNCHANGED <<bundleVars, runtimeVars, secret, identity, completed, hostVars, starts, edits>>

(* A write that fails takes the file away, and the run ends.               *)
AttemptFails ==
  /\ command.at = "attempt"
  /\ attempt' = Absent
  /\ command' = Idle
  /\ UNCHANGED <<bundleVars, runtimeVars, secret, identity, completed, hostVars, starts, edits>>

(* The control plane answers; Save renames the identity into place, over   *)
(* whatever is there.                                                      *)
Enroll ==
  /\ command.at = "exchange"
  /\ identity' = [organization |-> command.answers.organization, owned |-> FALSE,
                  usable |-> TRUE]
  /\ At("complete")
  /\ UNCHANGED <<bundleVars, runtimeVars, secret, attempt, completed, hostVars, starts, edits>>

CompleteAttempt ==
  /\ command.at = "complete"
  /\ attempt' = Absent
  /\ At("own-identity")
  /\ UNCHANGED <<bundleVars, runtimeVars, secret, identity, completed, hostVars, starts, edits>>

(* An identity that does not load, or of another organization, is left     *)
(* alone; so is a pending enrollment.                                      *)
EnrollmentMissing ==
  \/ ~Organized
  \/ identity # Absent /\ ~identity.usable
  \/ identity # Absent /\ identity.organization # command.answers.organization
  \/ identity = Absent /\ "token" \notin command.inputs
  \/ Enrolling /\ attempt = Torn
  \/ Enrolling /\ Whole(attempt) /\ attempt.organization # command.answers.organization

OwnIdentity ==
  /\ command.at = "own-identity"
  /\ identity' = [identity EXCEPT !.owned = TRUE]
  /\ completed' = completed \cup {"enrolled"}
  /\ At("doctor")
  /\ UNCHANGED <<bundleVars, runtimeVars, secret, attempt, hostVars, starts, edits>>

(* doctor reports every check green; the activation command is printed.    *)
Doctor ==
  /\ command.at = "doctor"
  /\ completed' = completed \cup {"doctor-passed"}
  /\ At("activate")
  /\ UNCHANGED <<bundleVars, runtimeVars, secret, enrollVars, hostVars, starts, edits>>

Activate ==
  /\ command.at = "activate"
  /\ completed' = completed \cup {"activation-pending"}
  /\ At("done")
  /\ UNCHANGED <<bundleVars, runtimeVars, secret, enrollVars, hostVars, starts, edits>>

(* Every early return of a run.                                            *)
InstallRefuses ==
  /\ \/ \E t \in Targets : Installing(t) /\ ConflictRefused(t)
     \/ command.at = "certificate" /\ CertificateMissing
     \/ command.at = "confirm" /\ ConfirmationMissing
     \/ command.at = "secret" /\ SecretMissing
     \/ command.at = "check" /\ ~Pending /\ ~Admitted
     \/ command.at = "identity" /\ EnrollmentMissing
  /\ Refuse

(* A call to the system, the database or the control plane fails, doctor   *)
(* finds fault, the process is killed; or the command has said its last.   *)
Interrupt ==
  /\ command # Idle
  /\ command' = Idle
  /\ UNCHANGED <<bundleVars, runtimeVars, secret, enrollVars, completed, hostVars, starts,
                 edits>>

-----------------------------------------------------------------------------
(* secret set: staged, owned, renamed: one effect.                         *)
SecretSet(role) ==
  /\ Start
  /\ live["config"] # Absent /\ Loads(live["config"])
  /\ secret' = [role |-> role, owned |-> TRUE, exposed |-> FALSE]
  /\ UNCHANGED <<bundleVars, runtimeVars, enrollVars, completed, hostVars, command, edits>>

(* The operator changes a runtime file by hand, or copies the password or  *)
(* the identity around with the wrong mode.                                *)
Edit ==
  /\ command = Idle /\ edits < MaxEdits /\ edits' = edits + 1
  /\ \/ \E t \in Targets :
          /\ live[t] \notin {Absent, Edited}
          /\ live' = [live EXCEPT ![t] = Edited]
          /\ UNCHANGED <<secret, identity>>
     \/ /\ secret # Absent /\ secret' = [secret EXCEPT !.exposed = TRUE]
        /\ UNCHANGED <<live, identity>>
     \/ /\ identity # Absent /\ identity' = [identity EXCEPT !.usable = FALSE]
        /\ UNCHANGED <<live, secret>>
  /\ UNCHANGED <<bundleVars, readable, backups, attempt, completed, hostVars, command, starts>>

(* The DBA runs roles.sql, or what "source roles" prints.                  *)
Grant(role) ==
  /\ role \notin granted
  /\ \/ role = overlay
     \/ artifacts["roles.sql"] \in Answers /\ artifacts["roles.sql"].reader = role
  /\ granted' = granted \cup {role}
  /\ UNCHANGED <<bundleVars, runtimeVars, secret, enrollVars, completed, overlay, now,
                 command, starts, edits>>

(* The console configures an enrolled connector (SealedConfiguration).     *)
Configure(role) ==
  /\ identity # Absent /\ identity.owned /\ overlay # role
  /\ overlay' = role
  /\ UNCHANGED <<bundleVars, runtimeVars, secret, enrollVars, completed, granted, now,
                 command, starts, edits>>

Tick ==
  /\ now < MaxSeconds /\ now' = now + 1
  /\ UNCHANGED <<bundleVars, runtimeVars, secret, enrollVars, completed, overlay, granted,
                 command, starts, edits>>

InstallStep ==
  \/ \E t \in Targets : KeepFile(t) \/ BackUp(t) \/ WriteFile(t)
  \/ SkipCertificate \/ ConfirmDatabaseRole \/ EnsureReaderSecret
  \/ OwnRuntime \/ OwnSecret \/ CheckSource
  \/ KeepIdentity \/ LoadAttempt \/ CreateAttempt \/ WriteAttempt \/ Enroll
  \/ CompleteAttempt \/ OwnIdentity \/ Doctor \/ Activate \/ InstallRefuses

Next ==
  \/ \E a \in Answers : Generate(a)
  \/ \E name \in {"connector.yaml", "roles.sql"} : WriteArtifact(name)
  \/ WriteManifest \/ GenerateDies
  \/ \E option \in Options : LoadBundle(option) \/ MigrateBundle(option)
  \/ InstallStep \/ AttemptFails \/ Interrupt
  \/ \E role \in Roles : SecretSet(role) \/ Grant(role) \/ Configure(role)
  \/ Edit \/ Tick

Spec == Init /\ [][Next]_vars

-----------------------------------------------------------------------------
Contents(t) == IF t = "config" THEN Answers \cup {Edited} ELSE Certificates \cup {Edited}
Reading == {"config", "certificate", "confirm", "secret", "own", "own-secret", "check",
            "identity", "attempt", "exchange", "complete", "own-identity", "doctor",
            "activate", "done"}

(* What a command is: install at one of its steps with what it has read,   *)
(* init with the files left to write, or an install that was refused.      *)
Runs ==
  [at : Reading, answers : Answers, legacy : BOOLEAN, reader : Roles \cup {NoRole},
   repair : BOOLEAN, inputs : SUBSET Inputs]
Generations ==
  [at : {"generate"}, answers : Answers, left : SUBSET {"connector.yaml", "roles.sql"}]
Refusals == [at : {"refused"}, repair : BOOLEAN, inputs : SUBSET Inputs]

(* Every file and every command keeps the type the code gives it.          *)
TypeOK ==
  /\ marker \in {"none", "v1", "v2"}
  /\ artifacts \in [{"connector.yaml", "roles.sql"} -> Answers \cup {Absent, Torn}]
  /\ manifest \in [answers : Answers, legacy : BOOLEAN] \cup {Absent, Torn}
  /\ DOMAIN live = Targets /\ DOMAIN backups = Targets
  /\ \A t \in Targets :
       /\ live[t] \in Contents(t) \cup {Absent}
       /\ backups[t] \in [0..MaxSeconds -> Contents(t) \cup {Absent}]
  /\ readable \in BOOLEAN
  /\ secret \in [role : Roles, owned : BOOLEAN, exposed : BOOLEAN] \cup {Absent}
  /\ identity \in [organization : Organizations, owned : BOOLEAN, usable : BOOLEAN] \cup {Absent}
  /\ attempt \in [organization : Organizations] \cup {Absent, Torn}
  /\ completed \subseteq Stages
  /\ overlay \in Roles \cup {NoRole} /\ granted \subseteq Roles /\ now \in 0..MaxSeconds
  /\ command \in Runs \cup Generations \cup Refusals \cup {Idle}
  /\ starts \in 0..MaxStarts /\ edits \in 0..MaxEdits

(* A run that finishes leaves a connector its service can start, whatever  *)
(* earlier runs, repairs and interruptions left behind (finishInstall:     *)
(* "Installation checks passed"): the configuration of one whole bundle    *)
(* and its certificate, files the service account may read, an identity of *)
(* the bundle's organization, and a reader the database admits.            *)
FinishedInstallIsWhole ==
  command.at = "done" =>
    /\ live["config"] = command.answers /\ readable
    /\ \A name \in Listed(command.answers) : artifacts[name] = command.answers
    /\ command.answers.certificate # NoCertificate =>
         \/ live["certificate"] = command.answers.certificate
         \/ command.legacy /\ "ca" \notin command.inputs /\ live["certificate"] # Absent
    /\ identity = [organization |-> command.answers.organization, owned |-> TRUE,
                   usable |-> TRUE]
    /\ secret # Absent => secret.owned /\ ~secret.exposed
    /\ ~Pending => Admitted

(* Why an install that has --repair and every input may stop: before it    *)
(* has read a bundle ...                                                   *)
BundleCause ==
  \/ marker # "v1" /\ ~Verified(manifest)    \* init was cut short, or never run
  \/ ~Loads(artifacts["connector.yaml"])      \* the console's overlay
  \/ manifest = Torn                          \* an install cut short in MigrateBundle

(* ... and once it has.                                                    *)
RunCause ==
  \/ ~Pending /\ command.reader \notin granted
  \/ secret # Absent /\ (secret.exposed \/ (~Pending /\ secret.role # command.reader))
  \/ /\ identity # Absent
     /\ ~identity.usable \/ identity.organization # command.answers.organization
  \/ /\ identity = Absent /\ Whole(attempt)
     /\ attempt.organization # command.answers.organization
  \/ identity = Absent /\ attempt = Torn      \* an install cut short after CreateAttempt

(* "After an interruption, run the same command again" (docs/installation- *)
(* and-operation.md): every refusal of a run given --repair and every      *)
(* input, from the bundle to the identity, has one of these causes.  They  *)
(* are for the operator, the DBA or the console to put right, and none is  *)
(* the doing of an earlier run of the same install, except the last of     *)
(* each list: the manifest of a version 1 directory and the pending        *)
(* enrollment are written in place and, cut short, stop every later run    *)
(* (MigrationResumable below, AttemptStaysReadable of module Enrollment).  *)
(* There the sentence does not hold; whatever else a run leaves when it is *)
(* cut, runtime files, backups, password, identity or recorded stages, the *)
(* next one goes on from.                                                  *)
RefusedForCause ==
  [][command.at # "refused" /\ command'.at = "refused"
       /\ command'.repair /\ command'.inputs = Inputs =>
       IF command = Idle THEN BundleCause ELSE RunCause]_vars

(* "preserves conflicting existing files", "each replaced file is backed   *)
(* up beside itself first" (docs/installation-and-operation.md): a command *)
(* removes a runtime file only into a backup, replaces none, and leaves a  *)
(* stored password and an identity what they are.                          *)
ConflictsPreserved ==
  [][command # Idle =>
       /\ \A t \in Targets :
            live[t] # Absent /\ live'[t] # live[t] =>
              command.repair /\ live'[t] = Absent /\ \E s \in 0..MaxSeconds : backups'[t][s] = live[t]
       /\ secret # Absent => secret' # Absent /\ secret'.role = secret.role
       /\ identity # Absent => identity' # Absent /\ identity'.organization = identity.organization]_vars

(* Comment claim (installer.go, Run): for a source the console configures  *)
(* there is nothing to confirm; asking "would be asking somebody to        *)
(* confirm they ran a script that does not exist".                         *)
ConfirmsExistingScript ==
  command.at = "confirm" /\ ~Pending => "roles.sql" \in Listed(command.answers)

(* Prompt claim (installer.go, confirmDatabaseRole): the confirmation on   *)
(* record is of the reviewed roles.sql of the bundle being installed.      *)
ConfirmationIsOfThisScript ==
  command.at = "secret" /\ ~Pending => command.reader \in granted

(* Doc claim (docs/installation-and-operation.md): each replaced file is   *)
(* backed up; a backup is there to be restored.                            *)
BackupsStay ==
  [][\A t \in Targets, s \in 0..MaxSeconds :
       backups[t][s] # Absent => backups'[t][s] = backups[t][s]]_vars

(* Doc claim (docs/installation-and-operation.md): after an interruption   *)
(* the same command can be run again; a bundle once whole stays so.        *)
MigrationResumable == [][marker = "v1" => manifest' # Torn]_vars
=============================================================================
