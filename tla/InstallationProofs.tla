------------------------- MODULE InstallationProofs -------------------------
(***************************************************************************)
(* Proofs about Installation, for any answers, roles, certificates,        *)
(* options and bounds.  What a finished install promises is established    *)
(* stage by stage, so the inductive invariant says what each stage leaves  *)
(* true for the ones after it: the bundle that was verified (BundleInv),   *)
(* the runtime files (RuntimeInv), the password (SecretInv) and the        *)
(* identity (IdentityInv).  Only install itself touches these while it     *)
(* runs; the database and the console may change under it.                 *)
(***************************************************************************)
EXTENDS Installation, TLAPS

Names == {"connector.yaml", "roles.sql"}
Identities == [organization : Organizations, owned : BOOLEAN, usable : BOOLEAN]

(* The steps of a run from one of its stages on.                           *)
Identified == {"complete", "own-identity", "doctor", "activate", "done"}
Checked    == {"identity", "attempt", "exchange"} \cup Identified
Protected  == {"check"} \cup Checked
Ensured    == {"own", "own-secret"} \cup Protected

(* A version 1 directory is whole, no init writes there, and its manifest  *)
(* is of what it holds unless it was cut short; what a run has read is     *)
(* what the directory holds.                                               *)
BundleInv ==
  /\ command.at = "generate" => marker = "v2"
  /\ marker = "v1" =>
       /\ artifacts["connector.yaml"] \in Answers
       /\ artifacts["roles.sql"] = artifacts["connector.yaml"]
       /\ Whole(manifest) => manifest.answers = artifacts["connector.yaml"]
  /\ command.at \in Reading =>
       \A name \in Listed(command.answers) : artifacts[name] = command.answers

(* The certificate is in place, or is none of this run's.                  *)
CertificateDone ==
  command.answers.certificate # NoCertificate =>
    \/ live["certificate"] = command.answers.certificate
    \/ command.legacy /\ "ca" \notin command.inputs /\ live["certificate"] # Absent

RuntimeInv ==
  /\ command.at \in Reading \ {"config"} => live["config"] = command.answers
  /\ command.at \in Reading \ {"config", "certificate"} => CertificateDone
  /\ command.at \in {"own-secret"} \cup Protected => readable

SecretInv ==
  /\ command.at \in Ensured /\ ~Pending => secret # Absent
  /\ command.at \in Protected /\ secret # Absent => secret.owned /\ ~secret.exposed
  /\ command.at \in Checked /\ ~Pending => Admitted

(* Between the check for an identity and the one that is saved there is    *)
(* none, so Save replaces nothing.                                         *)
IdentityInv ==
  /\ command.at \in {"attempt", "exchange"} => identity = Absent
  /\ command.at \in Identified =>
       /\ identity # Absent /\ identity.usable
       /\ identity.organization = command.answers.organization
  /\ command.at \in Identified \ {"complete", "own-identity"} => identity.owned

IInv == TypeOK /\ BundleInv /\ RuntimeInv /\ SecretInv /\ IdentityInv

-----------------------------------------------------------------------------
(* A command at a step of install is a run, and one at "generate" an init. *)
LEMMA CommandKinds ==
  ASSUME TypeOK
  PROVE  /\ command.at \in Reading => command \in Runs
         /\ command.at = "generate" => command \in Generations
BY DEF TypeOK, Runs, Generations, Refusals, Idle, Reading

(* A step of install goes on with what the run has read.                   *)
LEMMA NextStep ==
  ASSUME NEW step \in Reading, command \in Runs, At(step)
  PROVE  /\ command' \in Runs /\ command'.at = step
         /\ command'.answers = command.answers /\ command'.legacy = command.legacy
         /\ command'.reader = command.reader /\ command'.repair = command.repair
         /\ command'.inputs = command.inputs
BY DEF At, Runs

(* A run begins with a manifest, an option and the overlay of the moment.  *)
LEMMA RunBegins ==
  ASSUME TypeOK, NEW m \in [answers : Answers, legacy : BOOLEAN], NEW option \in Options
  PROVE  Run(m, option) \in Runs /\ Refused(option) \in Refusals
<1>1. option.repair \in BOOLEAN /\ option.inputs \in SUBSET Inputs
      BY InstallationAssumption
<1>2. m.answers \in Answers /\ m.legacy \in BOOLEAN OBVIOUS
<1>3. m.answers.reader \in Roles \cup {NoRole} BY <1>2, InstallationAssumption
<1>4. Reader(m.answers) \in Roles \cup {NoRole} BY <1>3 DEF Reader, TypeOK
<1> QED BY <1>1, <1>2, <1>4 DEF Run, Refused, Runs, Refusals, Reading

(* A file that is there is not the absence of one.                         *)
LEMMA AbsentIsNeither ==
  /\ Absent \notin [role : Roles, owned : BOOLEAN, exposed : BOOLEAN]
  /\ Absent \notin Identities
<1>1. DOMAIN Absent = {"absent"} BY DEF Absent
<1>2. \A r \in [role : Roles, owned : BOOLEAN, exposed : BOOLEAN] :
        DOMAIN r = {"role", "owned", "exposed"} OBVIOUS
<1>3. \A r \in Identities : DOMAIN r = {"organization", "owned", "usable"}
      BY DEF Identities
<1> QED BY <1>1, <1>2, <1>3

(* Answers are neither the absence of a file nor half of one.              *)
LEMMA AnswersAreWhole == \A a \in Answers : a \notin {Absent, Torn}
<1>1. DOMAIN Absent = {"absent"} /\ DOMAIN Torn = {"torn"} BY DEF Absent, Torn
<1>2. \A a \in Answers : DOMAIN a = {"reader", "organization", "certificate"}
      BY InstallationAssumption
<1> QED BY <1>1, <1>2

(* What a run wants in a file is of the file's type.                       *)
LEMMA WantedType ==
  ASSUME command \in Runs, NEW t \in Targets, Installing(t)
  PROVE  Wanted(t) \in Contents(t)
<1>1. command.answers \in Answers BY DEF Runs
<1>2. command.answers.certificate \in Certificates \cup {NoCertificate}
      BY <1>1, InstallationAssumption
<1> QED BY <1>1, <1>2 DEF Wanted, Contents, Installing, CertificateSettled, Targets

(* The stages a step records are stages.                                   *)
LEMMA PreparedType ==
  ASSUME completed \subseteq Stages, NEW t, Prepared(t)
  PROVE  completed' \subseteq Stages
BY DEF Prepared, Stages

-----------------------------------------------------------------------------
(* The initial state satisfies the inductive invariant.                    *)
LEMMA InitIInv == Init => IInv
<1> SUFFICES ASSUME Init PROVE IInv
    OBVIOUS
<1> USE InstallationAssumption DEF Init
<1>1. Idle.at = "idle" BY DEF Idle
<1>2. TypeOK
      <2>1. artifacts \in [{"connector.yaml", "roles.sql"} -> Answers \cup {Absent, Torn}]
            OBVIOUS
      <2>2. /\ DOMAIN live = Targets /\ DOMAIN backups = Targets
            /\ \A t \in Targets : live[t] = Absent /\ backups[t] = [s \in 0..MaxSeconds |-> Absent]
            OBVIOUS
      <2>3. \A t \in Targets :
              /\ live[t] \in Contents(t) \cup {Absent}
              /\ backups[t] \in [0..MaxSeconds -> Contents(t) \cup {Absent}]
            BY <2>2
      <2>4. marker \in {"none", "v1", "v2"} /\ completed \subseteq Stages
            OBVIOUS
      <2>5. now \in 0..MaxSeconds /\ starts \in 0..MaxStarts /\ edits \in 0..MaxEdits
            OBVIOUS
      <2>6. granted \subseteq Roles /\ overlay \in Roles \cup {NoRole} /\ readable \in BOOLEAN
            OBVIOUS
      <2>7. /\ secret = Absent /\ identity = Absent /\ attempt = Absent
            /\ manifest = Absent /\ command = Idle
            OBVIOUS
      <2> HIDE InstallationAssumption DEF Init
      <2> QED BY <2>1, <2>2, <2>3, <2>4, <2>5, <2>6, <2>7 DEF TypeOK
<1>3. BundleInv BY <1>1 DEF BundleInv, Reading, Whole
<1>4. RuntimeInv BY <1>1 DEF RuntimeInv, Reading, Protected, Checked, Identified
<1>5. SecretInv BY <1>1 DEF SecretInv, Ensured, Protected, Checked, Identified
<1>6. IdentityInv BY <1>1 DEF IdentityInv, Identified
<1> QED BY <1>2, <1>3, <1>4, <1>5, <1>6 DEF IInv

(* Types are kept; the identity that is given an owner is there.           *)
LEMMA TypeStep == TypeOK /\ BundleInv /\ IdentityInv /\ [Next]_vars => TypeOK'
<1> SUFFICES ASSUME TypeOK, BundleInv, IdentityInv, [Next]_vars PROVE TypeOK'
    OBVIOUS
<1> USE InstallationAssumption
<1> USE DEF bundleVars, runtimeVars, enrollVars, hostVars
<1>1. ASSUME NEW a \in Answers, Generate(a) PROVE TypeOK'
      <2>1. command' \in Generations BY <1>1 DEF Generate, Generations, Listed
      <2> QED BY <1>1, <2>1 DEF Generate, Start, TypeOK
<1>2. ASSUME NEW name \in Names, WriteArtifact(name) PROVE TypeOK'
      <2>1. command \in Generations BY <1>2, CommandKinds DEF WriteArtifact
      <2>2. command' \in Generations BY <1>2, <2>1 DEF WriteArtifact, Generations
      <2>3. command.answers \in Answers BY <2>1 DEF Generations
      <2>4. artifacts' \in [Names -> Answers \cup {Absent, Torn}]
            BY <1>2, <2>3 DEF WriteArtifact, TypeOK, Names
      <2> QED BY <1>2, <2>2, <2>4 DEF WriteArtifact, TypeOK, Names
<1>3. CASE WriteManifest
      <2>1. command \in Generations BY <1>3, CommandKinds DEF WriteManifest
      <2>2. command.answers \in Answers BY <2>1 DEF Generations
      <2> QED BY <1>3, <2>2 DEF WriteManifest, TypeOK
<1>4. CASE GenerateDies
      <2>1. artifacts' \in [Names -> Answers \cup {Absent, Torn}]
            BY <1>4 DEF GenerateDies, TypeOK, Names
      <2> QED BY <1>4, <2>1 DEF GenerateDies, TypeOK, Names
<1>5. ASSUME NEW option \in Options, LoadBundle(option) PROVE TypeOK'
      <2>1. command' \in Runs \cup Refusals
            <3>1. CASE Verified(manifest)
                  <4>1. manifest \in [answers : Answers, legacy : BOOLEAN]
                        BY <3>1 DEF Verified, Whole, TypeOK
                  <4> QED BY <1>5, <3>1, <4>1, RunBegins DEF LoadBundle
            <3>2. CASE ~Verified(manifest)
                  <4>1. option.repair \in BOOLEAN /\ option.inputs \in SUBSET Inputs
                        OBVIOUS
                  <4> QED BY <1>5, <3>2, <4>1 DEF LoadBundle, Refused, Refusals
            <3> QED BY <3>1, <3>2
      <2> QED BY <1>5, <2>1 DEF LoadBundle, Start, TypeOK
<1>6. ASSUME NEW option \in Options, MigrateBundle(option) PROVE TypeOK'
      <2>1. artifacts["connector.yaml"] \in Answers
            BY <1>6 DEF MigrateBundle, Migratable, TypeOK
      <2> DEFINE m == [answers |-> artifacts["connector.yaml"], legacy |-> TRUE]
      <2>m. m \in [answers : Answers, legacy : BOOLEAN] BY <2>1
      <2>r. Run(m, option) \in Runs BY <2>m, RunBegins
      <2>c. \/ manifest' = m /\ command' = Run(m, option)
            \/ manifest' = Torn /\ command' = Idle
            BY <1>6 DEF MigrateBundle, Run, Reader, m
      <2> HIDE DEF m
      <2>2. manifest' \in [answers : Answers, legacy : BOOLEAN] \cup {Torn}
            BY <2>m, <2>c
      <2>3. command' \in Runs \cup {Idle}
            BY <2>r, <2>c
      <2> QED BY <1>6, <2>2, <2>3 DEF MigrateBundle, Start, TypeOK
<1>7. ASSUME NEW t \in Targets, KeepFile(t) \/ BackUp(t) \/ WriteFile(t) PROVE TypeOK'
      <2>1. command.at \in Reading /\ command \in Runs
            BY <1>7, CommandKinds
            DEF KeepFile, BackUp, WriteFile, Installing, Targets, Reading
      <2>2. Wanted(t) \in Contents(t)
            BY <1>7, <2>1, WantedType DEF KeepFile, BackUp, WriteFile
      <2>3. After(t) \in Reading BY DEF After, Reading
      <2>4. CASE KeepFile(t)
            <3>1. command' \in Runs /\ completed' \subseteq Stages
                  BY <2>1, <2>3, <2>4, NextStep, PreparedType DEF KeepFile, TypeOK
            <3> QED BY <2>4, <3>1 DEF KeepFile, TypeOK
      <2>5. CASE BackUp(t)
            <3>1. DOMAIN live' = Targets /\ \A u \in Targets : live'[u] \in Contents(u) \cup {Absent}
                  BY <2>5 DEF BackUp, TypeOK
            <3>2. /\ DOMAIN backups' = Targets
                  /\ \A u \in Targets : backups'[u] \in [0..MaxSeconds -> Contents(u) \cup {Absent}]
                  BY <2>5 DEF BackUp, TypeOK
            <3> QED BY <2>5, <3>1, <3>2 DEF BackUp, TypeOK
      <2>6. CASE WriteFile(t)
            <3>1. command' \in Runs /\ completed' \subseteq Stages
                  BY <2>1, <2>3, <2>6, NextStep, PreparedType DEF WriteFile, TypeOK
            <3>2. DOMAIN live' = Targets /\ \A u \in Targets : live'[u] \in Contents(u) \cup {Absent}
                  BY <2>2, <2>6 DEF WriteFile, TypeOK
            <3>3. readable' \in BOOLEAN BY <2>6 DEF WriteFile
            <3> QED BY <2>6, <3>1, <3>2, <3>3 DEF WriteFile, TypeOK
      <2> QED BY <1>7, <2>4, <2>5, <2>6
<1>8. CASE SkipCertificate
      <2>1. command \in Runs BY <1>8, CommandKinds DEF SkipCertificate, Reading
      <2>2. command' \in Runs /\ completed' \subseteq Stages
            BY <1>8, <2>1, NextStep, PreparedType DEF SkipCertificate, Reading, TypeOK
      <2> QED BY <1>8, <2>2 DEF SkipCertificate, TypeOK
<1>9. CASE ConfirmDatabaseRole
      <2>1. command \in Runs BY <1>9, CommandKinds DEF ConfirmDatabaseRole, Reading
      <2>2. command' \in Runs BY <1>9, <2>1, NextStep DEF ConfirmDatabaseRole, Reading
      <2> QED BY <1>9, <2>2 DEF ConfirmDatabaseRole, Stages, TypeOK
<1>10. CASE EnsureReaderSecret
      <2>1. command \in Runs BY <1>10, CommandKinds DEF EnsureReaderSecret, Reading
      <2>2. command' \in Runs BY <1>10, <2>1, NextStep DEF EnsureReaderSecret, Reading
      <2>3. ~Pending => command.reader \in Roles BY <2>1 DEF Pending, Runs
      <2>4. secret' \in [role : Roles, owned : BOOLEAN, exposed : BOOLEAN] \cup {Absent}
            <3>1. CASE UNCHANGED secret BY <3>1 DEF TypeOK
            <3>2. CASE secret' # secret
                  <4>1. PICK role \in (IF Pending THEN Roles ELSE {command.reader}) :
                          secret' = [role |-> role, owned |-> FALSE, exposed |-> FALSE]
                        BY <1>10, <3>2 DEF EnsureReaderSecret
                  <4>2. role \in Roles BY <2>3, <4>1
                  <4> QED BY <4>1, <4>2
            <3> QED BY <3>1, <3>2
      <2> QED BY <1>10, <2>2, <2>4 DEF EnsureReaderSecret, TypeOK
<1>11. CASE OwnRuntime
      <2>1. command \in Runs BY <1>11, CommandKinds DEF OwnRuntime, Reading
      <2>2. command' \in Runs BY <1>11, <2>1, NextStep DEF OwnRuntime, Reading
      <2> QED BY <1>11, <2>2 DEF OwnRuntime, TypeOK
<1>12. CASE OwnSecret
      <2>1. command \in Runs BY <1>12, CommandKinds DEF OwnSecret, Reading
      <2>2. command' \in Runs BY <1>12, <2>1, NextStep DEF OwnSecret, Reading
      <2>3. secret' \in [role : Roles, owned : BOOLEAN, exposed : BOOLEAN] \cup {Absent}
            BY <1>12 DEF OwnSecret, TypeOK
      <2> QED BY <1>12, <2>2, <2>3 DEF OwnSecret, Stages, TypeOK
<1>13. CASE CheckSource
      <2>1. command \in Runs BY <1>13, CommandKinds DEF CheckSource, Reading
      <2>2. command' \in Runs BY <1>13, <2>1, NextStep DEF CheckSource, Reading
      <2> QED BY <1>13, <2>2 DEF CheckSource, Stages, TypeOK
<1>14. CASE \/ KeepIdentity \/ LoadAttempt \/ CreateAttempt \/ WriteAttempt
            \/ Enroll \/ CompleteAttempt
      <2>0. command.at \in Reading
            BY <1>14 DEF KeepIdentity, LoadAttempt, CreateAttempt, WriteAttempt, Enroll,
               CompleteAttempt, Enrolling, Reading
      <2>1. command \in Runs BY <2>0, CommandKinds
      <2>2. command' \in Runs
            BY <1>14, <2>1, NextStep
            DEF KeepIdentity, LoadAttempt, CreateAttempt, WriteAttempt, Enroll,
                CompleteAttempt, Reading
      <2>3. command.answers.organization \in Organizations BY <2>1 DEF Runs
      <2>4. identity' \in Identities \cup {Absent}
            <3>1. CASE UNCHANGED identity BY <3>1 DEF TypeOK, Identities
            <3>2. CASE Enroll BY <2>3, <3>2 DEF Enroll, Identities
            <3> QED BY <1>14, <3>1, <3>2
                    DEF KeepIdentity, LoadAttempt, CreateAttempt, WriteAttempt, CompleteAttempt
      <2>5. attempt' \in [organization : Organizations] \cup {Absent, Torn}
            <3>1. CASE UNCHANGED attempt BY <3>1 DEF TypeOK
            <3>2. CASE WriteAttempt BY <2>3, <3>2 DEF WriteAttempt
            <3>3. CASE CreateAttempt \/ CompleteAttempt BY <3>3 DEF CreateAttempt, CompleteAttempt
            <3> QED BY <1>14, <3>1, <3>2, <3>3 DEF KeepIdentity, LoadAttempt, Enroll
      <2>6. UNCHANGED <<bundleVars, runtimeVars, secret, completed, hostVars, starts, edits>>
            BY <1>14 DEF KeepIdentity, LoadAttempt, CreateAttempt, WriteAttempt, Enroll,
               CompleteAttempt
      <2> QED BY <2>2, <2>4, <2>5, <2>6 DEF TypeOK, Identities
<1>15. CASE OwnIdentity
      <2>1. command \in Runs BY <1>15, CommandKinds DEF OwnIdentity, Reading
      <2>2. command' \in Runs BY <1>15, <2>1, NextStep DEF OwnIdentity, Reading
      <2>3. identity # Absent BY <1>15 DEF OwnIdentity, IdentityInv, Identified
      <2>4. identity' \in Identities
            BY <1>15, <2>3 DEF OwnIdentity, TypeOK, Identities
      <2> QED BY <1>15, <2>2, <2>4 DEF OwnIdentity, Stages, TypeOK, Identities
<1>16. CASE Doctor \/ Activate
      <2>1. command \in Runs BY <1>16, CommandKinds DEF Doctor, Activate, Reading
      <2>2. command' \in Runs BY <1>16, <2>1, NextStep DEF Doctor, Activate, Reading
      <2> QED BY <1>16, <2>2 DEF Doctor, Activate, Stages, TypeOK
<1>17. CASE InstallRefuses
      <2>1. command \in Runs
            BY <1>17, CommandKinds DEF InstallRefuses, Installing, Targets, Reading
      <2>2. command' \in Refusals
            BY <1>17, <2>1 DEF InstallRefuses, Refuse, Refused, Refusals, Runs
      <2> QED BY <1>17, <2>2 DEF InstallRefuses, Refuse, TypeOK
<1>18. CASE Interrupt \/ AttemptFails BY <1>18 DEF Interrupt, AttemptFails, TypeOK
<1>19. ASSUME NEW role \in Roles, SecretSet(role) PROVE TypeOK'
      BY <1>19 DEF SecretSet, Start, TypeOK
<1>20. ASSUME NEW role \in Roles, Grant(role) \/ Configure(role) PROVE TypeOK'
      BY <1>20 DEF Grant, Configure, TypeOK
<1>21. CASE Edit
      <2>1. DOMAIN live' = Targets /\ \A u \in Targets : live'[u] \in Contents(u) \cup {Absent}
            BY <1>21 DEF Edit, TypeOK, Contents
      <2>2. secret' \in [role : Roles, owned : BOOLEAN, exposed : BOOLEAN] \cup {Absent}
            BY <1>21 DEF Edit, TypeOK
      <2>3. identity' \in Identities \cup {Absent}
            BY <1>21 DEF Edit, TypeOK, Identities
      <2> QED BY <1>21, <2>1, <2>2, <2>3 DEF Edit, TypeOK, Identities
<1>22. CASE Tick BY <1>22 DEF Tick, TypeOK
<1>23. CASE UNCHANGED vars BY <1>23 DEF vars, TypeOK
<1> QED BY <1>1, <1>2, <1>3, <1>4, <1>5, <1>6, <1>7, <1>8, <1>9, <1>10, <1>11, <1>12,
           <1>13, <1>14, <1>15, <1>16, <1>17, <1>18, <1>19, <1>20, <1>21, <1>22, <1>23
        DEF Next, InstallStep, Names

-----------------------------------------------------------------------------
(* The run goes on with what it has read.                                  *)
SameRun ==
  /\ command' \in Runs
  /\ command'.answers = command.answers /\ command'.legacy = command.legacy
  /\ command'.reader = command.reader /\ command'.repair = command.repair
  /\ command'.inputs = command.inputs

(* A step of install is one of a run, which it continues or refuses; the   *)
(* bundle, the database and the overlay are not its to change.             *)
LEMMA InstallGoesOn ==
  ASSUME TypeOK, InstallStep
  PROVE  /\ command \in Runs /\ command.at \in Reading
         /\ UNCHANGED <<bundleVars, hostVars>>
         /\ command'.at = "refused" \/ SameRun
<1> USE DEF bundleVars, runtimeVars, enrollVars, hostVars
<1>1. ASSUME NEW t \in Targets, KeepFile(t) \/ BackUp(t) \/ WriteFile(t)
      PROVE  /\ command \in Runs /\ command.at \in Reading /\ SameRun
             /\ UNCHANGED <<bundleVars, hostVars>>
      <2>1. command.at \in Reading /\ command \in Runs
            BY <1>1, CommandKinds
            DEF KeepFile, BackUp, WriteFile, Installing, Targets, Reading
      <2>2. After(t) \in Reading BY DEF After, Reading
      <2>3. CASE BackUp(t) BY <2>1, <2>3 DEF BackUp, SameRun
      <2>4. CASE KeepFile(t) BY <2>1, <2>2, <2>4, NextStep DEF KeepFile, SameRun
      <2>5. CASE WriteFile(t) BY <2>1, <2>2, <2>5, NextStep DEF WriteFile, SameRun
      <2> QED BY <1>1, <2>3, <2>4, <2>5
<1>2. CASE SkipCertificate
      BY <1>2, CommandKinds, NextStep DEF SkipCertificate, SameRun, Reading
<1>3. CASE ConfirmDatabaseRole
      BY <1>3, CommandKinds, NextStep DEF ConfirmDatabaseRole, SameRun, Reading
<1>4. CASE EnsureReaderSecret
      BY <1>4, CommandKinds, NextStep DEF EnsureReaderSecret, SameRun, Reading
<1>5. CASE OwnRuntime
      BY <1>5, CommandKinds, NextStep DEF OwnRuntime, SameRun, Reading
<1>6. CASE OwnSecret
      BY <1>6, CommandKinds, NextStep DEF OwnSecret, SameRun, Reading
<1>7. CASE CheckSource
      BY <1>7, CommandKinds, NextStep DEF CheckSource, SameRun, Reading
<1>8. CASE \/ KeepIdentity \/ LoadAttempt \/ CreateAttempt \/ WriteAttempt
           \/ Enroll \/ CompleteAttempt
      <2>1. command.at \in Reading
            BY <1>8 DEF KeepIdentity, LoadAttempt, CreateAttempt, WriteAttempt, Enroll,
               CompleteAttempt, Enrolling, Reading
      <2>2. command \in Runs BY <2>1, CommandKinds
      <2>3. SameRun
            BY <1>8, <2>2, NextStep
            DEF KeepIdentity, LoadAttempt, CreateAttempt, WriteAttempt, Enroll,
                CompleteAttempt, SameRun, Reading
      <2> QED BY <1>8, <2>1, <2>2, <2>3
              DEF KeepIdentity, LoadAttempt, CreateAttempt, WriteAttempt, Enroll, CompleteAttempt
<1>9. CASE OwnIdentity
      BY <1>9, CommandKinds, NextStep DEF OwnIdentity, SameRun, Reading
<1>10. CASE Doctor \/ Activate
      BY <1>10, CommandKinds, NextStep DEF Doctor, Activate, SameRun, Reading
<1>11. CASE InstallRefuses
      <2>1. command.at \in Reading
            BY <1>11 DEF InstallRefuses, Installing, Targets, Reading
      <2> QED BY <1>11, <2>1, CommandKinds DEF InstallRefuses, Refuse, Refused
<1> QED BY <1>1, <1>2, <1>3, <1>4, <1>5, <1>6, <1>7, <1>8, <1>9, <1>10, <1>11
        DEF InstallStep

(* Any other step begins or ends a command, belongs to init or to nobody's *)
(* command; or the database, the console or the clock moves on alone.      *)
LEMMA OthersKeepOff ==
  ASSUME TypeOK, [Next]_vars, ~InstallStep
  PROVE  \/ command'.at \in {"idle", "generate", "refused", "config"}
         \/ /\ UNCHANGED <<command, bundleVars, runtimeVars, secret, identity>>
            /\ granted \subseteq granted'
<1> USE DEF bundleVars, runtimeVars, enrollVars, hostVars
<1>i. Idle.at = "idle" BY DEF Idle
<1>1. ASSUME NEW a \in Answers, Generate(a) PROVE command'.at = "generate"
      BY <1>1 DEF Generate
<1>2. ASSUME NEW name \in Names, WriteArtifact(name) PROVE command'.at = "generate"
      <2>1. command \in Generations BY <1>2, CommandKinds DEF WriteArtifact
      <2> QED BY <1>2, <2>1 DEF WriteArtifact, Generations
<1>3. CASE WriteManifest \/ GenerateDies \/ Interrupt \/ AttemptFails
      BY <1>3, <1>i DEF WriteManifest, GenerateDies, Interrupt, AttemptFails
<1>4. ASSUME NEW option \in Options, LoadBundle(option) \/ MigrateBundle(option)
      PROVE  command'.at \in {"idle", "refused", "config"}
      BY <1>4, <1>i DEF LoadBundle, MigrateBundle, Run, Refused
<1>5. CASE Edit BY <1>5, <1>i DEF Edit
<1>6. ASSUME NEW role \in Roles, SecretSet(role) PROVE command'.at = "idle"
      BY <1>6, <1>i DEF SecretSet, Start
<1>7. ASSUME NEW role \in Roles, Grant(role) \/ Configure(role)
      PROVE  /\ UNCHANGED <<command, bundleVars, runtimeVars, secret, identity>>
             /\ granted \subseteq granted'
      BY <1>7 DEF Grant, Configure
<1>8. CASE Tick BY <1>8 DEF Tick
<1>9. CASE UNCHANGED vars BY <1>9 DEF vars
<1> QED BY <1>1, <1>2, <1>3, <1>4, <1>5, <1>6, <1>7, <1>8, <1>9 DEF Next, Names

-----------------------------------------------------------------------------
(* What a run has verified stays on disk while it runs.                    *)
LEMMA BundleStep == TypeOK /\ BundleInv /\ [Next]_vars => BundleInv'
<1> SUFFICES ASSUME TypeOK, BundleInv, [Next]_vars PROVE BundleInv'
    OBVIOUS
<1> USE DEF bundleVars
<1>i. Idle.at = "idle" BY DEF Idle
<1>1. CASE InstallStep
      <2>1. /\ command.at \in Reading /\ UNCHANGED <<marker, artifacts, manifest>>
            /\ command'.at = "refused" \/ SameRun
            BY <1>1, InstallGoesOn
      <2>2. SameRun => command'.at # "generate" /\ command'.answers = command.answers
            BY DEF SameRun, Runs, Reading
      <2> QED BY <2>1, <2>2 DEF BundleInv, Reading, Whole
<1>2. ASSUME NEW a \in Answers, Generate(a) PROVE BundleInv'
      BY <1>2 DEF Generate, BundleInv, Reading, Whole
<1>3. ASSUME NEW name \in Names, WriteArtifact(name) PROVE BundleInv'
      <2>1. command'.at = "generate"
            <3>1. command \in Generations BY <1>3, CommandKinds DEF WriteArtifact
            <3> QED BY <1>3, <3>1 DEF WriteArtifact, Generations
      <2>2. marker' = "v2" BY <1>3 DEF WriteArtifact, BundleInv
      <2> QED BY <2>1, <2>2 DEF BundleInv, Reading
<1>4. CASE WriteManifest BY <1>4, <1>i DEF WriteManifest, BundleInv, Reading
<1>5. CASE GenerateDies BY <1>5, <1>i DEF GenerateDies, BundleInv, Reading
<1>6. ASSUME NEW option \in Options, LoadBundle(option) PROVE BundleInv'
      BY <1>6 DEF LoadBundle, Verified, Run, Refused, BundleInv, Reading, Whole
<1>7. ASSUME NEW option \in Options, MigrateBundle(option) PROVE BundleInv'
      <2>1. artifacts["roles.sql"] = artifacts["connector.yaml"] /\ UNCHANGED <<marker, artifacts>>
            BY <1>7 DEF MigrateBundle, Migratable, BundleInv
      <2>3. Whole(manifest') => manifest'.answers = artifacts["connector.yaml"]
            BY <1>7 DEF MigrateBundle, Whole
      <2>2. \/ command'.at = "idle"
            \/ command'.at = "config" /\ command'.answers = artifacts["connector.yaml"]
            BY <1>7, <1>i DEF MigrateBundle, Run
      <2> QED BY <2>1, <2>2, <2>3 DEF BundleInv, Reading, Listed, Whole
<1>8. CASE Interrupt \/ AttemptFails
      BY <1>8, <1>i DEF Interrupt, AttemptFails, BundleInv, Reading, Whole
<1>9. ASSUME NEW role \in Roles, SecretSet(role) \/ Grant(role) \/ Configure(role)
      PROVE  BundleInv'
      BY <1>9 DEF SecretSet, Grant, Configure, BundleInv, Whole
<1>10. CASE Edit \/ Tick BY <1>10 DEF Edit, Tick, BundleInv, Whole
<1>11. CASE UNCHANGED vars BY <1>11 DEF vars, BundleInv, Whole
<1> QED BY <1>1, <1>2, <1>3, <1>4, <1>5, <1>6, <1>7, <1>8, <1>9, <1>10, <1>11
        DEF Next, Names

(* Each file that a run has passed is as it wants it.  A file that is      *)
(* written takes the configuration from the service's group until          *)
(* OwnRuntime gives it back, so the two never follow one another.          *)
LEMMA RuntimeStep == TypeOK /\ RuntimeInv /\ [Next]_vars => RuntimeInv'
<1> SUFFICES ASSUME TypeOK, RuntimeInv, [Next]_vars PROVE RuntimeInv'
    OBVIOUS
<1> USE DEF bundleVars, runtimeVars, enrollVars, Protected, Checked, Identified
<1>1. CASE ~InstallStep
      <2>1. CASE command'.at \in {"idle", "generate", "refused", "config"}
            BY <2>1 DEF RuntimeInv, Reading
      <2>2. CASE UNCHANGED <<command, runtimeVars>>
            BY <2>2 DEF RuntimeInv, CertificateDone
      <2> QED BY <1>1, <2>1, <2>2, OthersKeepOff
<1>2. ASSUME InstallStep, command'.at # "refused" PROVE RuntimeInv'
      <2>1. command \in Runs /\ SameRun BY <1>2, InstallGoesOn
      <2>k. /\ command'.answers = command.answers /\ command'.legacy = command.legacy
            /\ command'.inputs = command.inputs
            BY <2>1 DEF SameRun
      <2>2. ASSUME NEW t \in Targets, KeepFile(t) \/ WriteFile(t) PROVE RuntimeInv'
            <3>1. command.at = t /\ command'.at = After(t)
                  BY <2>1, <2>2 DEF KeepFile, WriteFile, Installing, At, Runs
            <3>2. live'[t] = Wanted(t)
                  BY <2>2 DEF KeepFile, WriteFile, TypeOK
            <3>3. \A u \in Targets \ {t} : live'[u] = live[u]
                  BY <2>2 DEF KeepFile, WriteFile, TypeOK
            <3>4. CASE t = "config"
                  BY <2>k, <3>1, <3>2, <3>4 DEF RuntimeInv, After, Wanted, Reading
            <3>5. CASE t = "certificate"
                  <4>1. live'["config"] = command.answers
                        BY <3>1, <3>3, <3>5 DEF RuntimeInv, Reading, Targets
                  <4>2. CertificateDone'
                        BY <2>k, <3>2, <3>5 DEF CertificateDone, Wanted
                  <4> QED BY <2>k, <3>1, <3>5, <4>1, <4>2 DEF RuntimeInv, After, Reading
            <3> QED BY <3>4, <3>5 DEF Targets
      <2>3. ASSUME NEW t \in Targets, BackUp(t) PROVE RuntimeInv'
            <3>1. command.at = t /\ UNCHANGED command BY <2>3 DEF BackUp, Installing
            <3>2. \A u \in Targets \ {t} : live'[u] = live[u]
                  BY <2>3 DEF BackUp, TypeOK
            <3>3. CASE t = "config" BY <3>1, <3>3 DEF RuntimeInv, Reading
            <3>4. CASE t = "certificate"
                  BY <3>1, <3>2, <3>4 DEF RuntimeInv, Reading, Targets
            <3> QED BY <3>3, <3>4 DEF Targets
      <2>4. CASE SkipCertificate
            <3>1. command.at = "certificate" /\ command'.at = "confirm" /\ UNCHANGED live
                  BY <2>1, <2>4 DEF SkipCertificate, At, Runs
            <3>2. CertificateDone'
                  BY <2>k, <2>4 DEF SkipCertificate, CertificateSettled, CertificateDone
            <3> QED BY <2>k, <3>1, <3>2 DEF RuntimeInv, Reading
      <2>5. CASE OwnRuntime
            <3>1. command.at = "own" /\ command'.at = "own-secret" /\ UNCHANGED live /\ readable'
                  BY <2>1, <2>5 DEF OwnRuntime, At, Runs
            <3>2. CertificateDone' = CertificateDone
                  BY <2>k, <3>1 DEF CertificateDone
            <3> QED BY <2>k, <3>1, <3>2 DEF RuntimeInv, Reading
      <2>6. CASE ConfirmDatabaseRole \/ EnsureReaderSecret
            <3>1. /\ command.at \in {"confirm", "secret"} /\ command'.at \in {"secret", "own"}
                  /\ UNCHANGED live
                  BY <2>1, <2>6 DEF ConfirmDatabaseRole, EnsureReaderSecret, At, Runs
            <3>2. CertificateDone' = CertificateDone
                  BY <2>k, <3>1 DEF CertificateDone
            <3> QED BY <2>k, <3>1, <3>2 DEF RuntimeInv, Reading
      <2>7. CASE \/ OwnSecret \/ CheckSource \/ KeepIdentity \/ LoadAttempt \/ CreateAttempt
                 \/ WriteAttempt \/ Enroll \/ CompleteAttempt \/ OwnIdentity \/ Doctor \/ Activate
            <3>1. /\ command.at \in {"own-secret"} \cup Protected /\ UNCHANGED <<live, readable>>
                  BY <2>7 DEF OwnSecret, CheckSource, KeepIdentity, LoadAttempt, CreateAttempt,
                     WriteAttempt, Enroll, CompleteAttempt, Enrolling, OwnIdentity, Doctor, Activate
            <3>2. CertificateDone' = CertificateDone
                  BY <2>k, <3>1 DEF CertificateDone
            <3> QED BY <2>k, <3>1, <3>2 DEF RuntimeInv, Reading
      <2> QED BY <1>2, <2>2, <2>3, <2>4, <2>5, <2>6, <2>7
              DEF InstallStep, InstallRefuses, Refuse, Refused
<1>3. CASE command'.at = "refused" BY <1>3 DEF RuntimeInv, Reading
<1> QED BY <1>1, <1>2, <1>3

(* From ensureReaderSecret on there is a password unless the source is     *)
(* pending, from protectSystemdOwnership on it is the service's alone, and *)
(* from checkSource on the database has admitted the reader.               *)
LEMMA SecretStep == TypeOK /\ SecretInv /\ [Next]_vars => SecretInv'
<1> SUFFICES ASSUME TypeOK, SecretInv, [Next]_vars PROVE SecretInv'
    OBVIOUS
<1> USE DEF bundleVars, runtimeVars, enrollVars, hostVars, Ensured, Protected, Checked, Identified
<1>1. CASE ~InstallStep
      <2>1. CASE command'.at \in {"idle", "generate", "refused", "config"}
            BY <2>1 DEF SecretInv
      <2>2. CASE UNCHANGED <<command, secret>> /\ granted \subseteq granted'
            BY <2>2 DEF SecretInv, Pending, Admitted
      <2> QED BY <1>1, <2>1, <2>2, OthersKeepOff
<1>2. ASSUME InstallStep, command'.at # "refused" PROVE SecretInv'
      <2>1. command \in Runs /\ SameRun /\ UNCHANGED granted BY <1>2, InstallGoesOn
      <2>k. Pending' = Pending BY <2>1 DEF SameRun, Pending
      <2>a. UNCHANGED secret => Admitted' = Admitted BY <2>1 DEF SameRun, Admitted
      <2>2. ASSUME NEW t \in Targets, KeepFile(t) \/ BackUp(t) \/ WriteFile(t) PROVE SecretInv'
            <3>1. command'.at \in {"config", "certificate", "confirm"}
                  BY <2>1, <2>2
                  DEF KeepFile, BackUp, WriteFile, Installing, At, After, Runs, Targets
            <3> QED BY <3>1 DEF SecretInv
      <2>3. CASE SkipCertificate \/ ConfirmDatabaseRole
            <3>1. command'.at \in {"confirm", "secret"}
                  BY <2>1, <2>3 DEF SkipCertificate, ConfirmDatabaseRole, At, Runs
            <3> QED BY <3>1 DEF SecretInv
      <2>4. CASE EnsureReaderSecret
            <3>1. command'.at = "own" BY <2>1, <2>4 DEF EnsureReaderSecret, At, Runs
            <3>2. ~Pending => secret' # Absent
                  <4>1. ASSUME NEW role \in Roles
                        PROVE  [role |-> role, owned |-> FALSE, exposed |-> FALSE] # Absent
                        <5>1. [role |-> role, owned |-> FALSE, exposed |-> FALSE]
                                \in [role : Roles, owned : BOOLEAN, exposed : BOOLEAN]
                              OBVIOUS
                        <5> QED BY <5>1, AbsentIsNeither
                  <4>2. ~Pending => command.reader \in Roles BY <2>1 DEF Pending, Runs
                  <4> QED BY <2>4, <4>1, <4>2 DEF EnsureReaderSecret
            <3> QED BY <2>k, <3>1, <3>2 DEF SecretInv
      <2>5. CASE OwnRuntime
            <3>1. command.at = "own" /\ command'.at = "own-secret" /\ UNCHANGED secret
                  BY <2>1, <2>5 DEF OwnRuntime, At, Runs
            <3> QED BY <2>k, <3>1 DEF SecretInv
      <2>6. CASE OwnSecret
            <3>1. command.at = "own-secret" /\ command'.at = "check"
                  BY <2>1, <2>6 DEF OwnSecret, At, Runs
            <3>2. secret = Absent => secret' = Absent BY <2>6 DEF OwnSecret
            <3>3. secret # Absent => secret' # Absent /\ secret'.owned /\ ~secret'.exposed
                  <4>1. ASSUME secret # Absent
                        PROVE  /\ secret' \in [role : Roles, owned : BOOLEAN, exposed : BOOLEAN]
                               /\ secret'.owned /\ ~secret'.exposed
                        BY <2>6, <4>1 DEF OwnSecret, TypeOK
                  <4> QED BY <4>1, AbsentIsNeither
            <3> QED BY <2>k, <3>1, <3>2, <3>3 DEF SecretInv
      <2>7. CASE CheckSource
            <3>1. command.at = "check" /\ command'.at = "identity" /\ UNCHANGED secret
                  BY <2>1, <2>7 DEF CheckSource, At, Runs
            <3>2. Pending \/ Admitted BY <2>7 DEF CheckSource
            <3> QED BY <2>k, <2>a, <3>1, <3>2 DEF SecretInv
      <2>8. CASE \/ KeepIdentity \/ LoadAttempt \/ CreateAttempt \/ WriteAttempt \/ Enroll
                 \/ CompleteAttempt \/ OwnIdentity \/ Doctor \/ Activate
            <3>1. command.at \in Checked /\ UNCHANGED secret
                  BY <2>8 DEF KeepIdentity, LoadAttempt, CreateAttempt, WriteAttempt, Enroll,
                     CompleteAttempt, Enrolling, OwnIdentity, Doctor, Activate
            <3> QED BY <2>k, <2>a, <3>1 DEF SecretInv
      <2> QED BY <1>2, <2>2, <2>3, <2>4, <2>5, <2>6, <2>7, <2>8
              DEF InstallStep, InstallRefuses, Refuse, Refused
<1>3. CASE command'.at = "refused" BY <1>3 DEF SecretInv
<1> QED BY <1>1, <1>2, <1>3

(* Once the connector is enrolled its identity is the organization's, and  *)
(* once OwnIdentity has run it is the service's.                           *)
LEMMA IdentityStep == TypeOK /\ IdentityInv /\ [Next]_vars => IdentityInv'
<1> SUFFICES ASSUME TypeOK, IdentityInv, [Next]_vars PROVE IdentityInv'
    OBVIOUS
<1> USE DEF bundleVars, runtimeVars, enrollVars, hostVars, Identified
<1>1. CASE ~InstallStep
      <2>1. CASE command'.at \in {"idle", "generate", "refused", "config"}
            BY <2>1 DEF IdentityInv
      <2>2. CASE UNCHANGED <<command, identity>> BY <2>2 DEF IdentityInv
      <2> QED BY <1>1, <2>1, <2>2, OthersKeepOff
<1>2. ASSUME InstallStep, command'.at # "refused" PROVE IdentityInv'
      <2>1. command \in Runs /\ SameRun BY <1>2, InstallGoesOn
      <2>k. command'.answers = command.answers BY <2>1 DEF SameRun
      <2>2. ASSUME NEW t \in Targets, KeepFile(t) \/ BackUp(t) \/ WriteFile(t) PROVE IdentityInv'
            <3>1. command'.at \in {"config", "certificate", "confirm"}
                  BY <2>1, <2>2
                  DEF KeepFile, BackUp, WriteFile, Installing, At, After, Runs, Targets
            <3> QED BY <3>1 DEF IdentityInv
      <2>3. CASE \/ SkipCertificate \/ ConfirmDatabaseRole \/ EnsureReaderSecret
                 \/ OwnRuntime \/ OwnSecret \/ CheckSource
            <3>1. command'.at \in {"confirm", "secret", "own", "own-secret", "check", "identity"}
                  BY <2>1, <2>3
                  DEF SkipCertificate, ConfirmDatabaseRole, EnsureReaderSecret, OwnRuntime,
                      OwnSecret, CheckSource, At, Runs
            <3> QED BY <3>1 DEF IdentityInv
      <2>4. CASE KeepIdentity
            <3>1. command'.at = "own-identity" BY <2>1, <2>4 DEF KeepIdentity, At, Runs
            <3>2. /\ identity' # Absent /\ identity'.usable
                  /\ identity'.organization = command.answers.organization
                  BY <2>4 DEF KeepIdentity
            <3> QED BY <2>k, <3>1, <3>2 DEF IdentityInv
      <2>5. CASE LoadAttempt \/ CreateAttempt \/ WriteAttempt
            <3>1. command'.at \in {"attempt", "exchange"}
                  BY <2>1, <2>5 DEF LoadAttempt, CreateAttempt, WriteAttempt, At, Runs
            <3>2. identity' = Absent
                  BY <2>5 DEF LoadAttempt, CreateAttempt, WriteAttempt, Enrolling, IdentityInv
            <3> QED BY <3>1, <3>2 DEF IdentityInv
      <2>6. CASE Enroll
            <3>1. command'.at = "complete" BY <2>1, <2>6 DEF Enroll, At, Runs
            <3>2. command.answers.organization \in Organizations
                  BY <2>1, InstallationAssumption DEF Runs
            <3>3. /\ identity' \in Identities /\ identity'.usable
                  /\ identity'.organization = command.answers.organization
                  BY <2>6, <3>2 DEF Enroll, Identities
            <3> QED BY <2>k, <3>1, <3>3, AbsentIsNeither DEF IdentityInv
      <2>7. CASE CompleteAttempt
            <3>1. command.at = "complete" /\ command'.at = "own-identity" /\ UNCHANGED identity
                  BY <2>1, <2>7 DEF CompleteAttempt, At, Runs
            <3> QED BY <2>k, <3>1 DEF IdentityInv
      <2>8. CASE OwnIdentity
            <3>1. command.at = "own-identity" /\ command'.at = "doctor"
                  BY <2>1, <2>8 DEF OwnIdentity, At, Runs
            <3>2. /\ identity \in Identities /\ identity.usable
                  /\ identity.organization = command.answers.organization
                  BY <3>1 DEF IdentityInv, TypeOK, Identities
            <3>3. /\ identity' \in Identities /\ identity'.usable /\ identity'.owned
                  /\ identity'.organization = identity.organization
                  BY <2>8, <3>2 DEF OwnIdentity, Identities
            <3> QED BY <2>k, <3>1, <3>2, <3>3, AbsentIsNeither DEF IdentityInv
      <2>9. CASE Doctor \/ Activate
            <3>1. /\ command.at \in {"doctor", "activate"} /\ command'.at \in {"activate", "done"}
                  /\ UNCHANGED identity
                  BY <2>1, <2>9 DEF Doctor, Activate, At, Runs
            <3> QED BY <2>k, <3>1 DEF IdentityInv
      <2> QED BY <1>2, <2>2, <2>3, <2>4, <2>5, <2>6, <2>7, <2>8, <2>9
              DEF InstallStep, InstallRefuses, Refuse, Refused
<1>3. CASE command'.at = "refused" BY <1>3 DEF IdentityInv
<1> QED BY <1>1, <1>2, <1>3

(* The inductive invariant holds throughout.                               *)
LEMMA IInvAlways == Spec => []IInv
<1>1. IInv /\ [Next]_vars => IInv'
      BY TypeStep, BundleStep, RuntimeStep, SecretStep, IdentityStep DEF IInv
<1> QED BY <1>1, InitIInv, PTL DEF Spec

-----------------------------------------------------------------------------
(* Every file and every command keeps its type, through every repair,      *)
(* interruption and edit (internal/installer, internal/initializer).       *)
THEOREM TypeCorrect == Spec => []TypeOK
BY IInvAlways, PTL DEF IInv

(* finishInstall's "Installation checks passed" is true whenever it is     *)
(* said, whatever earlier runs left behind and whatever the database and   *)
(* the console do meanwhile.                                               *)
THEOREM FinishedIsWhole == Spec => []FinishedInstallIsWhole
<1>1. ASSUME IInv PROVE FinishedInstallIsWhole
      <2> SUFFICES ASSUME command.at = "done" PROVE FinishedInstallIsWhole
          BY DEF FinishedInstallIsWhole
      <2> USE <1>1 DEF IInv, Identified, Checked, Protected, Ensured
      <2>1. live["config"] = command.answers /\ readable /\ CertificateDone
            BY DEF RuntimeInv, Reading
      <2>2. \A name \in Listed(command.answers) : artifacts[name] = command.answers
            BY DEF BundleInv, Reading
      <2>3. /\ secret # Absent => secret.owned /\ ~secret.exposed
            /\ ~Pending => Admitted
            BY DEF SecretInv
      <2>4. identity = [organization |-> command.answers.organization, owned |-> TRUE,
                        usable |-> TRUE]
            <3>1. /\ identity \in Identities /\ identity.owned /\ identity.usable
                  /\ identity.organization = command.answers.organization
                  BY DEF IdentityInv, TypeOK, Identities
            <3>2. identity.owned = TRUE /\ identity.usable = TRUE BY <3>1 DEF Identities
            <3> QED BY <3>1, <3>2 DEF Identities
      <2> QED BY <2>1, <2>2, <2>3, <2>4 DEF FinishedInstallIsWhole, CertificateDone
<1> QED BY <1>1, IInvAlways, PTL

(* Every refusal of an install given --repair and every input has one of   *)
(* the causes RefusedForCause lists: something for the operator, the DBA   *)
(* or the console, or one of the two files written in place, the manifest  *)
(* of a version 1 directory and the pending enrollment, cut short.         *)
(* Nothing else an interrupted run leaves makes the next one stop          *)
(* (installer.go, Run; initializer.go, LoadBundle; identity.go,            *)
(* LoadOrCreateEnrollmentAttempt).                                         *)
THEOREM RefusedOnlyForCause == Spec => RefusedForCause
<1>1. ASSUME IInv, NEW option \in Options, LoadBundle(option), command'.at = "refused"
      PROVE  command = Idle /\ BundleCause
      <2>1. command = Idle BY <1>1 DEF LoadBundle, Start
      <2>2. ~Migratable /\ ~(Verified(manifest) /\ Loads(manifest.answers))
            BY <1>1 DEF LoadBundle, Run
      <2>3. CASE Verified(manifest)
            <3>1. artifacts["connector.yaml"] = manifest.answers
                  BY <2>3 DEF Verified, Listed
            <3> QED BY <2>1, <2>2, <2>3, <3>1 DEF BundleCause
      <2>4. CASE ~Verified(manifest) /\ marker = "v1"
            <3>1. /\ artifacts["connector.yaml"] \in Answers
                  /\ artifacts["roles.sql"] = artifacts["connector.yaml"]
                  /\ Whole(manifest) => manifest.answers = artifacts["connector.yaml"]
                  BY <1>1, <2>4 DEF IInv, BundleInv
            <3>2. ~Whole(manifest) BY <2>4, <3>1 DEF Verified, Listed
            <3>3. ASSUME manifest = Absent, Loads(artifacts["connector.yaml"]) PROVE FALSE
                  <4>1. \A name \in DOMAIN artifacts : artifacts[name] = artifacts["connector.yaml"]
                        BY <1>1, <3>1 DEF IInv, TypeOK
                  <4>2. artifacts["connector.yaml"] \notin {Absent, Torn}
                        BY <3>1, AnswersAreWhole
                  <4> QED BY <2>2, <2>4, <3>3, <4>1, <4>2 DEF Migratable
            <3> QED BY <2>1, <3>2, <3>3 DEF BundleCause, Whole
      <2>5. CASE ~Verified(manifest) /\ marker # "v1" BY <2>1, <2>5 DEF BundleCause
      <2> QED BY <2>3, <2>4, <2>5
<1>2. ASSUME IInv, InstallStep, command'.at = "refused", command'.repair, command'.inputs = Inputs
      PROVE  command # Idle /\ RunCause
      <2>1. command \in Runs /\ command.at \in Reading BY <1>2, InstallGoesOn DEF IInv
      <2>2. command # Idle BY <2>1 DEF Idle, Reading
      <2>3. InstallRefuses
            <3>1. \A t \in Targets : ~KeepFile(t) /\ ~BackUp(t) /\ ~WriteFile(t)
                  BY <1>2, <2>1 DEF KeepFile, BackUp, WriteFile, At, After, Runs, Reading
            <3>2. /\ ~SkipCertificate /\ ~ConfirmDatabaseRole /\ ~EnsureReaderSecret
                  /\ ~OwnRuntime /\ ~OwnSecret /\ ~CheckSource /\ ~OwnIdentity
                  /\ ~Doctor /\ ~Activate
                  BY <1>2, <2>1
                  DEF SkipCertificate, ConfirmDatabaseRole, EnsureReaderSecret, OwnRuntime,
                      OwnSecret, CheckSource, OwnIdentity, Doctor, Activate, At, Runs
            <3>3. /\ ~KeepIdentity /\ ~LoadAttempt /\ ~CreateAttempt /\ ~WriteAttempt
                  /\ ~Enroll /\ ~CompleteAttempt
                  BY <1>2, <2>1
                  DEF KeepIdentity, LoadAttempt, CreateAttempt, WriteAttempt, Enroll,
                      CompleteAttempt, At, Runs
            <3> QED BY <1>2, <3>1, <3>2, <3>3 DEF InstallStep
      <2>4. command.repair /\ command.inputs = Inputs
            BY <1>2, <2>3 DEF InstallRefuses, Refuse, Refused
      <2>5. CASE \E t \in Targets : Installing(t) /\ ConflictRefused(t)
            BY <2>4, <2>5 DEF ConflictRefused
      <2>6. CASE command.at = "certificate" /\ CertificateMissing
            BY <2>4, <2>6 DEF CertificateMissing, Inputs
      <2>7. CASE command.at = "confirm" /\ ConfirmationMissing
            BY <2>2, <2>4, <2>7 DEF ConfirmationMissing, Confirmed, Inputs, RunCause
      <2>8. CASE command.at = "secret" /\ SecretMissing
            BY <2>2, <2>4, <2>8 DEF SecretMissing, Inputs, RunCause
      <2>9. CASE command.at = "check" /\ ~Pending /\ ~Admitted
            <3>1. secret # Absent
                  BY <1>2, <2>9 DEF IInv, SecretInv, Ensured, Protected, Checked
            <3> QED BY <2>2, <2>9, <3>1 DEF Admitted, RunCause
      <2>10. CASE command.at = "identity" /\ EnrollmentMissing
            BY <2>2, <2>4, <2>10 DEF EnrollmentMissing, Enrolling, Organized, Inputs, RunCause
      <2> QED BY <2>3, <2>5, <2>6, <2>7, <2>8, <2>9, <2>10 DEF InstallRefuses
<1>3. ASSUME IInv, [Next]_vars, command.at # "refused", command'.at = "refused",
             command'.repair, command'.inputs = Inputs
      PROVE  IF command = Idle THEN BundleCause ELSE RunCause
      <2>i. Idle.at = "idle" BY DEF Idle
      <2>1. command' # command BY <1>3
      <2>2. /\ \A a \in Answers : ~Generate(a)
            /\ \A option \in Options : ~MigrateBundle(option)
            /\ \A role \in Roles : ~SecretSet(role)
            /\ ~Edit
            BY <1>3, <2>i DEF Generate, MigrateBundle, Run, SecretSet, Start, Edit
      <2>3. \A name \in Names : ~WriteArtifact(name)
            BY <1>3, CommandKinds DEF WriteArtifact, Generations, IInv
      <2>4. ~WriteManifest /\ ~GenerateDies /\ ~Interrupt /\ ~AttemptFails
            BY <1>3, <2>i DEF WriteManifest, GenerateDies, Interrupt, AttemptFails
      <2>5. /\ ~Tick /\ ~UNCHANGED vars
            /\ \A role \in Roles : ~Grant(role) /\ ~Configure(role)
            BY <2>1 DEF Tick, Grant, Configure, vars
      <2>6. InstallStep \/ \E option \in Options : LoadBundle(option)
            BY <1>3, <2>2, <2>3, <2>4, <2>5 DEF Next, Names
      <2> QED BY <1>1, <1>2, <1>3, <2>6
<1>4. IInv /\ [Next]_vars =>
        [command.at # "refused" /\ command'.at = "refused"
           /\ command'.repair /\ command'.inputs = Inputs =>
           IF command = Idle THEN BundleCause ELSE RunCause]_vars
      BY <1>3
<1> QED BY <1>4, IInvAlways, PTL DEF Spec, RefusedForCause

(* A command takes a runtime file away only into a backup and overwrites   *)
(* none; a stored password keeps its role and an identity its              *)
(* organization (installBytes, ensureReaderSecret, finishInstall).         *)
THEOREM ConflictsArePreserved == Spec => ConflictsPreserved
<1> DEFINE FilesKept == \A t \in Targets :
      live[t] # Absent /\ live'[t] # live[t] =>
        command.repair /\ live'[t] = Absent /\ \E s \in 0..MaxSeconds : backups'[t][s] = live[t]
<1> DEFINE SecretKept == secret # Absent => secret' # Absent /\ secret'.role = secret.role
<1> DEFINE IdentityKept ==
      identity # Absent => identity' # Absent /\ identity'.organization = identity.organization
<1> USE DEF bundleVars, runtimeVars, enrollVars, hostVars
<1>1. ASSUME TypeOK, [Next]_vars, command # Idle, ~InstallStep
      PROVE  UNCHANGED <<live, secret, identity>>
      <2>1. /\ \A a \in Answers : ~Generate(a)
            /\ \A option \in Options : ~LoadBundle(option) /\ ~MigrateBundle(option)
            /\ \A role \in Roles : ~SecretSet(role)
            /\ ~Edit
            BY <1>1 DEF Generate, LoadBundle, MigrateBundle, SecretSet, Edit, Start
      <2>2. ASSUME NEW name \in Names, WriteArtifact(name)
            PROVE  UNCHANGED <<live, secret, identity>>
            BY <2>2 DEF WriteArtifact
      <2>3. CASE WriteManifest \/ GenerateDies \/ Interrupt \/ AttemptFails \/ Tick \/ UNCHANGED vars
            BY <2>3 DEF WriteManifest, GenerateDies, Interrupt, AttemptFails, Tick, vars
      <2>4. ASSUME NEW role \in Roles, Grant(role) \/ Configure(role)
            PROVE  UNCHANGED <<live, secret, identity>>
            BY <2>4 DEF Grant, Configure
      <2> QED BY <1>1, <2>1, <2>2, <2>3, <2>4 DEF Next, Names
<1>2. ASSUME TypeOK, InstallStep PROVE FilesKept
      <2>1. CASE UNCHANGED live BY <2>1
      <2>2. ASSUME NEW t \in Targets, WriteFile(t) PROVE FilesKept
            BY <1>2, <2>2 DEF WriteFile, TypeOK
      <2>3. ASSUME NEW t \in Targets, BackUp(t) PROVE FilesKept
            <3>1. command.repair BY <2>3 DEF BackUp, ConflictRefused
            <3>2. live'[t] = Absent /\ \A u \in Targets \ {t} : live'[u] = live[u]
                  BY <1>2, <2>3 DEF BackUp, TypeOK
            <3>3. now \in 0..MaxSeconds /\ backups'[t][now] = live[t]
                  BY <1>2, <2>3 DEF BackUp, TypeOK
            <3> QED BY <3>1, <3>2, <3>3
      <2>4. UNCHANGED live \/ \E t \in Targets : WriteFile(t) \/ BackUp(t)
            BY <1>2 DEF InstallStep, KeepFile, SkipCertificate, ConfirmDatabaseRole,
               EnsureReaderSecret, OwnRuntime, OwnSecret, CheckSource, KeepIdentity, LoadAttempt,
               CreateAttempt, WriteAttempt, Enroll, CompleteAttempt, OwnIdentity,
               Doctor, Activate, InstallRefuses, Refuse
      <2> QED BY <2>1, <2>2, <2>3, <2>4
<1>3. ASSUME TypeOK, InstallStep PROVE SecretKept
      <2> SUFFICES ASSUME secret # Absent PROVE secret' # Absent /\ secret'.role = secret.role
          OBVIOUS
      <2>1. CASE UNCHANGED secret BY <2>1
      <2>2. CASE OwnSecret
            <3>1. /\ secret' \in [role : Roles, owned : BOOLEAN, exposed : BOOLEAN]
                  /\ secret'.role = secret.role
                  BY <1>3, <2>2 DEF OwnSecret, TypeOK
            <3> QED BY <3>1, AbsentIsNeither
      <2>3. UNCHANGED secret \/ OwnSecret
            BY <1>3 DEF InstallStep, KeepFile, BackUp, WriteFile, SkipCertificate,
               ConfirmDatabaseRole, EnsureReaderSecret, OwnRuntime, CheckSource, KeepIdentity,
               LoadAttempt, CreateAttempt, WriteAttempt, Enroll, CompleteAttempt,
               OwnIdentity, Doctor, Activate, InstallRefuses, Refuse
      <2> QED BY <2>1, <2>2, <2>3
<1>4. ASSUME IInv, InstallStep PROVE IdentityKept
      <2> SUFFICES ASSUME identity # Absent
                   PROVE  identity' # Absent /\ identity'.organization = identity.organization
          OBVIOUS
      <2>1. CASE UNCHANGED identity BY <2>1
      <2>2. CASE OwnIdentity
            <3>1. /\ identity' \in Identities
                  /\ identity'.organization = identity.organization
                  BY <1>4, <2>2 DEF OwnIdentity, IInv, TypeOK, Identities
            <3> QED BY <3>1, AbsentIsNeither
      <2>3. CASE Enroll BY <1>4, <2>3 DEF Enroll, IInv, IdentityInv
      <2>4. UNCHANGED identity \/ OwnIdentity \/ Enroll
            BY <1>4 DEF InstallStep, KeepFile, BackUp, WriteFile, SkipCertificate,
               ConfirmDatabaseRole, EnsureReaderSecret, OwnRuntime, OwnSecret, CheckSource,
               KeepIdentity, LoadAttempt, CreateAttempt, WriteAttempt, CompleteAttempt,
               Doctor, Activate, InstallRefuses, Refuse
      <2> QED BY <2>1, <2>2, <2>3, <2>4
<1>5. ASSUME IInv, [Next]_vars, command # Idle PROVE FilesKept /\ SecretKept /\ IdentityKept
      <2>0. TypeOK BY <1>5 DEF IInv
      <2>1. CASE InstallStep BY <1>2, <1>3, <1>4, <1>5, <2>0, <2>1
      <2>2. CASE ~InstallStep
            <3>1. UNCHANGED <<live, secret, identity>> BY <1>1, <1>5, <2>0, <2>2
            <3> QED BY <3>1
      <2> QED BY <2>1, <2>2
<1>6. IInv /\ [Next]_vars =>
        [command # Idle => FilesKept /\ SecretKept /\ IdentityKept]_vars
      BY <1>5
<1> QED BY <1>6, IInvAlways, PTL
        DEF Spec, ConflictsPreserved, FilesKept, SecretKept, IdentityKept
=============================================================================
