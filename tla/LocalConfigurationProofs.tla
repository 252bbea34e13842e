---------------------- MODULE LocalConfigurationProofs ----------------------
(***************************************************************************)
(* Proofs about LocalConfiguration, for any base configuration, requests,  *)
(* console settings and bounds.  What reaches the file was in a command's  *)
(* memory or in the bundle before, so the inductive invariant says what    *)
(* each of them holds: always a configuration that is valid by itself      *)
(* (DiskInv, CommandInv) and a grant only once a password is stored        *)
(* (PasswordInv); and, as long as no two commands have overlapped, that    *)
(* only one command runs and that what it holds was derived from the file  *)
(* as it still is (AloneInv).                                              *)
(***************************************************************************)
EXTENDS LocalConfiguration, TLAPS

(* A configuration with the fields of one that passes validation.          *)
Usable(configuration) ==
  /\ IsSource(configuration) /\ IsSafety(configuration.safety)
  /\ ValidSource(configuration)

Granting(configuration) == Usable(configuration) /\ configuration.mode = "execution"

(* A pending configuration is a discovery-only one, as it is loaded, with  *)
(* one request added.                                                      *)
Reviewed(base, pending) ==
  /\ base.mode = "discovery_only"
  /\ \E request \in Requests : \E settings \in Console \cup {NoSettings} :
       pending = Requested(Effective(base, settings), request)

BackedUp(configuration) == \E s \in DOMAIN backups : backups[s] = configuration

(* What is on disk.                                                        *)
DiskInv ==
  /\ Usable(file)
  /\ DOMAIN backups = 0..MaxSeconds /\ now \in 0..MaxSeconds
  /\ \A s \in DOMAIN backups :
       backups[s] \in {NoBackup, Truncated} \/ ValidSource(backups[s])
  /\ overlay \in Console \cup {NoSettings}
  /\ password \in Roles \cup {NoRole}
  /\ bundle.files \subseteq Artifacts
  /\ bundle.files # {} => Granting(bundle.pending)

(* What each command holds.                                                *)
ScopeInv ==
  scope # Idle =>
    /\ scope.at \in {"ask", "backup", "write"}
    /\ scope = [at |-> scope.at, configuration |-> scope.configuration]
    /\ Usable(scope.configuration)

EnableInv ==
  enable # Idle => enable.at \in {"digest", "write"} /\ Granting(enable.pending)

ApplyInv ==
  apply # Idle =>
    /\ apply.at \in {"secret", "backup", "install"}
    /\ apply = [at |-> apply.at, current |-> apply.current, pending |-> apply.pending]
    /\ Usable(apply.current) /\ Granting(apply.pending)

CommandInv == ScopeInv /\ EnableInv /\ ApplyInv

(* A configuration that grants reaches the file only after a password.     *)
PasswordInv ==
  /\ file.mode = "execution" => password # NoRole
  /\ scope # Idle /\ scope.configuration.mode = "execution" => password # NoRole
  /\ apply.at \in {"backup", "install"} => password # NoRole

(* One command at a time, its data agree with the file.                    *)
OneCommand ==
  /\ scope = Idle \/ enable = Idle
  /\ scope = Idle \/ apply = Idle
  /\ enable = Idle \/ apply = Idle

ScopeAlone ==
  /\ scope # Idle =>
       /\ scope.configuration.mode = file.mode
       /\ \/ scope.configuration.executor = file.executor
          \/ NamedByConsole(scope.configuration.executor)
  /\ scope.at = "write" => BackedUp(file)

EnableAlone ==
  /\ enable.at = "digest" => Reviewed(file, enable.pending)
  /\ enable.at = "write" => Reviewed(enable.base, enable.pending)
  /\ bundle.files # {} => Reviewed(bundle.base, bundle.pending)

ApplyAlone ==
  /\ apply # Idle => apply.current = file /\ Reviewed(file, apply.pending)
  /\ apply.at = "install" => BackedUp(file)
  /\ apply.at \in {"backup", "install"} => password = apply.pending.executor

FileAlone ==
  file.mode = "execution" =>
    enabled /\ (password = file.executor \/ NamedByConsole(file.executor))

AloneInv ==
  /\ overlapped \in BOOLEAN
  /\ ~overlapped => OneCommand /\ ScopeAlone /\ EnableAlone /\ ApplyAlone /\ FileAlone

IInv == DiskInv /\ CommandInv /\ PasswordInv /\ AloneInv

-----------------------------------------------------------------------------
(* A valid source in execution mode is configured, grants a deletion and   *)
(* names an executor other than its reader (Source.validate).              *)
THEOREM ExecutionHasExecutor ==
  ASSUME NEW source, ValidSource(source), source.mode = "execution"
  PROVE  /\ ~Pending(source) /\ ValidConfigured(source) /\ GrantsDelete(source.safety)
         /\ ValidSafety(source.safety)
         /\ source.executor \in Roles /\ source.executor # NoRole
         /\ source.executorSecret /\ source.executor # source.reader
<1>1. ~Pending(source) /\ ValidConfigured(source)
      BY DEF ValidSource, ValidPending
<1>2. GrantsDelete(source.safety) /\ ValidSafety(source.safety) /\ ValidIdentities(source)
      BY <1>1 DEF ValidConfigured
<1> QED BY <1>1, <1>2, RolesAssumption DEF ValidIdentities

(* Turning execution off and dropping the tables of a valid source leaves  *)
(* a valid source.                                                         *)
LEMMA WithdrawnIsValid ==
  ASSUME NEW source, IsSource(source), IsSafety(source.safety), ValidSource(source),
         source.mode = "execution"
  PROVE  LET new == [source EXCEPT !.mode = "discovery_only", !.safety.tables = <<>>] IN
         /\ IsSource(new) /\ IsSafety(new.safety) /\ ValidSource(new)
         /\ new.mode = "discovery_only"
<1> DEFINE new == [source EXCEPT !.mode = "discovery_only", !.safety.tables = <<>>]
           safety == [source.safety EXCEPT !.tables = <<>>]
<1>1. /\ IsSource(new) /\ new.mode = "discovery_only" /\ new.safety = safety
      /\ new.configuredBy = source.configuredBy /\ new.address = source.address
      /\ new.tls = source.tls /\ new.reader = source.reader
      /\ new.executor = source.executor /\ new.readerSecret = source.readerSecret
      /\ new.executorSecret = source.executorSecret
      BY DEF IsSource, SourceFields
<1>2. /\ IsSafety(safety) /\ safety.tables = <<>> /\ safety.schemas = source.safety.schemas
      /\ safety.maxDeleteRows = source.safety.maxDeleteRows
      /\ safety.maxBatchSize = source.safety.maxBatchSize
      /\ safety.drift = source.safety.drift
      BY DEF IsSafety, SafetyFields
<1>3. DOMAIN safety.tables = {} BY <1>2
<1>4. ~GrantsDelete(safety) BY <1>3 DEF GrantsDelete
<1>5. ValidConfigured(source) /\ ValidSafety(source.safety) /\ ~Pending(source)
      BY ExecutionHasExecutor
<1>6. ValidSafety(safety) BY <1>2, <1>3, <1>5 DEF ValidSafety
<1>7. ValidIdentities(new)
      <2>1. source.executor \in Roles /\ source.executorSecret
            /\ source.executor # source.reader /\ source.executor # NoRole
            BY ExecutionHasExecutor
      <2> QED BY <1>1, <1>5, <2>1 DEF ValidIdentities, ValidConfigured
<1>8. ~Pending(new) BY <1>1, <1>5 DEF Pending
<1>9. ValidConfigured(new)
      BY <1>1, <1>4, <1>5, <1>6, <1>7 DEF ValidConfigured
<1> QED BY <1>1, <1>2, <1>8, <1>9 DEF ValidSource

(* Loading a usable file keeps its mode and policy; its executor may be    *)
(* the console's.                                                          *)
LEMMA LoadedFields ==
  ASSUME NEW configuration, IsSource(configuration), IsSafety(configuration.safety),
         NEW settings \in Console \cup {NoSettings}
  PROVE  LET new == Effective(configuration, settings) IN
         /\ IsSource(new) /\ IsSafety(new.safety) /\ new.mode = configuration.mode
         /\ new.executor = configuration.executor \/ NamedByConsole(new.executor)
<1>1. CASE settings = NoSettings BY <1>1 DEF Effective
<1>2. CASE settings # NoSettings
      <2>1. settings \in Settings /\ settings \in Console BY <1>2, LocalAssumption
      <2> QED BY <1>2, <2>1 DEF Effective, Overlaid, IsSource, SourceFields, NamedByConsole
<1> QED BY <1>1, <1>2

(* Choosing schemas changes the schemas only.                              *)
LEMMA ScopedFields ==
  ASSUME NEW configuration, IsSource(configuration), IsSafety(configuration.safety),
         NEW chosen
  PROVE  LET new == Scoped(configuration, chosen) IN
         /\ IsSource(new) /\ IsSafety(new.safety)
         /\ new.mode = configuration.mode /\ new.executor = configuration.executor
<1> DEFINE new == Scoped(configuration, chosen)
<1>1. /\ IsSource(new) /\ new.mode = configuration.mode
      /\ new.executor = configuration.executor
      /\ new.safety = [configuration.safety EXCEPT !.schemas = chosen]
      BY DEF Scoped, IsSource, SourceFields
<1>2. IsSafety([configuration.safety EXCEPT !.schemas = chosen])
      BY DEF IsSafety, SafetyFields
<1> QED BY <1>1, <1>2

(* A request makes a configuration that executes as the role it names.     *)
LEMMA RequestedFields ==
  ASSUME NEW configuration, IsSource(configuration), IsSafety(configuration.safety),
         NEW request
  PROVE  LET new == Requested(configuration, request) IN
         /\ IsSource(new) /\ IsSafety(new.safety)
         /\ new.mode = "execution" /\ new.executor = request.role
<1> DEFINE new == Requested(configuration, request)
           tables == Append(configuration.safety.tables, request.rule)
<1>1. /\ IsSource(new) /\ new.mode = "execution" /\ new.executor = request.role
      /\ new.safety = [configuration.safety EXCEPT !.tables = tables]
      BY DEF Requested, IsSource, SourceFields
<1>2. IsSafety([configuration.safety EXCEPT !.tables = tables])
      <2> HIDE DEF tables
      <2> QED BY DEF IsSafety, SafetyFields
<1> QED BY <1>1, <1>2

(* A backup replaces the one of the same second.                           *)
LEMMA BackupFields ==
  ASSUME DiskInv, NEW content, Backup(content),
         content \in {NoBackup, Truncated} \/ ValidSource(content)
  PROVE  /\ DOMAIN backups' = 0..MaxSeconds
         /\ backups'[now] = content
         /\ \A s \in DOMAIN backups' :
              backups'[s] \in {NoBackup, Truncated} \/ ValidSource(backups'[s])
<1> HIDE DEF NoBackup, Truncated
<1> QED BY DEF Backup, DiskInv

(* A command that is at a step of its own is not idle.                     *)
LEMMA IdleIsIdle ==
  ASSUME NEW command, command.at # "idle"
  PROVE  command # Idle
BY DEF Idle
LEMMA IdleAt == Idle.at = "idle"
BY DEF Idle

-----------------------------------------------------------------------------
(* The initial state satisfies the inductive invariant.                    *)
LEMMA InitIInv == Init => IInv
<1> SUFFICES ASSUME Init PROVE IInv
    OBVIOUS
<1> USE LocalAssumption, IdleAt DEF Init
<1>1. DiskInv BY DEF DiskInv, Usable, NoBundle
<1>2. CommandInv BY DEF CommandInv, ScopeInv, EnableInv, ApplyInv
<1>3. PasswordInv BY DEF PasswordInv
<1>4. OneCommand /\ ScopeAlone /\ EnableAlone /\ ApplyAlone /\ FileAlone
      BY DEF OneCommand, ScopeAlone, EnableAlone, ApplyAlone, FileAlone, NoBundle
<1> QED BY <1>1, <1>2, <1>3, <1>4 DEF IInv, AloneInv

(* What is written to disk was a usable configuration in a command's       *)
(* memory, in the bundle or in the file.                                   *)
LEMMA DiskStep == DiskInv /\ CommandInv /\ [Next]_vars => DiskInv'
<1> SUFFICES ASSUME DiskInv, CommandInv, [Next]_vars PROVE DiskInv'
    OBVIOUS
<1> USE DEF diskVars
<1>1. CASE ScopeBackup
      <2>1. ValidSource(file) BY DEF DiskInv, Usable
      <2> QED BY <1>1, <2>1, BackupFields DEF ScopeBackup, DiskInv
<1>2. CASE ScopeWrite
      <2>1. Usable(scope.configuration)
            BY <1>2, IdleIsIdle DEF ScopeWrite, CommandInv, ScopeInv
      <2> QED BY <1>2, <2>1 DEF ScopeWrite, DiskInv
<1>3. ASSUME NEW name \in Artifacts, EnableWrite(name) PROVE DiskInv'
      <2>1. Granting(enable.pending)
            BY <1>3, IdleIsIdle DEF EnableWrite, CommandInv, EnableInv
      <2> QED BY <1>3, <2>1 DEF EnableWrite, DiskInv
<1>4. CASE Discard BY <1>4 DEF Discard, DiskInv, NoBundle
<1>5. CASE ApplySecret
      <2>1. Granting(apply.pending)
            BY <1>5, IdleIsIdle DEF ApplySecret, CommandInv, ApplyInv
      <2>2. apply.pending.executor \in Roles
            BY <2>1, ExecutionHasExecutor DEF Granting, Usable
      <2> QED BY <1>5, <2>2 DEF ApplySecret, DiskInv
<1>6. CASE ApplyBackup
      <2>1. ValidSource(apply.current)
            BY <1>6, IdleIsIdle DEF ApplyBackup, CommandInv, ApplyInv, Usable
      <2> QED BY <1>6, <2>1, BackupFields DEF ApplyBackup, DiskInv
<1>7. CASE ApplyInstall
      <2>1. Usable(apply.pending)
            BY <1>7, IdleIsIdle DEF ApplyInstall, CommandInv, ApplyInv, Granting
      <2> QED BY <1>7, <2>1 DEF ApplyInstall, DiskInv
<1>8. CASE WriteDies
      <2>1. CASE Backup(Truncated) /\ UNCHANGED <<bundle, file, overlay, password, now>>
            BY <2>1, BackupFields DEF DiskInv
      <2>2. CASE /\ enable.at = "write"
                 /\ bundle' = [files |-> bundle.files, base |-> enable.base,
                               pending |-> enable.pending]
                 /\ UNCHANGED <<backups, file, overlay, password, now>>
            <3>1. Granting(enable.pending)
                  BY <2>2, IdleIsIdle DEF CommandInv, EnableInv
            <3> QED BY <2>2, <3>1 DEF DiskInv
      <2> QED BY <1>8, <2>1, <2>2 DEF WriteDies
<1>9. CASE Withdraw
      <2>1. Usable(file')
            BY <1>9, WithdrawnIsValid DEF Withdraw, DiskInv, Usable
      <2> QED BY <1>9, <2>1 DEF Withdraw, DiskInv
<1>10. ASSUME NEW settings \in Console, Configure(settings) PROVE DiskInv'
      BY <1>10 DEF Configure, DiskInv
<1>11. CASE Tick
      <2>1. now' \in 0..MaxSeconds BY <1>11, LocalAssumption DEF Tick, DiskInv
      <2> QED BY <1>11, <2>1 DEF Tick, DiskInv
<1>12. CASE UNCHANGED <<diskVars, now>> BY <1>12 DEF DiskInv
<1>13. ScopeLoad \/ EnableDigest \/ ApplyLoad \/ CommandDies \/ RestartConnector
         \/ UNCHANGED vars => UNCHANGED <<diskVars, now>>
      BY DEF ScopeLoad, EnableDigest, ApplyLoad, CommandDies, RestartConnector, vars
<1>14. ASSUME NEW chosen, ScopeChoose(chosen) PROVE UNCHANGED <<diskVars, now>>
      BY <1>14 DEF ScopeChoose
<1>15. ASSUME NEW request, EnableLoad(request) PROVE UNCHANGED <<diskVars, now>>
      BY <1>15 DEF EnableLoad
<1> QED BY <1>1, <1>2, <1>3, <1>4, <1>5, <1>6, <1>7, <1>8, <1>9, <1>10, <1>11, <1>12,
           <1>13, <1>14, <1>15 DEF Next

(* What a command holds is valid: loading and choosing validate, and a     *)
(* bundle holds what "execution enable" validated.                         *)
LEMMA CommandStep == DiskInv /\ CommandInv /\ [Next]_vars => CommandInv'
<1> SUFFICES ASSUME DiskInv, CommandInv, [Next]_vars PROVE CommandInv'
    OBVIOUS
<1> USE IdleIsIdle
<1>1. CASE ScopeLoad
      <2>1. IsSource(Loaded(file)) /\ IsSafety(Loaded(file).safety)
            BY LoadedFields DEF Loaded, DiskInv, Usable
      <2>2. ScopeInv' BY <1>1, <2>1 DEF ScopeLoad, ScopeInv, Usable
      <2> QED BY <1>1, <2>2 DEF ScopeLoad, CommandInv, EnableInv, ApplyInv
<1>2. ASSUME NEW chosen \in SUBSET Reachable, ScopeChoose(chosen) PROVE CommandInv'
      <2>1. Usable(scope.configuration)
            BY <1>2 DEF ScopeChoose, CommandInv, ScopeInv
      <2>2. LET new == Scoped(scope.configuration, chosen)
            IN  IsSource(new) /\ IsSafety(new.safety)
            BY <2>1, ScopedFields DEF Usable
      <2>3. ScopeInv' BY <1>2, <2>2 DEF ScopeChoose, Choosable, ScopeInv, Usable
      <2> QED BY <1>2, <2>3 DEF ScopeChoose, CommandInv, EnableInv, ApplyInv
<1>3. CASE ScopeBackup
      <2>1. ScopeInv' BY <1>3 DEF ScopeBackup, CommandInv, ScopeInv
      <2> QED BY <1>3, <2>1 DEF ScopeBackup, CommandInv, EnableInv, ApplyInv
<1>4. CASE ScopeWrite
      BY <1>4 DEF ScopeWrite, CommandInv, ScopeInv, EnableInv, ApplyInv
<1>5. ASSUME NEW request \in Requests, EnableLoad(request) PROVE CommandInv'
      <2> DEFINE configuration == Loaded(file)
      <2>1. IsSource(configuration) /\ IsSafety(configuration.safety)
            BY LoadedFields DEF Loaded, DiskInv, Usable
      <2>2. ValidSource(Requested(configuration, request))
            BY <1>5 DEF EnableLoad
      <2>3. Granting(Requested(configuration, request))
            BY <2>1, <2>2, RequestedFields DEF Granting, Usable
      <2>4. enable' = [at |-> "digest", pending |-> Requested(configuration, request)]
            BY <1>5 DEF EnableLoad
      <2>5. EnableInv' BY <2>3, <2>4 DEF EnableInv
      <2> QED BY <1>5, <2>5 DEF EnableLoad, CommandInv, ScopeInv, ApplyInv
<1>6. CASE EnableDigest
      BY <1>6 DEF EnableDigest, CommandInv, ScopeInv, EnableInv, ApplyInv
<1>7. ASSUME NEW name \in Artifacts, EnableWrite(name) PROVE CommandInv'
      BY <1>7 DEF EnableWrite, CommandInv, ScopeInv, EnableInv, ApplyInv
<1>8. CASE ApplyLoad
      <2>1. Granting(bundle.pending)
            BY <1>8 DEF ApplyLoad, Appliable, DiskInv
      <2>2. ApplyInv' BY <1>8, <2>1 DEF ApplyLoad, ApplyInv, DiskInv
      <2> QED BY <1>8, <2>2 DEF ApplyLoad, CommandInv, ScopeInv, EnableInv
<1>9. CASE ApplySecret
      <2>1. ApplyInv' BY <1>9 DEF ApplySecret, CommandInv, ApplyInv
      <2> QED BY <1>9, <2>1 DEF ApplySecret, CommandInv, ScopeInv, EnableInv
<1>10. CASE ApplyBackup
      <2>1. ApplyInv' BY <1>10 DEF ApplyBackup, CommandInv, ApplyInv
      <2> QED BY <1>10, <2>1 DEF ApplyBackup, CommandInv, ScopeInv, EnableInv
<1>11. CASE ApplyInstall
      BY <1>11 DEF ApplyInstall, CommandInv, ScopeInv, EnableInv, ApplyInv
<1>12. CASE CommandDies
      BY <1>12 DEF CommandDies, CommandInv, ScopeInv, EnableInv, ApplyInv
<1>13. CASE WriteDies
      BY <1>13 DEF WriteDies, CommandInv, ScopeInv, EnableInv, ApplyInv
<1>14. CASE UNCHANGED commandVars
      BY <1>14 DEF commandVars, CommandInv, ScopeInv, EnableInv, ApplyInv
<1>15. Discard \/ Withdraw \/ RestartConnector \/ Tick \/ UNCHANGED vars
         => UNCHANGED commandVars
      BY DEF Discard, Withdraw, RestartConnector, Tick, vars, commandVars
<1>16. ASSUME NEW settings, Configure(settings) PROVE UNCHANGED commandVars
      BY <1>16 DEF Configure
<1> QED BY <1>1, <1>2, <1>3, <1>4, <1>5, <1>6, <1>7, <1>8, <1>9, <1>10, <1>11, <1>12,
           <1>13, <1>14, <1>15, <1>16 DEF Next

(* A password once stored is only ever replaced by another one, and a      *)
(* configuration in execution mode comes from the file or from apply.      *)
LEMMA PasswordStep ==
  DiskInv /\ CommandInv /\ PasswordInv /\ [Next]_vars => PasswordInv'
<1> SUFFICES ASSUME DiskInv, CommandInv, PasswordInv, [Next]_vars PROVE PasswordInv'
    OBVIOUS
<1> USE IdleIsIdle, IdleAt DEF diskVars
<1>1. CASE ScopeLoad
      <2>1. Loaded(file).mode = file.mode
            BY LoadedFields DEF Loaded, DiskInv, Usable
      <2> QED BY <1>1, <2>1 DEF ScopeLoad, PasswordInv
<1>2. ASSUME NEW chosen \in SUBSET Reachable, ScopeChoose(chosen) PROVE PasswordInv'
      <2>1. scope # Idle /\ Usable(scope.configuration)
            BY <1>2 DEF ScopeChoose, CommandInv, ScopeInv
      <2>2. Scoped(scope.configuration, chosen).mode = scope.configuration.mode
            BY <2>1, ScopedFields DEF Usable
      <2> QED BY <1>2, <2>1, <2>2 DEF ScopeChoose, PasswordInv
<1>3. CASE ScopeBackup
      BY <1>3 DEF ScopeBackup, CommandInv, ScopeInv, PasswordInv
<1>4. CASE ScopeWrite BY <1>4 DEF ScopeWrite, PasswordInv
<1>5. ASSUME NEW request \in Requests, EnableLoad(request) PROVE PasswordInv'
      BY <1>5 DEF EnableLoad, PasswordInv
<1>6. CASE EnableDigest BY <1>6 DEF EnableDigest, PasswordInv
<1>7. ASSUME NEW name \in Artifacts, EnableWrite(name) PROVE PasswordInv'
      BY <1>7 DEF EnableWrite, PasswordInv
<1>8. CASE ApplyLoad BY <1>8 DEF ApplyLoad, PasswordInv
<1>9. CASE ApplySecret
      <2>1. Granting(apply.pending)
            BY <1>9 DEF ApplySecret, CommandInv, ApplyInv
      <2>2. password' # NoRole
            BY <1>9, <2>1, ExecutionHasExecutor DEF ApplySecret, Granting, Usable
      <2> QED BY <2>2 DEF PasswordInv
<1>10. CASE ApplyBackup
      BY <1>10 DEF ApplyBackup, PasswordInv
<1>11. CASE ApplyInstall BY <1>11 DEF ApplyInstall, PasswordInv
<1>12. CASE CommandDies BY <1>12 DEF CommandDies, PasswordInv
<1>13. CASE WriteDies BY <1>13 DEF WriteDies, PasswordInv
<1>14. CASE Withdraw
      <2>1. file'.mode = "discovery_only"
            BY <1>14, WithdrawnIsValid DEF Withdraw, DiskInv, Usable
      <2> QED BY <1>14, <2>1 DEF Withdraw, commandVars, PasswordInv
<1>15. CASE UNCHANGED <<file, password, commandVars>>
      BY <1>15 DEF commandVars, PasswordInv
<1>16. Discard \/ RestartConnector \/ Tick \/ UNCHANGED vars
         => UNCHANGED <<file, password, commandVars>>
      BY DEF Discard, RestartConnector, Tick, vars
<1>17. ASSUME NEW settings, Configure(settings)
       PROVE  UNCHANGED <<file, password, commandVars>>
      BY <1>17 DEF Configure
<1> QED BY <1>1, <1>2, <1>3, <1>4, <1>5, <1>6, <1>7, <1>8, <1>9, <1>10, <1>11, <1>12,
           <1>13, <1>14, <1>15, <1>16, <1>17 DEF Next

(* A command that starts without overlapping another starts alone.         *)
LEMMA StartAlone ==
  ASSUME Start, AloneInv, ~overlapped'
  PROVE  ~overlapped /\ scope = Idle /\ enable = Idle /\ apply = Idle
BY DEF Start, AloneInv

(* One command at a time: while it runs, nothing else writes the file, so  *)
(* what it derived from it stays true of it.                               *)
LEMMA AloneStep ==
  DiskInv /\ CommandInv /\ AloneInv /\ [Next]_vars => AloneInv'
<1> SUFFICES ASSUME DiskInv, CommandInv, AloneInv, [Next]_vars PROVE AloneInv'
    OBVIOUS
<1>1. overlapped' \in BOOLEAN /\ (~overlapped' => ~overlapped)
      BY DEF AloneInv, Next, vars, startVars, Start, ScopeLoad, ScopeBackup, ScopeWrite,
             ScopeChoose, EnableLoad, EnableDigest, Discard, EnableWrite, ApplyLoad,
             ApplySecret, ApplyBackup, ApplyInstall, CommandDies, WriteDies, Withdraw,
             RestartConnector, Tick, Configure
<1> SUFFICES ASSUME ~overlapped'
             PROVE  (OneCommand /\ ScopeAlone /\ EnableAlone /\ ApplyAlone /\ FileAlone)'
    BY <1>1 DEF AloneInv
<1>2. OneCommand /\ ScopeAlone /\ EnableAlone /\ ApplyAlone /\ FileAlone
      BY <1>1 DEF AloneInv
<1> DEFINE Goal == (OneCommand /\ ScopeAlone /\ EnableAlone /\ ApplyAlone /\ FileAlone)'
<1> USE IdleIsIdle, IdleAt DEF diskVars
<1>3. CASE ScopeLoad
      <2>1. enable = Idle /\ apply = Idle BY <1>3, StartAlone DEF ScopeLoad
      <2>2. /\ Loaded(file).mode = file.mode
            /\ Loaded(file).executor = file.executor \/ NamedByConsole(Loaded(file).executor)
            BY LoadedFields DEF Loaded, DiskInv, Usable
      <2>3. OneCommand' BY <1>3, <2>1 DEF ScopeLoad, OneCommand
      <2>4. ScopeAlone' BY <1>3, <2>2 DEF ScopeLoad, ScopeAlone
      <2>5. EnableAlone' /\ ApplyAlone' /\ FileAlone'
            BY <1>2, <1>3 DEF ScopeLoad, EnableAlone, ApplyAlone, FileAlone, BackedUp
      <2> QED BY <2>3, <2>4, <2>5
<1>4. ASSUME NEW chosen \in SUBSET Reachable, ScopeChoose(chosen) PROVE Goal
      <2>1. scope # Idle /\ Usable(scope.configuration)
            BY <1>4 DEF ScopeChoose, CommandInv, ScopeInv
      <2>2. /\ Scoped(scope.configuration, chosen).mode = scope.configuration.mode
            /\ Scoped(scope.configuration, chosen).executor = scope.configuration.executor
            BY <2>1, ScopedFields DEF Usable
      <2>3. OneCommand' BY <1>2, <1>4, <2>1 DEF ScopeChoose, OneCommand
      <2>4. ScopeAlone' BY <1>2, <1>4, <2>1, <2>2 DEF ScopeChoose, ScopeAlone
      <2>5. EnableAlone' /\ ApplyAlone' /\ FileAlone'
            BY <1>2, <1>4 DEF ScopeChoose, EnableAlone, ApplyAlone, FileAlone, BackedUp
      <2> QED BY <2>3, <2>4, <2>5
<1>5. CASE ScopeBackup
      <2>1. /\ scope # Idle /\ scope.at = "backup"
            /\ scope = [at |-> scope.at, configuration |-> scope.configuration]
            BY <1>5 DEF ScopeBackup, CommandInv, ScopeInv
      <2>2. BackedUp(file)'
            <3>1. ValidSource(file) BY DEF DiskInv, Usable
            <3>2. DOMAIN backups' = 0..MaxSeconds /\ backups'[now] = file
                  BY <1>5, <3>1, BackupFields DEF ScopeBackup
            <3> QED BY <1>5, <3>2 DEF ScopeBackup, BackedUp, DiskInv
      <2>3. scope'.configuration = scope.configuration /\ file' = file
            BY <1>5, <2>1 DEF ScopeBackup
      <2>4. OneCommand' BY <1>2, <1>5, <2>1 DEF ScopeBackup, OneCommand
      <2>5. ScopeAlone' BY <1>2, <2>1, <2>2, <2>3 DEF ScopeAlone
      <2>6. apply = Idle BY <1>2, <2>1 DEF OneCommand
      <2>7. EnableAlone' /\ ApplyAlone' /\ FileAlone'
            BY <1>2, <1>5, <2>6 DEF ScopeBackup, EnableAlone, ApplyAlone, FileAlone
      <2> QED BY <2>4, <2>5, <2>7
<1>6. CASE ScopeWrite
      <2>1. scope # Idle BY <1>6 DEF ScopeWrite
      <2>2. enable = Idle /\ apply = Idle BY <1>2, <2>1 DEF OneCommand
      <2>3. OneCommand' /\ ScopeAlone' /\ EnableAlone' /\ ApplyAlone'
            BY <1>2, <1>6, <2>2
            DEF ScopeWrite, OneCommand, ScopeAlone, EnableAlone, ApplyAlone
      <2>4. FileAlone' BY <1>2, <1>6, <2>1 DEF ScopeWrite, ScopeAlone, FileAlone
      <2> QED BY <2>3, <2>4
<1>7. ASSUME NEW request \in Requests, EnableLoad(request) PROVE Goal
      <2>1. scope = Idle /\ apply = Idle BY <1>7, StartAlone DEF EnableLoad
      <2>2. Loaded(file).mode = file.mode
            BY LoadedFields DEF Loaded, DiskInv, Usable
      <2>3. /\ enable' = [at |-> "digest", pending |-> Requested(Loaded(file), request)]
            /\ Loaded(file).mode = "discovery_only"
            BY <1>7 DEF EnableLoad
      <2>4. Reviewed(file, enable'.pending)
            BY <2>2, <2>3 DEF Reviewed, Loaded, DiskInv
      <2>5. OneCommand' BY <1>7, <2>1 DEF EnableLoad, OneCommand
      <2>6. EnableAlone' BY <1>2, <1>7, <2>3, <2>4 DEF EnableLoad, EnableAlone
      <2>7. ScopeAlone' /\ ApplyAlone' /\ FileAlone'
            BY <1>2, <1>7 DEF EnableLoad, ScopeAlone, ApplyAlone, FileAlone, BackedUp
      <2> QED BY <2>5, <2>6, <2>7
<1>8. CASE EnableDigest
      <2>1. enable # Idle BY <1>8 DEF EnableDigest
      <2>2. OneCommand' BY <1>2, <1>8, <2>1 DEF EnableDigest, OneCommand
      <2>3. EnableAlone' BY <1>2, <1>8 DEF EnableDigest, EnableAlone
      <2>4. ScopeAlone' /\ ApplyAlone' /\ FileAlone'
            BY <1>2, <1>8 DEF EnableDigest, ScopeAlone, ApplyAlone, FileAlone, BackedUp
      <2> QED BY <2>2, <2>3, <2>4
<1>9. ASSUME NEW name \in Artifacts, EnableWrite(name) PROVE Goal
      <2>1. enable # Idle BY <1>9 DEF EnableWrite
      <2>2. OneCommand' BY <1>2, <1>9, <2>1 DEF EnableWrite, OneCommand
      <2>3. EnableAlone' BY <1>2, <1>9 DEF EnableWrite, EnableAlone
      <2>4. ScopeAlone' /\ ApplyAlone' /\ FileAlone'
            BY <1>2, <1>9 DEF EnableWrite, ScopeAlone, ApplyAlone, FileAlone, BackedUp
      <2> QED BY <2>2, <2>3, <2>4
<1>10. CASE Discard
      BY <1>2, <1>10 DEF Discard, commandVars, NoBundle, OneCommand, ScopeAlone,
                         EnableAlone, ApplyAlone, FileAlone, BackedUp
<1>11. CASE ApplyLoad
      <2>1. scope = Idle /\ enable = Idle BY <1>11, StartAlone DEF ApplyLoad
      <2>2. Reviewed(file, bundle.pending)
            BY <1>2, <1>11 DEF ApplyLoad, Appliable, EnableAlone
      <2>3. OneCommand' BY <1>11, <2>1 DEF ApplyLoad, OneCommand
      <2>4. ApplyAlone' BY <1>11, <2>2 DEF ApplyLoad, ApplyAlone
      <2>5. ScopeAlone' /\ EnableAlone' /\ FileAlone'
            BY <1>2, <1>11 DEF ApplyLoad, ScopeAlone, EnableAlone, FileAlone, BackedUp
      <2> QED BY <2>3, <2>4, <2>5
<1>12. CASE ApplySecret
      <2>1. /\ apply # Idle
            /\ apply = [at |-> apply.at, current |-> apply.current, pending |-> apply.pending]
            BY <1>12 DEF ApplySecret, CommandInv, ApplyInv
      <2>2. apply'.current = apply.current /\ apply'.pending = apply.pending
            /\ apply'.at = "backup" /\ password' = apply.pending.executor
            BY <1>12, <2>1 DEF ApplySecret
      <2>3. file.mode = "discovery_only" BY <1>2, <2>1 DEF ApplyAlone, Reviewed
      <2>4. OneCommand' BY <1>2, <1>12, <2>1 DEF ApplySecret, OneCommand
      <2>5. ApplyAlone' BY <1>2, <1>12, <2>1, <2>2 DEF ApplySecret, ApplyAlone
      <2>6. ScopeAlone' /\ EnableAlone' /\ FileAlone'
            BY <1>2, <1>12, <2>3 DEF ApplySecret, ScopeAlone, EnableAlone, FileAlone, BackedUp
      <2> QED BY <2>4, <2>5, <2>6
<1>13. CASE ApplyBackup
      <2>1. /\ apply # Idle /\ apply.at = "backup"
            /\ apply = [at |-> apply.at, current |-> apply.current, pending |-> apply.pending]
            /\ ValidSource(apply.current)
            BY <1>13 DEF ApplyBackup, CommandInv, ApplyInv, Usable
      <2>2. apply'.current = apply.current /\ apply'.pending = apply.pending
            /\ apply'.at = "install"
            BY <1>13, <2>1 DEF ApplyBackup
      <2>3. BackedUp(file)'
            <3>1. DOMAIN backups' = 0..MaxSeconds /\ backups'[now] = apply.current
                  BY <1>13, <2>1, BackupFields DEF ApplyBackup
            <3>2. apply.current = file BY <1>2, <2>1 DEF ApplyAlone
            <3> QED BY <1>13, <3>1, <3>2 DEF ApplyBackup, BackedUp, DiskInv
      <2>4. scope = Idle BY <1>2, <2>1 DEF OneCommand
      <2>5. OneCommand' BY <1>2, <1>13, <2>1 DEF ApplyBackup, OneCommand
      <2>6. ApplyAlone' BY <1>2, <1>13, <2>1, <2>2, <2>3 DEF ApplyBackup, ApplyAlone
      <2>7. ScopeAlone' /\ EnableAlone' /\ FileAlone'
            BY <1>2, <1>13, <2>4 DEF ApplyBackup, ScopeAlone, EnableAlone, FileAlone
      <2> QED BY <2>5, <2>6, <2>7
<1>14. CASE ApplyInstall
      <2>1. apply # Idle BY <1>14 DEF ApplyInstall
      <2>2. scope = Idle /\ enable = Idle BY <1>2, <2>1 DEF OneCommand
      <2>3. OneCommand' /\ ScopeAlone' /\ EnableAlone' /\ ApplyAlone'
            BY <1>2, <1>14, <2>2
            DEF ApplyInstall, OneCommand, ScopeAlone, EnableAlone, ApplyAlone
      <2>4. FileAlone' BY <1>2, <1>14 DEF ApplyInstall, ApplyAlone, FileAlone
      <2> QED BY <2>3, <2>4
<1>15. CASE CommandDies
      BY <1>2, <1>15 DEF CommandDies, OneCommand, ScopeAlone, EnableAlone, ApplyAlone,
                         FileAlone, BackedUp
<1>16. CASE WriteDies
      <2>1. CASE scope.at = "backup" /\ scope' = Idle /\ UNCHANGED <<bundle, enable, apply>>
            <3>1. enable = Idle /\ apply = Idle BY <1>2, <2>1 DEF OneCommand
            <3> QED BY <1>2, <1>16, <2>1, <3>1 DEF WriteDies, OneCommand, ScopeAlone,
                       EnableAlone, ApplyAlone, FileAlone
      <2>2. CASE apply.at = "backup" /\ apply' = Idle /\ UNCHANGED <<bundle, scope, enable>>
            <3>1. enable = Idle /\ scope = Idle BY <1>2, <2>2 DEF OneCommand
            <3> QED BY <1>2, <1>16, <2>2, <3>1 DEF WriteDies, OneCommand, ScopeAlone,
                       EnableAlone, ApplyAlone, FileAlone
      <2>3. CASE /\ enable.at = "write" /\ enable' = Idle
                 /\ bundle' = [files |-> bundle.files, base |-> enable.base,
                               pending |-> enable.pending]
                 /\ UNCHANGED <<backups, scope, apply>>
            <3>1. apply = Idle /\ scope = Idle BY <1>2, <2>3 DEF OneCommand
            <3> QED BY <1>2, <1>16, <2>3, <3>1 DEF WriteDies, OneCommand, ScopeAlone,
                       EnableAlone, ApplyAlone, FileAlone
      <2> QED BY <1>16, <2>1, <2>2, <2>3 DEF WriteDies
<1>17. CASE Withdraw
      <2>1. scope = Idle /\ enable = Idle /\ apply = Idle
            BY <1>17, StartAlone DEF Withdraw
      <2>2. file'.mode = "discovery_only"
            BY <1>17, WithdrawnIsValid DEF Withdraw, DiskInv, Usable
      <2> QED BY <1>2, <1>17, <2>1, <2>2 DEF Withdraw, commandVars, OneCommand,
                 ScopeAlone, EnableAlone, ApplyAlone, FileAlone
<1>18. CASE UNCHANGED <<file, backups, password, bundle, commandVars, enabled>>
      BY <1>2, <1>18 DEF commandVars, OneCommand, ScopeAlone, EnableAlone, ApplyAlone,
                         FileAlone, BackedUp
<1>19. RestartConnector \/ Tick \/ UNCHANGED vars
         => UNCHANGED <<file, backups, password, bundle, commandVars, enabled>>
      BY DEF RestartConnector, Tick, vars
<1>20. ASSUME NEW settings, Configure(settings)
       PROVE  UNCHANGED <<file, backups, password, bundle, commandVars, enabled>>
      BY <1>20 DEF Configure
<1> QED BY <1>3, <1>4, <1>5, <1>6, <1>7, <1>8, <1>9, <1>10, <1>11, <1>12, <1>13, <1>14,
           <1>15, <1>16, <1>17, <1>18, <1>19, <1>20 DEF Next

-----------------------------------------------------------------------------
(* The inductive invariant holds throughout.                               *)
LEMMA IInvAlways == Spec => []IInv
<1>1. IInv /\ [Next]_vars => IInv'
      BY DiskStep, CommandStep, PasswordStep, AloneStep DEF IInv
<1> QED BY <1>1, InitIInv, PTL DEF Spec

(* Whatever the commands, their overlaps and their interruptions leave     *)
(* behind, the file and every finished backup is a configuration that      *)
(* passes validation by itself (Set, Prepare, Apply, an editor).           *)
THEOREM FileIsAlwaysUsable == Spec => []FileStaysUsable
<1>1. IInv => FileStaysUsable
      BY DEF IInv, DiskInv, Usable, FileStaysUsable
<1> QED BY <1>1, IInvAlways, PTL

(* The file grants a deletion only once an executor's password is stored,  *)
(* and one command at a time it is that of the role in the file, or the    *)
(* console named the role (Apply stores the secret before the rename).     *)
THEOREM PasswordComesFirst == Spec => []ExecutorHasPassword
<1>1. IInv => ExecutorHasPassword
      BY DEF IInv, PasswordInv, AloneInv, FileAlone, ExecutorHasPassword
<1> QED BY <1>1, IInvAlways, PTL

(* One command at a time, the file is in execution mode only while apply   *)
(* put it there and the operator has not withdrawn it.                     *)
THEOREM ApplyAloneEnables == Spec => []OnlyApplyEnables
<1>1. IInv => OnlyApplyEnables
      BY DEF IInv, AloneInv, FileAlone, OnlyApplyEnables
<1> QED BY <1>1, IInvAlways, PTL

(* The steps that change the file.                                         *)
LEMMA FileChanges ==
  ASSUME [Next]_vars, file' # file
  PROVE  ScopeWrite \/ ApplyInstall \/ Withdraw
<1> USE DEF diskVars
<1>1. ASSUME NEW chosen, ScopeChoose(chosen) PROVE file' = file
      BY <1>1 DEF ScopeChoose
<1>2. ASSUME NEW request, EnableLoad(request) PROVE file' = file
      BY <1>2 DEF EnableLoad
<1>3. ASSUME NEW name, EnableWrite(name) PROVE file' = file
      BY <1>3 DEF EnableWrite
<1>4. ASSUME NEW settings, Configure(settings) PROVE file' = file
      BY <1>4 DEF Configure
<1>5. ScopeLoad \/ ScopeBackup \/ EnableDigest \/ Discard \/ ApplyLoad \/ ApplySecret
        \/ ApplyBackup \/ CommandDies \/ WriteDies \/ RestartConnector \/ Tick
        \/ UNCHANGED vars => file' = file
      BY DEF ScopeLoad, ScopeBackup, EnableDigest, Discard, ApplyLoad, ApplySecret,
             ApplyBackup, CommandDies, WriteDies, RestartConnector, Tick, vars
<1> QED BY <1>1, <1>2, <1>3, <1>4, <1>5 DEF Next

(* Apply replaces the contents its bundle was prepared from: the new file  *)
(* is the old one, as it was loaded, with one request added (the           *)
(* manifest's digests).                                                    *)
THEOREM ApplyIsReviewed == Spec => AppliedAsReviewed
<1> DEFINE A == ~overlapped /\ apply.at = "install" /\ file' # file =>
                  \E request \in Requests : \E settings \in Console \cup {NoSettings} :
                    file' = Requested(Effective(file, settings), request)
<1>1. IInv /\ [Next]_vars => [A]_vars
      <2> SUFFICES ASSUME IInv, [Next]_vars, ~overlapped, apply.at = "install", file' # file
                   PROVE  \E request \in Requests : \E settings \in Console \cup {NoSettings} :
                            file' = Requested(Effective(file, settings), request)
          OBVIOUS
      <2>1. OneCommand /\ ApplyAlone BY DEF IInv, AloneInv
      <2>2. apply # Idle BY IdleAt
      <2>3. scope = Idle BY <2>1, <2>2 DEF OneCommand
      <2>4. Reviewed(file, apply.pending) BY <2>1, <2>2 DEF ApplyAlone
      <2>5. ~ScopeWrite BY <2>3, IdleAt DEF ScopeWrite
      <2>6. ~Withdraw BY <2>4 DEF Withdraw, Reviewed
      <2>7. ApplyInstall BY <2>5, <2>6, FileChanges
      <2> QED BY <2>4, <2>7 DEF ApplyInstall, Reviewed
<1> QED BY <1>1, IInvAlways, PTL DEF Spec, AppliedAsReviewed

(* One command at a time, what a command is about to replace is in a       *)
(* backup (keepPrevious and Apply write it before the rename).             *)
THEOREM BackupComesFirst == Spec => BackedUpFirst
<1> DEFINE A == ~overlapped /\ (scope.at = "write" \/ apply.at = "install") /\ file' # file =>
                  \E s \in DOMAIN backups : backups[s] = file
<1>1. IInv /\ [Next]_vars => [A]_vars
      BY DEF IInv, AloneInv, ScopeAlone, ApplyAlone, BackedUp
<1> QED BY <1>1, IInvAlways, PTL DEF Spec, BackedUpFirst
=============================================================================
