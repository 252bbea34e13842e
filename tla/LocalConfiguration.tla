------------------------- MODULE LocalConfiguration -------------------------
(***************************************************************************)
(* The operator's configuration file and the commands that rewrite it:     *)
(* "source scope" (internal/scope/scope.go, Set), "execution enable" and   *)
(* "execution apply" (internal/execution/enable.go, Prepare and Apply), as *)
(* cmd/retentionops-connector/main.go runs them, beside an editor and a    *)
(* connector the console keeps configuring (module SealedConfiguration).   *)
(*                                                                         *)
(* The file describes one source.  Commands are processes of their own:    *)
(* each reads the file, thinks, and renames a new one into place; none     *)
(* takes a lock, and "source scope" waits for an answer in between.  Any   *)
(* of them may fail or be killed between two steps.                        *)
(***************************************************************************)
EXTENDS SourceConfiguration, FiniteSets

CONSTANTS
  Base,          \* the source in the file at first
  Reachable,     \* the schemas PostgreSQL lets the reader enter
  Requests,      \* what "execution enable" is asked for: [role, table rule]
  Console,       \* the settings the console may send
  MaxStarts,     \* bound: commands started and edits made
  MaxOverlapped, \* bound: the same, once two commands have overlapped
  MaxSeconds     \* bound: the clock that names the backups

ASSUME LocalAssumption ==
  /\ IsSource(Base) /\ IsSafety(Base.safety)
  /\ ValidSource(Base) /\ Base.mode = "discovery_only"
  /\ Console \subseteq Settings
  /\ MaxStarts \in Nat /\ MaxOverlapped \in Nat /\ MaxSeconds \in Nat

VARIABLES
  file,      \* disk: the operator's configuration
  backups,   \* disk: seconds -> the backup named after that second
  overlay,   \* disk: what the console has configured, or NoSettings
  password,  \* disk: whose password the executor's secret file holds
  bundle,    \* disk: the review directory, its files and their contents
  running,   \* the connector's memory
  now,       \* the clock, in seconds
  scope,     \* the scope command: its step and the configuration it holds
  enable,    \* the enable command: its step, configuration and manifest
  apply,     \* the apply command: its step and the contents it has read
  starts,
  overlapped, \* history: a command or an edit began while another ran
  enabled    \* history: applied, and not withdrawn by the operator since

diskVars    == <<file, backups, overlay, password, bundle>>
commandVars == <<scope, enable, apply>>
startVars   == <<starts, overlapped>>
vars == <<diskVars, running, now, commandVars, startVars, enabled>>

Idle      == [at |-> "idle"]
NoBundle  == [files |-> {}]
NoBackup  == [none |-> TRUE]
Truncated == [cut |-> TRUE]   \* a backup os.WriteFile did not finish
Artifacts == {"connector.yaml", "roles.sql", "execution.json", "marker"}

(* config.Load of a file with these contents.                              *)
Loaded(content) == Effective(content, overlay)

(* A command or an edit begins, perhaps while others run.                  *)
Start ==
  /\ starts < MaxStarts /\ starts' = starts + 1
  /\ overlapped' = (overlapped \/ scope # Idle \/ enable # Idle \/ apply # Idle)
  /\ overlapped' => starts < MaxOverlapped

Backup(content) == backups' = [backups EXCEPT ![now] = content]

-----------------------------------------------------------------------------
Init ==
  /\ file = Base /\ running = Base
  /\ backups = [s \in 0..MaxSeconds |-> NoBackup]
  /\ overlay = NoSettings /\ password = NoRole
  /\ bundle = NoBundle
  /\ now = 0
  /\ scope = Idle /\ enable = Idle /\ apply = Idle
  /\ starts = 0 /\ overlapped = FALSE
  /\ enabled = FALSE

(* source scope: load the configuration and show what can be entered.      *)
ScopeLoad ==
  /\ scope = Idle /\ Start
  /\ ValidSource(Loaded(file)) /\ ~Pending(Loaded(file))
  /\ scope' = [at |-> "ask", configuration |-> Loaded(file)]
  /\ UNCHANGED <<diskVars, running, now, enable, apply, enabled>>

Scoped(configuration, chosen) == [configuration EXCEPT !.safety.schemas = chosen]

(* Mutant of Choosable: the resulting configuration is not validated.      *)
ChoosableUnvalidated(configuration, chosen) == chosen # {} /\ chosen \subseteq Reachable

(* Set: schemas the reader can enter, at least one, and a valid result.    *)
Choosable(configuration, chosen) ==
  /\ chosen # {} /\ chosen \subseteq Reachable
  /\ ValidSource(Scoped(configuration, chosen))

(* The operator answers; an answer that is refused ends the command.       *)
ScopeChoose(chosen) ==
  /\ scope.at = "ask"
  /\ scope' = IF Choosable(scope.configuration, chosen)
              THEN [at |-> "backup", configuration |-> Scoped(scope.configuration, chosen)]
              ELSE Idle
  /\ UNCHANGED <<diskVars, running, now, enable, apply, startVars, enabled>>

(* Mutant of ScopeBackup: the copy is of the configuration just chosen.    *)
ScopeBackupChosen ==
  /\ scope.at = "backup"
  /\ Backup(scope.configuration)
  /\ scope' = [scope EXCEPT !.at = "write"]
  /\ UNCHANGED <<file, overlay, password, bundle, running, now, enable, apply,
                 startVars, enabled>>

(* keepPrevious copies the file as it is now.                              *)
ScopeBackup ==
  /\ scope.at = "backup"
  /\ Backup(file)
  /\ scope' = [scope EXCEPT !.at = "write"]
  /\ UNCHANGED <<file, overlay, password, bundle, running, now, enable, apply,
                 startVars, enabled>>

(* write renames the whole configuration it holds into place.              *)
ScopeWrite ==
  /\ scope.at = "write"
  /\ file' = scope.configuration
  /\ scope' = Idle
  /\ UNCHANGED <<backups, overlay, password, bundle, running, now, enable, apply,
                 startVars, enabled>>

-----------------------------------------------------------------------------
(* execution enable: a discovery-only source with the request added.       *)
Requested(configuration, request) ==
  [configuration EXCEPT !.mode = "execution", !.executor = request.role,
                        !.executorSecret = TRUE,
                        !.safety.tables = Append(@, request.rule)]

EnableLoad(request) ==
  /\ enable = Idle /\ Start
  /\ bundle = NoBundle
  /\ LET configuration == Loaded(file) IN
     /\ ValidSource(configuration)
     /\ configuration.mode = "discovery_only" /\ ~GrantsDelete(configuration.safety)
     /\ ValidSource(Requested(configuration, request))
     /\ enable' = [at |-> "digest", pending |-> Requested(configuration, request)]
  /\ UNCHANGED <<diskVars, running, now, scope, apply, enabled>>

(* The manifest records the digest of the file as it is by now.            *)
EnableDigest ==
  /\ enable.at = "digest"
  /\ enable' = [at |-> "write", pending |-> enable.pending, base |-> file]
  /\ UNCHANGED <<diskVars, running, now, scope, apply, startVars, enabled>>

(* Mutant of EnableWrite: the pending configuration is written in place.   *)
EnableWriteLive(name) ==
  /\ enable.at = "write"
  /\ name \notin bundle.files
  /\ file' = IF name = "connector.yaml" THEN enable.pending ELSE file
  /\ bundle' = [files |-> bundle.files \cup {name},
                base |-> enable.base, pending |-> enable.pending]
  /\ enable' = IF bundle'.files = Artifacts THEN Idle ELSE enable
  /\ UNCHANGED <<backups, overlay, password, running, now, scope, apply,
                 startVars, enabled>>

(* The four artifacts are written one by one, in no particular order.      *)
EnableWrite(name) ==
  /\ enable.at = "write"
  /\ name \notin bundle.files
  /\ bundle' = [files |-> bundle.files \cup {name},
                base |-> enable.base, pending |-> enable.pending]
  /\ enable' = IF bundle'.files = Artifacts THEN Idle ELSE enable
  /\ UNCHANGED <<file, backups, overlay, password, running, now, scope, apply,
                 startVars, enabled>>

(* The operator throws a bundle away.                                      *)
Discard ==
  /\ bundle # NoBundle /\ enable = Idle /\ Start
  /\ bundle' = NoBundle
  /\ UNCHANGED <<file, backups, overlay, password, running, now, commandVars,
                 enabled>>

-----------------------------------------------------------------------------
(* Mutant of Appliable: the file is not compared with the manifest.        *)
AppliableAnyBase ==
  /\ {"marker", "execution.json", "connector.yaml"} \subseteq bundle.files
  /\ ValidSource(Loaded(bundle.pending)) /\ Loaded(bundle.pending).mode = "execution"

(* Apply's checks: the marker, the manifest's two digests (equal contents),*)
(* and the pending configuration as it would be loaded.                    *)
Appliable ==
  /\ {"marker", "execution.json", "connector.yaml"} \subseteq bundle.files
  /\ bundle.base = file
  /\ ValidSource(Loaded(bundle.pending)) /\ Loaded(bundle.pending).mode = "execution"

ApplyLoad ==
  /\ apply = Idle /\ Start
  /\ Appliable
  /\ apply' = [at |-> "secret", current |-> file, pending |-> bundle.pending]
  /\ UNCHANGED <<diskVars, running, now, scope, enable, enabled>>

(* Mutant of ApplySecret: a password that is already there is kept.        *)
ApplySecretOnce ==
  /\ apply.at = "secret"
  /\ password' = IF password = NoRole THEN apply.pending.executor ELSE password
  /\ apply' = [apply EXCEPT !.at = "backup"]
  /\ UNCHANGED <<file, backups, overlay, bundle, running, now, scope, enable,
                 startVars, enabled>>

(* The password the operator gave for the reviewed role is stored first.   *)
ApplySecret ==
  /\ apply.at = "secret"
  /\ password' = apply.pending.executor
  /\ apply' = [apply EXCEPT !.at = "backup"]
  /\ UNCHANGED <<file, backups, overlay, bundle, running, now, scope, enable,
                 startVars, enabled>>

ApplyBackup ==
  /\ apply.at = "backup"
  /\ Backup(apply.current)
  /\ apply' = [apply EXCEPT !.at = "install"]
  /\ UNCHANGED <<file, overlay, password, bundle, running, now, scope, enable,
                 startVars, enabled>>

ApplyInstall ==
  /\ apply.at = "install"
  /\ file' = apply.pending
  /\ enabled' = TRUE
  /\ apply' = Idle
  /\ UNCHANGED <<backups, overlay, password, bundle, running, now, scope, enable, startVars>>

(* A command fails or is killed between two steps.                         *)
CommandDies ==
  /\ \/ scope # Idle  /\ scope' = Idle  /\ UNCHANGED <<enable, apply>>
     \/ enable # Idle /\ enable' = Idle /\ UNCHANGED <<scope, apply>>
     \/ apply # Idle  /\ apply' = Idle  /\ UNCHANGED <<scope, enable>>
  /\ UNCHANGED <<diskVars, running, now, startVars, enabled>>

(* A command fails or is killed inside os.WriteFile, which truncates before*)
(* it writes: half a backup, or half an artifact, which counts as none but *)
(* leaves the directory occupied.                                          *)
WriteDies ==
  /\ \/ /\ scope.at = "backup"
        /\ Backup(Truncated) /\ scope' = Idle
        /\ UNCHANGED <<bundle, enable, apply>>
     \/ /\ apply.at = "backup"
        /\ Backup(Truncated) /\ apply' = Idle
        /\ UNCHANGED <<bundle, scope, enable>>
     \/ /\ enable.at = "write"
        /\ bundle' = [files |-> bundle.files, base |-> enable.base, pending |-> enable.pending]
        /\ enable' = Idle
        /\ UNCHANGED <<backups, scope, apply>>
  /\ UNCHANGED <<file, overlay, password, running, now, startVars, enabled>>

-----------------------------------------------------------------------------
(* The operator turns execution off again, in an editor.                   *)
Withdraw ==
  /\ file.mode = "execution" /\ Start
  /\ file' = [file EXCEPT !.mode = "discovery_only", !.safety.tables = <<>>]
  /\ enabled' = FALSE
  /\ UNCHANGED <<backups, overlay, password, bundle, running, now, commandVars>>

(* The connector accepts settings from the console, against what it runs.  *)
Configure(settings) ==
  /\ overlay # settings
  /\ ValidSource(Overlaid(running, settings))
  /\ overlay' = settings
  /\ running' = Overlaid(running, settings)
  /\ UNCHANGED <<file, backups, password, bundle, now, commandVars, startVars,
                 enabled>>

(* The operator restarts the connector.                                    *)
RestartConnector ==
  /\ ValidSource(Loaded(file)) /\ running # Loaded(file)
  /\ running' = Loaded(file)
  /\ UNCHANGED <<diskVars, now, commandVars, startVars, enabled>>

Tick ==
  /\ now < MaxSeconds /\ now' = now + 1
  /\ UNCHANGED <<diskVars, running, commandVars, startVars, enabled>>

Next ==
  \/ ScopeLoad \/ ScopeBackup \/ ScopeWrite
  \/ \E chosen \in SUBSET Reachable : ScopeChoose(chosen)
  \/ \E request \in Requests : EnableLoad(request)
  \/ EnableDigest \/ Discard
  \/ \E name \in Artifacts : EnableWrite(name)
  \/ ApplyLoad \/ ApplySecret \/ ApplyBackup \/ ApplyInstall
  \/ CommandDies \/ WriteDies \/ Withdraw \/ RestartConnector \/ Tick
  \/ \E settings \in Console : Configure(settings)

Spec == Init /\ [][Next]_vars

-----------------------------------------------------------------------------
(* Whatever the commands and their interruptions leave behind, the file is *)
(* a configuration on its own, and so is every backup written to its end.  *)
FileStaysUsable ==
  /\ ValidSource(file)
  /\ \A s \in DOMAIN backups :
       backups[s] \notin {NoBackup, Truncated} => ValidSource(backups[s])
  /\ bundle.files \subseteq Artifacts
  /\ password \in Roles \cup {NoRole}

(* A role the console names as the executor: "source scope" writes it into *)
(* the file along with the rest of what it loaded.                         *)
NamedByConsole(role) == \E settings \in Console : settings.executor = role

(* The file never grants a deletion before an executor's password is in    *)
(* place, wherever apply was interrupted (Apply stores the secret first);  *)
(* one command at a time it is the password of the role the file lets      *)
(* delete, across retried, discarded and interrupted bundles, unless the   *)
(* console has named that role since.                                      *)
ExecutorHasPassword ==
  file.mode = "execution" =>
    /\ password # NoRole
    /\ ~overlapped => password = file.executor \/ NamedByConsole(file.executor)

(* One command at a time, the connector deletes only while the operator    *)
(* means it to: what it runs after a restart was enabled by apply and not  *)
(* withdrawn since, whatever was prepared, scoped, discarded or cut short. *)
OnlyApplyEnables == ~overlapped /\ file.mode = "execution" => enabled

(* Comment claim (internal/scope/scope.go): "Nothing here can make a       *)
(* deletion possible", of a command that waits for an answer.              *)
ScopeNeverEnables == file.mode = "execution" => enabled

(* Apply replaces the very contents its bundle was prepared from and       *)
(* reviewed against ("refuses if the live policy changed after             *)
(* preparation", docs/installation-and-operation.md): the new file differs *)
(* from the old one, as it is loaded, only by what was asked for.          *)
AppliedAsReviewed ==
  [][~overlapped /\ apply.at = "install" /\ file' # file =>
       \E request \in Requests :
         \E settings \in Console \cup {NoSettings} :
           file' = Requested(Effective(file, settings), request)]_vars

(* One command at a time, what a command replaces is in a backup by then   *)
(* (keepPrevious and Apply write it before the rename).                    *)
BackedUpFirst ==
  [][~overlapped /\ (scope.at = "write" \/ apply.at = "install") /\ file' # file =>
       \E s \in DOMAIN backups : backups[s] = file]_vars

(* Comment claim (internal/scope/scope.go, Set): the previous file is kept *)
(* beside the new one, which makes the change reversible.                  *)
PreviousKept ==
  [][\A s \in DOMAIN backups : backups[s] # NoBackup => backups'[s] = backups[s]]_vars

(* Comment claim (internal/config/config.go, Load): the operator's file is *)
(* never rewritten; what the console configured lives beside it.           *)
ConsoleStaysOutOfFile ==
  file.address = Base.address /\ file.tls = Base.tls /\ file.reader = Base.reader
=============================================================================
