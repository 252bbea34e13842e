------------------------ MODULE SealedConfiguration ------------------------
(***************************************************************************)
(* Connection settings sealed by the console, applied by the connector:    *)
(* internal/agent/configuration.go (applyOneConfiguration, openAndApply,   *)
(* acknowledgeConfiguration), internal/sealedconfig (Open, Prepare,        *)
(* OutcomeFor, Ledger), internal/config/managed.go (the overlay) and       *)
(* internal/config/config.go (Load).                                       *)
(*                                                                         *)
(* The control plane delivers an envelope until it is acknowledged.  The   *)
(* connector keeps two files: the overlay (what was configured) and a      *)
(* ledger (what came of each envelope); the running configuration is in    *)
(* memory, also read by the heartbeat goroutine.  Any step may be the last *)
(* before a crash, and any file operation may fail.                        *)
(***************************************************************************)
EXTENDS SourceConfiguration, FiniteSets

CONSTANTS
  SourceIds,
  Base,       \* SourceIds -> the source the operator's own file declares
  Envelopes,  \* what the console may seal: see EnvelopesAssumption
  MaxFaults   \* bound: crashes, failed file operations and lost answers

(* An envelope opens for this connector, or is addressed to another        *)
(* identity, or its body cannot be decoded, or only another key opens it;  *)
(* inside are the settings for one source.  It may be dated ahead of the   *)
(* connector's clock.                                                      *)
ASSUME EnvelopesAssumption ==
  \A e \in Envelopes :
    /\ e.opens \in {"yes", "wrong_recipient", "malformed", "other_key"}
    /\ e.dated \in {"early", "open"}
    /\ e.settings \in Settings

ASSUME BaseAssumption ==
  /\ DOMAIN Base = SourceIds
  /\ \A s \in SourceIds : IsSource(Base[s]) /\ ValidSource(Base[s])
  /\ MaxFaults \in Nat

VARIABLES
  pending,    \* control plane: envelopes not yet acknowledged
  acks,       \* control plane: Envelopes -> the outcomes it was told
  window,     \* Envelopes -> "early", "open" or "lapsed", tolerance included
  overlay,    \* disk: SourceIds -> Settings, or NoSettings
  ledger,     \* disk: Envelopes -> the recorded outcome, Empty or Absent
  running,    \* memory: SourceIds -> the source in force
  pc,         \* where the poll loop is in applyOneConfiguration
  current,    \* the envelope it is dealing with
  outcome,    \* the outcome it will record and acknowledge
  heartbeat,  \* the heartbeat goroutine: "waiting" or "iterating"
  faults,
  applied     \* history: Envelopes -> how often it reached the overlay

diskVars    == <<overlay, ledger>>
controlVars == <<pending, acks, window>>
vars == <<controlVars, diskVars, running, pc, current, outcome, heartbeat,
          faults, applied>>

NoEnvelope == [none |-> TRUE]
Absent     == "absent"
Empty      == "empty"    \* a ledger file created but never written
Nothing    == "nothing"
Outcomes   == {"APPLIED", "ALREADY_APPLIED", "REFUSED_UNREADABLE",
               "REFUSED_EXPIRED", "REFUSED_INVALID"}
Refusals   == Outcomes \ {"APPLIED", "ALREADY_APPLIED"}

(* ApplyManagedOverlay, and what Load makes of the two files.              *)
Merged(s) == Effective(Base[s], overlay[s])
Loads     == \A s \in SourceIds : ValidSource(Merged(s))

(* Mutant of Prepare: the TLS mode is not carried over.                    *)
PrepareWithoutTLS(e) == [Overlaid(running[e.source], e.settings) EXCEPT !.tls = running[e.source].tls]

(* sealedconfig.Prepare: the running source with the new settings.         *)
Prepare(e) == Overlaid(running[e.source], e.settings)

(* Mutant of Acceptable: the candidate is not validated.                   *)
AcceptableUnvalidated(e) == e.source \in SourceIds

(* Prepare validates the configuration that would result.                  *)
Acceptable(e) == e.source \in SourceIds /\ ValidSource(Prepare(e))

(* Open and OutcomeFor: the refusal an envelope meets, in the code's order.*)
Refusal(e) ==
  CASE e.opens = "wrong_recipient"                       -> "REFUSED_UNREADABLE"
    [] e.opens # "wrong_recipient" /\ window[e] # "open" -> "REFUSED_EXPIRED"
    [] e.opens = "malformed" /\ window[e] = "open"       -> "REFUSED_INVALID"
    [] e.opens = "other_key" /\ window[e] = "open"       -> "REFUSED_UNREADABLE"
    [] e.opens = "yes" /\ window[e] = "open" /\ ~Acceptable(e)
                                                         -> "REFUSED_INVALID"
    [] OTHER                                             -> Nothing

Fault == faults < MaxFaults /\ faults' = faults + 1

-----------------------------------------------------------------------------
Init ==
  /\ pending = {} /\ window = [e \in Envelopes |-> e.dated]
  /\ acks = [e \in Envelopes |-> {}]
  /\ overlay = [s \in SourceIds |-> NoSettings]
  /\ ledger = [e \in Envelopes |-> Absent]
  /\ running = Base
  /\ pc = "idle" /\ current = NoEnvelope /\ outcome = Nothing
  /\ heartbeat = "waiting"
  /\ faults = 0
  /\ applied = [e \in Envelopes |-> 0]

(* The console seals an envelope and the control plane stores it.          *)
Issue(e) ==
  /\ acks[e] = {} /\ e \notin pending
  /\ pending' = pending \cup {e}
  /\ UNCHANGED <<acks, window, diskVars, running, pc, current, outcome,
                 heartbeat, faults, applied>>

(* The connector's clock enters an envelope's window, and leaves it.       *)
ClockMoves(e) ==
  /\ window[e] # "lapsed"
  /\ window' = [window EXCEPT ![e] = IF @ = "early" THEN "open" ELSE "lapsed"]
  /\ UNCHANGED <<pending, acks, diskVars, running, pc, current, outcome,
                 heartbeat, faults, applied>>

(* Mutant of Answer: every redelivery is answered as a success.            *)
AnswerAlwaysApplied(previous) == "ALREADY_APPLIED"

(* Ledger.Outcome's answer for a redelivered envelope.                     *)
Answer(previous) == IF previous = "APPLIED" THEN "ALREADY_APPLIED" ELSE previous

(* Mutant of Seen: the ledger is not consulted for refused envelopes.      *)
SeenIfApplied(e) == ledger[e] = "APPLIED"

Seen(e) == ledger[e] # Absent

(* Delivery is at least once: the pending envelopes, and sometimes one     *)
(* whose answer has just arrived.                                          *)
Deliverable(e) == e \in pending \/ acks[e] # {}

(* Mutant of Take: a redelivered envelope is dropped without an answer.    *)
TakeSilently(e) ==
  /\ pc = "idle" /\ Deliverable(e)
  /\ \/ Seen(e)  /\ UNCHANGED <<current, outcome, pc>>
     \/ ~Seen(e) /\ current' = e /\ outcome' = Nothing /\ pc' = "open"
  /\ UNCHANGED <<controlVars, diskVars, running, heartbeat, faults, applied>>

(* A pass over the delivered envelopes takes the next one and asks the     *)
(* ledger about it before opening it.  A pass that finds the control plane *)
(* or the ledger unreadable, or a document that is no envelope, does       *)
(* nothing.                                                                *)
Take(e) ==
  /\ pc = "idle" /\ Deliverable(e)
  /\ current' = e
  /\ \/ Seen(e)  /\ outcome' = Answer(ledger[e]) /\ pc' = "acknowledge"
     \/ ~Seen(e) /\ outcome' = Nothing /\ pc' = "open"
  /\ UNCHANGED <<controlVars, diskVars, running, heartbeat, faults, applied>>

(* Open and Prepare: refuse, or go on to write the overlay.                *)
Open ==
  /\ pc = "open"
  /\ outcome' = Refusal(current)
  /\ pc' = IF outcome' = Nothing THEN "persist" ELSE "record"
  /\ UNCHANGED <<controlVars, diskVars, running, current, heartbeat, faults, applied>>

(* The sealing key cannot be loaded: the envelope is as good as unreadable.*)
KeyUnavailable ==
  /\ pc = "open" /\ Fault
  /\ outcome' = "REFUSED_UNREADABLE"
  /\ pc' = "record"
  /\ UNCHANGED <<controlVars, diskVars, running, current, heartbeat, applied>>

(* The overlay is read, changed for this source and renamed into place.    *)
Persist ==
  /\ pc = "persist"
  /\ overlay' = [overlay EXCEPT ![current.source] = current.settings]
  /\ applied' = [applied EXCEPT ![current] = @ + 1]
  /\ pc' = "activate"
  /\ UNCHANGED <<controlVars, ledger, running, current, outcome, heartbeat, faults>>

(* Reading or writing it fails: the old file is still in place.            *)
PersistFails ==
  /\ pc = "persist" /\ Fault
  /\ outcome' = "REFUSED_INVALID"
  /\ pc' = "record"
  /\ UNCHANGED <<controlVars, diskVars, running, current, heartbeat, applied>>

(* The source map is written: the candidate is what runs from now on.      *)
Activate ==
  /\ pc = "activate"
  /\ running' = [running EXCEPT ![current.source] = Prepare(current)]
  /\ outcome' = "APPLIED"
  /\ pc' = "record"
  /\ UNCHANGED <<controlVars, diskVars, current, heartbeat, faults, applied>>

(* Ledger.Record creates the file; an entry that exists is left alone.     *)
RecordCreate ==
  /\ pc = "record"
  /\ \/ /\ ledger[current] = Absent
        /\ ledger' = [ledger EXCEPT ![current] = Empty]
        /\ pc' = "write"
     \/ /\ ledger[current] # Absent
        /\ pc' = "acknowledge"
        /\ UNCHANGED ledger
  /\ UNCHANGED <<controlVars, overlay, running, current, outcome, heartbeat,
                 faults, applied>>

RecordWrite ==
  /\ pc = "write"
  /\ ledger' = [ledger EXCEPT ![current] = outcome]
  /\ pc' = "acknowledge"
  /\ UNCHANGED <<controlVars, overlay, running, current, outcome, heartbeat,
                 faults, applied>>

(* Mutant of RecordFails: what could not be recorded is answered anyway.   *)
RecordFailsAnswered ==
  /\ pc \in {"record", "write"} /\ Fault
  /\ pc' = "acknowledge"
  /\ UNCHANGED <<controlVars, diskVars, running, current, outcome, heartbeat,
                 applied>>

(* Creating or writing the entry fails: no acknowledgement is sent.        *)
RecordFails ==
  /\ pc \in {"record", "write"} /\ Fault
  /\ pc' = "idle"
  /\ current' = NoEnvelope /\ outcome' = Nothing
  /\ UNCHANGED <<controlVars, diskVars, running, heartbeat, applied>>

(* The acknowledgement: it arrives, or it is lost and the envelope stays   *)
(* pending, or it arrives although the connector is told otherwise (the    *)
(* same to the connector, which does not look at the answer again).        *)
Acknowledge ==
  /\ pc = "acknowledge"
  /\ \/ /\ acks' = [acks EXCEPT ![current] = @ \cup {outcome}]
        /\ pending' = pending \ {current}
        /\ UNCHANGED faults
     \/ Fault /\ UNCHANGED <<acks, pending>>
  /\ pc' = "idle"
  /\ current' = NoEnvelope /\ outcome' = Nothing
  /\ UNCHANGED <<window, diskVars, running, heartbeat, applied>>

-----------------------------------------------------------------------------
(* sendHeartbeat ranges over the source map, on a goroutine of its own.    *)
HeartbeatBegin ==
  /\ pc # "down" /\ heartbeat = "waiting"
  /\ heartbeat' = "iterating"
  /\ UNCHANGED <<controlVars, diskVars, running, pc, current, outcome, faults, applied>>

HeartbeatEnd ==
  /\ heartbeat = "iterating"
  /\ heartbeat' = "waiting"
  /\ UNCHANGED <<controlVars, diskVars, running, pc, current, outcome, faults, applied>>

(* The process dies: killed, or thrown by the Go runtime when the map is   *)
(* written during an iteration.  Memory is gone, the files stay.           *)
Crash ==
  /\ pc # "down" /\ Fault
  /\ pc' = "down"
  /\ current' = NoEnvelope /\ outcome' = Nothing /\ heartbeat' = "waiting"
  /\ UNCHANGED <<controlVars, diskVars, running, applied>>

(* Load: the operator's file, then the overlay, then validation.           *)
Restart ==
  /\ pc = "down" /\ Loads
  /\ running' = [s \in SourceIds |-> Merged(s)]
  /\ pc' = "idle"
  /\ UNCHANGED <<controlVars, diskVars, current, outcome, heartbeat, faults, applied>>

(* Load refuses: the service manager may try for ever.                     *)
RestartRefused == pc = "down" /\ ~Loads /\ UNCHANGED vars

Connector ==
  \/ \E e \in Envelopes : Take(e)
  \/ Open \/ Persist \/ Activate \/ RecordCreate \/ RecordWrite \/ Acknowledge
  \/ Restart

Next ==
  \/ Connector
  \/ KeyUnavailable \/ PersistFails \/ RecordFails \/ Crash \/ RestartRefused
  \/ HeartbeatBegin \/ HeartbeatEnd
  \/ \E e \in Envelopes : Issue(e) \/ ClockMoves(e)

Spec == Init /\ [][Next]_vars

(* The poll loop keeps running, a pass comes to every pending envelope,    *)
(* and the service manager restarts the process.                           *)
FairSpec ==
  /\ Spec
  /\ WF_vars(Connector)
  /\ \A e \in Envelopes : SF_vars(Take(e))

-----------------------------------------------------------------------------
(* Every variable keeps the type the code gives it.                        *)
TypeOK ==
  /\ pending \in SUBSET Envelopes
  /\ window \in [Envelopes -> {"early", "open", "lapsed"}]
  /\ acks \in [Envelopes -> SUBSET (Outcomes \cup {Empty})]
  /\ overlay \in [SourceIds -> {e.settings : e \in Envelopes} \cup {NoSettings}]
  /\ ledger \in [Envelopes -> (Outcomes \ {"ALREADY_APPLIED"}) \cup {Empty, Absent}]
  /\ DOMAIN running = SourceIds
  /\ pc \in {"idle", "open", "persist", "activate", "record", "write",
             "acknowledge", "down"}
  /\ current \in Envelopes \cup {NoEnvelope}
  /\ outcome \in Outcomes \cup {Nothing, Empty}
  /\ heartbeat \in {"waiting", "iterating"}
  /\ faults \in 0..MaxFaults
  /\ applied \in [Envelopes -> Nat]

(* Whatever is delivered, the connector runs a configuration that passes   *)
(* its own validation, and neither the safety policy, the mode nor a       *)
(* secret is ever the console's: they are the operator's file's (Prepare). *)
PolicyStaysLocal ==
  \A s \in SourceIds :
    /\ ValidSource(running[s])
    /\ running[s].safety = Base[s].safety
    /\ running[s].mode = Base[s].mode
    /\ running[s].readerSecret = Base[s].readerSecret
    /\ running[s].executorSecret = Base[s].executorSecret

(* Between two envelopes, a restart would bring back the very connection   *)
(* that runs: where the database is, how it is verified and who reads      *)
(* (openAndApply persists, then activates).                                *)
RestartKeepsConnection ==
  pc = "idle" =>
    \A s \in SourceIds : /\ Merged(s).address = running[s].address
                         /\ Merged(s).tls = running[s].tls
                         /\ Merged(s).reader = running[s].reader

(* Once the control plane has been answered, the envelope never reaches    *)
(* the overlay again, whatever is redelivered and wherever a crash fell    *)
(* (Record before acknowledge, Outcome before open).                       *)
AnsweredIsFinal ==
  [][\A e \in Envelopes : acks[e] # {} => applied'[e] = applied[e]]_vars

(* The console is told of a success only if the settings reached the disk, *)
(* and only an envelope that opens for this connector and names one of its *)
(* sources reaches it, across crashes, redelivery and a ledger entry cut   *)
(* short (Record, Outcome, Open, Prepare).                                 *)
SuccessIsTrue ==
  \A e \in Envelopes :
    /\ acks[e] \cap {"APPLIED", "ALREADY_APPLIED"} # {} => applied[e] > 0
    /\ applied[e] > 0 => e.opens = "yes" /\ e.source \in SourceIds

(* What an outcome tells the console: the two codes of a success say the   *)
(* same, and every refusal, and an entry cut short, speaks for itself.     *)
Said(code) == IF code \in {"APPLIED", "ALREADY_APPLIED"} THEN "APPLIED" ELSE code

Told    == [e \in Envelopes |-> {Said(code) : code \in acks[e]}]
Reached == {e \in Envelopes : applied[e] > 0}

Exchange == INSTANCE ConfigurationExchange
              WITH Genuine  <- {e \in Envelopes : e.opens = "yes" /\ e.source \in SourceIds},
                   Sources  <- SourceIds,
                   Unset    <- NoSettings,
                   Answers  <- (Outcomes \ {"ALREADY_APPLIED"}) \cup {Empty},
                   Success  <- "APPLIED",
                   told     <- Told,
                   settings <- overlay,
                   reached  <- Reached

(* The connector keeps the promise of ConfigurationExchange: across        *)
(* redelivery, lost answers, crashes between any two steps and a ledger    *)
(* entry cut short, only issued and unanswered envelopes change what is on *)
(* the disk, and the console never hears two different answers about one   *)
(* (Outcome before Open, Record before acknowledge).                       *)
ImplementsExchange == Exchange!Spec

(* Every envelope is answered in the end, lost answers, failed writes and  *)
(* crashes notwithstanding, unless the connector is down and its           *)
(* configuration no longer loads.                                          *)
EveryEnvelopeAnswered ==
  \A e \in Envelopes : e \in pending ~> acks[e] # {} \/ (pc = "down" /\ ~Loads)

(* Comment claim (internal/agent/configuration.go, openAndApply): REFUSED  *)
(* means exactly one thing: nothing changed, on disk or in memory.         *)
RefusedMeansUnchanged ==
  \A e \in Envelopes : acks[e] \cap Refusals # {} => applied[e] = 0

(* Comment claim (internal/agent/configuration.go, openAndApply): what     *)
(* runs is durably on disk.                                                *)
RestartKeepsExecutor ==
  pc = "idle" => \A s \in SourceIds : Merged(s).executor = running[s].executor

(* Comment claim (internal/sealedconfig/ledger.go, Record): re-applying    *)
(* after a missing record rewrites an identical configuration.             *)
ReapplyIsRedundant ==
  pc = "persist" /\ applied[current] > 0 => overlay[current.source] = current.settings

(* Comment claim (internal/sealedconfig/apply.go, Prepare): what is        *)
(* applied was validated as the whole configuration that results.          *)
OverlayLoads == Loads

(* Comment claim (internal/sealedconfig/ledger.go, Outcomes): what is      *)
(* reported back is one of the outcome codes.                              *)
AnswersAreCodes == \A e \in Envelopes : acks[e] \subseteq Outcomes

(* The comments' claims hold for as long as nothing fails: a refusal left  *)
(* everything as it was, every answer is one of the codes, and no envelope *)
(* is applied twice, however often it is delivered and whenever its window *)
(* opens and closes (openAndApply, Record, Outcome).                       *)
UninterruptedIsClean ==
  faults = 0 => /\ RefusedMeansUnchanged /\ AnswersAreCodes
                /\ \A e \in Envelopes : applied[e] <= 1

(* Comment claim (internal/agent/agent.go, Run): the poll loop is the only *)
(* reader of the source map, so writing it is no data race.                *)
SourceMapUnshared == ~(pc = "activate" /\ heartbeat = "iterating")
=============================================================================
