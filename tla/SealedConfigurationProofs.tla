---------------------- MODULE SealedConfigurationProofs ----------------------
(***************************************************************************)
(* Proofs about SealedConfiguration, for any sources, envelopes and bound  *)
(* on the faults.  None of the properties is inductive: what the connector *)
(* knows at each step of applyOneConfiguration (StepInv), what the ledger  *)
(* and the outcome in memory say of the overlay (LedgerInv), and that only *)
(* the source being activated may differ from the disk (ConnectionInv) are *)
(* what carries them from one step to the next.                            *)
(***************************************************************************)
EXTENDS SealedConfiguration, TLAPS

Recordable == Outcomes \ {"ALREADY_APPLIED"}

(* What the poll loop knows at each of its steps: an envelope is opened,   *)
(* persisted and activated only while the ledger does not know it, and     *)
(* what it holds from Open on is acceptable to the source that runs.       *)
StepInv ==
  /\ pc \notin {"idle", "down"} => current \in Envelopes
  /\ pc \in {"idle", "down"} => outcome = Nothing
  /\ pc \in {"open", "persist", "activate"} => ledger[current] = Absent /\ outcome = Nothing
  /\ pc \in {"persist", "activate"} => current.opens = "yes" /\ Acceptable(current)
  /\ pc = "activate" => overlay[current.source] = current.settings
  /\ pc \in {"record", "write"} => outcome \in Recordable
  /\ pc = "write" => ledger[current] = Empty
  /\ pc = "acknowledge" => ledger[current] # Absent /\ outcome \in Outcomes \cup {Empty}

(* A success in memory or in the ledger is one on disk, and the control    *)
(* plane is answered only about what the ledger knows.                     *)
LedgerInv ==
  /\ pc = "activate" => applied[current] > 0
  /\ outcome \in {"APPLIED", "ALREADY_APPLIED"} =>
       current \in Envelopes /\ applied[current] > 0
  /\ \A e \in Envelopes : ledger[e] = "APPLIED" => applied[e] > 0
  /\ \A e \in Envelopes : acks[e] # {} => ledger[e] # Absent

(* A source runs with the connection that is on disk.                      *)
SameConnection(s) ==
  /\ Merged(s).address = running[s].address
  /\ Merged(s).tls = running[s].tls
  /\ Merged(s).reader = running[s].reader

ConnectionInv ==
  pc # "down" =>
    \A s \in SourceIds : (pc = "activate" /\ s = current.source) \/ SameConnection(s)

(* What runs has the fields of a source.                                   *)
RunningInv == \A s \in SourceIds : IsSource(running[s])

IInv == TypeOK /\ StepInv /\ LedgerInv /\ SuccessIsTrue /\ RunningInv
        /\ PolicyStaysLocal /\ ConnectionInv

-----------------------------------------------------------------------------
(* The settings laid over a source change the connection and the executor  *)
(* role and nothing else (sealedconfig.Prepare, ApplyManagedOverlay).      *)
LEMMA OverlaidFields ==
  ASSUME NEW source, IsSource(source), NEW settings \in Settings
  PROVE  LET new == Overlaid(source, settings) IN
         /\ IsSource(new)
         /\ new.address = settings.address /\ new.tls = settings.tls
         /\ new.reader = settings.reader
         /\ new.executor \in {source.executor, settings.executor}
         /\ new.mode = source.mode /\ new.safety = source.safety
         /\ new.readerSecret = source.readerSecret
         /\ new.executorSecret = source.executorSecret
BY DEF Overlaid, IsSource, SourceFields

(* The same for a source of the operator's file as it is loaded.           *)
LEMMA EffectiveFields ==
  ASSUME NEW source, IsSource(source), NEW settings \in Settings \cup {NoSettings}
  PROVE  LET new == Effective(source, settings) IN
         /\ IsSource(new)
         /\ new.mode = source.mode /\ new.safety = source.safety
         /\ new.readerSecret = source.readerSecret
         /\ new.executorSecret = source.executorSecret
         /\ \/ new.executor = source.executor
            \/ settings # NoSettings /\ new.executor = settings.executor
<1>1. CASE settings = NoSettings BY <1>1 DEF Effective
<1>2. CASE settings # NoSettings
      <2> settings \in Settings BY <1>2
      <2> QED BY <1>2, OverlaidFields DEF Effective
<1> QED BY <1>1, <1>2

(* Settings are never mistaken for their absence.                          *)
LEMMA SettingsAreSettings == NoSettings \notin Settings
BY DEF NoSettings, Settings

(* Open refuses with a code the ledger may record, or finds an envelope    *)
(* that opens for this connector and that the running source accepts.      *)
LEMMA RefusalIsRecordable ==
  ASSUME NEW e \in Envelopes, window[e] \in {"early", "open", "lapsed"}
  PROVE  /\ Refusal(e) = Nothing => e.opens = "yes" /\ Acceptable(e)
         /\ Refusal(e) # Nothing => Refusal(e) \in Refusals
<1> e.opens \in {"yes", "wrong_recipient", "malformed", "other_key"}
    BY EnvelopesAssumption
<1>1. CASE e.opens = "wrong_recipient"
      BY <1>1 DEF Refusal, Nothing, Refusals, Outcomes
<1>2. CASE e.opens # "wrong_recipient" /\ window[e] # "open"
      BY <1>2 DEF Refusal, Nothing, Refusals, Outcomes
<1>3. CASE e.opens \in {"malformed", "other_key"} /\ window[e] = "open"
      BY <1>3 DEF Refusal, Nothing, Refusals, Outcomes
<1>4. CASE e.opens = "yes" /\ window[e] = "open"
      <2>1. CASE Acceptable(e) BY <1>4, <2>1 DEF Refusal, Nothing
      <2>2. CASE ~Acceptable(e)
            BY <1>4, <2>2 DEF Refusal, Nothing, Refusals, Outcomes
      <2> QED BY <2>1, <2>2
<1> QED BY <1>1, <1>2, <1>3, <1>4

-----------------------------------------------------------------------------
(* The initial state satisfies the inductive invariant.                    *)
LEMMA InitIInv == Init => IInv
<1> SUFFICES ASSUME Init PROVE IInv
    OBVIOUS
<1> USE EnvelopesAssumption, BaseAssumption DEF Init
<1>1. TypeOK
      BY DEF TypeOK, Nothing, Outcomes, Empty, Absent
<1>2. StepInv BY DEF StepInv
<1>3. LedgerInv BY DEF LedgerInv, Nothing, Absent
<1>4. SuccessIsTrue BY DEF SuccessIsTrue
<1>5. RunningInv BY DEF RunningInv
<1>6. PolicyStaysLocal BY DEF PolicyStaysLocal
<1>7. ConnectionInv BY DEF ConnectionInv, SameConnection, Merged, Effective
<1> QED BY <1>1, <1>2, <1>3, <1>4, <1>5, <1>6, <1>7 DEF IInv

(* Types are kept: every step but Open and the ledger's writes obviously,  *)
(* those because StepInv knows which outcomes can be recorded.             *)
LEMMA TypeStep == TypeOK /\ StepInv /\ [Next]_vars => TypeOK'
<1> SUFFICES ASSUME TypeOK, StepInv, [Next]_vars PROVE TypeOK'
    OBVIOUS
<1> USE EnvelopesAssumption, BaseAssumption
<1> USE DEF TypeOK, Fault, controlVars, diskVars
<1>1. ASSUME NEW e \in Envelopes, Take(e) PROVE TypeOK'
      BY <1>1 DEF Take, Seen, Answer, Absent, Empty, Nothing, Outcomes
<1>2. CASE Open
      <2>1. current \in Envelopes BY <1>2 DEF Open, StepInv
      <2>2. Refusal(current) \in Outcomes \cup {Nothing}
            BY <2>1, RefusalIsRecordable DEF Refusals
      <2> QED BY <1>2, <2>2 DEF Open
<1>3. CASE KeyUnavailable BY <1>3 DEF KeyUnavailable, Outcomes
<1>4. CASE Persist
      <2>1. current \in Envelopes BY <1>4 DEF Persist, StepInv
      <2>2. current.settings \in {e.settings : e \in Envelopes} \cup {NoSettings}
            BY <2>1
      <2>3. overlay' \in [SourceIds -> {e.settings : e \in Envelopes} \cup {NoSettings}]
            BY <1>4, <2>2 DEF Persist
      <2>4. applied' \in [Envelopes -> Nat]
            BY <1>4, <2>1 DEF Persist
      <2> QED BY <1>4, <2>3, <2>4 DEF Persist
<1>5. CASE PersistFails BY <1>5 DEF PersistFails, Outcomes
<1>6. CASE Activate BY <1>6 DEF Activate, Outcomes
<1>7. CASE RecordCreate BY <1>7 DEF RecordCreate
<1>8. CASE RecordWrite
      <2>1. outcome \in Outcomes \ {"ALREADY_APPLIED"}
            BY <1>8 DEF RecordWrite, StepInv, Recordable
      <2> QED BY <1>8, <2>1 DEF RecordWrite
<1>9. CASE RecordFails BY <1>9 DEF RecordFails
<1>10. CASE Acknowledge
      <2>1. outcome \in Outcomes \cup {Empty}
            BY <1>10 DEF Acknowledge, StepInv
      <2>2. acks' \in [Envelopes -> SUBSET (Outcomes \cup {Empty})]
            BY <1>10, <2>1 DEF Acknowledge
      <2> QED BY <1>10, <2>2 DEF Acknowledge
<1>11. CASE Restart BY <1>11 DEF Restart
<1>12. CASE Crash BY <1>12 DEF Crash
<1>13. CASE HeartbeatBegin BY <1>13 DEF HeartbeatBegin
<1>14. CASE HeartbeatEnd BY <1>14 DEF HeartbeatEnd
<1>15. ASSUME NEW e \in Envelopes, Issue(e) PROVE TypeOK'
      BY <1>15 DEF Issue
<1>16. ASSUME NEW e \in Envelopes, ClockMoves(e) PROVE TypeOK'
      BY <1>16 DEF ClockMoves
<1>17. CASE UNCHANGED vars BY <1>17 DEF vars
<1> QED BY <1>1, <1>2, <1>3, <1>4, <1>5, <1>6, <1>7, <1>8, <1>9, <1>10, <1>11,
           <1>12, <1>13, <1>14, <1>15, <1>16, <1>17
        DEF Next, Connector, RestartRefused

(* What the loop knows at a step, it learned at the steps before: nobody   *)
(* else writes the ledger or the running source in between.                *)
LEMMA StepInvStep == TypeOK /\ StepInv /\ [Next]_vars => StepInv'
<1> SUFFICES ASSUME TypeOK, StepInv, [Next]_vars PROVE StepInv'
    OBVIOUS
<1> USE DEF StepInv, Recordable, controlVars, diskVars, Nothing, Absent, Empty, Outcomes
<1>1. ASSUME NEW e \in Envelopes, Take(e) PROVE StepInv'
      <2>1. ledger[e] \in (Outcomes \ {"ALREADY_APPLIED"}) \cup {Empty, Absent}
            BY DEF TypeOK
      <2> QED BY <1>1, <2>1 DEF Take, Seen, Answer
<1>2. CASE Open
      <2>1. current \in Envelopes /\ window[current] \in {"early", "open", "lapsed"}
            BY <1>2 DEF Open, TypeOK
      <2>2. /\ Refusal(current) = Nothing => current.opens = "yes" /\ Acceptable(current)
            /\ Refusal(current) # Nothing => Refusal(current) \in Refusals
            BY <2>1, RefusalIsRecordable
      <2>3. Acceptable(current) => Acceptable(current)'
            BY <1>2 DEF Open, Acceptable, Prepare
      <2> QED BY <1>2, <2>2, <2>3 DEF Open, Refusals
<1>3. CASE KeyUnavailable BY <1>3 DEF KeyUnavailable
<1>4. CASE Persist
      <2>1. Acceptable(current)' /\ current.source \in SourceIds
            BY <1>4 DEF Persist, Acceptable, Prepare
      <2>2. overlay'[current.source] = current.settings
            BY <1>4, <2>1 DEF Persist, TypeOK
      <2> QED BY <1>4, <2>1, <2>2 DEF Persist
<1>5. CASE PersistFails BY <1>5 DEF PersistFails
<1>6. CASE Activate BY <1>6 DEF Activate
<1>7. CASE RecordCreate BY <1>7 DEF RecordCreate, TypeOK
<1>8. CASE RecordWrite BY <1>8 DEF RecordWrite, TypeOK
<1>9. CASE RecordFails BY <1>9 DEF RecordFails
<1>10. CASE Acknowledge BY <1>10 DEF Acknowledge
<1>11. CASE Restart BY <1>11 DEF Restart
<1>12. CASE Crash BY <1>12 DEF Crash
<1>13. CASE UNCHANGED <<pc, current, outcome, ledger, overlay, running>>
      <2>1. Acceptable(current)' = Acceptable(current)
            BY <1>13 DEF Acceptable, Prepare
      <2> QED BY <1>13, <2>1
<1>14. CASE HeartbeatBegin \/ HeartbeatEnd
      BY <1>13, <1>14 DEF HeartbeatBegin, HeartbeatEnd
<1>15. ASSUME NEW e \in Envelopes, Issue(e) \/ ClockMoves(e) PROVE StepInv'
      BY <1>13, <1>15 DEF Issue, ClockMoves
<1>16. CASE UNCHANGED vars BY <1>13, <1>16 DEF vars
<1> QED BY <1>1, <1>2, <1>3, <1>4, <1>5, <1>6, <1>7, <1>8, <1>9, <1>10, <1>11,
           <1>12, <1>14, <1>15, <1>16
        DEF Next, Connector, RestartRefused

(* A success is on disk before it is in memory, in memory before it is in  *)
(* the ledger, and in the ledger before the control plane hears of it.     *)
LEMMA LedgerStep ==
  TypeOK /\ StepInv /\ LedgerInv /\ SuccessIsTrue /\ [Next]_vars
    => LedgerInv' /\ SuccessIsTrue'
<1> SUFFICES ASSUME TypeOK, StepInv, LedgerInv, SuccessIsTrue, [Next]_vars
             PROVE  LedgerInv' /\ SuccessIsTrue'
    OBVIOUS
<1> USE DEF LedgerInv, SuccessIsTrue, controlVars, diskVars, Nothing, Absent, Empty
<1>1. ASSUME NEW e \in Envelopes, Take(e) PROVE LedgerInv' /\ SuccessIsTrue'
      <2>1. ledger[e] # "ALREADY_APPLIED" BY DEF TypeOK
      <2> QED BY <1>1, <2>1 DEF Take, Seen, Answer
<1>2. CASE Open
      <2>1. current \in Envelopes /\ window[current] \in {"early", "open", "lapsed"}
            BY <1>2 DEF Open, TypeOK, StepInv
      <2>2. outcome' \notin {"APPLIED", "ALREADY_APPLIED"}
            BY <1>2, <2>1, RefusalIsRecordable DEF Open, Refusals
      <2> QED BY <1>2, <2>2 DEF Open
<1>3. CASE KeyUnavailable BY <1>3 DEF KeyUnavailable
<1>4. CASE Persist
      <2>1. current \in Envelopes /\ outcome = Nothing
            /\ current.opens = "yes" /\ current.source \in SourceIds
            BY <1>4 DEF Persist, StepInv, Acceptable
      <2>2. applied'[current] > 0
            /\ \A e \in Envelopes : applied'[e] >= applied[e] /\ applied[e] \in Nat
            BY <1>4, <2>1 DEF Persist, TypeOK
      <2>3. \A e \in Envelopes : e # current => applied'[e] = applied[e]
            BY <1>4 DEF Persist, TypeOK
      <2>4. LedgerInv' BY <1>4, <2>1, <2>2, <2>3 DEF Persist
      <2>5. SuccessIsTrue' BY <1>4, <2>1, <2>2, <2>3 DEF Persist
      <2> QED BY <2>4, <2>5
<1>5. CASE PersistFails BY <1>5 DEF PersistFails
<1>6. CASE Activate BY <1>6 DEF Activate, StepInv
<1>7. CASE RecordCreate BY <1>7 DEF RecordCreate, TypeOK
<1>8. CASE RecordWrite
      <2>1. current \in Envelopes /\ outcome \in Recordable
            BY <1>8 DEF RecordWrite, StepInv
      <2>2. \A e \in Envelopes : ledger'[e] = IF e = current THEN outcome ELSE ledger[e]
            BY <1>8 DEF RecordWrite, TypeOK
      <2> QED BY <1>8, <2>1, <2>2 DEF RecordWrite, Recordable, Outcomes
<1>9. CASE RecordFails BY <1>9 DEF RecordFails
<1>10. CASE Acknowledge
      <2>1. current \in Envelopes /\ ledger[current] # Absent
            BY <1>10 DEF Acknowledge, StepInv
      <2>2. \A e \in Envelopes : acks'[e] = acks[e]
                \/ (e = current /\ acks'[e] = acks[e] \cup {outcome})
            BY <1>10 DEF Acknowledge, TypeOK
      <2>3. LedgerInv' BY <1>10, <2>1, <2>2 DEF Acknowledge
      <2>4. SuccessIsTrue' BY <1>10, <2>1, <2>2 DEF Acknowledge
      <2> QED BY <2>3, <2>4
<1>11. CASE Restart BY <1>11 DEF Restart
<1>12. CASE Crash BY <1>12 DEF Crash
<1>13. CASE HeartbeatBegin \/ HeartbeatEnd
      BY <1>13 DEF HeartbeatBegin, HeartbeatEnd
<1>14. ASSUME NEW e \in Envelopes, Issue(e) \/ ClockMoves(e)
       PROVE  LedgerInv' /\ SuccessIsTrue'
      BY <1>14 DEF Issue, ClockMoves
<1>15. CASE UNCHANGED vars BY <1>15 DEF vars
<1> QED BY <1>1, <1>2, <1>3, <1>4, <1>5, <1>6, <1>7, <1>8, <1>9, <1>10, <1>11,
           <1>12, <1>13, <1>14, <1>15
        DEF Next, Connector, RestartRefused

(* The running source changes in two places: Activate lays the settings it *)
(* validated over what runs, Restart loads the two files.  Both keep the   *)
(* operator's policy, mode and secrets.                                    *)
LEMMA RunningStep ==
  TypeOK /\ StepInv /\ RunningInv /\ PolicyStaysLocal /\ [Next]_vars
    => RunningInv' /\ PolicyStaysLocal'
<1> SUFFICES ASSUME TypeOK, StepInv, RunningInv, PolicyStaysLocal, [Next]_vars
             PROVE  RunningInv' /\ PolicyStaysLocal'
    OBVIOUS
<1>1. CASE Activate
      <2>1. /\ current \in Envelopes /\ current.settings \in Settings
            /\ current.source \in SourceIds /\ ValidSource(Prepare(current))
            BY <1>1, EnvelopesAssumption DEF Activate, StepInv, Acceptable
      <2>2. \A s \in SourceIds : running'[s] =
              IF s = current.source THEN Prepare(current) ELSE running[s]
            BY <1>1 DEF Activate, TypeOK
      <2> DEFINE old == running[current.source]
                 new == Prepare(current)
      <2>3. /\ IsSource(new) /\ new.mode = old.mode /\ new.safety = old.safety
            /\ new.readerSecret = old.readerSecret
            /\ new.executorSecret = old.executorSecret
            BY <2>1, OverlaidFields DEF Prepare, RunningInv
      <2>4. RunningInv' BY <2>2, <2>3 DEF RunningInv
      <2>5. PolicyStaysLocal'
            BY <2>1, <2>2, <2>3 DEF PolicyStaysLocal
      <2> QED BY <2>4, <2>5
<1>2. CASE Restart
      <2> USE DEF Restart
      <2>1. \A s \in SourceIds : running'[s] = Merged(s) /\ ValidSource(Merged(s))
            BY <1>2 DEF Loads
      <2>2. \A s \in SourceIds : overlay[s] \in Settings \cup {NoSettings}
            BY EnvelopesAssumption DEF TypeOK
      <2>3. \A s \in SourceIds : /\ IsSource(Merged(s))
                                /\ Merged(s).mode = Base[s].mode
                                /\ Merged(s).safety = Base[s].safety
                                /\ Merged(s).readerSecret = Base[s].readerSecret
                                /\ Merged(s).executorSecret = Base[s].executorSecret
            BY <2>2, EffectiveFields, BaseAssumption DEF Merged
      <2> QED BY <2>1, <2>3 DEF RunningInv, PolicyStaysLocal
<1>3. CASE UNCHANGED running BY <1>3 DEF RunningInv, PolicyStaysLocal
<1>4. ASSUME NEW e \in Envelopes, Take(e) \/ Issue(e) \/ ClockMoves(e)
      PROVE  UNCHANGED running
      BY <1>4 DEF Take, Issue, ClockMoves
<1>5. Open \/ KeyUnavailable \/ Persist \/ PersistFails \/ RecordCreate \/ RecordWrite
        \/ RecordFails \/ Acknowledge \/ Crash \/ HeartbeatBegin \/ HeartbeatEnd
        \/ UNCHANGED vars => UNCHANGED running
      BY DEF Open, KeyUnavailable, Persist, PersistFails, RecordCreate, RecordWrite,
             RecordFails, Acknowledge, Crash, HeartbeatBegin, HeartbeatEnd, vars
<1> QED BY <1>1, <1>2, <1>3, <1>4, <1>5 DEF Next, Connector, RestartRefused

(* Persist opens a gap between disk and memory for one source, Activate    *)
(* closes it, and a crash in between is closed by the restart.             *)
LEMMA ConnectionStep ==
  TypeOK /\ StepInv /\ RunningInv /\ ConnectionInv /\ [Next]_vars => ConnectionInv'
<1> SUFFICES ASSUME TypeOK, StepInv, RunningInv, ConnectionInv, [Next]_vars
             PROVE  ConnectionInv'
    OBVIOUS
<1> USE DEF controlVars, diskVars
<1>1. CASE Persist
      <2>1. current' = current /\ pc' = "activate" /\ pc = "persist" /\ running' = running
            BY <1>1 DEF Persist
      <2>2. \A s \in SourceIds : s # current.source => overlay'[s] = overlay[s]
            BY <1>1 DEF Persist, TypeOK
      <2>3. \A s \in SourceIds : s # current.source => SameConnection(s)'
            BY <2>1, <2>2 DEF ConnectionInv, SameConnection, Merged
      <2> QED BY <2>1, <2>3 DEF ConnectionInv
<1>2. CASE Activate
      <2>1. /\ current \in Envelopes /\ current.settings \in Settings
            /\ current.source \in SourceIds
            /\ overlay[current.source] = current.settings
            BY <1>2, EnvelopesAssumption DEF Activate, StepInv, Acceptable
      <2>2. overlay' = overlay /\ current' = current /\ pc = "activate" /\ pc' = "record"
            BY <1>2 DEF Activate
      <2>3. \A s \in SourceIds : running'[s] =
              IF s = current.source THEN Prepare(current) ELSE running[s]
            BY <1>2 DEF Activate, TypeOK
      <2>4. /\ Prepare(current).address = current.settings.address
            /\ Prepare(current).tls = current.settings.tls
            /\ Prepare(current).reader = current.settings.reader
            BY <2>1, OverlaidFields DEF Prepare, RunningInv
      <2>5. Merged(current.source)' = Overlaid(Base[current.source], current.settings)
            BY <2>1, <2>2, SettingsAreSettings DEF Merged, Effective
      <2>6. /\ Merged(current.source)'.address = current.settings.address
            /\ Merged(current.source)'.tls = current.settings.tls
            /\ Merged(current.source)'.reader = current.settings.reader
            BY <2>1, <2>5, OverlaidFields, BaseAssumption
      <2>7. SameConnection(current.source)'
            BY <2>1, <2>2, <2>3, <2>4, <2>6 DEF SameConnection
      <2>8. \A s \in SourceIds : s # current.source => SameConnection(s)'
            BY <2>2, <2>3 DEF ConnectionInv, SameConnection, Merged
      <2> QED BY <2>2, <2>7, <2>8 DEF ConnectionInv
<1>3. CASE Restart
      BY <1>3 DEF Restart, ConnectionInv, SameConnection, Merged
<1>4. CASE Crash BY <1>4 DEF Crash, ConnectionInv
<1>5. CASE UNCHANGED <<overlay, running>> /\ pc \notin {"activate", "down"}
      <2>1. \A s \in SourceIds : SameConnection(s)'
            BY <1>5 DEF ConnectionInv, SameConnection, Merged
      <2> QED BY <2>1 DEF ConnectionInv
<1>6. CASE UNCHANGED <<overlay, running, pc, current>>
      <2>1. \A s \in SourceIds : SameConnection(s)' = SameConnection(s)
            BY <1>6 DEF SameConnection, Merged
      <2> QED BY <1>6, <2>1 DEF ConnectionInv
<1>7. ASSUME NEW e \in Envelopes, Take(e) \/ Issue(e) \/ ClockMoves(e)
      PROVE  ConnectionInv'
      BY <1>5, <1>6, <1>7 DEF Take, Issue, ClockMoves
<1>8. Open \/ KeyUnavailable \/ PersistFails \/ RecordCreate \/ RecordWrite
        \/ RecordFails \/ Acknowledge
      => UNCHANGED <<overlay, running>> /\ pc \notin {"activate", "down"}
      BY DEF Open, KeyUnavailable, PersistFails, RecordCreate, RecordWrite,
             RecordFails, Acknowledge
<1>9. HeartbeatBegin \/ HeartbeatEnd \/ UNCHANGED vars
      => UNCHANGED <<overlay, running, pc, current>>
      BY DEF HeartbeatBegin, HeartbeatEnd, vars
<1> QED BY <1>1, <1>2, <1>3, <1>4, <1>5, <1>6, <1>7, <1>8, <1>9
        DEF Next, Connector, RestartRefused

-----------------------------------------------------------------------------
(* The inductive invariant holds throughout.                               *)
LEMMA IInvAlways == Spec => []IInv
<1>1. IInv /\ [Next]_vars => IInv'
      BY TypeStep, StepInvStep, LedgerStep, RunningStep, ConnectionStep DEF IInv
<1> QED BY <1>1, InitIInv, PTL DEF Spec

(* Every variable keeps the type the code gives it, whatever is sealed,    *)
(* delivered, lost or cut short; in particular the ledger never holds an   *)
(* error's text or a redelivery's answer.                                  *)
THEOREM TypeCorrect == Spec => []TypeOK
<1>1. IInv => TypeOK BY DEF IInv
<1> QED BY <1>1, IInvAlways, PTL

(* The connector always runs a configuration that passes its own           *)
(* validation, with the policy, mode and secrets of the operator's file,   *)
(* whatever the console seals (Prepare, Load).                             *)
THEOREM PolicyIsLocal == Spec => []PolicyStaysLocal
<1>1. IInv => PolicyStaysLocal BY DEF IInv
<1> QED BY <1>1, IInvAlways, PTL

(* Between two envelopes, what runs is the connection a restart would      *)
(* bring back (openAndApply persists first, then activates).               *)
THEOREM RestartIsFaithful == Spec => []RestartKeepsConnection
<1>1. IInv => RestartKeepsConnection
      BY DEF IInv, ConnectionInv, SameConnection, RestartKeepsConnection
<1> QED BY <1>1, IInvAlways, PTL

(* The control plane hears of a success only when the settings are on the  *)
(* disk, and only an envelope for this connector and one of its sources    *)
(* gets there, across crashes and redelivery (Record, Outcome, Open).      *)
THEOREM SuccessIsNeverInvented == Spec => []SuccessIsTrue
<1>1. IInv => SuccessIsTrue BY DEF IInv
<1> QED BY <1>1, IInvAlways, PTL

(* After an answer the envelope never reaches the overlay again: whatever  *)
(* was answered is in the ledger, and what is in the ledger is not opened. *)
THEOREM AnswerIsFinal == Spec => AnsweredIsFinal
<1>1. IInv /\ [Next]_vars
        => [\A e \in Envelopes : acks[e] # {} => applied'[e] = applied[e]]_vars
      <2> SUFFICES ASSUME IInv, [Next]_vars, NEW e \in Envelopes, acks[e] # {}
                   PROVE  applied'[e] = applied[e]
          OBVIOUS
      <2>1. CASE Persist
            <3>1. e # current
                  BY <2>1 DEF Persist, IInv, StepInv, LedgerInv
            <3> QED BY <2>1, <3>1 DEF Persist, IInv, TypeOK
      <2>2. ASSUME NEW f \in Envelopes, Take(f) \/ Issue(f) \/ ClockMoves(f)
            PROVE  UNCHANGED applied
            BY <2>2 DEF Take, Issue, ClockMoves
      <2>3. Open \/ KeyUnavailable \/ PersistFails \/ Activate \/ RecordCreate
              \/ RecordWrite \/ RecordFails \/ Acknowledge \/ Restart \/ Crash
              \/ HeartbeatBegin \/ HeartbeatEnd \/ UNCHANGED vars => UNCHANGED applied
            BY DEF Open, KeyUnavailable, PersistFails, Activate, RecordCreate,
                   RecordWrite, RecordFails, Acknowledge, Restart, Crash,
                   HeartbeatBegin, HeartbeatEnd, vars
      <2> QED BY <2>1, <2>2, <2>3 DEF Next, Connector, RestartRefused
<1> QED BY <1>1, IInvAlways, PTL DEF Spec, AnsweredIsFinal

-----------------------------------------------------------------------------
(* What makes an answer the only one: an envelope that is not recorded yet *)
(* was issued and never answered, and what is answered, in memory or at    *)
(* the control plane, is what the ledger says.                             *)
ExchangeInv ==
  /\ pc \notin {"idle", "down"} => Deliverable(current)
  /\ pc \in {"open", "persist", "activate", "record", "write"} => acks[current] = {}
  /\ pc = "record" => ledger[current] = Absent
  /\ pc = "acknowledge" => Said(outcome) = Said(ledger[current])
  /\ \A e \in Envelopes : \A code \in acks[e] : Said(code) = Said(ledger[e])

(* The ledger's answer to a redelivery says what it says.                  *)
LEMMA AnswerSays == \A code : Said(Answer(code)) = Said(code)
BY DEF Said, Answer

(* ExchangeInv is kept: Record writes only entries nobody was told about,  *)
(* because the same loop asked the ledger first.                           *)
LEMMA ExchangeStep ==
  TypeOK /\ StepInv /\ LedgerInv /\ ExchangeInv /\ [Next]_vars => ExchangeInv'
<1> SUFFICES ASSUME TypeOK, StepInv, LedgerInv, ExchangeInv, [Next]_vars
             PROVE  ExchangeInv'
    OBVIOUS
<1> USE DEF controlVars, diskVars
<1>a. ASSUME UNCHANGED <<ledger, acks, pending, current>>, pc' \notin {"idle", "down"},
             pc \notin {"idle", "down"},
             pc' \in {"open", "persist", "activate", "record", "write"} =>
               pc \in {"open", "persist", "activate", "record", "write"},
             pc' = "record" => ledger[current] = Absent,
             pc' = "acknowledge" => Said(outcome') = Said(ledger[current])
      PROVE  ExchangeInv'
      BY <1>a DEF ExchangeInv, Deliverable
<1>b. ASSUME UNCHANGED <<ledger, acks>>, pc' \in {"idle", "down"} PROVE ExchangeInv'
      BY <1>b DEF ExchangeInv
<1>c. ASSUME UNCHANGED <<ledger, acks, current, outcome, pc>>, pending \subseteq pending'
      PROVE  ExchangeInv'
      BY <1>c DEF ExchangeInv, Deliverable
<1>1. ASSUME NEW e \in Envelopes, Take(e) PROVE ExchangeInv'
      <2>1. UNCHANGED <<ledger, acks, pending>> /\ current' = e /\ Deliverable(e)
            BY <1>1 DEF Take
      <2>2. Deliverable(e)' BY <2>1 DEF Deliverable
      <2>3. CASE Seen(e) /\ outcome' = Answer(ledger[e]) /\ pc' = "acknowledge"
            BY <2>1, <2>2, <2>3, AnswerSays DEF ExchangeInv
      <2>4. CASE ~Seen(e) /\ pc' = "open"
            BY <2>1, <2>2, <2>4 DEF ExchangeInv, LedgerInv, Seen
      <2> QED BY <1>1, <2>3, <2>4 DEF Take
<1>2. CASE Open
      <2>1. pc = "open" /\ pc' \in {"persist", "record"} /\ ledger[current] = Absent
            /\ UNCHANGED <<ledger, acks, pending, current>>
            BY <1>2 DEF Open, StepInv
      <2> QED BY <1>a, <2>1
<1>3. CASE KeyUnavailable \/ PersistFails \/ Activate
      <2>1. pc \in {"open", "persist", "activate"} /\ pc' = "record"
            /\ ledger[current] = Absent /\ UNCHANGED <<ledger, acks, pending, current>>
            BY <1>3 DEF KeyUnavailable, PersistFails, Activate, StepInv
      <2> QED BY <1>a, <2>1
<1>4. CASE Persist BY <1>4, <1>a DEF Persist
<1>5. CASE RecordCreate
      <2>1. /\ pc = "record" /\ current \in Envelopes /\ ledger[current] = Absent
            /\ acks[current] = {} /\ Deliverable(current)
            BY <1>5 DEF RecordCreate, StepInv, ExchangeInv
      <2>2. /\ ledger' = [ledger EXCEPT ![current] = Empty] /\ pc' = "write"
            /\ UNCHANGED <<acks, pending, current>>
            BY <1>5, <2>1 DEF RecordCreate
      <2>3. \A e \in Envelopes : e # current => ledger'[e] = ledger[e]
            BY <2>2 DEF TypeOK
      <2> QED BY <2>1, <2>2, <2>3 DEF ExchangeInv, Deliverable
<1>6. CASE RecordWrite
      <2>1. /\ pc = "write" /\ current \in Envelopes
            /\ acks[current] = {} /\ Deliverable(current)
            BY <1>6 DEF RecordWrite, StepInv, ExchangeInv
      <2>2. /\ ledger' = [ledger EXCEPT ![current] = outcome] /\ pc' = "acknowledge"
            /\ UNCHANGED <<acks, pending, current, outcome>>
            BY <1>6 DEF RecordWrite
      <2>3. /\ ledger'[current] = outcome
            /\ \A e \in Envelopes : e # current => ledger'[e] = ledger[e]
            BY <2>1, <2>2 DEF TypeOK
      <2> QED BY <2>1, <2>2, <2>3 DEF ExchangeInv, Deliverable
<1>7. CASE Acknowledge
      <2>1. pc = "acknowledge" /\ pc' = "idle" /\ UNCHANGED ledger /\ current \in Envelopes
            BY <1>7 DEF Acknowledge, StepInv
      <2>2. \A e \in Envelopes : acks'[e] = acks[e]
                \/ (e = current /\ acks'[e] = acks[e] \cup {outcome})
            BY <1>7 DEF Acknowledge, TypeOK
      <2>3. Said(outcome) = Said(ledger[current])
            BY <2>1 DEF ExchangeInv
      <2> QED BY <2>1, <2>2, <2>3 DEF ExchangeInv
<1>8. CASE RecordFails \/ Restart \/ Crash
      BY <1>8, <1>b DEF RecordFails, Restart, Crash
<1>9. CASE HeartbeatBegin \/ HeartbeatEnd \/ UNCHANGED vars
      BY <1>9, <1>c DEF HeartbeatBegin, HeartbeatEnd, vars
<1>10. ASSUME NEW e \in Envelopes, Issue(e) \/ ClockMoves(e) PROVE ExchangeInv'
      BY <1>10, <1>c DEF Issue, ClockMoves
<1> QED BY <1>1, <1>2, <1>3, <1>4, <1>5, <1>6, <1>7, <1>8, <1>9, <1>10
        DEF Next, Connector, RestartRefused

(* Persisting an envelope's settings applies it: it was issued, it is not  *)
(* answered, it opened for this connector and names one of its sources.    *)
LEMMA PersistApplies ==
  ASSUME IInv, ExchangeInv, Persist
  PROVE  Exchange!Apply(current)
<1>1. /\ current \in Envelopes /\ current.opens = "yes" /\ current.source \in SourceIds
      /\ current \in pending /\ acks[current] = {}
      BY DEF Persist, IInv, StepInv, Acceptable, ExchangeInv, Deliverable
<1>2. Told[current] = {} BY <1>1 DEF Told
<1>3. overlay' = [overlay EXCEPT ![current.source] = current.settings]
      /\ UNCHANGED <<pending, acks>>
      BY DEF Persist, controlVars
<1>4. UNCHANGED Told BY <1>3 DEF Told
<1>5. \A e \in Envelopes : applied'[e] > 0 <=> (applied[e] > 0 \/ e = current)
      BY <1>1 DEF Persist, IInv, TypeOK
<1>6. Reached' = Reached \cup {current} BY <1>1, <1>5 DEF Reached
<1> QED BY <1>1, <1>2, <1>3, <1>4, <1>6 DEF Exchange!Apply

(* An acknowledgement that arrives says what was said before, if anything, *)
(* and is true if it says that the envelope was applied.                   *)
LEMMA AcknowledgeTells ==
  ASSUME IInv, ExchangeInv, pc = "acknowledge",
         acks' = [acks EXCEPT ![current] = @ \cup {outcome}],
         pending' = pending \ {current}, UNCHANGED <<overlay, applied>>
  PROVE  /\ current \in Envelopes
         /\ Said(outcome) \in (Outcomes \ {"ALREADY_APPLIED"}) \cup {Empty}
         /\ Exchange!Tell(current, Said(outcome))
<1>1. /\ current \in Envelopes /\ Deliverable(current)
      /\ outcome \in Outcomes \cup {Empty} /\ Said(outcome) = Said(ledger[current])
      BY DEF IInv, StepInv, ExchangeInv
<1>2. Said(outcome) \in (Outcomes \ {"ALREADY_APPLIED"}) \cup {Empty}
      BY <1>1 DEF Said, Outcomes, Empty
<1>3. current \in pending \/ Told[current] # {}
      BY <1>1 DEF Deliverable, Told
<1>4. Told[current] \subseteq {Said(outcome)}
      BY <1>1 DEF Told, ExchangeInv
<1>5. Said(outcome) = "APPLIED" => current \in Reached
      BY <1>1 DEF Said, Reached, IInv, LedgerInv, Outcomes, Empty
<1>6. /\ acks'[current] = acks[current] \cup {outcome}
      /\ \A e \in Envelopes : e # current => acks'[e] = acks[e]
      BY <1>1 DEF IInv, TypeOK
<1>7. Told'[current] = {Said(outcome)}
      <2>1. Told'[current] = {Said(code) : code \in acks[current] \cup {outcome}}
            BY <1>1, <1>6 DEF Told
      <2>2. \A code \in acks[current] : Said(code) = Said(outcome)
            BY <1>1 DEF ExchangeInv
      <2> QED BY <2>1, <2>2
<1>8. Told' = [Told EXCEPT ![current] = {Said(outcome)}]
      <2>1. Told' = [e \in Envelopes |-> Told'[e]] /\ Told = [e \in Envelopes |-> Told[e]]
            BY DEF Told
      <2>2. \A e \in Envelopes : e # current => Told'[e] = Told[e]
            BY <1>6 DEF Told
      <2> QED BY <1>1, <1>7, <2>1, <2>2
<1>9. UNCHANGED Reached BY DEF Reached
<1> QED BY <1>1, <1>2, <1>3, <1>4, <1>5, <1>8, <1>9 DEF Exchange!Tell

(* Every step of the connector and of the control plane is a step of the   *)
(* exchange, or none.                                                      *)
LEMMA StepKeepsExchange ==
  IInv /\ ExchangeInv /\ [Next]_vars => [Exchange!Next]_(Exchange!vars)
<1> DEFINE Step == Exchange!Next \/ UNCHANGED Exchange!vars
<1> SUFFICES ASSUME IInv, ExchangeInv, [Next]_vars PROVE Step
    OBVIOUS
<1>1. ASSUME UNCHANGED <<pending, acks, overlay, applied>> PROVE Step
      <2>1. UNCHANGED <<Told, Reached>> BY <1>1 DEF Told, Reached
      <2> QED BY <1>1, <2>1 DEF Exchange!vars
<1>2. ASSUME NEW e \in Envelopes, Issue(e) PROVE Step
      <2>1. UNCHANGED <<Told, Reached>> /\ Told[e] = {}
            BY <1>2 DEF Issue, Told, Reached
      <2>2. Exchange!Issue(e) BY <1>2, <2>1 DEF Issue, Exchange!Issue, diskVars
      <2> QED BY <2>2 DEF Exchange!Next
<1>3. CASE Persist
      <2>1. current \in Envelopes BY <1>3 DEF Persist, IInv, StepInv
      <2> QED BY <1>3, <2>1, PersistApplies DEF Exchange!Next
<1>4. CASE Acknowledge
      <2>1. pc = "acknowledge" /\ UNCHANGED <<overlay, applied>>
            BY <1>4 DEF Acknowledge, diskVars
      <2>2. CASE UNCHANGED <<acks, pending>> BY <1>1, <2>1, <2>2
      <2>3. CASE /\ acks' = [acks EXCEPT ![current] = @ \cup {outcome}]
                 /\ pending' = pending \ {current}
            BY <2>1, <2>3, AcknowledgeTells DEF Exchange!Next
      <2> QED BY <1>4, <2>2, <2>3 DEF Acknowledge
<1> HIDE DEF Step
<1>5. ASSUME NEW e \in Envelopes, Take(e) \/ ClockMoves(e) PROVE Step
      BY <1>1, <1>5 DEF Take, ClockMoves, controlVars, diskVars
<1>6. Open \/ KeyUnavailable \/ PersistFails \/ Activate \/ RecordCreate \/ RecordWrite
        \/ RecordFails \/ Restart \/ Crash \/ HeartbeatBegin \/ HeartbeatEnd \/ UNCHANGED vars
      => UNCHANGED <<pending, acks, overlay, applied>>
      BY DEF Open, KeyUnavailable, PersistFails, Activate, RecordCreate, RecordWrite,
             RecordFails, Restart, Crash, HeartbeatBegin, HeartbeatEnd, vars, controlVars,
             diskVars
<1> QED BY <1>1, <1>2, <1>3, <1>4, <1>5, <1>6 DEF Next, Connector, RestartRefused

(* The handling of sealed envelopes implements the exchange: whatever is   *)
(* delivered twice, lost, cut short or restarted, only envelopes issued    *)
(* and not yet answered change what is on the disk, and the console hears  *)
(* one answer about each (applyOneConfiguration, Ledger, openAndApply).    *)
THEOREM ExchangeIsKept == Spec => ImplementsExchange
<1>1. Init => Exchange!Init
      BY BaseAssumption DEF Init, Exchange!Init, Told, Reached
<1>2. Init => ExchangeInv
      BY DEF Init, ExchangeInv
<1>3. IInv /\ ExchangeInv /\ [Next]_vars => ExchangeInv'
      BY ExchangeStep DEF IInv
<1> QED BY <1>1, <1>2, <1>3, StepKeepsExchange, IInvAlways, PTL
        DEF Spec, ImplementsExchange, Exchange!Spec

-----------------------------------------------------------------------------
(* While nothing fails, an entry without an outcome is the one being       *)
(* written, and what was applied was applied once and is recorded as such, *)
(* or is about to be.                                                      *)
CleanInv ==
  faults = 0 =>
    /\ \A e \in Envelopes : ledger[e] = Empty => pc = "write" /\ current = e
    /\ \A e \in Envelopes : applied[e] > 0 =>
         /\ applied[e] = 1
         /\ \/ ledger[e] = "APPLIED"
            \/ /\ current = e
               /\ \/ pc = "activate"
                  \/ pc \in {"record", "write"} /\ outcome = "APPLIED"

(* A step that fails nothing, records nothing and applies nothing.         *)
LEMMA QuietIsClean ==
  ASSUME TypeOK, StepInv, CleanInv, UNCHANGED <<ledger, applied, faults>>,
         \/ UNCHANGED <<pc, current, outcome>>
         \/ pc \in {"idle", "open", "acknowledge", "down"}
  PROVE  CleanInv'
BY DEF CleanInv, StepInv

(* CleanInv is kept.                                                       *)
LEMMA CleanStep == TypeOK /\ StepInv /\ CleanInv /\ ExchangeInv /\ [Next]_vars => CleanInv'
<1> SUFFICES ASSUME TypeOK, StepInv, CleanInv, ExchangeInv, [Next]_vars, faults' = 0
             PROVE  CleanInv'
    BY DEF CleanInv
<1>0. faults \in Nat /\ ~Fault
      BY BaseAssumption DEF TypeOK, Fault
<1> USE DEF controlVars, diskVars
<1>1. ASSUME NEW e \in Envelopes, Take(e) \/ Issue(e) \/ ClockMoves(e) PROVE CleanInv'
      BY <1>1, QuietIsClean DEF Take, Issue, ClockMoves
<1>2. CASE Open \/ Restart \/ HeartbeatBegin \/ HeartbeatEnd \/ UNCHANGED vars
      BY <1>2, QuietIsClean DEF Open, Restart, HeartbeatBegin, HeartbeatEnd, vars
<1>3. CASE Acknowledge
      BY <1>0, <1>3, QuietIsClean DEF Acknowledge
<1>4. CASE Persist
      <2>1. /\ current \in Envelopes /\ ledger[current] = Absent /\ pc = "persist"
            /\ pc' = "activate" /\ UNCHANGED <<ledger, current, faults>>
            BY <1>4 DEF Persist, StepInv
      <2>2. applied[current] = 0
            BY <2>1 DEF CleanInv, TypeOK, Absent
      <2>3. /\ applied'[current] = 1
            /\ \A e \in Envelopes : e # current => applied'[e] = applied[e]
            BY <1>4, <2>1, <2>2 DEF Persist, TypeOK
      <2> QED BY <2>1, <2>3 DEF CleanInv
<1>5. CASE Activate
      BY <1>5 DEF Activate, CleanInv
<1>6. CASE RecordCreate
      <2>1. /\ current \in Envelopes /\ ledger[current] = Absent /\ pc = "record"
            /\ UNCHANGED <<current, outcome, applied, faults>> /\ pc' = "write"
            /\ ledger' = [ledger EXCEPT ![current] = Empty]
            BY <1>6 DEF RecordCreate, StepInv, ExchangeInv
      <2>2. \A e \in Envelopes : ledger'[e] = IF e = current THEN Empty ELSE ledger[e]
            BY <2>1 DEF TypeOK
      <2> QED BY <2>1, <2>2 DEF CleanInv, Absent, Empty
<1>7. CASE RecordWrite
      <2>1. /\ current \in Envelopes /\ outcome \in Recordable /\ pc = "write"
            /\ UNCHANGED <<current, outcome, applied, faults>> /\ pc' = "acknowledge"
            /\ ledger' = [ledger EXCEPT ![current] = outcome] /\ ledger[current] = Empty
            BY <1>7 DEF RecordWrite, StepInv
      <2>2. \A e \in Envelopes : ledger'[e] = IF e = current THEN outcome ELSE ledger[e]
            BY <2>1 DEF TypeOK
      <2>3. outcome # Empty BY <2>1 DEF Recordable, Outcomes, Empty
      <2> QED BY <2>1, <2>2, <2>3 DEF CleanInv, Empty
<1> QED BY <1>0, <1>1, <1>2, <1>3, <1>4, <1>5, <1>6, <1>7
        DEF Next, Connector, RestartRefused, KeyUnavailable, PersistFails, RecordFails, Crash

(* For as long as nothing fails, a refusal left everything as it was, an   *)
(* answer is a code and nothing is applied twice: what the comments of     *)
(* openAndApply and the ledger claim outright takes a fault to break.      *)
THEOREM CleanUntilFault == Spec => []UninterruptedIsClean
<1>1. Init => CleanInv /\ ExchangeInv
      BY DEF Init, CleanInv, ExchangeInv, Absent, Empty
<1>2. IInv /\ ExchangeInv /\ CleanInv /\ [Next]_vars => ExchangeInv' /\ CleanInv'
      BY ExchangeStep, CleanStep DEF IInv
<1>3. IInv /\ ExchangeInv /\ CleanInv => UninterruptedIsClean
      <2> SUFFICES ASSUME IInv, ExchangeInv, CleanInv, faults = 0, NEW e \in Envelopes
                   PROVE  /\ acks[e] \cap Refusals # {} => applied[e] = 0
                          /\ acks[e] \subseteq Outcomes
                          /\ applied[e] <= 1
          BY DEF UninterruptedIsClean, RefusedMeansUnchanged, AnswersAreCodes
      <2>1. applied[e] \in Nat /\ acks[e] \subseteq Outcomes \cup {Empty}
            BY DEF IInv, TypeOK
      <2>2. applied[e] <= 1 BY <2>1 DEF CleanInv
      <2>3. acks[e] \subseteq Outcomes
            <3>1. ASSUME Empty \in acks[e] PROVE FALSE
                  <4>1. Said(ledger[e]) = Empty BY <3>1 DEF ExchangeInv, Said, Empty
                  <4>2. ledger[e] = Empty BY <4>1 DEF Said, Empty
                  <4>3. pc = "write" /\ current = e BY <4>2 DEF CleanInv
                  <4> QED BY <3>1, <4>3 DEF ExchangeInv
            <3> QED BY <2>1, <3>1
      <2>4. ASSUME acks[e] \cap Refusals # {} PROVE applied[e] = 0
            <3>1. PICK code \in acks[e] : code \in Refusals BY <2>4
            <3>2. Said(ledger[e]) = code
                  BY <3>1 DEF ExchangeInv, Said, Refusals
            <3>3. ledger[e] # "APPLIED" BY <3>1, <3>2 DEF Said, Refusals
            <3>4. ~(current = e /\ pc \in {"activate", "record", "write"})
                  BY <3>1 DEF ExchangeInv
            <3> QED BY <2>1, <3>3, <3>4 DEF CleanInv
      <2> QED BY <2>2, <2>3, <2>4
<1> QED BY <1>1, <1>2, <1>3, IInvAlways, PTL DEF Spec
=============================================================================
