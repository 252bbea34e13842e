----------------------- MODULE JobVerificationProofs -----------------------
(***************************************************************************)
(* Proofs about JobVerification for any number of processes, jobs and      *)
(* documents, and any clock, window, tolerance and retention.              *)
(*                                                                         *)
(* The chain: types; HandledInv (what a goroutine past the checks knows);  *)
(* RecordedInv (the ledger speaks only of jobs let through), which needs   *)
(* no assumption on the retention; and RetainedInv, which does: while a    *)
(* job can still be accepted its nonce is still in the ledger.             *)
(***************************************************************************)
EXTENDS JobVerification, TLAPS

(* What the assumption on the documents says of one of them.               *)
LEMMA EnvelopeFields ==
  ASSUME NEW e \in Envelopes
  PROVE  e.nonce \in Nonces /\ e.issuedAt \in Nat /\ e.expiresAt \in Nat
  BY EnvelopesAssumption

(* The refusal codes are codes; NONE is the only other value.              *)
LEMMA RefusalType ==
  ASSUME NEW e \in Envelopes
  PROVE  Refusal(e) \in Codes \cup {"NONE"}
  BY DEF Refusal, Codes

(* An envelope Verify does not refuse is genuine and within its window.    *)
LEMMA PassedChecks ==
  ASSUME NEW e \in Envelopes, ~Unreadable(e), Refusal(e) = "NONE"
  PROVE  e \in Authentic /\ ~Expired(e) /\ ~NotYet(e)
  <1>1. e.verdict \in Verdicts
    BY EnvelopesAssumption
  <1>2. e.verdict \in {"unsigned", "authentic"}
    BY <1>1 DEF Refusal, Unreadable, Verdicts
  <1>3. ~Expired(e) /\ ~NotYet(e)
    BY <1>2 DEF Refusal
  <1>4. e.verdict = "authentic"
    BY <1>2, <1>3 DEF Refusal
  <1> QED
    BY <1>3, <1>4 DEF Authentic

(* Returning from handle keeps the types.                                  *)
LEMMA ReturnType ==
  ASSUME TypeOK, NEW p \in Processes, NEW e \in Envelopes, NEW code \in Codes,
         Return(p, e, code)
  PROVE  /\ pc' \in [Processes -> {"polling", Verifying, "accepted", "executing", "down"}]
         /\ envelope' \in [Processes -> Envelopes \cup {NoEnvelope}]
         /\ outcome' \in [Processes -> [envelope: Envelopes, code: Codes] \cup {NoEnvelope}]
  BY DEF TypeOK, Return

(* The initial state has the types.                                        *)
LEMMA InitType == Init => TypeOK
  BY BoundsAssumption DEF Init, TypeOK, Absent, NotPruning, NoEnvelope

(* A process that handles a document holds one.                            *)
Holding ==
  \A p \in Processes :
    pc[p] \in {Verifying, "accepted", "executing"} => envelope[p] \in Envelopes

(* One step keeps the types.                                               *)
LEMMA StepType == TypeOK /\ Holding /\ [Next]_vars => TypeOK' /\ Holding'
  <1> SUFFICES ASSUME TypeOK, Holding, [Next]_vars PROVE TypeOK' /\ Holding'
    OBVIOUS
  <1> USE BoundsAssumption
  <1>1. CASE UNCHANGED vars
    BY <1>1 DEF TypeOK, Holding, vars, procVars, pruneVars
  <1>2. CASE Tick
    BY <1>2 DEF Tick, TypeOK, Holding, procVars, pruneVars
  <1>3. ASSUME NEW p \in Processes, NEW e \in Envelopes, Receive(p, e)
        PROVE  TypeOK' /\ Holding'
    <2>1. CASE /\ Unreadable(e) /\ Return(p, e, "SILENT") /\ UNCHANGED checkedAt
      <3>1. "SILENT" \in Codes
        BY DEF Codes
      <3>2. TypeOK'
        BY <2>1, <1>3, <3>1, ReturnType DEF Receive, TypeOK, pruneVars
      <3>3. Holding'
        BY <2>1, <1>3 DEF Holding, TypeOK, Return, Verifying
      <3> QED
        BY <3>2, <3>3
    <2>2. CASE /\ Refusal(e) # "NONE" /\ Return(p, e, Refusal(e)) /\ UNCHANGED checkedAt
      <3>1. Refusal(e) \in Codes
        BY <2>2, RefusalType
      <3>2. TypeOK'
        BY <2>2, <1>3, <3>1, ReturnType DEF Receive, TypeOK, pruneVars
      <3>3. Holding'
        BY <2>2, <1>3 DEF Holding, TypeOK, Return, Verifying
      <3> QED
        BY <3>2, <3>3
    <2>3. CASE /\ pc' = [pc EXCEPT ![p] = Verifying]
               /\ envelope' = [envelope EXCEPT ![p] = e]
               /\ checkedAt' = [checkedAt EXCEPT ![p] = now]
               /\ UNCHANGED outcome
      BY <2>3, <1>3 DEF Receive, TypeOK, Holding, pruneVars, Verifying
    <2> QED
      BY <1>3, <2>1, <2>2, <2>3 DEF Receive
  <1>12. ASSUME NEW p \in Processes, pc[p] = Verifying, Record(envelope[p])
         PROVE  /\ spent' \in [Envelopes -> Nat]
                /\ ledger' \in [Nonces -> Nat \cup {Absent}]
    <2>1. envelope[p] \in Envelopes /\ envelope[p].nonce \in Nonces
      BY <1>12, EnvelopeFields DEF Holding
    <2> QED
      BY <1>12, <2>1 DEF Record, TypeOK
  <1>4. ASSUME NEW p \in Processes, Consume(p) PROVE TypeOK' /\ Holding'
    <2>1. envelope[p] \in Envelopes /\ envelope[p].nonce \in Nonces
      BY <1>4, EnvelopeFields DEF Consume, Holding
    <2>2. CASE /\ Record(envelope[p])
               /\ pc' = [pc EXCEPT ![p] = "accepted"]
               /\ UNCHANGED <<envelope, outcome>>
      <3>1. spent' \in [Envelopes -> Nat] /\ ledger' \in [Nonces -> Nat \cup {Absent}]
        BY <1>4, <1>12, <2>2 DEF Consume
      <3> QED
        BY <1>4, <2>1, <2>2, <3>1 DEF Consume, TypeOK, Holding, pruneVars, Verifying
    <2>3. CASE /\ Return(p, envelope[p], "DENIED_NONCE_REPLAYED")
               /\ UNCHANGED <<ledger, spent>>
      <3>1. "DENIED_NONCE_REPLAYED" \in Codes
        BY DEF Codes
      <3>2. TypeOK'
        BY <2>3, <2>1, <1>4, <3>1, ReturnType DEF Consume, TypeOK, pruneVars
      <3>3. Holding'
        BY <2>3, <1>4 DEF Holding, TypeOK, Return, Verifying
      <3> QED
        BY <3>2, <3>3
    <2> QED
      BY <1>4, <2>2, <2>3 DEF Consume
  <1>5. ASSUME NEW p \in Processes, NEW code \in Codes,
               pc[p] \in {Verifying, "accepted", "executing"},
               Return(p, envelope[p], code),
               UNCHANGED <<now, checkedAt, ledger, pruneVars, spent>>
        PROVE  TypeOK' /\ Holding'
    <2>1. envelope[p] \in Envelopes
      BY <1>5 DEF Holding
    <2>2. TypeOK'
      BY <1>5, <2>1, ReturnType DEF TypeOK, pruneVars
    <2>3. Holding'
      BY <1>5 DEF Holding, TypeOK, Return, Verifying
    <2> QED
      BY <2>2, <2>3
  <1>6. ASSUME NEW p \in Processes, ConsumeFails(p) \/ Execute(p) PROVE TypeOK' /\ Holding'
    <2>1. "SILENT" \in Codes /\ "RESULT" \in Codes
      BY DEF Codes
    <2> QED
      BY <1>5, <1>6, <2>1 DEF ConsumeFails, Execute
  <1>13. ASSUME NEW p \in Processes, ConsumeUnclosed(p) PROVE TypeOK' /\ Holding'
    <2>1. envelope[p] \in Envelopes
      BY <1>13 DEF ConsumeUnclosed, Holding
    <2>2. "SILENT" \in Codes
      BY DEF Codes
    <2>3. spent' \in [Envelopes -> Nat] /\ ledger' \in [Nonces -> Nat \cup {Absent}]
      BY <1>12, <1>13 DEF ConsumeUnclosed
    <2>4. TypeOK'
      BY <1>13, <2>1, <2>2, <2>3, ReturnType DEF ConsumeUnclosed, TypeOK, pruneVars
    <2>5. Holding'
      BY <1>13 DEF ConsumeUnclosed, Holding, TypeOK, Return, Verifying
    <2> QED
      BY <2>4, <2>5
  <1>7. ASSUME NEW p \in Processes, Authorize(p) PROVE TypeOK' /\ Holding'
    <2>1. {"DENIED_UNKNOWN_DATA_SOURCE", "DENIED_BY_LOCAL_POLICY"} \subseteq Codes
      BY DEF Codes
    <2>2. CASE \E code \in {"DENIED_UNKNOWN_DATA_SOURCE", "DENIED_BY_LOCAL_POLICY"} :
                 Return(p, envelope[p], code)
      BY <1>5, <1>7, <2>1, <2>2 DEF Authorize
    <2>3. CASE pc' = [pc EXCEPT ![p] = "executing"] /\ UNCHANGED <<envelope, outcome>>
      BY <1>7, <2>3 DEF Authorize, TypeOK, Holding, pruneVars, Verifying
    <2> QED
      BY <1>7, <2>2, <2>3 DEF Authorize
  <1>8. ASSUME NEW p \in Processes, PruneStart(p) \/ PruneKeep(p) \/ PruneEnd(p) PROVE TypeOK' /\ Holding'
    <2>1. now - Retention \in Int /\ NotPruning \in Int
      BY DEF TypeOK, NotPruning
    <2> QED
      BY <1>8, <2>1 DEF PruneStart, PruneKeep, PruneEnd, TypeOK, Holding, procVars
  <1>9. ASSUME NEW p \in Processes, NEW n \in Nonces, PruneStat(p, n) \/ PruneRemove(p, n)
        PROVE  TypeOK' /\ Holding'
    BY <1>9 DEF PruneStat, PruneRemove, TypeOK, Holding, procVars
  <1>10. ASSUME NEW p \in Processes, Crash(p) PROVE TypeOK' /\ Holding'
    <2>1. NotPruning \in Int
      BY DEF NotPruning
    <2> QED
      BY <1>10, <2>1 DEF Crash, TypeOK, Holding, Verifying
  <1>11. ASSUME NEW p \in Processes, Restart(p) PROVE TypeOK' /\ Holding'
    BY <1>11 DEF Restart, TypeOK, Holding, pruneVars, Verifying
  <1> QED
    BY <1>1, <1>2, <1>3, <1>4, <1>6, <1>7, <1>8, <1>9, <1>10, <1>11, <1>13 DEF Next, Step

(* Type correctness: every variable of the intake keeps its type.          *)
THEOREM TypeCorrect == Spec => []TypeOK
  <1>1. Init => TypeOK /\ Holding
    BY InitType DEF Init, Holding, Verifying
  <1> QED
    BY <1>1, StepType, PTL DEF Spec
-----------------------------------------------------------------------------
(* The next-state relation, one case per action; the proofs below split on *)
(* these.                                                                  *)
LEMMA NextCases ==
  ASSUME [Next]_vars
  PROVE  \/ UNCHANGED vars
         \/ Tick
         \/ \E p \in Processes, e \in Envelopes : Receive(p, e)
         \/ \E p \in Processes : Consume(p)
         \/ \E p \in Processes : ConsumeUnclosed(p)
         \/ \E p \in Processes : ConsumeFails(p) \/ Authorize(p) \/ Execute(p)
         \/ \E p \in Processes : PruneStart(p) \/ PruneKeep(p) \/ PruneEnd(p)
         \/ \E p \in Processes, n \in Nonces : PruneStat(p, n)
         \/ \E p \in Processes, n \in Nonces : PruneRemove(p, n)
         \/ \E p \in Processes : Crash(p)
         \/ \E p \in Processes : Restart(p)
  BY DEF Next, Step

(* What a goroutine past the checks knows is kept by every step.           *)
LEMMA StepHandled == TypeOK /\ HandledInv /\ [Next]_vars => HandledInv'
  <1> SUFFICES ASSUME TypeOK, HandledInv, [Next]_vars PROVE HandledInv'
    OBVIOUS
  <1> USE BoundsAssumption
  <1>1. CASE UNCHANGED vars
    BY <1>1 DEF HandledInv, vars, procVars
  <1>2. CASE Tick
    BY <1>2, EnvelopeFields DEF Tick, HandledInv, TypeOK, procVars, Authentic
  <1>3. ASSUME NEW p \in Processes, NEW e \in Envelopes, Receive(p, e)
        PROVE  HandledInv'
    <2>1. CASE pc' = [pc EXCEPT ![p] = "polling"]
               /\ envelope' = [envelope EXCEPT ![p] = NoEnvelope] /\ UNCHANGED checkedAt
      BY <1>3, <2>1 DEF Receive, HandledInv, TypeOK, Verifying
    <2>2. CASE /\ ~Unreadable(e) /\ Refusal(e) = "NONE"
               /\ pc' = [pc EXCEPT ![p] = Verifying]
               /\ envelope' = [envelope EXCEPT ![p] = e]
               /\ checkedAt' = [checkedAt EXCEPT ![p] = now]
      <3>1. e \in Authentic /\ ~Expired(e) /\ ~NotYet(e)
        BY <2>2, PassedChecks
      <3>2. now \in Nat /\ e.issuedAt \in Nat /\ e.expiresAt \in Nat
        BY EnvelopeFields DEF TypeOK
      <3>3. now < e.expiresAt /\ e.issuedAt <= now + ClockSkew /\ now <= now + MaxDelay
        BY <3>1, <3>2 DEF Expired, NotYet
      <3> QED
        BY <1>3, <2>2, <3>1, <3>3 DEF Receive, HandledInv, TypeOK, Verifying
    <2> QED
      BY <1>3, <2>1, <2>2 DEF Receive, Return
  <1>4. ASSUME NEW p \in Processes, Consume(p) PROVE HandledInv'
    <2>1. envelope[p] \in Authentic
      BY <1>4 DEF Consume, HandledInv
    <2>2. CASE /\ Record(envelope[p])
               /\ pc' = [pc EXCEPT ![p] = "accepted"] /\ UNCHANGED envelope
      <3>1. \A e \in Envelopes : spent[e] > 0 => spent'[e] > 0
        BY <2>2 DEF Record, TypeOK
      <3>2. spent'[envelope[p]] > 0
        BY <2>1, <2>2 DEF Record, TypeOK, Authentic
      <3> QED
        BY <1>4, <2>1, <2>2, <3>1, <3>2 DEF Consume, HandledInv, TypeOK, Verifying, Authentic
    <2>3. CASE Return(p, envelope[p], "DENIED_NONCE_REPLAYED") /\ UNCHANGED <<ledger, spent>>
      BY <1>4, <2>3 DEF Consume, Return, HandledInv, TypeOK, Verifying
    <2> QED
      BY <1>4, <2>2, <2>3 DEF Consume
  <1>5. ASSUME NEW p \in Processes, ConsumeFails(p) \/ Authorize(p) \/ Execute(p)
        PROVE  HandledInv'
    BY <1>5 DEF ConsumeFails, Authorize, Execute, Return, HandledInv, TypeOK, Verifying
  <1>9. ASSUME NEW p \in Processes, ConsumeUnclosed(p) PROVE HandledInv'
    <2>1. \A e \in Envelopes : spent[e] > 0 => spent'[e] > 0
      BY <1>9 DEF ConsumeUnclosed, Record, TypeOK
    <2> QED
      BY <1>9, <2>1 DEF ConsumeUnclosed, Return, HandledInv, TypeOK, Verifying, Authentic
  <1>6. ASSUME NEW p \in Processes, PruneStart(p) \/ PruneKeep(p) \/ PruneEnd(p) PROVE HandledInv'
    BY <1>6 DEF PruneStart, PruneKeep, PruneEnd, HandledInv, procVars
  <1>7. ASSUME NEW p \in Processes, NEW n \in Nonces, PruneStat(p, n) \/ PruneRemove(p, n)
        PROVE  HandledInv'
    BY <1>7 DEF PruneStat, PruneRemove, HandledInv, procVars
  <1>8. ASSUME NEW p \in Processes, Crash(p) \/ Restart(p) PROVE HandledInv'
    BY <1>8 DEF Crash, Restart, HandledInv, TypeOK, Verifying
  <1> QED
    BY <1>1, <1>2, <1>3, <1>4, <1>5, <1>6, <1>7, <1>8, <1>9, NextCases

(* The ledger speaks only of jobs that were recorded: kept by every        *)
(* step, whatever the retention.                                           *)
LEMMA StepRecorded == TypeOK /\ HandledInv /\ RecordedInv /\ [Next]_vars => RecordedInv'
  <1> SUFFICES ASSUME TypeOK, HandledInv, RecordedInv, [Next]_vars PROVE RecordedInv'
    OBVIOUS
  <1>1. CASE UNCHANGED vars
    BY <1>1 DEF RecordedInv, ReplayRefusalIsTrue, vars, pruneVars
  <1>2. CASE Tick
    BY <1>2 DEF Tick, RecordedInv, ReplayRefusalIsTrue, pruneVars
  <1>3. ASSUME NEW p \in Processes, NEW e \in Envelopes, NEW code \in Codes,
               code # "DENIED_NONCE_REPLAYED", Return(p, e, code),
               UNCHANGED <<ledger, pruneVars, spent>>
        PROVE  RecordedInv'
    BY <1>3 DEF Return, RecordedInv, ReplayRefusalIsTrue, TypeOK, pruneVars
  <1>4. ASSUME NEW p \in Processes, NEW e \in Envelopes, Receive(p, e)
        PROVE  RecordedInv'
    <2>1. "SILENT" \in Codes
      BY DEF Codes
    <2>2. Refusal(e) # "DENIED_NONCE_REPLAYED"
      BY DEF Refusal
    <2>3. CASE UNCHANGED outcome
      BY <1>4, <2>3 DEF Receive, RecordedInv, ReplayRefusalIsTrue, pruneVars
    <2> QED
      BY <1>3, <1>4, <2>1, <2>2, <2>3, RefusalType DEF Receive
  <1>11. ASSUME NEW p \in Processes, pc[p] = Verifying, Record(envelope[p]),
                UNCHANGED pruneVars,
                \A q \in Processes : outcome'[q] # outcome[q] =>
                  outcome'[q] # NoEnvelope /\ outcome'[q].code # "DENIED_NONCE_REPLAYED"
         PROVE  RecordedInv'
    <2>1. /\ envelope[p] \in Authentic /\ envelope[p] \in Envelopes
          /\ envelope[p].nonce \in Nonces
      BY <1>11, EnvelopeFields DEF HandledInv, Authentic
    <2>2. \A e \in Envelopes : spent[e] > 0 => spent'[e] > 0
      BY <1>11 DEF Record, TypeOK
    <2>3. \A e \in Authentic : spent'[e] = 0 =>
            /\ ledger'[e.nonce] = Absent
            /\ \A q \in Processes : e.nonce \notin expired'[q]
      <3> TAKE e \in Authentic
      <3>1. spent'[envelope[p]] # 0 /\ (e # envelope[p] => spent'[e] = spent[e])
        BY <1>11, <2>1 DEF Record, TypeOK, Authentic
      <3>2. e # envelope[p] => e.nonce # envelope[p].nonce
        BY <2>1, EnvelopesAssumption DEF Authentic
      <3>3. e \in Envelopes /\ e.nonce \in Nonces
        BY EnvelopeFields DEF Authentic
      <3> QED
        BY <1>11, <3>1, <3>2, <3>3 DEF Record, RecordedInv, TypeOK, pruneVars
    <2>4. \A e \in Envelopes : spent'[e] > 0 => e \in Authentic
      BY <1>11, <2>1 DEF Record, RecordedInv, TypeOK
    <2>5. ReplayRefusalIsTrue'
      BY <1>11, <2>2 DEF RecordedInv, ReplayRefusalIsTrue, TypeOK, NoEnvelope
    <2> QED
      BY <2>3, <2>4, <2>5 DEF RecordedInv
  <1>12. ASSUME NEW p \in Processes, ConsumeUnclosed(p) PROVE RecordedInv'
    BY <1>11, <1>12 DEF ConsumeUnclosed, Return, TypeOK, NoEnvelope
  <1>5. ASSUME NEW p \in Processes, Consume(p) PROVE RecordedInv'
    <2>1. /\ envelope[p] \in Authentic /\ envelope[p] \in Envelopes
          /\ envelope[p].nonce \in Nonces
      BY <1>5, EnvelopeFields DEF Consume, HandledInv, Authentic
    <2>2. CASE Record(envelope[p]) /\ UNCHANGED outcome
      BY <1>5, <1>11, <2>2 DEF Consume
    <2>3. CASE /\ ledger[envelope[p].nonce] # Absent
               /\ Return(p, envelope[p], "DENIED_NONCE_REPLAYED")
               /\ UNCHANGED <<ledger, spent>>
      <3>1. spent[envelope[p]] > 0
        BY <2>1, <2>3 DEF RecordedInv, TypeOK
      <3> QED
        BY <1>5, <2>1, <2>3, <3>1 DEF Consume, Return, RecordedInv, ReplayRefusalIsTrue,
                                      TypeOK, pruneVars
    <2> QED
      BY <1>5, <2>2, <2>3 DEF Consume
  <1>6. ASSUME NEW p \in Processes, ConsumeFails(p) \/ Authorize(p) \/ Execute(p)
        PROVE  RecordedInv'
    <2>1. {"SILENT", "RESULT", "DENIED_UNKNOWN_DATA_SOURCE", "DENIED_BY_LOCAL_POLICY"}
            \subseteq Codes
      BY DEF Codes
    <2>2. envelope[p] \in Envelopes
      BY <1>6 DEF ConsumeFails, Authorize, Execute, HandledInv, Authentic
    <2>3. CASE UNCHANGED outcome
      BY <1>6, <2>3 DEF ConsumeFails, Authorize, Execute, RecordedInv,
                        ReplayRefusalIsTrue, Return, TypeOK, pruneVars, Codes
    <2> QED
      BY <1>3, <1>6, <2>1, <2>2, <2>3 DEF ConsumeFails, Authorize, Execute
  <1>7. ASSUME NEW p \in Processes, PruneStart(p) \/ PruneKeep(p) \/ PruneEnd(p) PROVE RecordedInv'
    BY <1>7 DEF PruneStart, PruneKeep, PruneEnd, RecordedInv, ReplayRefusalIsTrue, TypeOK
  <1>8. ASSUME NEW p \in Processes, NEW n \in Nonces, PruneStat(p, n) PROVE RecordedInv'
    BY <1>8, EnvelopeFields DEF PruneStat, Prunable, RecordedInv, ReplayRefusalIsTrue, TypeOK, Authentic
  <1>9. ASSUME NEW p \in Processes, NEW n \in Nonces, PruneRemove(p, n) PROVE RecordedInv'
    BY <1>9, EnvelopeFields DEF PruneRemove, RecordedInv, ReplayRefusalIsTrue, TypeOK, Authentic
  <1>10. ASSUME NEW p \in Processes, Crash(p) \/ Restart(p) PROVE RecordedInv'
    BY <1>10 DEF Crash, Restart, RecordedInv, ReplayRefusalIsTrue, TypeOK, pruneVars
  <1> QED
    BY <1>1, <1>2, <1>4, <1>5, <1>6, <1>7, <1>8, <1>9, <1>10, <1>12, NextCases

(* A job is refused as replayed only if that very job was recorded.        *)
THEOREM ReplayRefusalHolds == Spec => []ReplayRefusalIsTrue
  <1>1. Init => HandledInv /\ RecordedInv
    BY EnvelopeFields
       DEF Init, HandledInv, RecordedInv, ReplayRefusalIsTrue, Verifying, Authentic
  <1>2. RecordedInv => ReplayRefusalIsTrue
    BY DEF RecordedInv
  <1> QED
    BY <1>1, <1>2, TypeCorrect, StepHandled, StepRecorded, PTL DEF Spec

-----------------------------------------------------------------------------
(* A document that passed Verify and finds no entry for its nonce was      *)
(* never let through before: its entry cannot have been pruned yet.        *)
LEMMA FreshIsNew ==
  ASSUME RetentionCovers, TypeOK, HandledInv, RetainedInv, NEW p \in Processes,
         pc[p] = Verifying, ledger[envelope[p].nonce] = Absent
  PROVE  spent[envelope[p]] = 0
  <1> DEFINE e == envelope[p]
  <1>1. e \in Authentic /\ e \in Envelopes
    BY DEF HandledInv, Authentic
  <1>2. /\ now \in Nat /\ checkedAt[p] \in Nat
        /\ e.issuedAt \in Nat /\ e.expiresAt \in Nat
    BY <1>1, EnvelopeFields DEF TypeOK
  <1>3. /\ checkedAt[p] < e.expiresAt /\ e.issuedAt <= checkedAt[p] + ClockSkew
        /\ checkedAt[p] <= now /\ now <= checkedAt[p] + MaxDelay
    BY DEF HandledInv
  <1>4. e.expiresAt <= e.issuedAt + MaxLifetime
    BY <1>1, EnvelopesAssumption DEF Authentic
  <1>5. ~(e.issuedAt + Retention <= now + ClockSkew)
    BY <1>2, <1>3, <1>4, RetentionCovers, BoundsAssumption DEF RetentionCovers
  <1> QED
    BY <1>1, <1>5 DEF RetainedInv, TypeOK

(* With a retention that covers the window, the tolerance and the delay, a *)
(* document that may still pass Verify finds its nonce in the ledger, so   *)
(* every step keeps RetainedInv.                                           *)
LEMMA StepRetained ==
  ASSUME RetentionCovers
  PROVE  TypeOK /\ HandledInv /\ RecordedInv /\ RetainedInv /\ [Next]_vars => RetainedInv'
  <1> SUFFICES ASSUME TypeOK, HandledInv, RecordedInv, RetainedInv, [Next]_vars
               PROVE  RetainedInv'
    OBVIOUS
  <1> USE BoundsAssumption
  <1>1. CASE UNCHANGED <<now, ledger, pruneVars, spent>>
    BY <1>1 DEF RetainedInv, pruneVars
  <1>2. CASE Tick
    BY <1>2, EnvelopeFields DEF Tick, RetainedInv, TypeOK, pruneVars, Authentic
  <1>3. ASSUME NEW p \in Processes, pc[p] = Verifying, Record(envelope[p]),
               UNCHANGED <<now, pruneVars>>
        PROVE  RetainedInv'
    <2> DEFINE e == envelope[p]
    <2>1. e \in Authentic /\ e \in Envelopes /\ e.nonce \in Nonces
      BY <1>3, EnvelopeFields DEF HandledInv, Authentic
    <2>2. /\ now \in Nat /\ checkedAt[p] \in Nat
          /\ e.issuedAt \in Nat /\ e.expiresAt \in Nat
      BY <2>1, EnvelopeFields DEF TypeOK
    <2>3. /\ checkedAt[p] < e.expiresAt /\ e.issuedAt <= checkedAt[p] + ClockSkew
          /\ checkedAt[p] <= now /\ now <= checkedAt[p] + MaxDelay
      BY <1>3 DEF HandledInv
    <2>6. spent[e] = 0
      BY <1>3, FreshIsNew DEF Record
    <2>7. \A f \in Authentic : f # e => f.nonce # e.nonce /\ spent'[f] = spent[f]
      BY <1>3, <2>1, EnvelopesAssumption DEF Record, Authentic, TypeOK
    <2>8. spent'[e] = 1 /\ ledger'[e.nonce] = now /\ now' = now
      BY <1>3, <2>1, <2>6 DEF TypeOK, Record
    <2>9. \A f \in Authentic : spent'[f] > 0 =>
            \/ f.issuedAt + Retention <= now' + ClockSkew
            \/ /\ ledger'[f.nonce] # Absent
               /\ f.issuedAt <= ledger'[f.nonce] + ClockSkew
               /\ ledger'[f.nonce] <= now'
      <3> TAKE f \in Authentic
      <3>1. CASE f = e
        <4>1. now # Absent
          BY <2>2 DEF Absent
        <4>2. e.issuedAt <= now + ClockSkew
          BY <2>2, <2>3
        <4> QED
          BY <3>1, <4>1, <4>2, <2>2, <2>8
      <3>2. CASE f # e
        <4>1. ledger'[f.nonce] = ledger[f.nonce]
          BY <1>3, <2>1, <2>7, <3>2, EnvelopeFields DEF Record, TypeOK, Authentic
        <4> QED
          BY <2>7, <2>8, <3>2, <4>1 DEF RetainedInv
      <3> QED
        BY <3>1, <3>2
    <2>10. \A q \in Processes :
             /\ cutoff'[q] + Retention <= now'
             /\ \A n \in expired'[q] : ledger'[n] # Absent => ledger'[n] <= cutoff'[q]
      <3> TAKE q \in Processes
      <3>1. cutoff' = cutoff /\ expired' = expired
        BY <1>3 DEF pruneVars
      <3>2. e.nonce \notin expired[q]
        BY <2>1, <2>6 DEF RecordedInv
      <3>3. \A n \in expired[q] : ledger'[n] = ledger[n]
        BY <1>3, <3>2 DEF Record, TypeOK
      <3> QED
        BY <2>8, <3>1, <3>3 DEF RetainedInv
    <2>11. \A f \in Envelopes : spent'[f] <= 1
      BY <1>3, <2>1, <2>8 DEF Record, RetainedInv, TypeOK
    <2> QED
      BY <2>9, <2>10, <2>11 DEF RetainedInv
  <1>4. ASSUME NEW p \in Processes, PruneStart(p) PROVE RetainedInv'
    BY <1>4 DEF PruneStart, RetainedInv, TypeOK, NotPruning
  <1>5. ASSUME NEW p \in Processes, PruneKeep(p) \/ PruneEnd(p) PROVE RetainedInv'
    BY <1>5 DEF PruneKeep, PruneEnd, RetainedInv, TypeOK, NotPruning
  <1>6. ASSUME NEW p \in Processes, NEW n \in Nonces, PruneStat(p, n) PROVE RetainedInv'
    BY <1>6 DEF PruneStat, Prunable, RetainedInv, TypeOK
  <1>7. ASSUME NEW p \in Processes, NEW n \in Nonces, PruneRemove(p, n) PROVE RetainedInv'
    <2>1. /\ ledger' = [ledger EXCEPT ![n] = Absent] /\ now' = now
          /\ cutoff' = cutoff /\ spent' = spent
          /\ \A q \in Processes : expired'[q] \subseteq expired[q]
      BY <1>7 DEF PruneRemove, TypeOK
    <2>2. now \in Nat /\ cutoff[p] \in Int /\ cutoff[p] + Retention <= now
      BY DEF RetainedInv, TypeOK
    <2>3. \A f \in Authentic : spent'[f] > 0 =>
            \/ f.issuedAt + Retention <= now' + ClockSkew
            \/ /\ ledger'[f.nonce] # Absent
               /\ f.issuedAt <= ledger'[f.nonce] + ClockSkew
               /\ ledger'[f.nonce] <= now'
      <3> TAKE f \in Authentic
      <3>1. f.nonce \in Nonces /\ f.issuedAt \in Nat
        BY EnvelopeFields DEF Authentic
      <3>2. CASE f.nonce # n
        <4>1. ledger'[f.nonce] = ledger[f.nonce]
          BY <2>1, <3>1, <3>2 DEF TypeOK
        <4> QED
          BY <2>1, <4>1 DEF RetainedInv
      <3>3. CASE f.nonce = n /\ ledger[n] # Absent
        <4>1. ledger[n] \in Nat /\ ledger[n] <= cutoff[p]
          BY <1>7, <3>3 DEF PruneRemove, RetainedInv, TypeOK
        <4> QED
          BY <2>1, <2>2, <3>1, <3>3, <4>1 DEF RetainedInv
      <3>4. CASE f.nonce = n /\ ledger[n] = Absent
        BY <2>1, <3>4 DEF RetainedInv
      <3> QED
        BY <3>2, <3>3, <3>4
    <2>4. \A q \in Processes :
            /\ cutoff'[q] + Retention <= now'
            /\ \A m \in expired'[q] : ledger'[m] # Absent => ledger'[m] <= cutoff'[q]
      BY <2>1 DEF RetainedInv, TypeOK
    <2> QED
      BY <2>1, <2>3, <2>4 DEF RetainedInv
  <1>8. ASSUME NEW p \in Processes, Crash(p) PROVE RetainedInv'
    BY <1>8 DEF Crash, RetainedInv, TypeOK, NotPruning
  <1>9. ASSUME NEW p \in Processes, Restart(p) PROVE RetainedInv'
    BY <1>1, <1>9 DEF Restart
  <1>10. ASSUME NEW p \in Processes, NEW e \in Envelopes, Receive(p, e) PROVE RetainedInv'
    BY <1>1, <1>10 DEF Receive
  <1>11. ASSUME NEW p \in Processes, Consume(p) \/ ConsumeUnclosed(p) PROVE RetainedInv'
    BY <1>1, <1>3, <1>11 DEF Consume, ConsumeUnclosed
  <1>12. ASSUME NEW p \in Processes, ConsumeFails(p) \/ Authorize(p) \/ Execute(p)
         PROVE  RetainedInv'
    BY <1>1, <1>12 DEF ConsumeFails, Authorize, Execute
  <1>13. CASE UNCHANGED vars
    BY <1>1, <1>13 DEF vars
  <1> QED
    BY <1>2, <1>4, <1>5, <1>6, <1>7, <1>8, <1>9, <1>10, <1>11, <1>12, <1>13, NextCases

(* No job is let through twice, for any number of processes, redeliveries, *)
(* crashes and prunings, if the retention covers the window, the tolerance *)
(* and the delay.                                                          *)
THEOREM AtMostOnce == Spec => []BeginsAtMostOnce
  <1>1. Init => TypeOK /\ HandledInv /\ RecordedInv /\ RetainedInv
    BY InitType, EnvelopeFields, BoundsAssumption
       DEF Init, HandledInv, RecordedInv, RetainedInv, ReplayRefusalIsTrue, Verifying,
           Authentic, NotPruning
  <1>2. CASE RetentionCovers
    <2>1. RetainedInv => BeginsAtMostOnce
      BY DEF RetainedInv, BeginsAtMostOnce
    <2>2. TypeOK /\ HandledInv /\ RecordedInv /\ RetainedInv /\ [Next]_vars => RetainedInv'
      BY <1>2, StepRetained
    <2> QED
      BY <1>1, <2>1, <2>2, TypeCorrect, StepHandled, StepRecorded, PTL DEF Spec
  <1>3. CASE ~RetentionCovers
    <2>1. BeginsAtMostOnce
      BY <1>3 DEF BeginsAtMostOnce
    <2> QED
      BY <2>1, PTL
  <1> QED
    BY <1>2, <1>3

-----------------------------------------------------------------------------
(* What the abstract specification sees of a job.                          *)
LEMMA PhaseOf ==
  ASSUME NEW e \in Authentic
  PROVE  Phase[e] = IF \E p \in Processes : /\ pc[p] \in {"accepted", "executing"}
                                            /\ envelope[p] = e
                    THEN "begun"
                    ELSE IF spent[e] > 0 THEN "over" ELSE "new"
  BY DEF Phase

(* A step that changes nothing a phase depends on leaves the phases alone. *)
LEMMA PhaseKept ==
  ASSUME spent' = spent,
         \A p \in Processes, e \in Authentic :
           (pc'[p] \in {"accepted", "executing"} /\ envelope'[p] = e) <=>
           (pc[p] \in {"accepted", "executing"} /\ envelope[p] = e)
  PROVE  Phase' = Phase
  BY DEF Phase

(* A process that stops handling its job ends it, if nobody else has it.   *)
LEMMA LeaveEnds ==
  ASSUME TypeOK, HandledInv, NEW p \in Processes,
         pc' \in [Processes -> {"polling", "down"} \cup {pc[q] : q \in Processes}],
         pc'[p] \in {"polling", "down"},
         \A q \in Processes \ {p} : pc'[q] = pc[q] /\ envelope'[q] = envelope[q],
         spent' = spent
  PROVE  Phase' = Phase \/ \E e \in Authentic : Lifecycle!End(e)
  <1>1. CASE pc[p] \notin {"accepted", "executing"}
    BY <1>1, PhaseKept
  <1>2. CASE pc[p] \in {"accepted", "executing"}
    <2> DEFINE e == envelope[p]
    <2>1. e \in Authentic /\ spent[e] > 0
      BY <1>2 DEF HandledInv
    <2>2. CASE \E q \in Processes \ {p} : pc[q] \in {"accepted", "executing"} /\ envelope[q] = e
      <3>1. Phase' = Phase
        BY <1>2, <2>2 DEF Phase
      <3> QED
        BY <3>1
    <2>3. CASE ~\E q \in Processes \ {p} : pc[q] \in {"accepted", "executing"} /\ envelope[q] = e
      <3>1. Phase[e] = "begun"
        BY <1>2, <2>1, PhaseOf
      <3>2. Phase'[e] = "over"
        BY <2>1, <2>3 DEF Phase
      <3>3. \A f \in Authentic \ {e} : Phase'[f] = Phase[f]
        BY <1>2 DEF Phase
      <3>4. Phase' = [Phase EXCEPT ![e] = "over"]
        <4>1. DOMAIN Phase = Authentic /\ DOMAIN Phase' = Authentic
          BY DEF Phase, Authentic
        <4>2. Phase' = [f \in Authentic |-> Phase'[f]]
          BY <4>1 DEF Phase
        <4> HIDE DEF e
        <4> QED
          BY <2>1, <3>2, <3>3, <4>1, <4>2
      <3> QED
        BY <2>1, <3>1, <3>4 DEF Lifecycle!End
    <2> QED
      BY <2>2, <2>3
  <1> QED
    BY <1>1, <1>2

(* Letting a job through begins it: nobody has it, and nobody ever had.    *)
LEMMA ConsumeBegins ==
  ASSUME RetentionCovers, TypeOK, HandledInv, RetainedInv, NEW p \in Processes,
         pc[p] = Verifying, Record(envelope[p]),
         pc' = [pc EXCEPT ![p] = "accepted"], UNCHANGED envelope
  PROVE  \E e \in Authentic : Lifecycle!Begin(e)
  <1> DEFINE e == envelope[p]
  <1>1. e \in Authentic /\ pc[p] = Verifying
    BY DEF HandledInv
  <1>2. spent[e] = 0
    BY <1>1, FreshIsNew DEF Record
  <1>3. \A q \in Processes : ~(pc[q] \in {"accepted", "executing"} /\ envelope[q] = e)
    BY <1>2 DEF HandledInv
  <1>4. Phase[e] = "new"
    BY <1>1, <1>2, <1>3, PhaseOf
  <1>5. pc'[p] = "accepted" /\ \A q \in Processes \ {p} : pc'[q] = pc[q]
    BY DEF TypeOK
  <1>6. Phase'[e] = "begun"
    BY <1>1, <1>5 DEF Phase
  <1>7. \A f \in Authentic \ {e} : spent'[f] = spent[f]
    BY <1>1 DEF Record, TypeOK, Authentic
  <1>8. \A f \in Authentic \ {e} : Phase'[f] = Phase[f]
    <2> TAKE f \in Authentic \ {e}
    <2>1. \A q \in Processes : (pc'[q] \in {"accepted", "executing"} /\ envelope'[q] = f) <=>
                              (pc[q] \in {"accepted", "executing"} /\ envelope[q] = f)
      BY <1>1, <1>5 DEF Verifying
    <2> QED
      BY <1>7, <2>1 DEF Phase
  <1>9. Phase' = [Phase EXCEPT ![e] = "begun"]
    <2>1. DOMAIN Phase = Authentic /\ DOMAIN Phase' = Authentic
      BY DEF Phase, Authentic
    <2>2. Phase' = [f \in Authentic |-> Phase'[f]]
      BY <2>1 DEF Phase
    <2> HIDE DEF e
    <2> QED
      BY <1>1, <1>6, <1>8, <2>1, <2>2
  <1> QED
    BY <1>1, <1>4, <1>9 DEF Lifecycle!Begin

(* Recording a job and letting it go drops it before it began.             *)
LEMMA UncloseDrops ==
  ASSUME RetentionCovers, TypeOK, HandledInv, RetainedInv, NEW p \in Processes,
         ConsumeUnclosed(p)
  PROVE  \E e \in Authentic : Lifecycle!Drop(e)
  <1> DEFINE e == envelope[p]
  <1>1. e \in Authentic /\ e \in Envelopes /\ pc[p] = Verifying
    BY DEF ConsumeUnclosed, HandledInv, Authentic
  <1>2. spent[e] = 0
    BY <1>1, FreshIsNew DEF ConsumeUnclosed, Record
  <1>3. \A q \in Processes : ~(pc[q] \in {"accepted", "executing"} /\ envelope[q] = e)
    BY <1>2 DEF HandledInv
  <1>4. Phase[e] = "new"
    BY <1>1, <1>2, <1>3, PhaseOf
  <1>5. /\ pc'[p] = "polling"
        /\ \A q \in Processes \ {p} : pc'[q] = pc[q] /\ envelope'[q] = envelope[q]
    BY DEF ConsumeUnclosed, Return, TypeOK
  <1>6. spent'[e] > 0 /\ \A f \in Authentic \ {e} : spent'[f] = spent[f]
    BY <1>1 DEF ConsumeUnclosed, Record, TypeOK, Authentic
  <1>7. \A f \in Authentic, q \in Processes :
          (pc'[q] \in {"accepted", "executing"} /\ envelope'[q] = f) <=>
          (pc[q] \in {"accepted", "executing"} /\ envelope[q] = f)
    BY <1>1, <1>5 DEF Verifying
  <1>8. Phase'[e] = "over" /\ \A f \in Authentic \ {e} : Phase'[f] = Phase[f]
    BY <1>1, <1>3, <1>6, <1>7 DEF Phase
  <1>9. Phase' = [Phase EXCEPT ![e] = "over"]
    <2>1. DOMAIN Phase = Authentic /\ DOMAIN Phase' = Authentic
      BY DEF Phase, Authentic
    <2>2. Phase' = [f \in Authentic |-> Phase'[f]]
      BY <2>1 DEF Phase
    <2> HIDE DEF e
    <2> QED
      BY <1>1, <1>8, <2>1, <2>2
  <1> QED
    BY <1>1, <1>4, <1>9 DEF Lifecycle!Drop

(* Every step is a step of the abstract specification or leaves its        *)
(* variable alone.                                                         *)
LEMMA StepSimulates ==
  ASSUME RetentionCovers
  PROVE  TypeOK /\ HandledInv /\ RetainedInv /\ [Next]_vars => [Lifecycle!Next]_Phase
  <1> SUFFICES ASSUME TypeOK, HandledInv, RetainedInv, [Next]_vars
               PROVE  Lifecycle!Next \/ Phase' = Phase
    OBVIOUS
  <1>1. CASE UNCHANGED <<pc, envelope, spent>>
    BY <1>1, PhaseKept
  <1>2. ASSUME NEW p \in Processes, pc' = [pc EXCEPT ![p] = "polling"],
               envelope' = [envelope EXCEPT ![p] = NoEnvelope], UNCHANGED spent
        PROVE  Lifecycle!Next \/ Phase' = Phase
    BY <1>2, LeaveEnds DEF TypeOK, Lifecycle!Next
  <1>3. ASSUME NEW p \in Processes, Crash(p) PROVE Lifecycle!Next \/ Phase' = Phase
    BY <1>3, LeaveEnds DEF Crash, TypeOK, Lifecycle!Next
  <1>4. ASSUME NEW p \in Processes, NEW e \in Envelopes, Receive(p, e)
        PROVE  Lifecycle!Next \/ Phase' = Phase
    <2>1. CASE /\ pc' = [pc EXCEPT ![p] = Verifying]
               /\ envelope' = [envelope EXCEPT ![p] = e]
      BY <1>4, <2>1, PhaseKept DEF Receive, TypeOK, Verifying
    <2> QED
      BY <1>2, <1>4, <2>1 DEF Receive, Return
  <1>5. ASSUME NEW p \in Processes, Consume(p) PROVE Lifecycle!Next \/ Phase' = Phase
    <2>1. CASE ledger[envelope[p].nonce] = Absent
      BY <1>5, <2>1, ConsumeBegins DEF Consume, Lifecycle!Next
    <2>2. CASE ledger[envelope[p].nonce] # Absent
      BY <1>2, <1>5, <2>2 DEF Consume, Record, Return
    <2> QED
      BY <2>1, <2>2
  <1>12. ASSUME NEW p \in Processes, ConsumeUnclosed(p) PROVE Lifecycle!Next \/ Phase' = Phase
    BY <1>12, UncloseDrops DEF Lifecycle!Next
  <1>6. ASSUME NEW p \in Processes, Authorize(p) PROVE Lifecycle!Next \/ Phase' = Phase
    <2>1. CASE pc' = [pc EXCEPT ![p] = "executing"] /\ UNCHANGED <<envelope, outcome>>
      BY <1>6, <2>1, PhaseKept DEF Authorize, TypeOK
    <2> QED
      BY <1>2, <1>6, <2>1 DEF Authorize, Return
  <1>7. ASSUME NEW p \in Processes, ConsumeFails(p) \/ Execute(p)
        PROVE  Lifecycle!Next \/ Phase' = Phase
    BY <1>2, <1>7 DEF ConsumeFails, Execute, Return
  <1>8. ASSUME NEW p \in Processes, Restart(p) PROVE Lifecycle!Next \/ Phase' = Phase
    BY <1>8, PhaseKept DEF Restart, TypeOK
  <1>9. ASSUME NEW p \in Processes, PruneStart(p) \/ PruneKeep(p) \/ PruneEnd(p)
        PROVE  Lifecycle!Next \/ Phase' = Phase
    BY <1>1, <1>9 DEF PruneStart, PruneKeep, PruneEnd, procVars
  <1>10. ASSUME NEW p \in Processes, NEW n \in Nonces, PruneStat(p, n) \/ PruneRemove(p, n)
         PROVE  Lifecycle!Next \/ Phase' = Phase
    BY <1>1, <1>10 DEF PruneStat, PruneRemove, procVars
  <1>11. CASE Tick \/ UNCHANGED vars
    BY <1>1, <1>11 DEF Tick, vars, procVars
  <1> QED
    BY <1>3, <1>4, <1>5, <1>6, <1>7, <1>8, <1>9, <1>10, <1>11, <1>12, NextCases

(* The intake implements the job lifecycle: each genuine job begins once   *)
(* at most and never again once it is over, whatever is redelivered,       *)
(* crashed, restarted or pruned, if the retention covers the window, the   *)
(* tolerance and the delay.                                                *)
THEOREM Implementation == RetentionCovers => (Spec => ImplementsLifecycle)
  <1> SUFFICES ASSUME RetentionCovers PROVE Spec => ImplementsLifecycle
    OBVIOUS
  <1>1. Init => TypeOK /\ HandledInv /\ RecordedInv /\ RetainedInv
    BY InitType, EnvelopeFields, BoundsAssumption
       DEF Init, HandledInv, RecordedInv, RetainedInv, ReplayRefusalIsTrue, Verifying,
           Authentic, NotPruning
  <1>2. Init => Lifecycle!Init
    BY DEF Init, Lifecycle!Init, Phase, Authentic
  <1>3. TypeOK /\ HandledInv /\ RecordedInv /\ RetainedInv /\ [Next]_vars => RetainedInv'
    BY StepRetained
  <1>4. TypeOK /\ HandledInv /\ RetainedInv /\ [Next]_vars => [Lifecycle!Next]_Phase
    BY StepSimulates
  <1> QED
    BY <1>1, <1>2, <1>3, <1>4, TypeCorrect, StepHandled, StepRecorded, PTL
       DEF Spec, ImplementsLifecycle, Lifecycle!Spec

=============================================================================
