-------------------------- MODULE JobVerification --------------------------
(***************************************************************************)
(* From a polled document to a job that may run: internal/agent/agent.go   *)
(* (Run, handle, pruneLoop), internal/jobs/verifier.go (Verify) and        *)
(* internal/jobs/replay.go (Consume, Prune).                               *)
(*                                                                         *)
(* Several connector processes may run against one state directory; the    *)
(* control plane, or anyone who stores what it sent, may deliver any       *)
(* envelope to any of them any number of times.  Each process polls on one *)
(* goroutine and prunes the replay ledger on another.  The ledger is a     *)
(* directory: one file per nonce, of which only existence and modification *)
(* time matter, shared by all processes and kept across crashes.           *)
(***************************************************************************)
EXTENDS Integers

CONSTANTS
  Processes,    \* connector processes sharing the state directory
  Nonces,
  Envelopes,    \* the documents that may arrive: see EnvelopesAssumption
  MaxLifetime,  \* the longest validity window the control plane signs
  ClockSkew,    \* verifier.go: tolerance for an issued_at in the future
  Retention,    \* agent.go: nonceRetention
  MaxDelay,     \* bound: clock ticks between Verify's window check and Consume
  MaxTime       \* bound: the clock

(* What DecodeJob, Validate, the two address checks and the signature say  *)
(* of a document.                                                          *)
Verdicts == {"unparseable", "invalid", "wrong_org", "wrong_connector",
             "unsigned", "authentic"}

ASSUME BoundsAssumption ==
  /\ MaxLifetime \in Nat /\ ClockSkew \in Nat /\ Retention \in Nat
  /\ MaxDelay \in Nat /\ MaxTime \in Nat

(* The control plane signs a nonce once, with a bounded window; documents  *)
(* it did not sign say what they like.                                     *)
ASSUME EnvelopesAssumption ==
  /\ Envelopes \subseteq [nonce: Nonces, verdict: Verdicts,
                          issuedAt: Nat, expiresAt: Nat]
  /\ \A e \in Envelopes : e.verdict = "authentic" =>
       e.expiresAt <= e.issuedAt + MaxLifetime
  /\ \A e, f \in Envelopes :
       e.verdict = "authentic" /\ f.verdict = "authentic" /\ e.nonce = f.nonce => e = f

Authentic == {e \in Envelopes : e.verdict = "authentic"}

Codes == {"DENIED_PROTOCOL_VERSION", "DENIED_WRONG_ORGANIZATION",
          "DENIED_WRONG_CONNECTOR", "DENIED_JOB_EXPIRED",
          "DENIED_SIGNATURE_INVALID", "DENIED_NONCE_REPLAYED",
          "DENIED_UNKNOWN_DATA_SOURCE", "DENIED_BY_LOCAL_POLICY",
          "RESULT", "SILENT"}   \* DENIED_BY_LOCAL_POLICY stands for all of Authorize's

VARIABLES
  now,       \* the host's clock
  pc,        \* Processes -> where the polling goroutine is
  envelope,  \* Processes -> the document it is handling
  checkedAt, \* Processes -> Verify's reading of the clock
  ledger,    \* Nonces -> modification time of the entry, or Absent
  cutoff,    \* Processes -> Prune's cutoff, or NotPruning
  expired,   \* Processes -> the entry Prune found old and is about to remove
  spent,     \* history: Envelopes -> how many times its nonce was recorded
  outcome    \* history: Processes -> how its last call of handle ended

procVars   == <<pc, envelope, checkedAt>>
pruneVars  == <<cutoff, expired>>
vars == <<now, procVars, ledger, pruneVars, spent, outcome>>

Absent     == -1
NotPruning == -1 - Retention   \* below every cutoff the clock can give
NoEnvelope == [none |-> TRUE]

Verifying == "consume"   \* Verify, past its checks and before Consume
-----------------------------------------------------------------------------
Init ==
  /\ now = 0
  /\ pc = [p \in Processes |-> "polling"]
  /\ envelope = [p \in Processes |-> NoEnvelope]
  /\ checkedAt = [p \in Processes |-> 0]
  /\ ledger = [n \in Nonces |-> Absent]
  /\ cutoff = [p \in Processes |-> NotPruning]
  /\ expired = [p \in Processes |-> {}]
  /\ spent = [e \in Envelopes |-> 0]
  /\ outcome = [p \in Processes |-> NoEnvelope]

(* handle returns to the poll loop, having reported this code or, for      *)
(* SILENT, having only logged.                                             *)
Return(p, e, code) ==
  /\ outcome' = [outcome EXCEPT ![p] = [envelope |-> e, code |-> code]]
  /\ pc' = [pc EXCEPT ![p] = "polling"]
  /\ envelope' = [envelope EXCEPT ![p] = NoEnvelope]

(* Mutant of Expired: the clock tolerance is granted to expiry as well.    *)
ExpiredWithSkew(e) == now >= e.expiresAt + ClockSkew

(* The job's window, as Verify reads it.                                   *)
Expired(e) == now >= e.expiresAt
NotYet(e)  == e.issuedAt > now + ClockSkew

(* Mutant of Refusal: the nonce is consumed before the signature is seen.  *)
RefusalWithoutSignature(e) ==
  CASE e.verdict = "invalid"         -> "DENIED_PROTOCOL_VERSION"
    [] e.verdict = "wrong_org"       -> "DENIED_WRONG_ORGANIZATION"
    [] e.verdict = "wrong_connector" -> "DENIED_WRONG_CONNECTOR"
    [] e.verdict \in {"unsigned", "authentic"} /\ (Expired(e) \/ NotYet(e))
                                     -> "DENIED_JOB_EXPIRED"
    [] OTHER                         -> "NONE"

(* The refusals Verify makes before it touches the ledger, in its order.   *)
Refusal(e) ==
  CASE e.verdict = "invalid"         -> "DENIED_PROTOCOL_VERSION"
    [] e.verdict = "wrong_org"       -> "DENIED_WRONG_ORGANIZATION"
    [] e.verdict = "wrong_connector" -> "DENIED_WRONG_CONNECTOR"
    [] e.verdict \in {"unsigned", "authentic"} /\ (Expired(e) \/ NotYet(e))
                                     -> "DENIED_JOB_EXPIRED"
    [] e.verdict = "unsigned" /\ ~Expired(e) /\ ~NotYet(e)
                                     -> "DENIED_SIGNATURE_INVALID"
    [] OTHER                         -> "NONE"

-----------------------------------------------------------------------------
(* DecodeJob returned no envelope to report against.                       *)
Unreadable(e) == e.verdict = "unparseable"

(* A poll returns a document; Verify decodes it, checks its address, its   *)
(* window against the clock it reads here, and its signature.              *)
Receive(p, e) ==
  /\ pc[p] = "polling"
  /\ \/ /\ Unreadable(e)
        /\ Return(p, e, "SILENT")
        /\ UNCHANGED checkedAt
     \/ /\ ~Unreadable(e) /\ Refusal(e) # "NONE"
        /\ Return(p, e, Refusal(e))
        /\ UNCHANGED checkedAt
     \/ /\ ~Unreadable(e) /\ Refusal(e) = "NONE"
        /\ pc' = [pc EXCEPT ![p] = Verifying]
        /\ envelope' = [envelope EXCEPT ![p] = e]
        /\ checkedAt' = [checkedAt EXCEPT ![p] = now]
        /\ UNCHANGED outcome
  /\ UNCHANGED <<now, ledger, pruneVars, spent>>

(* The nonce's file is created exclusively.                                *)
Record(e) ==
  /\ ledger[e.nonce] = Absent
  /\ ledger' = [ledger EXCEPT ![e.nonce] = now]
  /\ spent' = [spent EXCEPT ![e] = @ + 1]

(* Consume: the job is let through, or was seen before.                    *)
Consume(p) ==
  /\ pc[p] = Verifying
  /\ \/ /\ Record(envelope[p])
        /\ pc' = [pc EXCEPT ![p] = "accepted"]
        /\ UNCHANGED <<envelope, outcome>>
     \/ /\ ledger[envelope[p].nonce] # Absent
        /\ Return(p, envelope[p], "DENIED_NONCE_REPLAYED")
        /\ UNCHANGED <<ledger, spent>>
  /\ UNCHANGED <<now, checkedAt, pruneVars>>

(* The file is created and closing it fails: an error without a refusal    *)
(* code, so the job is dropped and its nonce stays spent.                  *)
ConsumeUnclosed(p) ==
  /\ pc[p] = Verifying
  /\ Record(envelope[p])
  /\ Return(p, envelope[p], "SILENT")
  /\ UNCHANGED <<now, checkedAt, pruneVars>>

(* The state directory cannot be written: no refusal code, so handle only  *)
(* logs it.                                                                *)
ConsumeFails(p) ==
  /\ pc[p] = Verifying
  /\ Return(p, envelope[p], "SILENT")
  /\ UNCHANGED <<now, checkedAt, ledger, pruneVars, spent>>

(* The source is unknown, pending or local-only, or the local safety       *)
(* policy refuses; otherwise the job runs (module DeleteExecution).        *)
Authorize(p) ==
  /\ pc[p] = "accepted"
  /\ \/ /\ \E code \in {"DENIED_UNKNOWN_DATA_SOURCE", "DENIED_BY_LOCAL_POLICY"} :
             Return(p, envelope[p], code)
     \/ /\ pc' = [pc EXCEPT ![p] = "executing"]
        /\ UNCHANGED <<envelope, outcome>>
  /\ UNCHANGED <<now, checkedAt, ledger, pruneVars, spent>>

(* The job has run to a result, of whatever status, which is reported.     *)
Execute(p) ==
  /\ pc[p] = "executing"
  /\ Return(p, envelope[p], "RESULT")
  /\ UNCHANGED <<now, checkedAt, ledger, pruneVars, spent>>

-----------------------------------------------------------------------------
(* Prune fixes its cutoff, then looks at the entries one by one.           *)
PruneStart(p) ==
  /\ pc[p] # "down" /\ cutoff[p] = NotPruning
  /\ cutoff' = [cutoff EXCEPT ![p] = now - Retention]
  /\ UNCHANGED <<now, procVars, ledger, expired, spent, outcome>>

(* An entry's modification time is not after the cutoff.                   *)
Prunable(modified, before) == modified # Absent /\ modified <= before

PruneStat(p, n) ==
  /\ cutoff[p] # NotPruning /\ expired[p] = {}
  /\ Prunable(ledger[n], cutoff[p])
  /\ expired' = [expired EXCEPT ![p] = @ \cup {n}]
  /\ UNCHANGED <<now, procVars, ledger, cutoff, spent, outcome>>

(* Whatever is under that name by now is removed, or cannot be and stays.  *)
PruneRemove(p, n) ==
  /\ n \in expired[p]
  /\ ledger' = [ledger EXCEPT ![n] = Absent]
  /\ expired' = [expired EXCEPT ![p] = @ \ {n}]
  /\ UNCHANGED <<now, procVars, cutoff, spent, outcome>>

PruneKeep(p) ==
  /\ expired[p] # {}
  /\ expired' = [expired EXCEPT ![p] = {}]
  /\ UNCHANGED <<now, procVars, ledger, cutoff, spent, outcome>>

PruneEnd(p) ==
  /\ cutoff[p] # NotPruning /\ expired[p] = {}
  /\ cutoff' = [cutoff EXCEPT ![p] = NotPruning]
  /\ UNCHANGED <<now, procVars, ledger, expired, spent, outcome>>

-----------------------------------------------------------------------------
(* The process dies, both goroutines with it; the ledger survives.         *)
Crash(p) ==
  /\ pc[p] # "down"
  /\ pc' = [pc EXCEPT ![p] = "down"]
  /\ envelope' = [envelope EXCEPT ![p] = NoEnvelope]
  /\ cutoff' = [cutoff EXCEPT ![p] = NotPruning]
  /\ expired' = [expired EXCEPT ![p] = {}]
  /\ UNCHANGED <<now, checkedAt, ledger, spent, outcome>>

(* Mutant of Restart: a job in the ledger is taken up where it was left.    *)
RestartResumes(p) ==
  /\ pc[p] = "down"
  /\ \E e \in Authentic :
       /\ ledger[e.nonce] # Absent
       /\ pc' = [pc EXCEPT ![p] = "accepted"]
       /\ envelope' = [envelope EXCEPT ![p] = e]
  /\ UNCHANGED <<now, checkedAt, ledger, pruneVars, spent, outcome>>

Restart(p) ==
  /\ pc[p] = "down"
  /\ pc' = [pc EXCEPT ![p] = "polling"]
  /\ UNCHANGED <<now, envelope, checkedAt, ledger, pruneVars, spent, outcome>>

(* Time passes, but nobody dwells longer than MaxDelay between reading the *)
(* clock in Verify and creating the ledger entry.                          *)
Tick ==
  /\ now < MaxTime
  /\ \A p \in Processes : pc[p] = Verifying => now < checkedAt[p] + MaxDelay
  /\ now' = now + 1
  /\ UNCHANGED <<procVars, ledger, pruneVars, spent, outcome>>

Step(p) ==
  \/ \E e \in Envelopes : Receive(p, e)
  \/ Consume(p) \/ ConsumeUnclosed(p) \/ ConsumeFails(p) \/ Authorize(p) \/ Execute(p)
  \/ PruneStart(p) \/ PruneKeep(p) \/ PruneEnd(p)
  \/ \E n \in Nonces : PruneStat(p, n) \/ PruneRemove(p, n)
  \/ Crash(p) \/ Restart(p)

Next == Tick \/ \E p \in Processes : Step(p)

Spec == Init /\ [][Next]_vars

-----------------------------------------------------------------------------
(* Every variable keeps the type the code gives it.                        *)
TypeOK ==
  /\ now \in Nat
  /\ pc \in [Processes -> {"polling", Verifying, "accepted", "executing", "down"}]
  /\ envelope \in [Processes -> Envelopes \cup {NoEnvelope}]
  /\ checkedAt \in [Processes -> Nat]
  /\ ledger \in [Nonces -> Nat \cup {Absent}]
  /\ cutoff \in [Processes -> Int]
  /\ expired \in [Processes -> SUBSET Nonces]
  /\ spent \in [Envelopes -> Nat]
  /\ outcome \in [Processes -> [envelope: Envelopes, code: Codes] \cup {NoEnvelope}]

(* The retention covers the longest time for which a document stays        *)
(* acceptable after its nonce was recorded: an issuer up to ClockSkew      *)
(* ahead, the whole window, and the delay before the second Consume.       *)
RetentionCovers == MaxLifetime + ClockSkew + MaxDelay <= Retention

(* No nonce is recorded twice, so no job is let through twice: not by a    *)
(* redelivery, not by a second process, not after a restart, not because   *)
(* Prune forgot it (Consume's exclusive create, and nonceRetention).       *)
BeginsAtMostOnce == RetentionCovers => \A e \in Envelopes : spent[e] <= 1

(* A job is refused as replayed only if that very job had passed Verify's  *)
(* checks before and was recorded: nothing unsigned, misaddressed or out   *)
(* of its window can spend the nonce of a genuine job (Verify consumes the *)
(* nonce last).                                                            *)
ReplayRefusalIsTrue ==
  \A p \in Processes :
    outcome[p] # NoEnvelope /\ outcome[p].code = "DENIED_NONCE_REPLAYED" =>
      spent[outcome[p].envelope] > 0

(* What has become of a genuine job.                                       *)
Phase == [e \in Authentic |->
            IF \E p \in Processes : /\ pc[p] \in {"accepted", "executing"}
                                    /\ envelope[p] = e
            THEN "begun"
            ELSE IF spent[e] > 0 THEN "over" ELSE "new"]

Lifecycle == INSTANCE JobLifecycle WITH Jobs <- Authentic, phase <- Phase

(* The detailed specification implements JobLifecycle.                     *)
ImplementsLifecycle == Lifecycle!Spec

(* Comment claim (internal/agent/agent.go, nonceRetention, and             *)
(* internal/jobs/replay.go, NewReplayLedger): a retention above the        *)
(* longest job lifetime is enough.                                         *)
RetentionAboveLifetimeSuffices ==
  Retention > MaxLifetime => \A e \in Envelopes : spent[e] <= 1

(* Comment claim (internal/agent/agent.go, handle): every exit reports     *)
(* something, except for a document without a job identifier.              *)
EveryExitReports ==
  \A p \in Processes :
    outcome[p] # NoEnvelope /\ outcome[p].code = "SILENT" =>
      outcome[p].envelope.verdict = "unparseable"

-----------------------------------------------------------------------------
(* The strengthenings the proofs rest on; TLC checks them first.           *)

(* A goroutine past Verify's checks holds a document that passed them, not *)
(* longer ago than MaxDelay; past Consume, one that was let through.       *)
HandledInv ==
  \A p \in Processes :
    /\ pc[p] \in {Verifying, "accepted", "executing"} => envelope[p] \in Authentic
    /\ pc[p] \in {"accepted", "executing"} => spent[envelope[p]] > 0
    /\ pc[p] = Verifying => /\ checkedAt[p] < envelope[p].expiresAt
                            /\ envelope[p].issuedAt <= checkedAt[p] + ClockSkew
                            /\ checkedAt[p] <= now
                            /\ now <= checkedAt[p] + MaxDelay

(* The ledger, and what Prune took from it, speak only of jobs that were   *)
(* recorded, and only genuine ones were.                                   *)
RecordedInv ==
  /\ \A e \in Authentic : spent[e] = 0 =>
       /\ ledger[e.nonce] = Absent
       /\ \A p \in Processes : e.nonce \notin expired[p]
  /\ \A e \in Envelopes : spent[e] > 0 => e \in Authentic
  /\ ReplayRefusalIsTrue

(* Why Prune cannot make room for a second run: a job let through before   *)
(* is in the ledger with the time it was recorded, or is out of its window *)
(* for good; what Prune found old is old.                                  *)
RetainedInv ==
  /\ \A e \in Authentic : spent[e] > 0 =>
       \/ e.issuedAt + Retention <= now + ClockSkew
       \/ /\ ledger[e.nonce] # Absent
          /\ e.issuedAt <= ledger[e.nonce] + ClockSkew
          /\ ledger[e.nonce] <= now
  /\ \A p \in Processes :
       /\ cutoff[p] + Retention <= now
       /\ \A n \in expired[p] : ledger[n] # Absent => ledger[n] <= cutoff[p]
  /\ \A e \in Envelopes : spent[e] <= 1
=============================================================================
