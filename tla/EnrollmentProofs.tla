-------------------------- MODULE EnrollmentProofs --------------------------
(***************************************************************************)
(* Proofs about Enrollment, for any tokens, organizations and bounds.      *)
(* EnrollmentResumable needs to know that the key a command sends is the   *)
(* one its attempt file holds until the identity is in place (CommandInv); *)
(* OneOrganizationPerKey, that the attempt's key has only been sent for    *)
(* the attempt's organization and that a new key is new (KeyInv).          *)
(***************************************************************************)
EXTENDS Enrollment, TLAPS

(* What a command knows at each of its steps.                              *)
CommandInv ==
  /\ at # "idle" => request \in Requests
  /\ at = "write" => key = keys /\ key # NoKey /\ attempt.state = "torn"
  /\ at \in {"request", "reply", "save", "rename", "complete"} =>
       attempt.state = "whole" /\ attempt.key = key /\ attempt.org = request.org
  /\ at \in {"reply", "save", "rename", "complete"} =>
       burned[request.token] = key /\ TokenOrg[request.token] = request.org
  /\ at \in {"save", "rename"} => replyOrg = request.org
  /\ at = "rename" =>
       temporary = [state |-> "whole", key |-> key, connector |-> request.token,
                    org |-> replyOrg, private |-> TRUE]
  /\ at = "complete" => key \in installed

(* Keys are numbered, and the attempt's has been sent for its organization.*)
KeyInv ==
  /\ \A t \in Tokens : burned[t] <= keys /\ (at = "write" => burned[t] # key)
  /\ attempt.state = "whole" => attempt.key # NoKey /\ attempt.key <= keys
  /\ \A t \in Tokens :
       attempt.state = "whole" /\ burned[t] = attempt.key => TokenOrg[t] = attempt.org

(* The identity in place, and what the command found there.                *)
IdentityInv ==
  /\ identity.state # "none" =>
       /\ identity.state = "whole" /\ identity.key # NoKey /\ identity.connector \in Tokens
       /\ burned[identity.connector] = identity.key
       /\ TokenOrg[identity.connector] = identity.org
  /\ at \in {"attempt", "write", "request", "reply", "save", "rename"} =>
       /\ request.command = "install" => identity.state = "none"
       /\ request.command = "enroll --if-needed" => ~Usable

IInv == TypeOK /\ CommandInv /\ KeyInv /\ IdentityInv /\ EnrollmentResumable
        /\ OneOrganizationPerKey

-----------------------------------------------------------------------------
(* The type invariant is inductive by itself.                              *)
LEMMA TypeStep == TypeOK /\ [Next]_vars => TypeOK'
<1> SUFFICES ASSUME TypeOK, [Next]_vars PROVE TypeOK'
    OBVIOUS
<1> USE EnrollmentAssumption
<1> USE DEF TypeOK, Attempts, Identities, Requests, FileStates, Keys, NoKey
<1>1. ASSUME NEW r \in Requests, Begin(r) PROVE TypeOK'
      BY <1>1 DEF Begin, diskVars
<1>2. CASE AttemptLoad BY <1>2 DEF AttemptLoad, diskVars
<1>3. CASE AttemptRefused BY <1>3 DEF AttemptRefused, diskVars
<1>4. CASE AttemptCreate BY <1>4 DEF AttemptCreate
<1>5. CASE AttemptWrite
      <2>1. request.org \in Organizations \cup {NoOrg}
            BY DEF NoRequest
      <2> QED BY <1>5, <2>1 DEF AttemptWrite
<1>6. CASE AttemptWriteFails BY <1>6 DEF AttemptWriteFails
<1>7. ASSUME NEW org \in Organizations, Enroll(org) PROVE TypeOK'
      <2> USE <1>7 DEF Enroll, diskVars
      <2>1. burned' \in [Tokens -> Keys] OBVIOUS
      <2> QED BY <2>1
<1>8. CASE ReceiveReply BY <1>8 DEF ReceiveReply, diskVars
<1>9. CASE SaveWrite
      <2>1. request.token \in Tokens \cup {NoToken}
            BY DEF NoRequest
      <2> QED BY <1>9, <2>1 DEF SaveWrite
<1>10. CASE SaveRename BY <1>10 DEF SaveRename
<1>11. CASE Complete BY <1>11 DEF Complete
<1>12. CASE Interrupt BY <1>12 DEF Interrupt, diskVars
<1>13. CASE InterruptSave BY <1>13 DEF InterruptSave
<1>14. CASE Expose
      <2>1. identity' \in Identities BY <1>14, Zenon DEF Expose
      <2> QED BY <1>14, <2>1 DEF Expose, commandVars
<1>15. CASE Lose BY <1>15 DEF Lose, commandVars
<1>16. CASE UNCHANGED vars BY <1>16 DEF vars, diskVars, commandVars
<1> QED
  BY <1>1, <1>2, <1>3, <1>4, <1>5, <1>6, <1>7, <1>8, <1>9, <1>10, <1>11, <1>12,
     <1>13, <1>14, <1>15, <1>16 DEF Next

(* The invariant holds at the start.                                       *)
LEMMA InitInv == Init => IInv
<1> SUFFICES ASSUME Init PROVE IInv
    OBVIOUS
<1> USE EnrollmentAssumption DEF Init, NoAttempt, NoIdentity, NoRequest, NoKey
<1>1. TypeOK BY DEF TypeOK, Attempts, Identities, FileStates, Keys
<1>2. CommandInv /\ IdentityInv BY DEF CommandInv, IdentityInv
<1>3. KeyInv BY DEF KeyInv
<1>4. EnrollmentResumable /\ OneOrganizationPerKey
      BY DEF EnrollmentResumable, OneOrganizationPerKey
<1> QED BY <1>1, <1>2, <1>3, <1>4 DEF IInv

(* Every step keeps it.                                                    *)
LEMMA StepInv == IInv /\ [Next]_vars => IInv'
<1> SUFFICES ASSUME IInv, [Next]_vars PROVE IInv'
    OBVIOUS
<1>0. TypeOK /\ TypeOK' BY TypeStep DEF IInv
<1> DEFINE Rest == CommandInv /\ KeyInv /\ IdentityInv /\ EnrollmentResumable
                   /\ OneOrganizationPerKey
<1>a. Rest BY DEF IInv
<1> SUFFICES Rest' BY <1>0 DEF IInv
<1> USE <1>0, <1>a, EnrollmentAssumption
<1> USE DEF TypeOK, Requests, Attempts, Identities, Keys, NoKey
<1>1. ASSUME NEW r \in Requests, Begin(r) PROVE Rest'
      <2> USE <1>1 DEF Begin, diskVars
      <2>1. CommandInv' BY DEF CommandInv
      <2>2. KeyInv' BY DEF KeyInv
      <2>3. IdentityInv' BY DEF IdentityInv, Proceeds, Usable
      <2>4. EnrollmentResumable' /\ OneOrganizationPerKey'
            BY DEF EnrollmentResumable, OneOrganizationPerKey
      <2> QED BY <2>1, <2>2, <2>3, <2>4
<1>2. CASE AttemptLoad
      <2> USE <1>2 DEF AttemptLoad, SameOrganization, diskVars
      <2>1. CommandInv' BY DEF CommandInv
      <2>2. KeyInv' BY DEF KeyInv
      <2>3. IdentityInv' BY DEF IdentityInv, Usable
      <2>4. EnrollmentResumable' /\ OneOrganizationPerKey'
            BY DEF EnrollmentResumable, OneOrganizationPerKey
      <2> QED BY <2>1, <2>2, <2>3, <2>4
<1>3. CASE AttemptRefused
      <2> USE <1>3 DEF AttemptRefused, diskVars
      <2>1. CommandInv' BY DEF CommandInv
      <2>2. KeyInv' BY DEF KeyInv
      <2>3. IdentityInv' BY DEF IdentityInv, Usable
      <2>4. EnrollmentResumable' /\ OneOrganizationPerKey'
            BY DEF EnrollmentResumable, OneOrganizationPerKey
      <2> QED BY <2>1, <2>2, <2>3, <2>4
<1>4. CASE AttemptCreate
      <2> USE <1>4 DEF AttemptCreate
      <2>1. CommandInv' BY DEF CommandInv
      <2>2. KeyInv' BY DEF KeyInv
      <2>3. IdentityInv' BY DEF IdentityInv, Usable
      <2>4. EnrollmentResumable' /\ OneOrganizationPerKey'
            BY DEF EnrollmentResumable, OneOrganizationPerKey
      <2> QED BY <2>1, <2>2, <2>3, <2>4
<1>5. CASE AttemptWrite
      <2> USE <1>5 DEF AttemptWrite
      <2>1. CommandInv' BY DEF CommandInv
      <2>2. KeyInv' BY DEF CommandInv, KeyInv
      <2>3. IdentityInv' BY DEF IdentityInv, Usable
      <2>4. EnrollmentResumable' BY DEF CommandInv, EnrollmentResumable
      <2>5. OneOrganizationPerKey' BY DEF OneOrganizationPerKey
      <2> QED BY <2>1, <2>2, <2>3, <2>4, <2>5
<1>6. CASE AttemptWriteFails
      <2> USE <1>6 DEF AttemptWriteFails
      <2>1. CommandInv' BY DEF CommandInv
      <2>2. KeyInv' BY DEF KeyInv
      <2>3. IdentityInv' BY DEF IdentityInv, Usable
      <2>4. EnrollmentResumable' BY DEF CommandInv, EnrollmentResumable
      <2>5. OneOrganizationPerKey' BY DEF OneOrganizationPerKey
      <2> QED BY <2>1, <2>2, <2>3, <2>4, <2>5
<1>7. ASSUME NEW org \in Organizations, Enroll(org) PROVE Rest'
      <2> USE <1>7 DEF Enroll, diskVars
      <2>0. /\ request \in Requests /\ request.token \in Tokens
            /\ attempt.state = "whole" /\ attempt.key = key /\ attempt.org = request.org
            BY DEF CommandInv
      <2>1. CommandInv' BY <2>0 DEF CommandInv
      <2>2. KeyInv' BY <2>0 DEF KeyInv
      <2>3. IdentityInv' BY <2>0 DEF IdentityInv, Usable
      <2>4. EnrollmentResumable' BY <2>0 DEF EnrollmentResumable
      <2>5. OneOrganizationPerKey' BY <2>0 DEF KeyInv, OneOrganizationPerKey
      <2> QED BY <2>1, <2>2, <2>3, <2>4, <2>5
<1>8. CASE ReceiveReply
      <2> USE <1>8 DEF ReceiveReply, diskVars
      <2>1. CommandInv' BY DEF CommandInv
      <2>2. KeyInv' BY DEF KeyInv
      <2>3. IdentityInv' BY DEF IdentityInv, Usable
      <2>4. EnrollmentResumable' /\ OneOrganizationPerKey'
            BY DEF EnrollmentResumable, OneOrganizationPerKey
      <2> QED BY <2>1, <2>2, <2>3, <2>4
<1>9. CASE SaveWrite
      <2> USE <1>9 DEF SaveWrite
      <2>1. CommandInv' BY DEF CommandInv
      <2>2. KeyInv' BY DEF KeyInv
      <2>3. IdentityInv' BY DEF IdentityInv, Usable
      <2>4. EnrollmentResumable' /\ OneOrganizationPerKey'
            BY DEF EnrollmentResumable, OneOrganizationPerKey
      <2> QED BY <2>1, <2>2, <2>3, <2>4
<1>10. CASE SaveRename
      <2> USE <1>10 DEF SaveRename
      <2>1. CommandInv' BY DEF CommandInv
      <2>2. KeyInv' BY DEF KeyInv
      <2>3. /\ identity'.state = "whole" /\ identity'.key = key /\ identity'.org = request.org
            /\ identity'.connector = request.token /\ request.token \in Tokens
            /\ burned[request.token] = key /\ TokenOrg[request.token] = request.org
            /\ key # NoKey
            BY DEF CommandInv, KeyInv
      <2>5. IdentityInv' BY <2>3 DEF IdentityInv
      <2>4. EnrollmentResumable' /\ OneOrganizationPerKey'
            BY DEF EnrollmentResumable, OneOrganizationPerKey
      <2> QED BY <2>1, <2>2, <2>4, <2>5
<1>11. CASE Complete
      <2> USE <1>11 DEF Complete
      <2>1. CommandInv' BY DEF CommandInv
      <2>2. KeyInv' BY DEF KeyInv
      <2>3. IdentityInv' BY DEF IdentityInv, Usable
      <2>4. EnrollmentResumable' BY DEF CommandInv, EnrollmentResumable
      <2>5. OneOrganizationPerKey' BY DEF OneOrganizationPerKey
      <2> QED BY <2>1, <2>2, <2>3, <2>4, <2>5
<1>12. CASE Interrupt \/ InterruptSave
      <2> USE <1>12 DEF Interrupt, InterruptSave, diskVars
      <2>1. CommandInv' BY DEF CommandInv
      <2>2. KeyInv' BY DEF KeyInv
      <2>3. IdentityInv' BY DEF IdentityInv, Usable
      <2>4. EnrollmentResumable' /\ OneOrganizationPerKey'
            BY DEF EnrollmentResumable, OneOrganizationPerKey
      <2> QED BY <2>1, <2>2, <2>3, <2>4
<1>13. CASE Expose \/ Lose
      <2> USE <1>13 DEF Expose, Lose, commandVars
      <2>1. CommandInv' BY DEF CommandInv
      <2>2. KeyInv' BY DEF KeyInv
      <2>3. /\ identity'.state \in {identity.state, "none"} /\ identity'.key = identity.key
            /\ identity'.connector = identity.connector /\ identity'.org = identity.org
            OBVIOUS
      <2>4. at # "idle" => Usable /\ ~Usable' BY DEF Usable
      <2>5. IdentityInv' BY <2>3, <2>4 DEF IdentityInv
      <2>6. EnrollmentResumable' /\ OneOrganizationPerKey'
            BY DEF EnrollmentResumable, OneOrganizationPerKey
      <2> QED BY <2>1, <2>2, <2>5, <2>6
<1>14. CASE UNCHANGED vars
      <2> USE <1>14 DEF vars, diskVars, commandVars
      <2>1. CommandInv' BY DEF CommandInv
      <2>2. KeyInv' BY DEF KeyInv
      <2>3. IdentityInv' BY DEF IdentityInv, Usable
      <2>4. EnrollmentResumable' /\ OneOrganizationPerKey'
            BY DEF EnrollmentResumable, OneOrganizationPerKey
      <2> QED BY <2>1, <2>2, <2>3, <2>4
<1> QED
      BY <1>1, <1>2, <1>3, <1>4, <1>5, <1>6, <1>7, <1>8, <1>9, <1>10, <1>11, <1>12,
         <1>13, <1>14 DEF Next

-----------------------------------------------------------------------------
(* Every variable keeps its type (the files of internal/identity and the   *)
(* steps of enrollment.Run).                                               *)
THEOREM TypeCorrect == Spec => []TypeOK
<1>1. Init => TypeOK BY InitInv DEF IInv
<1> QED BY <1>1, TypeStep, PTL DEF Spec

(* The whole invariant, which the theorems below read off.                 *)
LEMMA Invariance == Spec => []IInv
  BY InitInv, StepInv, PTL DEF Spec

(* Wherever enroll or install is interrupted, and however often it is run  *)
(* again, no burned token's key is lost (enrollment.go, Run).              *)
THEOREM Resumable == Spec => []EnrollmentResumable
<1>1. IInv => EnrollmentResumable BY DEF IInv
<1> QED BY <1>1, Invariance, PTL

(* identity.json is whole and matches the control plane's record           *)
(* (identity.go, Save).                                                    *)
THEOREM IdentityHolds == Spec => []IdentityAsEnrolled
<1>1. IInv => IdentityAsEnrolled BY DEF IInv, IdentityInv, IdentityAsEnrolled
<1> QED BY <1>1, Invariance, PTL

(* No key is registered with two organizations (identity.go,               *)
(* LoadOrCreateEnrollmentAttempt).                                         *)
THEOREM KeyKeepsOrganization == Spec => []OneOrganizationPerKey
<1>1. IInv => OneOrganizationPerKey BY DEF IInv
<1> QED BY <1>1, Invariance, PTL

(* install and enroll --if-needed replace no identity they must preserve   *)
(* (installer.go, finishInstall; main.go, runEnroll).                      *)
THEOREM IdentityKept == Spec => IdentityPreserved
<1>1. IInv /\ [Next]_vars =>
        [at = "rename" /\ identity' # identity =>
           /\ request.command = "install" => identity.state = "none"
           /\ request.command = "enroll --if-needed" => ~Usable]_vars
      BY DEF IInv, IdentityInv
<1> QED BY <1>1, Invariance, PTL DEF Spec, IdentityPreserved
=============================================================================
