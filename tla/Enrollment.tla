----------------------------- MODULE Enrollment -----------------------------
(***************************************************************************)
(* Turning a single-use token into an identity: internal/enrollment        *)
(* (Run), internal/identity (LoadOrCreateEnrollmentAttempt, Save, Complete-*)
(* EnrollmentAttempt, Load) and the two commands that call it, "enroll"    *)
(* (cmd/retentionops-connector, runEnroll) and "install" (internal/        *)
(* installer, finishInstall).                                              *)
(*                                                                         *)
(* The private key is generated and put on disk before the request; the    *)
(* control plane burns the token for that key, and answers a repeated      *)
(* request only for the same key.  The operator runs one command at a time *)
(* and runs it again after an interruption, with any token.  Keys are      *)
(* numbered in the order they are generated.                               *)
(***************************************************************************)
EXTENDS Naturals

CONSTANTS
  Tokens,         \* the tokens the control plane issues; each is one connector
  Organizations,
  TokenOrg,       \* the organization a token is scoped to
  MaxKeys,        \* bound: keys generated
  MaxRuns         \* bound: commands run

ASSUME EnrollmentAssumption ==
  /\ TokenOrg \in [Tokens -> Organizations]
  /\ MaxKeys \in Nat /\ MaxRuns \in Nat

VARIABLES
  attempt,     \* disk: .enrollment-attempt.json
  temporary,   \* disk: identity.json.tmp
  identity,    \* disk: identity.json
  burned,      \* control plane: token -> the key it was burned for, or NoKey
  at,          \* the running command's step
  request,     \* its command line
  key,         \* the private key it holds
  replyOrg,    \* the organization the control plane answered for
  keys,        \* keys generated so far
  runs,
  installed    \* history: keys that have been in identity.json

diskVars    == <<attempt, temporary, identity>>
commandVars == <<at, request, key, replyOrg>>
vars == <<diskVars, burned, commandVars, keys, runs, installed>>

NoKey   == 0
Keys    == 0..MaxKeys
NoOrg   == "no organization"
NoToken == "no token"

Commands == {"enroll", "enroll --if-needed", "install"}
Requests == [command : Commands, token : Tokens, org : Organizations]

NoRequest  == [command |-> "none", token |-> NoToken, org |-> NoOrg]
NoAttempt  == [state |-> "none", key |-> NoKey, org |-> NoOrg]
NoIdentity == [state |-> "none", key |-> NoKey, connector |-> NoToken, org |-> NoOrg,
               private |-> TRUE]

(* A file is absent, there but cut short, or whole.                        *)
FileStates == {"none", "torn", "whole"}
Attempts   == [state : FileStates, key : Keys, org : Organizations \cup {NoOrg}]
Identities == [state : FileStates, key : Keys, connector : Tokens \cup {NoToken},
               org : Organizations \cup {NoOrg}, private : BOOLEAN]

(* identity.Load: whole, and readable by its owner only.                   *)
Usable == identity.state = "whole" /\ identity.private

Init ==
  /\ attempt = NoAttempt /\ temporary = NoIdentity /\ identity = NoIdentity
  /\ burned = [t \in Tokens |-> NoKey]
  /\ at = "idle" /\ request = NoRequest /\ key = NoKey /\ replyOrg = NoOrg
  /\ keys = 0 /\ runs = 0
  /\ installed = {}

-----------------------------------------------------------------------------
(* Mutant of Proceeds: install, too, only asks whether the identity loads. *)
ProceedsUnlessUsable(r) == r.command = "enroll" \/ ~Usable

(* What a command asks of the identity already there before it enrolls.    *)
(* Where this is false it touches nothing enrollment keeps.                *)
Proceeds(r) ==
  \/ r.command = "enroll"
  \/ r.command = "enroll --if-needed" /\ ~Usable
  \/ r.command = "install" /\ identity.state = "none"

Begin(r) ==
  /\ at = "idle" /\ runs < MaxRuns
  /\ Proceeds(r)
  /\ at' = "attempt" /\ request' = r /\ runs' = runs + 1
  /\ UNCHANGED <<diskVars, burned, key, replyOrg, keys, installed>>

(* Mutant of SameOrganization: whose attempt it was is not asked.          *)
AnyOrganization == attempt.state = "whole"

(* A pending attempt is only continued for the organization it was for.    *)
SameOrganization == attempt.state = "whole" /\ attempt.org = request.org

(* LoadOrCreateEnrollmentAttempt finds a pending attempt and reuses it ... *)
AttemptLoad ==
  /\ at = "attempt" /\ SameOrganization
  /\ key' = attempt.key /\ at' = "request"
  /\ UNCHANGED <<diskVars, burned, request, replyOrg, keys, runs, installed>>

(* ... or refuses it, as another organization's or as unreadable ...       *)
AttemptRefused ==
  /\ at = "attempt" /\ attempt.state # "none" /\ ~SameOrganization
  /\ at' = "idle"
  /\ UNCHANGED <<diskVars, burned, request, key, replyOrg, keys, runs, installed>>

(* ... or generates a key and creates the file with O_EXCL, empty.         *)
AttemptCreate ==
  /\ at = "attempt" /\ attempt.state = "none" /\ keys < MaxKeys
  /\ keys' = keys + 1 /\ key' = keys + 1
  /\ attempt' = [attempt EXCEPT !.state = "torn"]
  /\ at' = "write"
  /\ UNCHANGED <<temporary, identity, burned, request, replyOrg, runs, installed>>

AttemptWrite ==
  /\ at = "write"
  /\ attempt' = [state |-> "whole", key |-> key, org |-> request.org]
  /\ at' = "request"
  /\ UNCHANGED <<temporary, identity, burned, request, key, replyOrg, keys, runs, installed>>

(* The write or the close reports an error: the file is removed again.     *)
AttemptWriteFails ==
  /\ at = "write"
  /\ attempt' = [attempt EXCEPT !.state = "none"]
  /\ at' = "idle"
  /\ UNCHANGED <<temporary, identity, burned, request, key, replyOrg, keys, runs, installed>>

-----------------------------------------------------------------------------
(* The control plane: a token of that organization, fresh or already       *)
(* burned for this very key, is exchanged for an identity.  The answer     *)
(* names an organization, which the connector does not take for granted.   *)
Enroll(org) ==
  /\ at = "request"
  /\ TokenOrg[request.token] = request.org
  /\ burned[request.token] \in {NoKey, key}
  /\ burned' = [burned EXCEPT ![request.token] = key]
  /\ replyOrg' = org
  /\ at' = "reply"
  /\ UNCHANGED <<diskVars, request, key, keys, runs, installed>>

(* Mutant of ReceiveReply: the organization answered for is not compared.  *)
ReceiveAnyReply ==
  /\ at = "reply"
  /\ at' = "save"
  /\ UNCHANGED <<diskVars, burned, request, key, replyOrg, keys, runs, installed>>

ReceiveReply ==
  /\ at = "reply"
  /\ at' = IF replyOrg = request.org THEN "save" ELSE "idle"
  /\ UNCHANGED <<diskVars, burned, request, key, replyOrg, keys, runs, installed>>

(* Mutant of SaveWrite: the attempt is removed before the rename.          *)
SaveWriteForgetful ==
  /\ at = "save"
  /\ temporary' = [state |-> "whole", key |-> key, connector |-> request.token,
                   org |-> replyOrg, private |-> TRUE]
  /\ attempt' = [attempt EXCEPT !.state = "none"]
  /\ at' = "rename"
  /\ UNCHANGED <<identity, burned, request, key, replyOrg, keys, runs, installed>>

(* Save: the temporary file, whatever an earlier run left in it, ...       *)
SaveWrite ==
  /\ at = "save"
  /\ temporary' = [state |-> "whole", key |-> key, connector |-> request.token,
                   org |-> replyOrg, private |-> TRUE]
  /\ at' = "rename"
  /\ UNCHANGED <<attempt, identity, burned, request, key, replyOrg, keys, runs, installed>>

(* ... and then the rename.                                                *)
SaveRename ==
  /\ at = "rename"
  /\ identity' = temporary
  /\ temporary' = [temporary EXCEPT !.state = "none"]
  /\ installed' = installed \cup {key}
  /\ at' = "complete"
  /\ UNCHANGED <<attempt, burned, request, key, replyOrg, keys, runs>>

(* CompleteEnrollmentAttempt removes the retry material.                   *)
Complete ==
  /\ at = "complete"
  /\ attempt' = [attempt EXCEPT !.state = "none"]
  /\ at' = "idle"
  /\ UNCHANGED <<temporary, identity, burned, request, key, replyOrg, keys, runs, installed>>

(* Any call fails, the request or its answer is lost, or the command is    *)
(* killed: it ends where it is.                                            *)
Interrupt ==
  /\ at # "idle"
  /\ at' = "idle"
  /\ UNCHANGED <<diskVars, burned, request, key, replyOrg, keys, runs, installed>>

(* The command is killed while the temporary file is being written.        *)
InterruptSave ==
  /\ at = "save"
  /\ temporary' = [temporary EXCEPT !.state = "torn"]
  /\ at' = "idle"
  /\ UNCHANGED <<attempt, identity, burned, request, key, replyOrg, keys, runs, installed>>

(* identity.json becomes readable by others, a restore or a copy gone wrong.*)
Expose ==
  /\ Usable
  /\ identity' = [identity EXCEPT !.private = FALSE]
  /\ UNCHANGED <<attempt, temporary, burned, commandVars, keys, runs, installed>>

(* identity.json is lost, or removed because it was compromised.           *)
Lose ==
  /\ at = "idle" /\ identity.state # "none"
  /\ identity' = [identity EXCEPT !.state = "none"]
  /\ UNCHANGED <<attempt, temporary, burned, commandVars, keys, runs, installed>>

Next ==
  \/ \E r \in Requests : Begin(r)
  \/ AttemptLoad \/ AttemptRefused \/ AttemptCreate \/ AttemptWrite \/ AttemptWriteFails
  \/ \E org \in Organizations : Enroll(org)
  \/ ReceiveReply \/ SaveWrite \/ SaveRename \/ Complete
  \/ Interrupt \/ InterruptSave \/ Expose \/ Lose

Spec == Init /\ [][Next]_vars

-----------------------------------------------------------------------------
(* The type invariant.                                                     *)
TypeOK ==
  /\ attempt \in Attempts /\ identity \in Identities /\ temporary \in Identities
  /\ burned \in [Tokens -> Keys]
  /\ at \in {"idle", "attempt", "write", "request", "reply", "save", "rename", "complete"}
  /\ request \in Requests \cup {NoRequest} /\ key \in Keys
  /\ replyOrg \in Organizations \cup {NoOrg}
  /\ keys \in Keys /\ runs \in 0..MaxRuns
  /\ installed \subseteq Keys

(* A token is never burned for nothing: the key the control plane recorded *)
(* has been installed, or is still in the attempt, so running the command  *)
(* again with the same token completes the enrollment.  Wherever it was    *)
(* interrupted ("resumable", enrollment.go, Run).                          *)
EnrollmentResumable ==
  \A t \in Tokens : burned[t] # NoKey =>
    \/ burned[t] \in installed
    \/ attempt.state = "whole" /\ attempt.key = burned[t]

(* The identity on disk is never half written, and is what the control     *)
(* plane recorded: that key, for that connector, in that organization.     *)
IdentityAsEnrolled ==
  identity.state # "none" =>
    /\ identity.state = "whole"
    /\ burned[identity.connector] = identity.key
    /\ TokenOrg[identity.connector] = identity.org

(* A key is never registered with two organizations, whatever attempts are *)
(* left over and retried.                                                  *)
OneOrganizationPerKey ==
  \A t, u \in Tokens :
    burned[t] = burned[u] /\ burned[t] # NoKey => TokenOrg[t] = TokenOrg[u]

(* install never replaces an identity that is there, usable or not ("not   *)
(* usable and was preserved"), and enroll --if-needed none that is usable. *)
IdentityPreserved ==
  [][at = "rename" /\ identity' # identity =>
       /\ request.command = "install" => identity.state = "none"
       /\ request.command = "enroll --if-needed" => ~Usable]_vars

(* Document claim (docs/installation-and-operation.md): "After an          *)
(* interruption, run the same command again."  An idle host's attempt can  *)
(* be continued.                                                           *)
AttemptStaysReadable == at = "idle" => attempt.state # "torn"

(* Document claim (docs/installation-and-operation.md): a compromised      *)
(* identity is replaced by enrolling "a new identity".  Another connector  *)
(* has another key.                                                        *)
NewIdentityNewKey ==
  \A t, u \in Tokens : burned[t] = burned[u] /\ burned[t] \in installed => t = u
=============================================================================
