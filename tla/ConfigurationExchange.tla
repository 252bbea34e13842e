----------------------- MODULE ConfigurationExchange -----------------------
(***************************************************************************)
(* What the connector promises the console about sealed settings, said     *)
(* without files, ledger entries, redelivery or crashes: settings change   *)
(* only when an envelope that is meant for this connector, was issued and  *)
(* is not answered yet is applied whole; every answer about one envelope   *)
(* says the same, however often it is given; and "applied" is said only of *)
(* an envelope that was.  An envelope may be applied more than once before *)
(* its answer, and one that was applied may still be refused: neither is   *)
(* excluded here.  SealedConfiguration implements this.                    *)
(***************************************************************************)
CONSTANTS
  Envelopes,  \* what the console may seal: settings for a source
  Genuine,    \* those that open for this connector and name its source
  Sources,
  Unset,      \* no settings were ever applied
  Answers,    \* what may be said of an envelope
  Success     \* the one of them that says that it was applied

VARIABLES
  pending,    \* the envelopes waiting for an answer
  told,       \* Envelopes -> what the console was told about it
  settings,   \* Sources -> the settings in force
  reached     \* the envelopes whose settings were in force at some time

vars == <<pending, told, settings, reached>>

Init ==
  /\ pending = {} /\ reached = {}
  /\ told = [e \in Envelopes |-> {}]
  /\ settings = [s \in Sources |-> Unset]

Issue(e) ==
  /\ told[e] = {} /\ e \notin pending
  /\ pending' = pending \cup {e}
  /\ UNCHANGED <<told, settings, reached>>

Apply(e) ==
  /\ e \in pending \cap Genuine /\ told[e] = {}
  /\ settings' = [settings EXCEPT ![e.source] = e.settings]
  /\ reached' = reached \cup {e}
  /\ UNCHANGED <<pending, told>>

(* The first answer is given to an issued envelope; any later one repeats  *)
(* it.                                                                     *)
Tell(e, answer) ==
  /\ e \in pending \/ told[e] # {}
  /\ told[e] \subseteq {answer}
  /\ answer = Success => e \in reached
  /\ told' = [told EXCEPT ![e] = {answer}]
  /\ pending' = pending \ {e}
  /\ UNCHANGED <<settings, reached>>

Next ==
  \E e \in Envelopes :
    Issue(e) \/ Apply(e) \/ \E answer \in Answers : Tell(e, answer)

Spec == Init /\ [][Next]_vars
=============================================================================
