--------------------------- MODULE JobLifecycle ---------------------------
(***************************************************************************)
(* What the connector promises about a signed job, whatever is delivered,  *)
(* redelivered, crashed or restarted: it begins at most once, and once it  *)
(* is over (finished, refused by the local policy, lost in a crash, or     *)
(* dropped before it began) it never begins again.  docs/security.md puts  *)
(* it as "did not run, never ran twice".  JobVerification implements it.   *)
(***************************************************************************)
CONSTANT Jobs     \* the jobs the control plane signs

VARIABLE phase    \* Jobs -> what has become of the job

Init == phase = [j \in Jobs |-> "new"]

Begin(j) == phase[j] = "new" /\ phase' = [phase EXCEPT ![j] = "begun"]

End(j) == phase[j] = "begun" /\ phase' = [phase EXCEPT ![j] = "over"]

Drop(j) == phase[j] = "new" /\ phase' = [phase EXCEPT ![j] = "over"]

Next == \E j \in Jobs : Begin(j) \/ End(j) \/ Drop(j)

Spec == Init /\ [][Next]_phase
=============================================================================
