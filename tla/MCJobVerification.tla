------------------------ MODULE MCJobVerification ------------------------
(* Instances of JobVerification for TLC. *)
EXTENDS JobVerification, TLC

Envelope(n, verdict, issued, expires) ==
  [nonce |-> n, verdict |-> verdict, issuedAt |-> issued, expiresAt |-> expires]

CONSTANT n1

(* A job issued as far ahead of the host's clock as ClockSkew = 1 allows,   *)
(* and one document for each way Verify can refuse, issued a tick further, *)
(* that claims the job's nonce.                                            *)
MCEnvelopes ==
  {Envelope(n1, "authentic", 1, 2)}
    \cup {Envelope(n1, verdict, 2, 3) : verdict \in Verdicts \ {"authentic"}}

ProcessSymmetry == Permutations(Processes)
=============================================================================
