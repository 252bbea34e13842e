--------------------------- MODULE RecountDrift ---------------------------
(***************************************************************************)
(* internal/evidence/evidence.go, DriftExceeded: has the recount moved too *)
(* far from what the plan measured?  The envelope's drift block is a       *)
(* record with expectedRows, driftRows (max_rows) and driftBasisPoints     *)
(* (max_basis_points); zero means that the tolerance is not set.           *)
(***************************************************************************)
EXTENDS Integers

Difference(expected, observed) ==
  IF observed < expected THEN expected - observed ELSE observed - expected

(* Both tolerances bind when both are set, and without a tolerance any     *)
(* difference at all is too much.                                          *)
DriftExceeded(drift, observed) ==
  LET expected   == drift.expectedRows
      difference == Difference(expected, observed)
  IN IF drift.driftRows = 0 /\ drift.driftBasisPoints = 0
     THEN difference # 0
     ELSE \/ /\ drift.driftRows > 0
             /\ difference > drift.driftRows
          \/ /\ drift.driftBasisPoints > 0
             /\ expected > 0
             /\ difference * 10000 > expected * drift.driftBasisPoints
=============================================================================
