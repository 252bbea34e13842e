------------------------ MODULE MCDeleteExecution ------------------------
(* Instances of DeleteExecution for TLC. *)
EXTENDS DeleteExecution, TLC

Limits(max, batch, timed) == [maxRows |-> max, batchSize |-> batch, timed |-> timed]
Drift(expected, rows, points) ==
  [expectedRows |-> expected, driftRows |-> rows, driftBasisPoints |-> points]

(* A ceiling that is no multiple of the batch size, and drift policies that *)
(* are exact, absolute, and relative (2500 basis points are one quarter).    *)
MCJobs ==
  { Limits(3, 2, TRUE) @@ Drift(2, 0, 0),
    Limits(3, 2, TRUE) @@ Drift(2, 1, 0),
    Limits(3, 2, TRUE) @@ Drift(4, 2, 2500) }

(* One batch per row, for the checkpoint runs. *)
MCGateJobs == {Limits(3, 1, FALSE) @@ Drift(3, 0, 0)}

RowSymmetry == Permutations(Rows)
=============================================================================
