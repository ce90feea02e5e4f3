------------------------------ MODULE MCWorker ------------------------------
(* Model values and symmetry for the runs of Worker. *)
EXTENDS Worker, TLC

CONSTANTS w1, w2, r1, r2

TwoWorkers == {w1, w2}
OneWorker  == {w1}
TwoRows    == {r1, r2}
OneRow     == {r1}
None       == {}
Loop       == {FALSE}
LoopOrOnce == {FALSE, TRUE}

Symmetry == Permutations({w1, w2}) \cup Permutations({r1, r2})
=============================================================================
