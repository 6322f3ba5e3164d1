------------------------- MODULE MCCheckpointWriter -------------------------
(* CheckpointWriter with three mutants to run and one settled before.        *)
EXTENDS CheckpointWriter, TLC

CONSTANTS k, m1, m2, m3

MCPlanned == {k, m1, m2, m3}
MCSettledBefore == {k}
================================================================================
