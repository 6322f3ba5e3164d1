----------------------------- MODULE MCCheckerPool -----------------------------
(* CheckerPool with three mutants, of which one cannot be described.          *)
EXTENDS CheckerPool

CONSTANTS m1, m2, m3

MCMutants == {m1, m2, m3}
MCUndescribable == {m3}
================================================================================
