----------------------------- MODULE MCMutantRuns -----------------------------
(* MutantRuns on a static mutant, a mutant with covering tests and one that  *)
(* runs all tests.                                                           *)
EXTENDS MutantRuns

CONSTANTS s, c, a

MCMutants == {s, c, a}
MCStatic == {s}
MCCovered == {c}
===============================================================================
