--------------------------- MODULE MCMutantRunsFew ---------------------------
(* MutantRuns on one static mutant, which has covering tests too, and one    *)
(* that is neither, for the runs that show where the code departs from what  *)
(* it documents.                                                             *)
EXTENDS MutantRuns

CONSTANTS s, a

MCMutants == {s, a}
MCStatic == {s}
==============================================================================
