-------------------------- MODULE MCInitialTestRun --------------------------
(* InitialTestRun with two mutants, one of them static, and three versions of  *)
(* the project: the checkers refuse both mutants, one of them, or both while  *)
(* one has become ignored.                                                   *)
EXTENDS InitialTestRun

CONSTANTS m1, m2

MCRefused == <<{m1, m2}, {m1}, {m1, m2}>>
MCEarly   == <<{}, {}, {m2}>>
MCScopes  == {{m1, m2}, {m1}}

MCFlakySets == {{}, {m1}}

Plain     == [NoOptions EXCEPT !.checkers = TRUE]
MCOptions == {Plain, [Plain EXCEPT !.force = TRUE], [Plain EXCEPT !.dryRunOnly = TRUE]}

(* The project starts from one content in one place. *)
MCInit == Init /\ disk = [project |-> 1, extra |-> 1, inputs |-> 1, root |-> 1]
MCSpec == MCInit /\ [][Next]_vars
=============================================================================
