--------------------------- MODULE MCMutationTest ---------------------------
(* MutationTest on four mutants: subsumed mutants behind kept, remembered,  *)
(* early and other subsumed mutants, and behind one the run was not asked   *)
(* for.                                                                     *)
EXTENDS MutationTest, TLC

CONSTANTS m1, m2, m3, m4, x

MCMutants == {m1, m2, m3, m4}
MCOutsiders == {x}

OnFour(a, b, c, d) == m1 :> a @@ m2 :> b @@ m3 :> c @@ m4 :> d

\* Two kept mutants; m3 names both, m4 names the held m3.
Chain == [kind       |-> OnFour("kept", "kept", "held", "held"),
          dominators |-> OnFour(<<>>, <<>>, <<m1, m2>>, <<m3>>),
          given      |-> OnFour(None, None, None, None)]

\* A remembered mutant that had run, an early one, and a held mutant behind
\* both.
Known == [kind       |-> OnFour("remembered", "early", "held", "kept"),
          dominators |-> OnFour(<<>>, <<>>, <<m2, m1>>, <<>>),
          given      |-> OnFour("Survived", "Ignored", None, None)]

\* A remembered mutant that did not compile, and held mutants behind it, one
\* another and a mutant outside the run.
Mutual == [kind       |-> OnFour("remembered", "held", "held", "kept"),
           dominators |-> OnFour(<<>>, <<m3, m1>>, <<x, m2, m4>>, <<>>),
           given      |-> OnFour("CompileError", None, None, None)]

\* More kept mutants than fibers.
Wide == [kind       |-> OnFour("kept", "kept", "kept", "early"),
         dominators |-> OnFour(<<>>, <<>>, <<>>, <<>>),
         given      |-> OnFour(None, None, None, "Ignored")]

MCPlans == {Chain, Known, Mutual, Wide}
=============================================================================
