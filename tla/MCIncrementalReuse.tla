------------------------- MODULE MCIncrementalReuse -------------------------
(* IncrementalReuse on a static mutant whose runs another mutant may make      *)
(* flaky, for runs of it and runs restricted to others.                       *)
EXTENDS IncrementalReuse

CONSTANTS m1, m2

MCMutants == {m1, m2}
MCScopes  == {{m1}, {}}

(* One first content of the project stands for all: contents are only compared. *)
MCInit == disk = [closure |-> [m \in Mutants |-> 1], program |-> 1, inputs |-> 1] /\ Init

(* Which tests are flaky makes no difference to m1: it is static.             *)
MCNext == Next /\ flaky' \in {{}, {m2}}

MCSpec == MCInit /\ [][MCNext]_vars
=============================================================================
