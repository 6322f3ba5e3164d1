----------------------------- MODULE CheckerChain -----------------------------
(***************************************************************************)
(* What the checkers of a run promise: each mutant is put to them one after  *)
(* the other, is run once all have passed it, and else keeps the verdict of  *)
(* the first that did not; and the stream of results ends when every mutant  *)
(* has one, or fails.  How mutants are grouped, which worker checks them and *)
(* in which order does not show.                                             *)
(***************************************************************************)
EXTENDS Integers

CONSTANTS Mutants, Checkers

VARIABLES passed,   \* how many checkers have passed a mutant
          verdict,  \* what became of it, or none
          over      \* whether the stream goes on, is done or has failed

vars == <<passed, verdict, over>>

Init ==
  /\ passed = [m \in Mutants |-> 0]
  /\ verdict = [m \in Mutants |-> "none"]
  /\ over = "no"

\* A checker passes some mutants of a group, and no others.
Pass ==
  /\ over = "no"
  /\ \E group \in SUBSET Mutants :
       /\ \A m \in group : verdict[m] = "none" /\ passed[m] < Checkers
       /\ passed' = [m \in Mutants |-> IF m \in group THEN passed[m] + 1 ELSE passed[m]]
  /\ UNCHANGED <<verdict, over>>

Settle(m) ==
  /\ over = "no"
  /\ verdict[m] = "none"
  /\ \E v \in {"compileError", "ignored", "ran"} :
       /\ (v = "ran") <=> (passed[m] = Checkers)
       /\ verdict' = [verdict EXCEPT ![m] = v]
  /\ UNCHANGED <<passed, over>>

Finish ==
  /\ over = "no"
  /\ \A m \in Mutants : verdict[m] # "none"
  /\ over' = "done"
  /\ UNCHANGED <<passed, verdict>>

Fail ==
  /\ over = "no"
  /\ over' = "failed"
  /\ UNCHANGED <<passed, verdict>>

Next == Pass \/ (\E m \in Mutants : Settle(m)) \/ Finish \/ Fail

Spec == Init /\ [][Next]_vars
=============================================================================
