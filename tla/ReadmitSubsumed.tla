-------------------------- MODULE ReadmitSubsumed --------------------------
(***************************************************************************)
(* The pure decision of readmit-subsumed.workflow.ts: whether a mutant     *)
(* that was held back because other mutants (its dominators) subsume it    *)
(* stays ignored, or has to be checked and run after all.                  *)
(*                                                                         *)
(* A dominator's settlement is abstracted to the status it settled with,   *)
(* or to Unsettled: the ruling tells apart only the statuses that show the *)
(* dominator ran from everything else (ignored at plan or check time, a    *)
(* compile error, no settlement).                                          *)
(***************************************************************************)
EXTENDS Naturals, Sequences

\* RUNNING_STATUSES: the statuses of a mutant that was put to the tests.
RunStatuses == {"Killed", "Survived", "Timeout", "NoCoverage", "RuntimeError"}

\* The statuses of a mutant decided without being put to the tests.
UnrunStatuses == {"Ignored", "CompileError"}

Statuses == RunStatuses \cup UnrunStatuses

\* No DominatorSettlement names the mutant (the outcome Unsettled).
Unsettled == "Unsettled"

\* Faulty: any settlement at all counts as a run.
RunningPositionsAnySettlement(dominators, outcome) ==
  {i \in DOMAIN dominators : outcome[dominators[i]] # Unsettled}

\* The positions of a list of dominators whose settlement shows that they ran.
RunningPositions(dominators, outcome) ==
  {i \in DOMAIN dominators : outcome[dominators[i]] \in RunStatuses}

\* rulingOf: one running dominator is enough to keep the mutant ignored.
StillSubsumed(dominators, outcome) == RunningPositions(dominators, outcome) # {}

\* Result.all stops at its first failure: the ruling names the first running
\* dominator of the list.
FirstRunning(dominators, outcome) ==
  CHOOSE i \in RunningPositions(dominators, outcome) :
    \A j \in RunningPositions(dominators, outcome) : i <= j

\* stillSubsumedResultOf: the list the ignored result carries, the running
\* dominator moved to the front. The list names no mutant twice, so filtering
\* that mutant out takes one position from it.
RunningFirst(dominators, outcome) ==
  LET i == FirstRunning(dominators, outcome)
  IN  <<dominators[i]>> \o SubSeq(dominators, 1, i - 1)
                        \o SubSeq(dominators, i + 1, Len(dominators))
=============================================================================
