----------------------------- MODULE Settlement -----------------------------
(***************************************************************************)
(* What a mutation-testing run promises to whoever reads its events: every *)
(* planned mutant's status is published at most once and is never revised, *)
(* and a report is produced only from the complete set of statuses.  A run *)
(* that cannot continue is abandoned and then reports nothing.             *)
(*                                                                         *)
(* MutationTest is shown to implement this specification.                  *)
(***************************************************************************)
CONSTANTS Mutants,   \* the planned mutants
          Statuses,  \* the statuses a mutant may settle with
          None       \* no status yet

VARIABLES published,  \* the status published for each mutant, or None
          outcome     \* "open", "reported" or "abandoned"

vars == <<published, outcome>>

TypeOK ==
  /\ published \in [Mutants -> Statuses \cup {None}]
  /\ outcome \in {"open", "reported", "abandoned"}

Init ==
  /\ published = [m \in Mutants |-> None]
  /\ outcome = "open"

Publish(m, status) ==
  /\ outcome = "open"
  /\ published[m] = None
  /\ published' = [published EXCEPT ![m] = status]
  /\ UNCHANGED outcome

Report ==
  /\ outcome = "open"
  /\ \A m \in Mutants : published[m] # None
  /\ outcome' = "reported"
  /\ UNCHANGED published

Abandon ==
  /\ outcome = "open"
  /\ outcome' = "abandoned"
  /\ UNCHANGED published

Next ==
  \/ \E m \in Mutants, status \in Statuses : Publish(m, status)
  \/ Report
  \/ Abandon

Spec == Init /\ [][Next]_vars
=============================================================================
