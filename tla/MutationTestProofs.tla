------------------------- MODULE MutationTestProofs -------------------------
(***************************************************************************)
(* Proofs about MutationTest, for every set of mutants, every set of       *)
(* plans, every number of checkers and every capacity.                     *)
(***************************************************************************)
EXTENDS MutationTest, WellFoundedInduction,
        FiniteSetTheorems, TLAPS

-----------------------------------------------------------------------------
(* The order in which the running dominator is named.                      *)

\* A set of positions has a least one: the first running dominator of a list
\* exists as soon as one of them ran (Result.all in rulingOf finds it).
LEMMA LeastPosition ==
  ASSUME NEW S \in SUBSET Nat, S # {}
  PROVE  \E i \in S : \A j \in S : i <= j
<1>1. PICK i \in S : \A j \in S : <<j, i>> \notin OpToRel(<, Nat)
  BY NatLessThanWellFounded, WFMin
<1>2. \A j \in S : ~ (j < i)
  BY <1>1 DEF OpToRel
<1> QED BY <1>2

\* The position FirstRunning picks is one of a running dominator, and no
\* running dominator comes before it.
LEMMA FirstRunningLeast ==
  ASSUME NEW S, NEW ds \in Seq(S), NEW outcome, StillSubsumed(ds, outcome)
  PROVE  /\ FirstRunning(ds, outcome) \in DOMAIN ds
         /\ outcome[ds[FirstRunning(ds, outcome)]] \in RunStatuses
         /\ \A j \in DOMAIN ds : j < FirstRunning(ds, outcome) =>
              outcome[ds[j]] \notin RunStatuses
<1> DEFINE P == RunningPositions(ds, outcome)
<1>1. P \in SUBSET Nat /\ P # {}
  BY DEF RunningPositions, StillSubsumed
<1>2. \E i \in P : \A j \in P : i <= j
  BY <1>1, LeastPosition
<1>3. /\ FirstRunning(ds, outcome) \in P
      /\ \A j \in P : FirstRunning(ds, outcome) <= j
  BY <1>2 DEF FirstRunning
<1> QED BY <1>1, <1>3 DEF RunningPositions

\* stillSubsumedResultOf keeps the list a list of the same mutants and puts
\* the running dominator first.
LEMMA RunningFirstHead ==
  ASSUME NEW S, NEW ds \in Seq(S), NEW outcome, StillSubsumed(ds, outcome)
  PROVE  /\ RunningFirst(ds, outcome) \in Seq(S)
         /\ RunningFirst(ds, outcome) # <<>>
         /\ Head(RunningFirst(ds, outcome)) = ds[FirstRunning(ds, outcome)]
<1> DEFINE i == FirstRunning(ds, outcome)
           rest == SubSeq(ds, i + 1, Len(ds))
           before == SubSeq(ds, 1, i - 1)
<1>1. i \in 1 .. Len(ds)
  BY FirstRunningLeast
<1>2. ds[i] \in S
  BY <1>1
<1> HIDE DEF i
<1>3. before \in Seq(S) /\ rest \in Seq(S) /\ <<ds[i]>> \in Seq(S)
  BY <1>1, <1>2
<1>4. /\ <<ds[i]>> \o before \o rest \in Seq(S)
      /\ <<ds[i]>> \o before \o rest # <<>>
      /\ Head(<<ds[i]>> \o before \o rest) = ds[i]
  <2> HIDE DEF before, rest
  <2> QED BY <1>2, <1>3
<1> QED BY <1>4 DEF RunningFirst, i
-----------------------------------------------------------------------------
(* Types.                                                                  *)

\* The plan a run starts from is well typed and well formed.
LEMMA InitType == Init => TypeOK
<1> SUFFICES ASSUME Init PROVE TypeOK
  OBVIOUS
<1>1. PICK plan \in Plans :
        /\ kind = plan.kind
        /\ dominators = plan.dominators
        /\ verdict = plan.given
  BY DEF Init
<1>2. plan \in PlanType
  BY PlansAssumption
<1>3. /\ kind \in [Mutants -> Kinds]
      /\ dominators \in [Mutants -> Seq(Mutants \cup Outsiders)]
      /\ verdict \in [Mutants -> Statuses \cup {None}]
  BY <1>1, <1>2 DEF PlanType
<1>4. /\ phase \in Phases
      /\ stage \in [Mutants -> Stages]
      /\ checker \in [Mutants -> 0 .. Checkers]
      /\ ruling \in [Mutants -> {"none", "subsumed", "readmitted"}]
      /\ completed \in Nat
      /\ ticket \in [Mutants -> Nat]
      /\ stream \in Seq(Mutants)
  BY SizesAssumption DEF Init, Phases, Stages
<1> QED BY <1>3, <1>4 DEF TypeOK

\* Drawing a number keeps every variable in its type (offerFinished).
LEMMA DrawNumberType ==
  ASSUME TypeOK, NEW m \in Mutants, DrawNumber(m)
  PROVE  TypeOK'
BY DEF TypeOK, DrawNumber, plan_vars, Stages

\* The ruling on the held mutants keeps every variable in its type.
LEMMA RuleOnHeldType == TypeOK /\ RuleOnHeld => TypeOK'
<1> SUFFICES ASSUME TypeOK, RuleOnHeld PROVE TypeOK'
  OBVIOUS
<1> DEFINE subsumed == {m \in OfKind("held") : StillSubsumed(dominators[m], Outcomes)}
<1>1. /\ ruling' = [m \in Mutants |-> IF kind[m] # "held" THEN "none"
                                       ELSE IF m \in subsumed THEN "subsumed"
                                       ELSE "readmitted"]
      /\ verdict' = [m \in Mutants |-> IF m \in subsumed THEN "Ignored"
                                        ELSE verdict[m]]
      /\ dominators' = [m \in Mutants |->
                           IF m \in subsumed
                             THEN RunningFirst(dominators[m], Outcomes)
                             ELSE dominators[m]]
      /\ phase' = "subsuming"
      /\ UNCHANGED <<kind, stage, checker, completed, ticket, stream>>
  BY DEF RuleOnHeld
<1>2. ASSUME NEW m \in Mutants, m \in subsumed
      PROVE  RunningFirst(dominators[m], Outcomes) \in Seq(Mutants \cup Outsiders)
  BY <1>2, RunningFirstHead DEF TypeOK
<1>3. dominators' \in [Mutants -> Seq(Mutants \cup Outsiders)]
  BY <1>1, <1>2 DEF TypeOK
<1>4. /\ verdict' \in [Mutants -> Statuses \cup {None}]
      /\ ruling' \in [Mutants -> {"none", "subsumed", "readmitted"}]
      /\ phase' \in Phases
  <2> HIDE DEF subsumed
  <2> QED BY <1>1 DEF TypeOK, Phases, Statuses, UnrunStatuses
<1> QED BY <1>1, <1>3, <1>4 DEF TypeOK

\* Every step keeps every variable in its type.
LEMMA NextType == TypeOK /\ [Next]_vars => TypeOK'
<1> SUFFICES ASSUME TypeOK, [Next]_vars PROVE TypeOK'
  OBVIOUS
<1> USE DEF plan_vars
<1>1. ASSUME NEW m \in Mutants, MutantStep(m) PROVE TypeOK'
  <2>1. CASE AnnounceKnown(m)
    BY <2>1, DrawNumberType DEF AnnounceKnown
  <2>2. CASE AnnounceSettled(m)
    BY <2>2, DrawNumberType DEF AnnounceSettled
  <2>3. CASE AnnounceSubsumed(m)
    BY <2>3, DrawNumberType DEF AnnounceSubsumed
  <2>4. CASE OfferEvent(m)
    BY <2>4 DEF TypeOK, OfferEvent, Stages
  <2>5. CASE Record(m)
    BY <2>5 DEF TypeOK, Record, Stages
  <2>6. CASE CheckPassed(m)
    <3>1. checker[m] \in 0 .. Checkers /\ checker[m] < Checkers
      BY <2>6 DEF TypeOK, CheckPassed
    <3>2. checker[m] + 1 \in 0 .. Checkers
      BY <3>1, SizesAssumption
    <3> QED BY <2>6, <3>2 DEF TypeOK, CheckPassed
  <2>7. ASSUME NEW status \in UnrunStatuses, CheckRefused(m, status) PROVE TypeOK'
    BY <2>7 DEF TypeOK, CheckRefused, Stages, Statuses
  <2>8. CASE CheckDone(m)
    BY <2>8 DEF TypeOK, CheckDone, Stages
  <2>9. CASE StartWork(m)
    BY <2>9 DEF TypeOK, StartWork, Stages
  <2>10. ASSUME NEW status \in RunStatuses, RunMutant(m, status) PROVE TypeOK'
    BY <2>10 DEF TypeOK, RunMutant, Statuses
  <2> QED BY <1>1, <2>1, <2>2, <2>3, <2>4, <2>5, <2>6, <2>7, <2>8, <2>9, <2>10
          DEF MutantStep
<1>2. CASE StageStep
  <2>1. CASE StartChecking
    <3>1. stage' \in [Mutants -> Stages]
      BY <2>1 DEF StartChecking, Stages
    <3> QED BY <2>1, <3>1 DEF TypeOK, StartChecking, Phases
  <2>2. CASE RuleOnHeld
    BY <2>2, RuleOnHeldType
  <2>3. CASE ReadmitHeld
    <3>1. stage' \in [Mutants -> Stages]
      BY <2>3 DEF TypeOK, ReadmitHeld, Stages
    <3>2. phase' \in Phases
      BY <2>3 DEF ReadmitHeld, Phases
    <3> QED BY <2>3, <3>1, <3>2 DEF TypeOK, ReadmitHeld
  <2>4. CASE FinishReadmitted
    BY <2>4 DEF TypeOK, FinishReadmitted, Phases
  <2>5. CASE EmitVerdict
    BY <2>5 DEF TypeOK, EmitVerdict, Phases
  <2>6. CASE WriteReport
    BY <2>6 DEF TypeOK, WriteReport, Phases
  <2> QED BY <1>2, <2>1, <2>2, <2>3, <2>4, <2>5, <2>6 DEF StageStep
<1>3. CASE FailRun
  BY <1>3 DEF TypeOK, FailRun, Phases
<1>4. CASE FailReport
  BY <1>4 DEF TypeOK, FailReport, Phases
<1>5. CASE UNCHANGED vars
  BY <1>5 DEF TypeOK, vars
<1> QED BY <1>1, <1>2, <1>3, <1>4, <1>5 DEF Next, Ended

\* Every variable of the stage stays in its type.
THEOREM TypeCorrect == Spec => []TypeOK
BY InitType, NextType, PTL DEF Spec

-----------------------------------------------------------------------------
(* The inductive invariant, in named parts.                                *)

\* What each phase has behind it: known results first, kept plans before any
\* ruling, readmitted plans last, and everything before the report.
PhaseOrder ==
  /\ phase = "announcing" =>
       \A m \in Mutants :
         /\ stage[m] \in {"idle", "counted", "announced"}
         /\ kind[m] \in {"kept", "held"} => stage[m] = "idle"
  /\ phase # "announcing" =>
       Settled(OfKind("remembered") \cup OfKind("early"))
  /\ phase = "checking" => \A m \in OfKind("held") : stage[m] = "idle"
  /\ phase \in {"announcing", "checking"} => \A m \in Mutants : ruling[m] = "none"
  /\ \A m \in Mutants : ruling[m] # "none" => kind[m] = "held"
  /\ phase \in {"subsuming", "readmitting"} =>
       /\ Settled(OfKind("kept"))
       /\ \A m \in OfKind("held") : ruling[m] # "none"
  /\ phase = "subsuming" => \A m \in Ruled("readmitted") : stage[m] = "idle"
  /\ phase = "readmitting" => Settled(Ruled("subsumed"))
  /\ phase \in {"reporting", "writing", "reported", "unwritten"} =>
       Settled(Mutants)

\* A mutant has its status before it draws a number.
VerdictFirst ==
  \A m \in Mutants :
    /\ stage[m] \in {"counted", "announced", "settled"} => verdict[m] # None
    /\ kind[m] = "remembered" => verdict[m] # None
    /\ kind[m] = "early" => verdict[m] = "Ignored"
    /\ ruling[m] = "subsumed" => verdict[m] = "Ignored"

IInv ==
  /\ TypeOK
  /\ PhaseOrder
  /\ VerdictFirst
  /\ SubsumedBehindARunner
  /\ ReadmittedWithoutRunner
  /\ NumbersUnique
  /\ StreamedOnce

\* Every step keeps the phases in their order.
LEMMA NextPhaseOrder == TypeOK /\ PhaseOrder /\ [Next]_vars => PhaseOrder'
<1> SUFFICES ASSUME TypeOK, PhaseOrder, [Next]_vars PROVE PhaseOrder'
  OBVIOUS
<1> USE DEF plan_vars, TypeOK, PhaseOrder, Settled, OfKind, Ruled
<1>1. ASSUME NEW m \in Mutants, MutantStep(m) PROVE PhaseOrder'
  <2>1. CASE AnnounceKnown(m)
    BY <2>1 DEF AnnounceKnown, DrawNumber
  <2>2. CASE AnnounceSettled(m)
    BY <2>2 DEF AnnounceSettled, DrawNumber
  <2>3. CASE AnnounceSubsumed(m)
    BY <2>3 DEF AnnounceSubsumed, DrawNumber
  <2>4. CASE OfferEvent(m)
    BY <2>4 DEF OfferEvent
  <2>5. CASE Record(m)
    BY <2>5 DEF Record
  <2>6. CASE CheckPassed(m)
    BY <2>6 DEF CheckPassed
  <2>7. ASSUME NEW status \in UnrunStatuses, CheckRefused(m, status) PROVE PhaseOrder'
    BY <2>7 DEF CheckRefused, Statuses
  <2>8. CASE CheckDone(m)
    BY <2>8 DEF CheckDone
  <2>9. CASE StartWork(m)
    BY <2>9 DEF StartWork
  <2>10. ASSUME NEW status \in RunStatuses, RunMutant(m, status) PROVE PhaseOrder'
    BY <2>10 DEF RunMutant, Statuses
  <2> QED BY <1>1, <2>1, <2>2, <2>3, <2>4, <2>5, <2>6, <2>7, <2>8, <2>9, <2>10 DEF MutantStep
<1>2. CASE StageStep
  <2>1. CASE StartChecking
    BY <2>1 DEF StartChecking
  <2>2. CASE RuleOnHeld
    BY <2>2 DEF RuleOnHeld
  <2>3. CASE ReadmitHeld
    BY <2>3 DEF ReadmitHeld, Kinds
  <2>4. CASE FinishReadmitted
    BY <2>4 DEF FinishReadmitted, Kinds
  <2>5. CASE EmitVerdict
    BY <2>5 DEF EmitVerdict
  <2>6. CASE WriteReport
    BY <2>6 DEF WriteReport
  <2> QED BY <1>2, <2>1, <2>2, <2>3, <2>4, <2>5, <2>6 DEF StageStep
<1>3. CASE FailRun
  BY <1>3 DEF FailRun
<1>4. CASE FailReport
  BY <1>4 DEF FailReport
<1>5. CASE UNCHANGED vars
  BY <1>5 DEF vars
<1> QED BY <1>1, <1>2, <1>3, <1>4, <1>5 DEF Next, Ended

\* Every step keeps a status ahead of its number.
LEMMA NextVerdictFirst == TypeOK /\ PhaseOrder /\ VerdictFirst /\ [Next]_vars => VerdictFirst'
<1> SUFFICES ASSUME TypeOK, PhaseOrder, VerdictFirst, [Next]_vars PROVE VerdictFirst'
  OBVIOUS
<1> USE DEF plan_vars, TypeOK, PhaseOrder, VerdictFirst, Settled, OfKind, Ruled, None, RunStatuses, UnrunStatuses
<1>1. ASSUME NEW m \in Mutants, MutantStep(m) PROVE VerdictFirst'
  <2>1. CASE AnnounceKnown(m)
    BY <2>1 DEF AnnounceKnown, DrawNumber
  <2>2. CASE AnnounceSettled(m)
    BY <2>2 DEF AnnounceSettled, DrawNumber
  <2>3. CASE AnnounceSubsumed(m)
    BY <2>3 DEF AnnounceSubsumed, DrawNumber
  <2>4. CASE OfferEvent(m)
    BY <2>4 DEF OfferEvent
  <2>5. CASE Record(m)
    BY <2>5 DEF Record
  <2>6. CASE CheckPassed(m)
    BY <2>6 DEF CheckPassed
  <2>7. ASSUME NEW status \in UnrunStatuses, CheckRefused(m, status) PROVE VerdictFirst'
    BY <2>7 DEF CheckRefused, Statuses
  <2>8. CASE CheckDone(m)
    BY <2>8 DEF CheckDone
  <2>9. CASE StartWork(m)
    BY <2>9 DEF StartWork
  <2>10. ASSUME NEW status \in RunStatuses, RunMutant(m, status) PROVE VerdictFirst'
    BY <2>10 DEF RunMutant, Statuses
  <2> QED BY <1>1, <2>1, <2>2, <2>3, <2>4, <2>5, <2>6, <2>7, <2>8, <2>9, <2>10 DEF MutantStep
<1>2. CASE StageStep
  <2>1. CASE StartChecking
    BY <2>1 DEF StartChecking, Kinds
  <2>2. CASE RuleOnHeld
    BY <2>2 DEF RuleOnHeld
  <2>3. CASE ReadmitHeld
    BY <2>3 DEF ReadmitHeld
  <2>4. CASE FinishReadmitted
    BY <2>4 DEF FinishReadmitted
  <2>5. CASE EmitVerdict
    BY <2>5 DEF EmitVerdict
  <2>6. CASE WriteReport
    BY <2>6 DEF WriteReport
  <2> QED BY <1>2, <2>1, <2>2, <2>3, <2>4, <2>5, <2>6 DEF StageStep
<1>3. CASE FailRun
  BY <1>3 DEF FailRun
<1>4. CASE FailReport
  BY <1>4 DEF FailReport
<1>5. CASE UNCHANGED vars
  BY <1>5 DEF vars
<1> QED BY <1>1, <1>2, <1>3, <1>4, <1>5 DEF Next, Ended

-----------------------------------------------------------------------------
(* The rulings on subsumed mutants.                                        *)

\* Nothing but the ruling itself changes a ruling, the list of dominators it
\* rests on, or the status of a mutant that has settled.
LEMMA RulingsStand ==
  ASSUME TypeOK, PhaseOrder, VerdictFirst, [Next]_vars, ~ RuleOnHeld
  PROVE  /\ ruling' = ruling /\ dominators' = dominators /\ kind' = kind
         /\ \A d \in Mutants : stage[d] = "settled" =>
              stage'[d] = "settled" /\ verdict'[d] = verdict[d]
<1> DEFINE Stand == /\ ruling' = ruling /\ dominators' = dominators /\ kind' = kind
                    /\ \A d \in Mutants : stage[d] = "settled" =>
                         stage'[d] = "settled" /\ verdict'[d] = verdict[d]
<1> SUFFICES Stand
  OBVIOUS
<1> USE DEF plan_vars, TypeOK, PhaseOrder, VerdictFirst, Settled, OfKind, Ruled
<1>1. ASSUME NEW m \in Mutants, MutantStep(m) PROVE Stand
  <2>1. CASE AnnounceKnown(m)
    BY <2>1 DEF AnnounceKnown, DrawNumber
  <2>2. CASE AnnounceSettled(m)
    BY <2>2 DEF AnnounceSettled, DrawNumber
  <2>3. CASE AnnounceSubsumed(m)
    BY <2>3 DEF AnnounceSubsumed, DrawNumber
  <2>4. CASE OfferEvent(m)
    BY <2>4 DEF OfferEvent
  <2>5. CASE Record(m)
    BY <2>5 DEF Record
  <2>6. CASE CheckPassed(m)
    BY <2>6 DEF CheckPassed
  <2>7. ASSUME NEW status \in UnrunStatuses, CheckRefused(m, status) PROVE Stand
    BY <2>7 DEF CheckRefused
  <2>8. CASE CheckDone(m)
    BY <2>8 DEF CheckDone
  <2>9. CASE StartWork(m)
    BY <2>9 DEF StartWork
  <2>10. ASSUME NEW status \in RunStatuses, RunMutant(m, status) PROVE Stand
    BY <2>10 DEF RunMutant
  <2> QED BY <1>1, <2>1, <2>2, <2>3, <2>4, <2>5, <2>6, <2>7, <2>8, <2>9, <2>10 DEF MutantStep
<1>2. CASE StageStep
  <2>1. CASE StartChecking
    BY <2>1 DEF StartChecking
  <2>2. CASE RuleOnHeld
    BY <2>2
  <2>3. CASE ReadmitHeld
    BY <2>3 DEF ReadmitHeld
  <2>4. CASE FinishReadmitted
    BY <2>4 DEF FinishReadmitted
  <2>5. CASE EmitVerdict
    BY <2>5 DEF EmitVerdict
  <2>6. CASE WriteReport
    BY <2>6 DEF WriteReport
  <2> QED BY <1>2, <2>1, <2>2, <2>3, <2>4, <2>5, <2>6 DEF StageStep
<1>3. CASE FailRun
  BY <1>3 DEF FailRun
<1>4. CASE FailReport
  BY <1>4 DEF FailReport
<1>5. CASE UNCHANGED vars
  BY <1>5 DEF vars
<1> QED BY <1>1, <1>2, <1>3, <1>4, <1>5 DEF Next, Ended

\* When the rulings are made, every mutant that was not held has settled with
\* a status (the first stream is drained and the known results announced).
LEMMA OutcomesKnown ==
  ASSUME TypeOK, PhaseOrder, VerdictFirst, RuleOnHeld,
         NEW d \in Mutants, d \notin OfKind("held")
  PROVE  /\ stage[d] = "settled"
         /\ verdict[d] \in Statuses
         /\ verdict'[d] = verdict[d]
         /\ Outcomes[d] = verdict[d]
<1> USE DEF TypeOK, OfKind, Settled
<1>1. stage[d] = "settled"
  BY DEF PhaseOrder, RuleOnHeld, Kinds
<1>2. verdict[d] \in Statuses
  BY <1>1 DEF VerdictFirst
<1>3. verdict'[d] = verdict[d]
  BY DEF RuleOnHeld
<1>4. Outcomes[d] = verdict[d]
  BY DEF Outcomes, SettlementOf, VerdictFirst
<1> QED BY <1>1, <1>2, <1>3, <1>4

\* A mutant the ruling finds to have run is a mutant of the run that was not
\* held.
LEMMA RunnerIsOfTheRun ==
  ASSUME TypeOK, NEW d \in Mutants \cup Outsiders, Outcomes[d] \in RunStatuses
  PROVE  d \in Mutants \ OfKind("held")
<1>1. SettlementOf(d) \in RunStatuses
  BY DEF Outcomes
<1>2. Unsettled \notin RunStatuses
  BY DEF Unsettled, RunStatuses
<1>3. d \in Mutants
  BY <1>1, <1>2 DEF SettlementOf, OfKind
<1>4. d \notin OfKind("held")
  BY <1>1, <1>2, <1>3 DEF SettlementOf, OfKind
<1> QED BY <1>3, <1>4

\* The ruling leaves a mutant ignored only behind a dominator that ran.
LEMMA RuleSubsumed ==
  TypeOK /\ PhaseOrder /\ VerdictFirst /\ RuleOnHeld => SubsumedBehindARunner'
<1> SUFFICES ASSUME TypeOK, PhaseOrder, VerdictFirst, RuleOnHeld,
                    NEW m \in Mutants, ruling'[m] = "subsumed"
             PROVE  /\ dominators'[m] # <<>>
                    /\ LET d == Head(dominators'[m])
                       IN  /\ d \in Mutants \ OfKind("held")'
                           /\ stage'[d] = "settled"
                           /\ verdict'[d] \in RunStatuses
  BY DEF SubsumedBehindARunner, Ruled
<1> DEFINE d == dominators[m][FirstRunning(dominators[m], Outcomes)]
<1>1. /\ StillSubsumed(dominators[m], Outcomes)
      /\ dominators'[m] = RunningFirst(dominators[m], Outcomes)
      /\ kind' = kind /\ stage' = stage
  BY DEF RuleOnHeld, OfKind
<1>2. dominators[m] \in Seq(Mutants \cup Outsiders)
  BY DEF TypeOK
<1>3. /\ dominators'[m] # <<>>
      /\ Head(dominators'[m]) = d
  BY <1>1, <1>2, RunningFirstHead
<1>4. d \in Mutants \cup Outsiders /\ Outcomes[d] \in RunStatuses
  BY <1>1, <1>2, FirstRunningLeast
<1> HIDE DEF d
<1>5. d \in Mutants \ OfKind("held")
  BY <1>4, RunnerIsOfTheRun
<1>6. /\ stage[d] = "settled"
      /\ verdict'[d] = Outcomes[d]
  BY <1>5, OutcomesKnown
<1> QED BY <1>1, <1>3, <1>4, <1>5, <1>6 DEF OfKind

\* The ruling readmits a mutant only when no dominator that was not held ran.
LEMMA RuleReadmitted ==
  TypeOK /\ PhaseOrder /\ VerdictFirst /\ RuleOnHeld => ReadmittedWithoutRunner'
<1> SUFFICES ASSUME TypeOK, PhaseOrder, VerdictFirst, RuleOnHeld,
                    NEW m \in Mutants, ruling'[m] = "readmitted",
                    NEW i \in DOMAIN dominators'[m],
                    dominators'[m][i] \in Mutants \ OfKind("held")'
             PROVE  /\ stage'[dominators'[m][i]] = "settled"
                    /\ verdict'[dominators'[m][i]] \in UnrunStatuses
  BY DEF ReadmittedWithoutRunner, Ruled
<1> DEFINE d == dominators[m][i]
<1>1. /\ ~ StillSubsumed(dominators[m], Outcomes)
      /\ dominators'[m] = dominators[m]
      /\ kind' = kind /\ stage' = stage
  BY DEF RuleOnHeld, OfKind
<1>2. d \in Mutants /\ d \notin OfKind("held")
  BY <1>1 DEF OfKind
<1>3. Outcomes[d] \notin RunStatuses
  BY <1>1 DEF StillSubsumed, RunningPositions
<1>4. /\ stage[d] = "settled" /\ verdict[d] \in Statuses
      /\ verdict'[d] = verdict[d] /\ Outcomes[d] = verdict[d]
  BY <1>2, OutcomesKnown
<1> QED BY <1>1, <1>3, <1>4 DEF Statuses

\* Every step keeps the mutants that stay subsumed behind a dominator that ran.
LEMMA NextSubsumed ==
  TypeOK /\ PhaseOrder /\ VerdictFirst /\ SubsumedBehindARunner /\ [Next]_vars
    => SubsumedBehindARunner'
<1>1. ASSUME TypeOK, PhaseOrder, VerdictFirst, SubsumedBehindARunner,
             [Next]_vars, ~ RuleOnHeld
      PROVE  SubsumedBehindARunner'
  BY <1>1, RulingsStand DEF SubsumedBehindARunner, Ruled, OfKind
<1> QED BY <1>1, RuleSubsumed

\* Every step keeps the readmitted mutants without a dominator that ran.
LEMMA NextReadmitted ==
  TypeOK /\ PhaseOrder /\ VerdictFirst /\ ReadmittedWithoutRunner /\ [Next]_vars
    => ReadmittedWithoutRunner'
<1>1. ASSUME TypeOK, PhaseOrder, VerdictFirst, ReadmittedWithoutRunner,
             [Next]_vars, ~ RuleOnHeld
      PROVE  ReadmittedWithoutRunner'
  BY <1>1, RulingsStand DEF ReadmittedWithoutRunner, Ruled, OfKind
<1> QED BY <1>1, RuleReadmitted

-----------------------------------------------------------------------------
(* The numbers drawn, and the events queued.                               *)

Numbers == <<Numbered, completed, ticket>>

\* Drawing a number adds one mutant that had none to the numbered ones.
LEMMA NumberDrawn ==
  ASSUME TypeOK, NEW m \in Mutants, DrawNumber(m),
         stage[m] \in {"idle", "working"}
  PROVE  /\ m \notin Numbered
         /\ Numbered' = Numbered \cup {m}
         /\ completed' = completed + 1
         /\ ticket' = [ticket EXCEPT ![m] = completed + 1]
BY DEF TypeOK, DrawNumber, Numbered, Published

\* The numbers stay as they were, or one mutant draws the next one: no step
\* outside announceSettledMutant touches them.
LEMMA NumbersStep ==
  ASSUME TypeOK, PhaseOrder, VerdictFirst, [Next]_vars
  PROVE  \/ UNCHANGED Numbers
         \/ \E m \in Mutants : /\ m \notin Numbered
                               /\ Numbered' = Numbered \cup {m}
                               /\ completed' = completed + 1
                               /\ ticket' = [ticket EXCEPT ![m] = completed + 1]
<1> DEFINE Drawn == \E m \in Mutants : /\ m \notin Numbered
                                       /\ Numbered' = Numbered \cup {m}
                                       /\ completed' = completed + 1
                                       /\ ticket' = [ticket EXCEPT ![m] = completed + 1]
<1> SUFFICES UNCHANGED Numbers \/ Drawn
  OBVIOUS
<1>0. ASSUME NEW m \in Mutants, DrawNumber(m), stage[m] \in {"idle", "working"}
      PROVE  Drawn
  BY <1>0, NumberDrawn
<1> HIDE DEF Drawn
<1> USE DEF plan_vars, Numbers, Numbered, Published, TypeOK, PhaseOrder,
            VerdictFirst, Settled, OfKind, Ruled
<1>1. ASSUME NEW m \in Mutants, MutantStep(m) PROVE UNCHANGED Numbers \/ Drawn
  <2>1. CASE AnnounceKnown(m)
    BY <2>1, <1>0 DEF AnnounceKnown
  <2>2. CASE AnnounceSettled(m)
    BY <2>2, <1>0 DEF AnnounceSettled
  <2>3. CASE AnnounceSubsumed(m)
    BY <2>3, <1>0 DEF AnnounceSubsumed
  <2>4. CASE OfferEvent(m)
    BY <2>4 DEF OfferEvent
  <2>5. CASE Record(m)
    BY <2>5 DEF Record
  <2>6. CASE CheckPassed(m)
    BY <2>6 DEF CheckPassed
  <2>7. ASSUME NEW status \in UnrunStatuses, CheckRefused(m, status) PROVE UNCHANGED Numbers \/ Drawn
    BY <2>7 DEF CheckRefused
  <2>8. CASE CheckDone(m)
    BY <2>8 DEF CheckDone
  <2>9. CASE StartWork(m)
    BY <2>9 DEF StartWork
  <2>10. ASSUME NEW status \in RunStatuses, RunMutant(m, status) PROVE UNCHANGED Numbers \/ Drawn
    BY <2>10 DEF RunMutant
  <2> QED BY <1>1, <2>1, <2>2, <2>3, <2>4, <2>5, <2>6, <2>7, <2>8, <2>9, <2>10 DEF MutantStep
<1>2. CASE StageStep
  <2>1. CASE StartChecking
    BY <2>1 DEF StartChecking, Kinds
  <2>2. CASE RuleOnHeld
    BY <2>2 DEF RuleOnHeld
  <2>3. CASE ReadmitHeld
    BY <2>3 DEF ReadmitHeld, Kinds
  <2>4. CASE FinishReadmitted
    BY <2>4 DEF FinishReadmitted
  <2>5. CASE EmitVerdict
    BY <2>5 DEF EmitVerdict
  <2>6. CASE WriteReport
    BY <2>6 DEF WriteReport
  <2> QED BY <1>2, <2>1, <2>2, <2>3, <2>4, <2>5, <2>6 DEF StageStep
<1>3. CASE FailRun
  BY <1>3 DEF FailRun
<1>4. CASE FailReport
  BY <1>4 DEF FailReport
<1>5. CASE UNCHANGED vars
  BY <1>5 DEF vars
<1> QED BY <1>1, <1>2, <1>3, <1>4, <1>5 DEF Next, Ended

\* Every step keeps the numbers 1 .. completed, one for each numbered mutant.
LEMMA NextNumbers ==
  TypeOK /\ PhaseOrder /\ VerdictFirst /\ NumbersUnique /\ [Next]_vars
    => NumbersUnique'
<1> SUFFICES ASSUME TypeOK, PhaseOrder, VerdictFirst, NumbersUnique, [Next]_vars
             PROVE  NumbersUnique'
  OBVIOUS
<1>1. CASE UNCHANGED Numbers
  BY <1>1 DEF Numbers, NumbersUnique
<1>2. ASSUME NEW m \in Mutants, m \notin Numbered,
             Numbered' = Numbered \cup {m}, completed' = completed + 1,
             ticket' = [ticket EXCEPT ![m] = completed + 1]
      PROVE  NumbersUnique'
  <2>1. Numbered \in SUBSET Mutants /\ completed \in Nat /\ ticket \in [Mutants -> Nat]
    BY DEF Numbered, Published, TypeOK
  <2>2. IsFiniteSet(Numbered)
    BY <2>1, SizesAssumption, FS_Subset
  <2>3. completed' = Cardinality(Numbered')
    BY <1>2, <2>2, FS_AddElement DEF NumbersUnique
  <2>4. /\ ticket'[m] = completed + 1
        /\ \A n \in Numbered : ticket'[n] = ticket[n] /\ ticket[n] \in 1 .. completed
    BY <1>2, <2>1 DEF NumbersUnique
  <2>5. \A n \in Numbered' : ticket'[n] \in 1 .. completed'
    BY <1>2, <2>1, <2>4
  <2>6. \A n, k \in Numbered' : ticket'[n] = ticket'[k] => n = k
    BY <1>2, <2>1, <2>4 DEF NumbersUnique
  <2> QED BY <2>3, <2>5, <2>6 DEF NumbersUnique
<1> QED BY <1>1, <1>2, NumbersStep

\* The queued events stay as they were, or one mutant that had none queues
\* its event behind them.
LEMMA StreamStep ==
  ASSUME TypeOK, PhaseOrder, [Next]_vars
  PROVE  \/ UNCHANGED <<Published, stream>>
         \/ \E m \in Mutants : /\ m \notin Published
                               /\ Published' = Published \cup {m}
                               /\ stream' = Append(stream, m)
<1> DEFINE Queued == \E m \in Mutants : /\ m \notin Published
                                        /\ Published' = Published \cup {m}
                                        /\ stream' = Append(stream, m)
<1> SUFFICES UNCHANGED <<Published, stream>> \/ Queued
  OBVIOUS
<1>0. ASSUME NEW m \in Mutants, OfferEvent(m) PROVE Queued
  BY <1>0 DEF OfferEvent, Published, TypeOK
<1> HIDE DEF Queued
<1> USE DEF plan_vars, Published, TypeOK, PhaseOrder, Settled, OfKind, Ruled
<1>1. ASSUME NEW m \in Mutants, MutantStep(m) PROVE UNCHANGED <<Published, stream>> \/ Queued
  <2>1. CASE AnnounceKnown(m)
    BY <2>1 DEF AnnounceKnown, DrawNumber
  <2>2. CASE AnnounceSettled(m)
    BY <2>2 DEF AnnounceSettled, DrawNumber
  <2>3. CASE AnnounceSubsumed(m)
    BY <2>3 DEF AnnounceSubsumed, DrawNumber
  <2>4. CASE OfferEvent(m)
    BY <2>4, <1>0
  <2>5. CASE Record(m)
    BY <2>5 DEF Record
  <2>6. CASE CheckPassed(m)
    BY <2>6 DEF CheckPassed
  <2>7. ASSUME NEW status \in UnrunStatuses, CheckRefused(m, status) PROVE UNCHANGED <<Published, stream>> \/ Queued
    BY <2>7 DEF CheckRefused
  <2>8. CASE CheckDone(m)
    BY <2>8 DEF CheckDone
  <2>9. CASE StartWork(m)
    BY <2>9 DEF StartWork
  <2>10. ASSUME NEW status \in RunStatuses, RunMutant(m, status) PROVE UNCHANGED <<Published, stream>> \/ Queued
    BY <2>10 DEF RunMutant
  <2> QED BY <1>1, <2>1, <2>2, <2>3, <2>4, <2>5, <2>6, <2>7, <2>8, <2>9, <2>10 DEF MutantStep
<1>2. CASE StageStep
  <2>1. CASE StartChecking
    BY <2>1 DEF StartChecking, Kinds
  <2>2. CASE RuleOnHeld
    BY <2>2 DEF RuleOnHeld
  <2>3. CASE ReadmitHeld
    BY <2>3 DEF ReadmitHeld, Kinds
  <2>4. CASE FinishReadmitted
    BY <2>4 DEF FinishReadmitted
  <2>5. CASE EmitVerdict
    BY <2>5 DEF EmitVerdict
  <2>6. CASE WriteReport
    BY <2>6 DEF WriteReport
  <2> QED BY <1>2, <2>1, <2>2, <2>3, <2>4, <2>5, <2>6 DEF StageStep
<1>3. CASE FailRun
  BY <1>3 DEF FailRun
<1>4. CASE FailReport
  BY <1>4 DEF FailReport
<1>5. CASE UNCHANGED vars
  BY <1>5 DEF vars
<1> QED BY <1>1, <1>2, <1>3, <1>4, <1>5 DEF Next, Ended

\* Every step keeps each queued event its mutant's only one.
LEMMA NextStream ==
  TypeOK /\ PhaseOrder /\ StreamedOnce /\ [Next]_vars => StreamedOnce'
<1> SUFFICES ASSUME TypeOK, PhaseOrder, StreamedOnce, [Next]_vars
             PROVE  StreamedOnce'
  OBVIOUS
<1>1. CASE UNCHANGED <<Published, stream>>
  BY <1>1 DEF StreamedOnce
<1>2. ASSUME NEW m \in Mutants, m \notin Published,
             Published' = Published \cup {m}, stream' = Append(stream, m)
      PROVE  StreamedOnce'
  <2>1. stream \in Seq(Mutants)
    BY DEF TypeOK
  <2>2. /\ DOMAIN stream' = DOMAIN stream \cup {Len(stream) + 1}
        /\ Len(stream) + 1 \notin DOMAIN stream
        /\ stream'[Len(stream) + 1] = m
        /\ \A i \in DOMAIN stream : stream'[i] = stream[i]
    BY <1>2, <2>1
  <2>3. \A i \in DOMAIN stream : stream[i] \in Published
    BY DEF StreamedOnce
  <2>4. \A i, j \in DOMAIN stream' : stream'[i] = stream'[j] => i = j
    BY <1>2, <2>2, <2>3 DEF StreamedOnce
  <2>5. Published' = {stream'[i] : i \in DOMAIN stream'}
    BY <1>2, <2>2 DEF StreamedOnce
  <2> QED BY <2>4, <2>5 DEF StreamedOnce
<1> QED BY <1>1, <1>2, StreamStep

-----------------------------------------------------------------------------
(* The theorems.                                                           *)

\* A run that begins has announced, ruled on and settled nothing.
LEMMA InitIInv == Init => IInv
<1> SUFFICES ASSUME Init PROVE IInv
  OBVIOUS
<1>1. PICK plan \in Plans : kind = plan.kind /\ verdict = plan.given
  BY DEF Init
<1>2. plan \in PlanType /\ WellFormed(plan)
  BY PlansAssumption
<1>3. TypeOK
  BY InitType
<1>4. /\ phase = "announcing"
      /\ stage = [m \in Mutants |-> "idle"]
      /\ ruling = [m \in Mutants |-> "none"]
      /\ completed = 0
      /\ stream = <<>>
  BY DEF Init
<1>5. PhaseOrder
  BY <1>4 DEF PhaseOrder
<1>6. VerdictFirst
  BY <1>1, <1>2, <1>4 DEF VerdictFirst, WellFormed, Statuses, RunStatuses,
                          UnrunStatuses, None
<1>7. SubsumedBehindARunner /\ ReadmittedWithoutRunner
  BY <1>4 DEF SubsumedBehindARunner, ReadmittedWithoutRunner, Ruled
<1>8. Published = {} /\ Numbered = {}
  BY <1>4 DEF Published, Numbered
<1>9. NumbersUnique
  BY <1>4, <1>8, FS_EmptySet DEF NumbersUnique
<1>10. StreamedOnce
  BY <1>4, <1>8 DEF StreamedOnce
<1> QED BY <1>3, <1>5, <1>6, <1>7, <1>9, <1>10 DEF IInv

\* Every step keeps every part of the invariant.
LEMMA NextIInv == IInv /\ [Next]_vars => IInv'
BY NextType, NextPhaseOrder, NextVerdictFirst, NextSubsumed, NextReadmitted,
   NextNumbers, NextStream DEF IInv

\* The parts of the inductive invariant hold in every reachable state.
THEOREM Inductive == Spec => []IInv
BY InitIInv, NextIInv, PTL DEF Spec

\* A mutant stays ignored as subsumed only behind a dominator that ran, and
\* is put to the tests only when none did.
THEOREM RulingsSound == Spec => []RulingsRight
<1>1. IInv => RulingsRight
  BY DEF IInv, RulingsRight
<1> QED BY <1>1, Inductive, PTL

\* Each announced mutant has a number of its own, with no number skipped, and
\* at most one event.
THEOREM AnnouncedOnce == Spec => [](NumbersUnique /\ StreamedOnce)
<1>1. IInv => NumbersUnique /\ StreamedOnce
  BY DEF IInv
<1> QED BY <1>1, Inductive, PTL

\* As many events are queued as there are mutants that have one.
LEMMA StreamLength ==
  ASSUME TypeOK, StreamedOnce
  PROVE  Len(stream) = Cardinality(Published)
<1> DEFINE n == Len(stream)
<1>1. n \in Nat /\ DOMAIN stream = 1 .. n
  BY DEF TypeOK
<1>2. stream \in [1 .. n -> Published]
  BY <1>1 DEF StreamedOnce, TypeOK
<1>3. stream \in Bijection(1 .. n, Published)
  BY <1>1, <1>2 DEF StreamedOnce, Bijection, Injection, Surjection, IsInjective
<1> HIDE DEF n
<1>4. IsFiniteSet(1 .. n) /\ Cardinality(1 .. n) = n
  <2>1. /\ IsFiniteSet(1 .. n)
        /\ Cardinality(1 .. n) = IF 1 > n THEN 0 ELSE n - 1 + 1
    BY <1>1, FS_Interval
  <2> QED BY <1>1, <2>1
<1> QED BY <1>3, <1>4, FS_Bijection DEF ExistsBijection, n

\* The report is assembled from a result, an event and a number of every
\* planned mutant (allResults in settleMutants).
THEOREM ReportSound == Spec => []ReportComplete
<1>1. IInv => ReportComplete
  <2> SUFFICES ASSUME IInv, phase \in {"reporting", "writing", "reported", "unwritten"}
               PROVE  /\ Settled(Mutants)
                      /\ \A m \in Mutants : verdict[m] # None
                      /\ completed = Cardinality(Mutants)
                      /\ Len(stream) = Cardinality(Mutants)
    BY DEF ReportComplete
  <2>1. Settled(Mutants)
    BY DEF IInv, PhaseOrder
  <2>2. \A m \in Mutants : verdict[m] # None
    BY <2>1 DEF IInv, VerdictFirst, Settled
  <2>3. Published = Mutants /\ Numbered = Mutants
    BY <2>1 DEF Published, Numbered, Settled
  <2>4. completed = Cardinality(Mutants)
    BY <2>3 DEF IInv, NumbersUnique
  <2>5. Len(stream) = Cardinality(Mutants)
    BY <2>3, StreamLength DEF IInv
  <2> QED BY <2>1, <2>2, <2>4, <2>5
<1> QED BY <1>1, Inductive, PTL

\* No step moves a held mutant before every other mutant has settled: a ruling
\* never rests on half of the dominators' outcomes.
THEOREM HeldWaitsProved == Spec => HeldWaits
<1> DEFINE Waits == \A m \in OfKind("held") :
                      stage'[m] # stage[m] => Settled(Mutants \ OfKind("held"))
<1>1. ASSUME IInv, phase \in {"subsuming", "readmitting"}
      PROVE  Settled(Mutants \ OfKind("held"))
  BY <1>1 DEF IInv, PhaseOrder, TypeOK, Kinds, Settled, OfKind
<1>2. ASSUME IInv, phase \in {"announcing", "checking"}
      PROVE  \A m \in OfKind("held") : stage[m] = "idle"
  BY <1>2 DEF IInv, PhaseOrder, OfKind
<1>3. ASSUME IInv, phase \in {"reporting", "writing", "reported", "unwritten", "failed"},
             [Next]_vars
      PROVE  stage' = stage
  <2>1. phase # "failed" => Settled(Mutants)
    BY <1>3 DEF IInv, PhaseOrder
  <2>2. ASSUME NEW m \in Mutants, MutantStep(m) PROVE FALSE
    BY <1>3, <2>1, <2>2 DEF MutantStep, AnnounceKnown, AnnounceSettled,
       AnnounceSubsumed, OfferEvent, Record, CheckPassed, CheckRefused, CheckDone,
       StartWork, RunMutant, Settled
  <2>3. ~ StartChecking /\ ~ RuleOnHeld /\ ~ ReadmitHeld
    BY <1>3 DEF StartChecking, RuleOnHeld, ReadmitHeld
  <2> QED BY <1>3, <2>2, <2>3 DEF Next, StageStep, FinishReadmitted, EmitVerdict,
             WriteReport, FailRun, FailReport, Ended, vars
<1>4. ASSUME IInv, phase \in {"announcing", "checking"}, [Next]_vars,
             NEW m \in OfKind("held")
      PROVE  stage'[m] = stage[m]
  <2> USE <1>2, <1>4 DEF IInv, TypeOK, PhaseOrder, OfKind, Ruled
  <2>1. stage[m] = "idle" /\ ruling[m] = "none" /\ kind[m] = "held" /\ m \in Mutants
    OBVIOUS
  <2>2. ASSUME NEW n \in Mutants, MutantStep(n) PROVE stage'[m] = stage[m]
    BY <2>1, <2>2 DEF MutantStep, AnnounceKnown, AnnounceSettled,
       AnnounceSubsumed, DrawNumber, OfferEvent, Record, CheckPassed, CheckRefused,
       CheckDone, StartWork, RunMutant
  <2>3. CASE StageStep
    BY <2>1, <2>3 DEF StageStep, StartChecking, RuleOnHeld, ReadmitHeld,
       FinishReadmitted, EmitVerdict, WriteReport
  <2> QED BY <2>2, <2>3 DEF Next, FailRun, FailReport, Ended, vars
<1>5. IInv /\ [Next]_vars => [Waits]_vars
  <2> SUFFICES ASSUME IInv, [Next]_vars PROVE Waits
    OBVIOUS
  <2>1. phase \in Phases
    BY DEF IInv, TypeOK
  <2>2. CASE phase \in {"announcing", "checking"}
    BY <2>2, <1>4
  <2>3. CASE phase \in {"subsuming", "readmitting"}
    BY <2>3, <1>1
  <2>4. CASE phase \in {"reporting", "writing", "reported", "unwritten", "failed"}
    BY <2>4, <1>3
  <2> QED BY <2>1, <2>2, <2>3, <2>4 DEF Phases
<1> QED BY <1>5, Inductive, PTL DEF Spec, HeldWaits

-----------------------------------------------------------------------------
(* The stage implements Settlement.                                        *)

\* No step changes the status of a mutant whose event is queued, and an event
\* is queued only while the run is open.
LEMMA PublishedStand ==
  ASSUME TypeOK, PhaseOrder, VerdictFirst, [Next]_vars
  PROVE  /\ \A m \in Published : verdict'[m] = verdict[m] /\ m \in Published'
         /\ \A m \in Published' \ Published :
              /\ OfferEvent(m)
              /\ RunOutcome = "open" /\ RunOutcome' = "open"
              /\ verdict[m] # None /\ verdict' = verdict
              /\ Published' = Published \cup {m}
<1> DEFINE Stand == /\ \A m \in Published : verdict'[m] = verdict[m] /\ m \in Published'
                    /\ \A m \in Published' \ Published :
                         /\ OfferEvent(m)
                         /\ RunOutcome = "open" /\ RunOutcome' = "open"
                         /\ verdict[m] # None /\ verdict' = verdict
                         /\ Published' = Published \cup {m}
<1> SUFFICES Stand
  OBVIOUS
<1> USE DEF plan_vars, Published, TypeOK, PhaseOrder, VerdictFirst, Settled,
            OfKind, Ruled
<1>1. ASSUME NEW m \in Mutants, MutantStep(m) PROVE Stand
  <2>1. CASE AnnounceKnown(m)
    BY <2>1 DEF AnnounceKnown, DrawNumber
  <2>2. CASE AnnounceSettled(m)
    BY <2>2 DEF AnnounceSettled, DrawNumber
  <2>3. CASE AnnounceSubsumed(m)
    BY <2>3 DEF AnnounceSubsumed, DrawNumber
  <2>4. CASE OfferEvent(m)
    <3>1. phase \notin {"writing", "reported", "unwritten", "failed"} /\ phase' = phase
      BY <2>4 DEF OfferEvent
    <3>2. RunOutcome = "open" /\ RunOutcome' = "open"
      BY <3>1 DEF RunOutcome
    <3>3. \A n \in Mutants : stage'[n] = IF n = m THEN "announced" ELSE stage[n]
      BY <2>4 DEF OfferEvent
    <3>4. verdict[m] # None /\ verdict' = verdict /\ stage[m] = "counted"
      BY <2>4 DEF OfferEvent
    <3>5. Published' = Published \cup {m}
      BY <3>3
    <3> QED BY <2>4, <3>2, <3>4, <3>5
  <2>5. CASE Record(m)
    BY <2>5 DEF Record
  <2>6. CASE CheckPassed(m)
    BY <2>6 DEF CheckPassed
  <2>7. ASSUME NEW status \in UnrunStatuses, CheckRefused(m, status) PROVE Stand
    BY <2>7 DEF CheckRefused
  <2>8. CASE CheckDone(m)
    BY <2>8 DEF CheckDone
  <2>9. CASE StartWork(m)
    BY <2>9 DEF StartWork
  <2>10. ASSUME NEW status \in RunStatuses, RunMutant(m, status) PROVE Stand
    BY <2>10 DEF RunMutant
  <2> QED BY <1>1, <2>1, <2>2, <2>3, <2>4, <2>5, <2>6, <2>7, <2>8, <2>9, <2>10 DEF MutantStep
<1>2. CASE StageStep
  <2>1. CASE StartChecking
    BY <2>1 DEF StartChecking, Kinds
  <2>2. CASE RuleOnHeld
    BY <2>2 DEF RuleOnHeld, Kinds
  <2>3. CASE ReadmitHeld
    BY <2>3 DEF ReadmitHeld, Kinds
  <2>4. CASE FinishReadmitted
    BY <2>4 DEF FinishReadmitted
  <2>5. CASE EmitVerdict
    BY <2>5 DEF EmitVerdict
  <2>6. CASE WriteReport
    BY <2>6 DEF WriteReport
  <2> QED BY <1>2, <2>1, <2>2, <2>3, <2>4, <2>5, <2>6 DEF StageStep
<1>3. CASE FailRun
  BY <1>3 DEF FailRun
<1>4. CASE FailReport
  BY <1>4 DEF FailReport
<1>5. CASE UNCHANGED vars
  BY <1>5 DEF vars
<1> QED BY <1>1, <1>2, <1>3, <1>4, <1>5 DEF Next, Ended

\* The initial states map to the promise's.
LEMMA InitPromise == Init => Promise!Init
BY DEF Init, Promise!Init, PublishedStatus, Published, RunOutcome

\* Every step is a step of the promise or leaves what it tells untouched.
LEMMA NextPromise == IInv /\ [Next]_vars => [Promise!Next]_(Promise!vars)
<1> SUFFICES ASSUME IInv, [Next]_vars
             PROVE  Promise!Next \/ UNCHANGED <<PublishedStatus, RunOutcome>>
  BY DEF Promise!vars
<1> USE DEF IInv
<1>1. CASE Published' = Published
  <2>1. PublishedStatus' = PublishedStatus
    BY <1>1, PublishedStand DEF PublishedStatus
  <2>2. CASE RunOutcome' = RunOutcome
    BY <2>1, <2>2
  <2>3. CASE RunOutcome' # RunOutcome
    <3>1. CASE EmitVerdict
      <4>1. RunOutcome = "open" /\ RunOutcome' = "reported"
        BY <3>1 DEF EmitVerdict, RunOutcome
      <4>2. \A m \in Mutants : PublishedStatus[m] # None
        BY <3>1 DEF EmitVerdict, PhaseOrder, VerdictFirst, Settled, Published,
                    PublishedStatus
      <4> QED BY <2>1, <4>1, <4>2 DEF Promise!Next, Promise!Report
    <3>2. CASE RunOutcome = "open" /\ RunOutcome' = "abandoned"
      BY <2>1, <3>2 DEF Promise!Next, Promise!Abandon
    <3>3. EmitVerdict \/ (RunOutcome = "open" /\ RunOutcome' = "abandoned")
      <4>1. ASSUME NEW m \in Mutants, MutantStep(m) PROVE phase' = phase
        BY <4>1 DEF MutantStep, AnnounceKnown, AnnounceSettled, AnnounceSubsumed,
           DrawNumber, OfferEvent, Record, CheckPassed, CheckRefused, CheckDone,
           StartWork, RunMutant
      <4>2. phase' # phase
        BY <2>3 DEF RunOutcome
      <4> QED BY <2>3, <4>1, <4>2 DEF Next, StageStep, StartChecking, RuleOnHeld,
         ReadmitHeld, FinishReadmitted, WriteReport, FailRun, FailReport, Ended,
         vars, RunOutcome
    <3> QED BY <3>1, <3>2, <3>3
  <2> QED BY <2>2, <2>3
<1>2. CASE Published' # Published
  <2>1. PICK m \in Mutants : m \in Published' \ Published
    BY <1>2, PublishedStand DEF Published
  <2>2. /\ RunOutcome = "open" /\ RunOutcome' = RunOutcome
        /\ verdict[m] \in Statuses /\ verdict' = verdict
        /\ Published' = Published \cup {m}
    BY <2>1, PublishedStand DEF TypeOK
  <2>3. /\ PublishedStatus[m] = None
        /\ PublishedStatus' = [PublishedStatus EXCEPT ![m] = verdict[m]]
    BY <2>1, <2>2 DEF PublishedStatus
  <2>4. Promise!Publish(m, verdict[m])
    BY <2>2, <2>3 DEF Promise!Publish
  <2> QED BY <2>2, <2>4 DEF Promise!Next
<1> QED BY <1>1, <1>2

\* The stage keeps the promise: each status is published once, never revised,
\* and a verdict is emitted only from the complete set.
THEOREM Implements == Spec => KeepsPromise
<1>1. Init => Promise!Init
  BY InitPromise
<1>2. IInv /\ [Next]_vars => [Promise!Next]_(Promise!vars)
  BY NextPromise
<1> QED BY <1>1, <1>2, Inductive, PTL DEF Spec, KeepsPromise, Promise!Spec

-----------------------------------------------------------------------------
(* Progress.                                                               *)

Counted == {m \in Mutants : stage[m] = "counted"}

\* How many fibers can be between their number and their event: one where the
\* stage announces one after another, else as many as settle at a time.
Crowd ==
  /\ phase = "announcing" => \A m, n \in Counted : m = n
  /\ phase = "subsuming" => \A m, n \in InFlight : m = n
  /\ phase \in {"checking", "readmitting"} => Cardinality(InFlight) <= Fibers

LEMMA FibersType == Fibers \in Nat /\ Fibers >= 1
BY SizesAssumption DEF Fibers

\* A finite set that grows by one, or shrinks by one.
LEMMA InFlightSteps ==
  ASSUME NEW m \in Mutants
  PROVE  /\ IsFiniteSet(InFlight) /\ Cardinality(InFlight) \in Nat
         /\ Cardinality(InFlight \cup {m}) <= Cardinality(InFlight) + 1
         /\ Cardinality(InFlight \ {m}) <= Cardinality(InFlight)
<1>1. IsFiniteSet(InFlight)
  <2>1. InFlight \subseteq Mutants
    BY DEF InFlight
  <2> QED BY <2>1, FS_Subset, SizesAssumption
<1>2. Cardinality(InFlight) \in Nat
  BY <1>1, FS_CardinalityType
<1>3. Cardinality(InFlight \cup {m}) <= Cardinality(InFlight) + 1
  BY <1>1, <1>2, FS_AddElement
<1>4. Cardinality(InFlight \ {m}) <= Cardinality(InFlight)
  BY <1>1, <1>2, FS_RemoveElement
<1> QED BY <1>1, <1>2, <1>3, <1>4

\* Nobody is in flight between the passes.
LEMMA NobodyInFlight ==
  ASSUME PhaseOrder, TypeOK
  PROVE  /\ phase = "checking" /\ Settled(OfKind("kept")) => InFlight = {}
         /\ phase = "subsuming" /\ Settled(Ruled("subsumed")) => InFlight = {}
<1>1. \A m \in Mutants : kind[m] \in Kinds /\ ruling[m] \in {"none", "subsumed", "readmitted"}
  BY DEF TypeOK
<1>2. CASE phase = "checking"
  BY <1>1, <1>2 DEF PhaseOrder, Settled, OfKind, Kinds, InFlight
<1>3. CASE phase = "subsuming"
  BY <1>1, <1>3 DEF PhaseOrder, Settled, OfKind, Ruled, Kinds, InFlight
<1> QED BY <1>2, <1>3

\* Every step keeps the crowd in its bound.
LEMMA NextCrowd == IInv /\ Crowd /\ [Next]_vars => Crowd'
<1> SUFFICES ASSUME TypeOK, PhaseOrder, Crowd, [Next]_vars PROVE Crowd'
  BY DEF IInv
<1> USE DEF plan_vars
<1>0. stage \in [Mutants -> Stages]
  BY DEF TypeOK
<1>1. ASSUME UNCHANGED <<phase, InFlight>>,
             Counted' \subseteq Counted \/ phase # "announcing"
      PROVE  Crowd'
  BY <1>1 DEF Crowd
<1>2. ASSUME NEW m \in Mutants, MutantStep(m) PROVE Crowd'
  <2>1. CASE AnnounceKnown(m)
    <3>1. Counted' = {m} /\ phase' = "announcing"
      BY <1>0, <2>1 DEF AnnounceKnown, DrawNumber, Counted
    <3> QED BY <3>1 DEF Crowd
  <2>2. CASE AnnounceSettled(m)
    <3>1. UNCHANGED <<phase, InFlight>> /\ phase # "announcing"
      BY <1>0, <2>2 DEF AnnounceSettled, DrawNumber, InFlight
    <3> QED BY <1>1, <3>1
  <2>3. CASE AnnounceSubsumed(m)
    <3>1. InFlight' = {m} /\ phase' = "subsuming"
      BY <1>0, <2>3 DEF AnnounceSubsumed, DrawNumber, InFlight
    <3> QED BY <3>1 DEF Crowd
  <2>4. CASE OfferEvent(m)
    <3>1. UNCHANGED <<phase, InFlight>> /\ Counted' \subseteq Counted
      BY <1>0, <2>4 DEF OfferEvent, InFlight, Counted
    <3> QED BY <1>1, <3>1
  <2>5. CASE Record(m)
    <3>1. InFlight' = InFlight \ {m} /\ phase' = phase /\ phase # "announcing"
      BY <1>0, <2>5 DEF Record, InFlight
    <3>2. Cardinality(InFlight \ {m}) <= Cardinality(InFlight) /\ Cardinality(InFlight) \in Nat
      BY InFlightSteps
    <3>3. Cardinality(InFlight \ {m}) \in Nat
      BY FS_RemoveElement, FS_CardinalityType, InFlightSteps
    <3>4. phase \in {"checking", "readmitting"} => Cardinality(InFlight') <= Fibers
      BY <3>1, <3>2, <3>3, FibersType DEF Crowd
    <3> QED BY <3>1, <3>4 DEF Crowd
  <2>6. CASE CheckPassed(m)
    BY <1>1, <2>6 DEF CheckPassed, InFlight
  <2>7. ASSUME NEW status \in UnrunStatuses, CheckRefused(m, status) PROVE Crowd'
    <3>1. UNCHANGED <<phase, InFlight>> /\ phase # "announcing"
      BY <1>0, <2>7 DEF CheckRefused, InFlight
    <3> QED BY <1>1, <3>1
  <2>8. CASE CheckDone(m)
    <3>1. UNCHANGED <<phase, InFlight>> /\ phase # "announcing"
      BY <1>0, <2>8 DEF CheckDone, InFlight
    <3> QED BY <1>1, <3>1
  <2>9. CASE StartWork(m)
    <3>1. /\ InFlight' = InFlight \cup {m} /\ Cardinality(InFlight) < Fibers
          /\ phase' = phase /\ phase \in {"checking", "readmitting"}
      BY <1>0, <2>9 DEF StartWork, InFlight
    <3>2. /\ Cardinality(InFlight \cup {m}) <= Cardinality(InFlight) + 1
          /\ Cardinality(InFlight) \in Nat
      BY InFlightSteps
    <3>3. Cardinality(InFlight \cup {m}) \in Nat
      BY FS_AddElement, FS_CardinalityType, InFlightSteps
    <3>4. Cardinality(InFlight') <= Fibers
      BY <3>1, <3>2, <3>3, FibersType
    <3> QED BY <3>1, <3>4 DEF Crowd
  <2>10. ASSUME NEW status \in RunStatuses, RunMutant(m, status) PROVE Crowd'
    BY <1>1, <2>10 DEF RunMutant, InFlight
  <2> QED BY <1>2, <2>1, <2>2, <2>3, <2>4, <2>5, <2>6, <2>7, <2>8, <2>9, <2>10 DEF MutantStep
<1>3. ASSUME InFlight' = {}, phase' # "announcing" PROVE Crowd'
  BY <1>3, FS_EmptySet, FibersType DEF Crowd
<1>4. ASSUME phase' \in {"reporting", "writing", "reported", "unwritten", "failed"} PROVE Crowd'
  BY <1>4 DEF Crowd
<1>5. CASE StageStep
  <2>1. CASE StartChecking
    BY <1>3, <2>1 DEF StartChecking, InFlight
  <2>2. CASE RuleOnHeld
    BY <1>3, <2>2, NobodyInFlight DEF RuleOnHeld, InFlight
  <2>3. CASE ReadmitHeld
    <3>1. InFlight = {} /\ phase' # "announcing"
      BY <2>3, NobodyInFlight DEF ReadmitHeld
    <3>2. InFlight' = {}
      BY <1>0, <2>3, <3>1 DEF ReadmitHeld, InFlight
    <3> QED BY <1>3, <3>1, <3>2
  <2> QED BY <1>4, <1>5, <2>1, <2>2, <2>3 DEF StageStep, FinishReadmitted, EmitVerdict, WriteReport
<1>6. CASE UNCHANGED vars
  BY <1>1, <1>6 DEF vars, InFlight, Counted
<1> QED BY <1>2, <1>4, <1>5, <1>6 DEF Next, FailRun, FailReport, Ended

\* As many numbers are drawn ahead of their events as fibers can be between the two.
LEMMA FewAhead ==
  ASSUME IInv, Crowd, NEW m \in Mutants, OfferEvent(m)
  PROVE  completed <= Len(stream) + Fibers
<1> USE DEF IInv
<1>1. IsFiniteSet(Published) /\ IsFiniteSet(Counted) /\ IsFiniteSet(InFlight)
  <2>1. Published \subseteq Mutants /\ Counted \subseteq Mutants /\ InFlight \subseteq Mutants
    BY DEF Published, Counted, InFlight
  <2> QED BY <2>1, FS_Subset, SizesAssumption
<1>2. Cardinality(Published) \in Nat /\ Cardinality(Counted) \in Nat /\ Cardinality(InFlight) \in Nat
  BY <1>1, FS_CardinalityType
<1>3. Numbered = Published \cup Counted /\ Published \cap Counted = {}
  BY DEF Numbered, Published, Counted
<1>4. completed = Cardinality(Published) + Cardinality(Counted)
  <2>1. Cardinality(Published \cap Counted) = 0
    BY <1>3, FS_EmptySet
  <2>2. Cardinality(Numbered) = Cardinality(Published) + Cardinality(Counted)
    <3> DEFINE P == Published
               C == Counted
    <3>1. IsFiniteSet(P) /\ IsFiniteSet(C) /\ Numbered = P \cup C
      BY <1>1, <1>3
    <3>2. Cardinality(P) \in Nat /\ Cardinality(C) \in Nat /\ Cardinality(P \cap C) = 0
      BY <1>2, <2>1
    <3> HIDE DEF P, C
    <3>3. Cardinality(P \cup C) = Cardinality(P) + Cardinality(C) - Cardinality(P \cap C)
      BY <3>1, FS_Union
    <3>4. Cardinality(P \cup C) = Cardinality(P) + Cardinality(C)
      BY <3>2, <3>3
    <3> QED BY <3>1, <3>4 DEF P, C
  <2> QED BY <2>2 DEF NumbersUnique
<1>5. m \in Counted
  BY DEF OfferEvent, Counted
<1>6. Cardinality(Counted) <= Fibers
  <2>1. CASE phase \in {"announcing", "subsuming"}
    <3>1. Counted = {m}
      BY <1>5, <2>1 DEF Crowd, Counted, InFlight
    <3> QED BY <3>1, FS_Singleton, FibersType
  <2>2. CASE phase \in {"checking", "readmitting"}
    <3>1. Counted \subseteq InFlight
      BY DEF Counted, InFlight
    <3>2. Cardinality(Counted) <= Cardinality(InFlight)
      BY <1>1, <3>1, FS_Subset
    <3> QED BY <1>2, <2>2, <3>2, FibersType DEF Crowd
  <2>3. CASE phase \in {"reporting", "writing", "reported", "unwritten"}
    BY <1>5, <2>3 DEF PhaseOrder, Settled, Counted
  <2> QED BY <2>1, <2>2, <2>3 DEF OfferEvent, TypeOK, Phases
<1> QED BY <1>2, <1>4, <1>6, StreamLength, FibersType

\* A drawn number stays, and an event is queued with the stream behind it.
LEMMA NextProgress ==
  IInv /\ Crowd /\ ProgressNeverOverstates /\ [Next]_vars => ProgressNeverOverstates'
<1> SUFFICES ASSUME IInv, Crowd, ProgressNeverOverstates, [Next]_vars
             PROVE  ProgressNeverOverstates'
  OBVIOUS
<1>0. stream \in Seq(Mutants) /\ ticket \in [Mutants -> Nat]
  BY DEF IInv, TypeOK
<1>1. \A i \in DOMAIN stream : stream[i] \in Published
  BY DEF IInv, StreamedOnce
<1>2. CASE UNCHANGED <<stream, ticket>>
  BY <1>2 DEF ProgressNeverOverstates
<1>3. ASSUME NEW m \in Mutants, DrawNumber(m), m \notin Published PROVE ProgressNeverOverstates'
  <2>1. \A n \in Published : ticket'[n] = ticket[n]
    BY <1>0, <1>3 DEF DrawNumber, Published
  <2> QED BY <1>1, <1>3, <2>1 DEF DrawNumber, ProgressNeverOverstates
<1>4. ASSUME NEW m \in Mutants, OfferEvent(m) PROVE ProgressNeverOverstates'
  <2>1. /\ stream' = Append(stream, m) /\ ticket' = ticket
    BY <1>4 DEF OfferEvent
  <2>2. ticket[m] <= completed
    BY <1>4 DEF IInv, NumbersUnique, Numbered, OfferEvent
  <2>3. completed <= Len(stream) + Fibers /\ completed \in Nat
    BY <1>4, FewAhead DEF IInv, TypeOK
  <2>4. ticket[m] < Len(stream) + 1 + Fibers
    BY <1>0, <2>2, <2>3, FibersType
  <2>5. \A i \in DOMAIN stream' : i = Len(stream) + 1 \/ (i \in DOMAIN stream /\ stream'[i] = stream[i])
    BY <1>0, <2>1
  <2>6. stream'[Len(stream) + 1] = m
    BY <1>0, <2>1
  <2> QED BY <2>1, <2>4, <2>5, <2>6 DEF ProgressNeverOverstates
<1>5. ASSUME NEW m \in Mutants, MutantStep(m) PROVE ProgressNeverOverstates'
  <2>1. CASE AnnounceKnown(m) \/ AnnounceSettled(m) \/ AnnounceSubsumed(m)
    BY <1>3, <2>1 DEF AnnounceKnown, AnnounceSettled, AnnounceSubsumed, Published
  <2> QED BY <1>2, <1>4, <1>5, <2>1
          DEF MutantStep, Record, CheckPassed, CheckRefused, CheckDone, StartWork, RunMutant
<1>6. CASE StageStep \/ FailRun \/ FailReport \/ UNCHANGED vars
  BY <1>2, <1>6 DEF StageStep, StartChecking, RuleOnHeld, ReadmitHeld, FinishReadmitted,
                    EmitVerdict, WriteReport, FailRun, FailReport, vars
<1> QED BY <1>5, <1>6 DEF Next, Ended

\* The progress an event claims overstates the events queued up to it by less
\* than the number of settling fibers (offerFinished in run/mutant-run.ts).
THEOREM ProgressBounded == Spec => []ProgressNeverOverstates
<1>1. Init => IInv /\ Crowd /\ ProgressNeverOverstates
  <2>1. Init => Crowd /\ ProgressNeverOverstates
    BY DEF Init, Crowd, Counted, ProgressNeverOverstates
  <2> QED BY <2>1, InitIInv
<1>2. IInv /\ Crowd /\ ProgressNeverOverstates /\ [Next]_vars
        => (IInv /\ Crowd /\ ProgressNeverOverstates)'
  BY NextIInv, NextCrowd, NextProgress
<1> QED BY <1>1, <1>2, PTL DEF Spec
=============================================================================
