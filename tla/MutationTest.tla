---------------------------- MODULE MutationTest ----------------------------
(***************************************************************************)
(* The mutation-test stage of a run, from the drafted plan to the report   *)
(* (settleMutants in run/mutant-settlement.ts with the checker stream of   *)
(* Checker/checker-pool.handle.ts and the announcements of                 *)
(* run/mutant-run.ts).                                                     *)
(*                                                                         *)
(* Remembered and early results are announced first, one after another.    *)
(* The kept plans then stream through every configured checker and are     *)
(* settled by a bounded number of concurrent fibers.  Once they have all   *)
(* settled, each held (subsumed) mutant is ruled on: it stays ignored when *)
(* one of its dominators ran, else it is readmitted and goes through the   *)
(* checkers and the runners like any other.  The report is written last.   *)
(***************************************************************************)
EXTENDS ReadmitSubsumed, FiniteSets

CONSTANTS Mutants,   \* context.plannedMutants
          Outsiders, \* mutants the run was not asked for (a rerun by id)
          Plans,     \* the plans draftMutationTestPlan may hand over
          Checkers,  \* how many checkers each checker slot runs, in order
          Capacity   \* concurrency.testRunners + concurrency.checkers

None == "none"

\* How the plan treats a mutant: a remembered result, a result known at plan
\* time, a plan to run, or a subsumed mutant's plan that is held back.
Kinds == {"remembered", "early", "kept", "held"}

\* A plan: the kind of each mutant, the dominators each held mutant names and
\* the status of each remembered or early result.
PlanType == [kind       : [Mutants -> Kinds],
             dominators : [Mutants -> Seq(Mutants \cup Outsiders)],
             given      : [Mutants -> Statuses \cup {None}]]

\* A held mutant names at least one dominator and none twice (dominatorsOf in
\* the instrumenter's subsume-mutants.workflow.ts maps distinct candidates).
WellFormed(plan) ==
  \A m \in Mutants :
    /\ plan.kind[m] = "held" => plan.dominators[m] # <<>>
    /\ \A i, j \in DOMAIN plan.dominators[m] :
         plan.dominators[m][i] = plan.dominators[m][j] => i = j
    /\ plan.kind[m] = "remembered" => plan.given[m] \in Statuses
    /\ plan.kind[m] = "early" => plan.given[m] = "Ignored"
    /\ plan.kind[m] \in {"kept", "held"} => plan.given[m] = None

ASSUME PlansAssumption ==
  \A plan \in Plans : plan \in PlanType /\ WellFormed(plan)
ASSUME SizesAssumption ==
  /\ IsFiniteSet(Mutants)
  /\ Mutants \cap Outsiders = {}
  /\ Checkers \in Nat
  /\ Capacity \in Nat

VARIABLES
  kind,        \* kind of each mutant, fixed by the plan
  dominators,  \* subsumption.dominators of each held mutant
  phase,       \* where settleMutants stands
  stage,       \* how far each mutant has come
  checker,     \* how many checkers each mutant has passed
  verdict,     \* the status each mutant's result carries, or None
  ruling,      \* "none", "subsumed" or "readmitted" for each held mutant
  completed,   \* context.completedRef
  ticket,      \* the completed count each mutant was announced with, or 0
  stream       \* the mutants in the order RunEvents holds their events

vars == <<kind, dominators, phase, stage, checker, verdict, ruling,
          completed, ticket, stream>>

plan_vars == <<kind, dominators>>

Phases == {"announcing", "checking", "subsuming", "readmitting",
           "reporting", "writing", "reported", "unwritten", "failed"}

\* idle: not begun; checking: in the checker stream; queued: its work waits
\* for a fiber; working: being settled by a fiber; counted: has drawn its
\* number; announced: its event is queued; settled: handed to the checkpoint.
Stages == {"idle", "checking", "queued", "working", "counted", "announced",
           "settled"}

\* A fiber of the settling stream holds the mutant.
InFlight == {m \in Mutants : stage[m] \in {"working", "counted", "announced"}}

Settled(S) == \A m \in S : stage[m] = "settled"

OfKind(k) == {m \in Mutants : kind[m] = k}

Ruled(r) == {m \in Mutants : ruling[m] = r}

\* Math.max(1, execution.concurrency)
Fibers == IF Capacity < 1 THEN 1 ELSE Capacity

TypeOK ==
  /\ kind \in [Mutants -> Kinds]
  /\ dominators \in [Mutants -> Seq(Mutants \cup Outsiders)]
  /\ phase \in Phases
  /\ stage \in [Mutants -> Stages]
  /\ checker \in [Mutants -> 0 .. Checkers]
  /\ verdict \in [Mutants -> Statuses \cup {None}]
  /\ ruling \in [Mutants -> {"none", "subsumed", "readmitted"}]
  /\ completed \in Nat
  /\ ticket \in [Mutants -> Nat]
  /\ stream \in Seq(Mutants)

Init ==
  \E plan \in Plans :
    /\ kind = plan.kind
    /\ dominators = plan.dominators
    /\ verdict = plan.given
    /\ phase = "announcing"
    /\ stage = [m \in Mutants |-> "idle"]
    /\ checker = [m \in Mutants |-> 0]
    /\ ruling = [m \in Mutants |-> "none"]
    /\ completed = 0
    /\ ticket = [m \in Mutants |-> 0]
    /\ stream = <<>>

-----------------------------------------------------------------------------
(* Announcing a settled mutant takes two steps of its fiber: draw the next *)
(* number from completedRef, then queue the event that carries it.         *)

\* Faulty: the number is read before the count is raised.
DrawNumberStale(m) ==
  /\ completed' = completed + 1
  /\ ticket' = [ticket EXCEPT ![m] = completed]
  /\ stage' = [stage EXCEPT ![m] = "counted"]
  /\ UNCHANGED <<plan_vars, phase, checker, verdict, ruling, stream>>

DrawNumber(m) ==
  /\ completed' = completed + 1
  /\ ticket' = [ticket EXCEPT ![m] = completed + 1]
  /\ stage' = [stage EXCEPT ![m] = "counted"]
  /\ UNCHANGED <<plan_vars, phase, checker, verdict, ruling, stream>>

\* Effect.forEach(settledResults, announceSettledMutant, concurrency 1):
\* remembered results first, then early ones.
AnnounceKnown(m) ==
  /\ phase = "announcing"
  /\ stage[m] = "idle"
  /\ kind[m] \in {"remembered", "early"}
  /\ \A n \in Mutants : stage[n] # "counted"
  /\ kind[m] = "early" => \A n \in OfKind("remembered") : stage[n] = "announced"
  /\ DrawNumber(m)

\* A fiber of the settling stream has its result.
AnnounceSettled(m) ==
  /\ phase \in {"checking", "readmitting"}
  /\ stage[m] = "working"
  /\ verdict[m] # None
  /\ DrawNumber(m)

\* Effect.forEach(stillSubsumed, settleChecked): one after another.
AnnounceSubsumed(m) ==
  /\ phase = "subsuming"
  /\ stage[m] = "idle"
  /\ ruling[m] = "subsumed"
  /\ InFlight = {}
  /\ DrawNumber(m)

\* Queue.offer(progressQueue, ...), then the offer to the reporters.
OfferEvent(m) ==
  /\ phase # "failed"
  /\ stage[m] = "counted"
  /\ stream' = Append(stream, m)
  /\ stage' = [stage EXCEPT ![m] = "announced"]
  /\ UNCHANGED <<plan_vars, phase, checker, verdict, ruling, completed, ticket>>

\* checkpoint.record, and the fiber hands its result to the stream's fold.
Record(m) ==
  /\ phase \in {"checking", "subsuming", "readmitting"}
  /\ stage[m] = "announced"
  /\ stage' = [stage EXCEPT ![m] = "settled"]
  /\ UNCHANGED <<plan_vars, phase, checker, verdict, ruling, completed, ticket,
                 stream>>

-----------------------------------------------------------------------------
(* The checker stream and the fibers that settle what it emits.            *)

\* The known results are announced: the checkpoint starts from them and the
\* kept plans enter the checker stream.
StartChecking ==
  /\ phase = "announcing"
  /\ \A m \in OfKind("remembered") \cup OfKind("early") : stage[m] = "announced"
  /\ phase' = "checking"
  /\ stage' = [m \in Mutants |-> CASE kind[m] = "kept" -> "checking"
                                   [] kind[m] = "held" -> "idle"
                                   [] OTHER -> "settled"]
  /\ UNCHANGED <<plan_vars, checker, verdict, ruling, completed, ticket, stream>>

\* The current checker passes the mutant on.
CheckPassed(m) ==
  /\ phase \in {"checking", "readmitting"}
  /\ stage[m] = "checking"
  /\ checker[m] < Checkers
  /\ checker' = [checker EXCEPT ![m] = @ + 1]
  /\ UNCHANGED <<plan_vars, phase, stage, verdict, ruling, completed, ticket,
                 stream>>

\* The current checker ignores the mutant or finds that it does not compile.
CheckRefused(m, status) ==
  /\ phase \in {"checking", "readmitting"}
  /\ stage[m] = "checking"
  /\ checker[m] < Checkers
  /\ status \in UnrunStatuses
  /\ verdict' = [verdict EXCEPT ![m] = status]
  /\ stage' = [stage EXCEPT ![m] = "queued"]
  /\ UNCHANGED <<plan_vars, phase, checker, ruling, completed, ticket, stream>>

\* checkedGroupsFor past the last checker: the plan is emitted to be run.
CheckDone(m) ==
  /\ phase \in {"checking", "readmitting"}
  /\ stage[m] = "checking"
  /\ checker[m] = Checkers
  /\ stage' = [stage EXCEPT ![m] = "queued"]
  /\ UNCHANGED <<plan_vars, phase, checker, verdict, ruling, completed, ticket,
                 stream>>

\* Faulty: unbounded concurrency.
StartWorkUnbounded(m) ==
  /\ phase \in {"checking", "readmitting"}
  /\ stage[m] = "queued"
  /\ stage' = [stage EXCEPT ![m] = "working"]
  /\ UNCHANGED <<plan_vars, phase, checker, verdict, ruling, completed, ticket,
                 stream>>

\* Stream.mapEffect with bounded concurrency picks the work up.
StartWork(m) ==
  /\ phase \in {"checking", "readmitting"}
  /\ stage[m] = "queued"
  /\ Cardinality(InFlight) < Fibers
  /\ stage' = [stage EXCEPT ![m] = "working"]
  /\ UNCHANGED <<plan_vars, phase, checker, verdict, ruling, completed, ticket,
                 stream>>

\* The runner's result (or NoCoverage, which needs no runner) is mapped to a
\* status.
RunMutant(m, status) ==
  /\ phase \in {"checking", "readmitting"}
  /\ stage[m] = "working"
  /\ verdict[m] = None
  /\ status \in RunStatuses
  /\ verdict' = [verdict EXCEPT ![m] = status]
  /\ UNCHANGED <<plan_vars, phase, stage, checker, ruling, completed, ticket,
                 stream>>

\* Faulty: the failure is swallowed and what has settled is reported.
FailRunSwallowed ==
  /\ phase \in {"checking", "readmitting"}
  /\ \E m \in Mutants : \/ stage[m] = "checking" /\ Checkers > 0
                        \/ stage[m] = "working" /\ verdict[m] = None
  /\ phase' = "reporting"
  /\ UNCHANGED <<plan_vars, stage, checker, verdict, ruling, completed, ticket,
                 stream>>

\* A checker crash or contract breach, or a runner that cannot be acquired,
\* fails the stream: every fiber is interrupted and the stage ends.
FailRun ==
  /\ phase \in {"checking", "readmitting"}
  /\ \E m \in Mutants : \/ stage[m] = "checking" /\ Checkers > 0
                        \/ stage[m] = "working" /\ verdict[m] = None
  /\ phase' = "failed"
  /\ UNCHANGED <<plan_vars, stage, checker, verdict, ruling, completed, ticket,
                 stream>>

-----------------------------------------------------------------------------
(* Ruling on the held mutants, and the report.                             *)

\* Faulty: the remembered results are left out of the settlements.
SettlementOfForgetful(d) == IF d \in OfKind("kept") THEN verdict[d] ELSE Unsettled

\* settlementsOf: a held mutant, or one the run was not asked for, has no
\* settlement, and an early one counts as ignored at plan time.
SettlementOf(d) == CASE d \notin Mutants -> Unsettled
                     [] d \in OfKind("held") -> Unsettled
                     [] d \in OfKind("early") -> "Ignored"
                     [] OTHER -> verdict[d]

Outcomes == [d \in Mutants \cup Outsiders |-> SettlementOf(d)]

\* The first checker stream is drained: subsumptionRulingsOf decides on every
\* held mutant at once.
RuleOnHeld ==
  /\ phase = "checking"
  /\ Settled(OfKind("kept"))
  /\ LET subsumed == {m \in OfKind("held") : StillSubsumed(dominators[m], Outcomes)}
     IN  /\ ruling' = [m \in Mutants |-> IF kind[m] # "held" THEN "none"
                                         ELSE IF m \in subsumed THEN "subsumed"
                                         ELSE "readmitted"]
         /\ verdict' = [m \in Mutants |-> IF m \in subsumed THEN "Ignored"
                                          ELSE verdict[m]]
         /\ dominators' = [m \in Mutants |->
                             IF m \in subsumed
                               THEN RunningFirst(dominators[m], Outcomes)
                               ELSE dominators[m]]
  /\ phase' = "subsuming"
  /\ UNCHANGED <<kind, stage, checker, completed, ticket, stream>>

\* Faulty: with nothing readmitted the stage waits for a stream that never
\* starts.
ReadmitHeldStuck ==
  /\ phase = "subsuming"
  /\ Settled(Ruled("subsumed"))
  /\ phase' = IF Ruled("readmitted") = {} THEN phase ELSE "readmitting"
  /\ stage' = [m \in Mutants |-> IF ruling[m] = "readmitted" THEN "checking"
                                 ELSE stage[m]]
  /\ UNCHANGED <<plan_vars, checker, verdict, ruling, completed, ticket, stream>>

\* Every still-subsumed mutant has settled: the readmitted ones are checked
\* and run; with none of them the stream is not started.
ReadmitHeld ==
  /\ phase = "subsuming"
  /\ Settled(Ruled("subsumed"))
  /\ phase' = IF Ruled("readmitted") = {} THEN "reporting" ELSE "readmitting"
  /\ stage' = [m \in Mutants |-> IF ruling[m] = "readmitted" THEN "checking"
                                 ELSE stage[m]]
  /\ UNCHANGED <<plan_vars, checker, verdict, ruling, completed, ticket, stream>>

\* The second stream is drained and the checkpoint's scope closes.
FinishReadmitted ==
  /\ phase = "readmitting"
  /\ Settled(Ruled("readmitted"))
  /\ phase' = "reporting"
  /\ UNCHANGED <<plan_vars, stage, checker, verdict, ruling, completed, ticket,
                 stream>>

\* reportAll up to emitVerdict: the reporters are drained and the verdict of
\* all results is published.
EmitVerdict ==
  /\ phase = "reporting"
  /\ phase' = "writing"
  /\ UNCHANGED <<plan_vars, stage, checker, verdict, ruling, completed, ticket,
                 stream>>

\* The reproducers and the incremental report are written.
WriteReport ==
  /\ phase = "writing"
  /\ phase' = "reported"
  /\ UNCHANGED <<plan_vars, stage, checker, verdict, ruling, completed, ticket,
                 stream>>

\* A file that cannot be read or written fails reportAll, before the verdict
\* was published or after it.
FailReport ==
  /\ phase \in {"reporting", "writing"}
  /\ phase' = IF phase = "reporting" THEN "failed" ELSE "unwritten"
  /\ UNCHANGED <<plan_vars, stage, checker, verdict, ruling, completed, ticket,
                 stream>>

-----------------------------------------------------------------------------
MutantStep(m) ==
  \/ AnnounceKnown(m)
  \/ AnnounceSettled(m)
  \/ AnnounceSubsumed(m)
  \/ OfferEvent(m)
  \/ Record(m)
  \/ CheckPassed(m)
  \/ \E status \in UnrunStatuses : CheckRefused(m, status)
  \/ CheckDone(m)
  \/ StartWork(m)
  \/ \E status \in RunStatuses : RunMutant(m, status)

StageStep ==
  \/ StartChecking
  \/ RuleOnHeld
  \/ ReadmitHeld
  \/ FinishReadmitted
  \/ EmitVerdict
  \/ WriteReport

\* The stage is over.
Ended == phase \in {"reported", "unwritten", "failed"} /\ UNCHANGED vars

Next ==
  \/ \E m \in Mutants : MutantStep(m)
  \/ StageStep
  \/ FailRun
  \/ FailReport
  \/ Ended

Spec == Init /\ [][Next]_vars

\* The scheduler runs every fiber that can go on; a runner answers or is timed
\* out, and a checker is taken to answer or to crash.  Failures need not come.
FairSpec ==
  /\ Spec
  /\ \A m \in Mutants : WF_vars(MutantStep(m))
  /\ WF_vars(StageStep)

-----------------------------------------------------------------------------
(* Properties.                                                             *)

\* The mutants whose event is queued.
Published == {m \in Mutants : stage[m] \in {"announced", "settled"}}

\* The mutants that have drawn their number.
Numbered == Published \cup {m \in Mutants : stage[m] = "counted"}

\* A subsumption drop holds only while a dominator runs: a mutant that stays
\* ignored names, first in its list, a mutant of the run that settled with a
\* status only a mutant put to the tests can have.
SubsumedBehindARunner ==
  \A m \in Ruled("subsumed") :
    /\ dominators[m] # <<>>
    /\ LET d == Head(dominators[m])
       IN  /\ d \in Mutants \ OfKind("held")
           /\ stage[d] = "settled"
           /\ verdict[d] \in RunStatuses

\* A held mutant is put to the tests only when none of the dominators that
\* were not themselves held ran: readmission costs a run only where the drop
\* has lost its ground.
ReadmittedWithoutRunner ==
  \A m \in Ruled("readmitted") : \A i \in DOMAIN dominators[m] :
    dominators[m][i] \in Mutants \ OfKind("held") =>
      /\ stage[dominators[m][i]] = "settled"
      /\ verdict[dominators[m][i]] \in UnrunStatuses

\* Both halves: a ruling rests on what became of the dominators, either way
\* (readmit-subsumed.workflow.ts).
RulingsRight == SubsumedBehindARunner /\ ReadmittedWithoutRunner

\* The numbers drawn are 1 .. completed, each by one mutant: two fibers never
\* announce the same progress and no number is skipped.
NumbersUnique ==
  /\ \A m \in Numbered : ticket[m] \in 1 .. completed
  /\ \A m, n \in Numbered : ticket[m] = ticket[n] => m = n
  /\ completed = Cardinality(Numbered)

\* Every queued event is some mutant's only one, and a mutant's result is
\* handed to the checkpoint only after its event was queued.
StreamedOnce ==
  /\ \A i, j \in DOMAIN stream : stream[i] = stream[j] => i = j
  /\ Published = {stream[i] : i \in DOMAIN stream}

\* Events may leave the queue in another order than their numbers, but the
\* progress one of them claims overstates the events queued up to it by less
\* than the number of settling fibers.
ProgressNeverOverstates ==
  \A i \in DOMAIN stream : ticket[stream[i]] < i + Fibers

\* From the moment the report is assembled every planned mutant has a settled
\* result, an event and a number, and the last number is the planned total.
ReportComplete ==
  phase \in {"reporting", "writing", "reported", "unwritten"} =>
    /\ Settled(Mutants)
    /\ \A m \in Mutants : verdict[m] # None
    /\ completed = Cardinality(Mutants)
    /\ Len(stream) = Cardinality(Mutants)

\* A held mutant does not move before every other mutant has settled, so no
\* ruling is made, and nothing held is checked or announced, on half of the
\* dominators' outcomes.
HeldWaits ==
  [][\A m \in OfKind("held") :
       stage'[m] # stage[m] => Settled(Mutants \ OfKind("held"))]_vars

\* The stage ends: with its report, or with a failure.
Terminates == <>(phase \in {"reported", "unwritten", "failed"})

-----------------------------------------------------------------------------
(* The stage implements what a run promises to the readers of its events.  *)

PublishedStatus == [m \in Mutants |-> IF m \in Published THEN verdict[m] ELSE None]

RunOutcome == CASE phase \in {"writing", "reported", "unwritten"} -> "reported"
                [] phase = "failed" -> "abandoned"
                [] OTHER -> "open"

Promise == INSTANCE Settlement WITH published <- PublishedStatus,
                                    outcome <- RunOutcome

\* Every status is published once and never revised, and the verdict comes
\* only from the complete set (Settlement.tla).
KeepsPromise == Promise!Spec
=============================================================================
