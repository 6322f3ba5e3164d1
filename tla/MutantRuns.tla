----------------------------- MODULE MutantRuns -----------------------------
(***************************************************************************)
(* Running mutants on pooled test runner workers: the attempts of          *)
(* run/mutant-run.cell.ts on the pool of run/test-runner-pool.blueprint.ts, *)
(* each a few tries on a runner decorated by pooled-test-runner.handle.ts.  *)
(*                                                                         *)
(* A fiber takes a worker from the pool, asks it to run the mutant and      *)
(* waits for the answer or a deadline.  A try that fails is repeated on the *)
(* same worker, even if what failed is the connection to it: then the       *)
(* worker may go on with the run it was asked for, or be a process that has *)
(* exited, and in the end it goes back to the pool.  A wall-clock timeout,  *)
(* or an answer of tests that do not cover the mutant, invalidates the      *)
(* worker; the latter is attempted again on another worker, which the fiber *)
(* takes while it still holds the first: the scope of mutantRunCell closes  *)
(* only when the mutant has settled.                                        *)
(***************************************************************************)
EXTENDS Naturals, FiniteSets

CONSTANTS Mutants,   \* the mutants to run
          Static,    \* those whose plan sets reloadEnvironment
          Covered,   \* those whose plan has a testFilter
          Workers,   \* names for worker processes, used again after an exit
          Size,      \* the pool's max, and the number of settling fibers
          MaxRetries, \* const maxRetries, 2 in the code
          MaxReuse,  \* options.maxTestRunnerReuse, 0 for no limit
          CanReload  \* the runner's reloadEnvironment capability

None == "none"

ASSUME RunsAssumption ==
  /\ Static \subseteq Mutants
  /\ Covered \subseteq Mutants
  /\ IsFiniteSet(Workers)
  /\ Size \in Nat \ {0}
  /\ Size <= Cardinality(Workers)
  /\ MaxRetries \in Nat
  /\ MaxReuse \in Nat
  /\ CanReload \in BOOLEAN
  /\ None \notin Mutants \cup Workers

VARIABLES
  phase,       \* where the fiber of each mutant stands
  attempt,     \* 0 or 1
  tries,       \* failed tries of the current attempt
  runner,      \* the worker of the current attempt
  reload,      \* whether the current try asks for a reloaded environment
  answer,      \* the answer the current attempt ended with
  verdict,     \* what the mutant settled as
  live,        \* the workers that are up
  owner,       \* the mutant whose scope holds each worker
  invalidated, \* workers the pool will discard on release
  known,       \* withEnvironmentReload's state of each worker
  environment, \* what is really loaded in each worker
  executing,   \* the mutant each worker is executing for its connection
  cutOff,      \* mutants it goes on executing for a connection it has lost
  gone,        \* live workers whose process has exited since they were booted
  runs,        \* withMaxReuse's count of each worker
  served,      \* history: tries started on each worker since it is up
  missed,      \* history: workers that answered with other tests only
  stale,       \* history: workers whose state was not set after a failed try
  failed       \* a worker could not be booted: the whole stage has failed

fiber_vars  == <<phase, attempt, tries, runner, reload, answer, verdict>>
pool_vars   == <<live, owner, invalidated>>
worker_vars == <<known, environment, executing, cutOff, gone, runs, served, missed,
                 stale>>
vars == <<fiber_vars, pool_vars, worker_vars, failed>>

Phases == {"queued", "acquiring", "ready", "asked", "running", "answered",
           "settling", "done"}

\* tested: killed, survived or over the hit limit, and either a covering test
\* ran or the runner does not say what ran; missed: killed or survived on other
\* tests only; wallClock: no answer in time.
Answers == {"tested", "missed", "error", "wallClock"}

Verdicts == {"Tested", "Timeout", "RuntimeError", "NoCoveringTest"}

EnvironmentStates == {"pristine", "loaded", "loaded-static-mutant"}

\* empty: nothing loaded; static: loaded while a static mutant was active.
Environments == {"empty", "clean", "static"}

TypeOK ==
  /\ phase \in [Mutants -> Phases]
  /\ attempt \in [Mutants -> 0 .. 1]
  /\ tries \in [Mutants -> 0 .. MaxRetries]
  /\ runner \in [Mutants -> Workers \cup {None}]
  /\ reload \in [Mutants -> BOOLEAN]
  /\ answer \in [Mutants -> Answers \cup {None}]
  /\ verdict \in [Mutants -> Verdicts \cup {None}]
  /\ live \subseteq Workers
  /\ owner \in [Workers -> Mutants \cup {None}]
  /\ invalidated \subseteq live
  /\ known \in [Workers -> EnvironmentStates]
  /\ environment \in [Workers -> Environments]
  /\ executing \in [Workers -> Mutants \cup {None}]
  /\ cutOff \in [Workers -> SUBSET Mutants]
  /\ gone \subseteq live
  /\ runs \in [Workers -> Nat]
  /\ served \in [Workers -> Nat]
  /\ missed \subseteq Workers
  /\ stale \subseteq Workers
  /\ failed \in BOOLEAN

Init ==
  /\ phase = [m \in Mutants |-> "queued"]
  /\ attempt = [m \in Mutants |-> 0]
  /\ tries = [m \in Mutants |-> 0]
  /\ runner = [m \in Mutants |-> None]
  /\ reload = [m \in Mutants |-> FALSE]
  /\ answer = [m \in Mutants |-> None]
  /\ verdict = [m \in Mutants |-> None]
  /\ live = {}
  /\ owner = [w \in Workers |-> None]
  /\ invalidated = {}
  /\ known = [w \in Workers |-> "pristine"]
  /\ environment = [w \in Workers |-> "empty"]
  /\ executing = [w \in Workers |-> None]
  /\ cutOff = [w \in Workers |-> {}]
  /\ gone = {}
  /\ runs = [w \in Workers |-> 0]
  /\ served = [w \in Workers |-> 0]
  /\ missed = {}
  /\ stale = {}
  /\ failed = FALSE

-----------------------------------------------------------------------------
(* The pool (an external library, as the code uses it).                    *)

HeldBy(m) == {w \in Workers : owner[w] = m}

\* Pool.get hands out at most max workers at a time; one that was invalidated
\* counts until the scope that took it is closed.
SlotFree == Cardinality({w \in live : owner[w] # None}) < Size

Available == {w \in live \ invalidated : owner[w] = None}

\* A fiber of the settling stream takes the mutant up.
Begin(m) ==
  /\ phase[m] = "queued"
  /\ Cardinality({n \in Mutants : phase[n] \notin {"queued", "done"}}) < Size
  /\ phase' = [phase EXCEPT ![m] = "acquiring"]
  /\ UNCHANGED <<attempt, tries, runner, reload, answer, verdict, pool_vars,
                 worker_vars, failed>>

\* Pool.get: an available worker, or one booted for the fiber or ahead of it.
Acquire(m, w) ==
  /\ phase[m] = "acquiring"
  /\ SlotFree
  /\ w \in Available \cup (Workers \ live)
  /\ live' = live \cup {w}
  /\ owner' = [owner EXCEPT ![w] = m]
  /\ runner' = [runner EXCEPT ![m] = w]
  /\ phase' = [phase EXCEPT ![m] = "ready"]
  /\ UNCHANGED <<attempt, tries, reload, answer, verdict, invalidated,
                 worker_vars, failed>>

\* The worker for the fiber does not come up: the stage fails.
BootFails(m) ==
  /\ phase[m] = "acquiring"
  /\ SlotFree
  /\ failed' = TRUE
  /\ UNCHANGED <<fiber_vars, pool_vars, worker_vars>>

\* The processes of these workers end; their names are free again.
Discard(ended) ==
  /\ live' = live \ ended
  /\ invalidated' = invalidated \ ended
  /\ known' = [w \in Workers |-> IF w \in ended THEN "pristine" ELSE known[w]]
  /\ environment' = [w \in Workers |-> IF w \in ended THEN "empty" ELSE environment[w]]
  /\ executing' = [w \in Workers |-> IF w \in ended THEN None ELSE executing[w]]
  /\ cutOff' = [w \in Workers |-> IF w \in ended THEN {} ELSE cutOff[w]]
  /\ gone' = gone \ ended
  /\ runs' = [w \in Workers |-> IF w \in ended THEN 0 ELSE runs[w]]
  /\ served' = [w \in Workers |-> IF w \in ended THEN 0 ELSE served[w]]
  /\ missed' = missed \ ended
  /\ stale' = stale \ ended

\* IDLE_TIME_TO_LIVE has passed for an available worker.
Expire(w) ==
  /\ w \in Available
  /\ Discard({w})
  /\ UNCHANGED <<fiber_vars, owner, failed>>

\* Faulty: the worker of an earlier attempt is never given back.
ReleaseLast(m) ==
  /\ phase[m] = "settling"
  /\ phase' = [phase EXCEPT ![m] = "done"]
  /\ owner' = [owner EXCEPT ![runner[m]] = None]
  /\ Discard({runner[m]} \cap invalidated)
  /\ attempt' = [attempt EXCEPT ![m] = 0]
  /\ tries' = [tries EXCEPT ![m] = 0]
  /\ runner' = [runner EXCEPT ![m] = None]
  /\ reload' = [reload EXCEPT ![m] = FALSE]
  /\ answer' = [answer EXCEPT ![m] = None]
  /\ UNCHANGED <<verdict, failed>>

\* The scope of the mutant's run closes, and with it the attempts are over.
Release(m) ==
  /\ phase[m] = "settling"
  /\ phase' = [phase EXCEPT ![m] = "done"]
  /\ owner' = [w \in Workers |-> IF owner[w] = m THEN None ELSE owner[w]]
  /\ Discard(HeldBy(m) \cap invalidated)
  /\ attempt' = [attempt EXCEPT ![m] = 0]
  /\ tries' = [tries EXCEPT ![m] = 0]
  /\ runner' = [runner EXCEPT ![m] = None]
  /\ reload' = [reload EXCEPT ![m] = FALSE]
  /\ answer' = [answer EXCEPT ![m] = None]
  /\ UNCHANGED <<verdict, failed>>

-----------------------------------------------------------------------------
(* One try on the decorated runner.                                        *)

\* reloadEnvironmentDecision
ReloadNeeded(m, state) ==
  CanReload /\ IF m \in Static THEN state # "pristine"
                               ELSE state = "loaded-static-mutant"

\* Faulty: what a static mutant leaves behind is forgotten.
NextStateLoaded(m) == "loaded"

\* nextEnvironmentState
NextState(m) == IF m \in Static THEN "loaded-static-mutant" ELSE "loaded"

\* withMaxReuse counts the run.  Past the limit it retires the worker, which
\* for the pool's runners is Effect.void, and starts counting anew.
CountRun(w) ==
  /\ runs' = IF MaxReuse = 0 THEN runs
             ELSE [runs EXCEPT ![w] = IF @ + 1 > MaxReuse THEN 1 ELSE @ + 1]
  /\ served' = IF MaxReuse = 0 THEN served ELSE [served EXCEPT ![w] = @ + 1]

\* withEnvironmentReload decides from its state and what the worker answers to a
\* capabilities request, and the run is requested.
Ask(m) ==
  /\ phase[m] = "ready"
  /\ runner[m] \notin gone
  /\ reload' = [reload EXCEPT ![m] = ReloadNeeded(m, known[runner[m]])]
  /\ CountRun(runner[m])
  /\ phase' = [phase EXCEPT ![m] = "asked"]
  /\ UNCHANGED <<attempt, tries, runner, answer, verdict, pool_vars, known,
                 environment, executing, cutOff, gone, missed, stale, failed>>

\* MutantRunStarted: the worker loads what it needs and runs the tests.
RunStarts(m) ==
  LET w == runner[m]
  IN  /\ phase[m] = "asked"
      /\ w \notin gone
      /\ phase' = [phase EXCEPT ![m] = "running"]
      /\ executing' = [executing EXCEPT ![w] = m]
      /\ environment' = [environment EXCEPT ![w] =
                           IF m \in Static \/ (@ = "static" /\ ~reload[m])
                             THEN "static" ELSE "clean"]
      /\ UNCHANGED <<attempt, tries, runner, reload, answer, verdict, pool_vars,
                     known, cutOff, gone, runs, served, missed, stale, failed>>

\* MutantRunSettled arrives before the deadline; the state is set after it.
RunAnswers(m, given) ==
  LET w == runner[m]
  IN  /\ phase[m] = "running"
      /\ w \notin gone
      /\ given \in Answers \ {"wallClock"}
      /\ answer' = [answer EXCEPT ![m] = given]
      /\ phase' = [phase EXCEPT ![m] = "answered"]
      /\ executing' = [executing EXCEPT ![w] = None]
      /\ known' = [known EXCEPT ![w] = NextState(m)]
      /\ missed' = IF given = "missed" /\ m \in Covered THEN missed \cup {w} ELSE missed
      /\ stale' = IF reload[m] /\ cutOff[w] = {} THEN stale \ {w} ELSE stale
      /\ UNCHANGED <<attempt, tries, runner, reload, verdict, pool_vars,
                     environment, cutOff, gone, runs, served, failed>>

\* Faulty: nothing bounds a request the worker does not start on.
DeadlineOnceStarted(m) ==
  /\ phase[m] = "running"
  /\ answer' = [answer EXCEPT ![m] = "wallClock"]
  /\ phase' = [phase EXCEPT ![m] = "answered"]
  /\ known' = [known EXCEPT ![runner[m]] = NextState(m)]
  /\ UNCHANGED <<attempt, tries, runner, reload, verdict, pool_vars, environment,
                 executing, cutOff, gone, runs, served, missed, stale, failed>>

\* The boot window or the mutant's own budget passes: the run is given up as
\* timed out, and the worker, if it had begun, goes on executing it.
DeadlinePasses(m) ==
  /\ phase[m] \in {"asked", "running"}
  /\ answer' = [answer EXCEPT ![m] = "wallClock"]
  /\ phase' = [phase EXCEPT ![m] = "answered"]
  /\ known' = [known EXCEPT ![runner[m]] = NextState(m)]
  /\ UNCHANGED <<attempt, tries, runner, reload, verdict, pool_vars, environment,
                 executing, cutOff, gone, runs, served, missed, stale, failed>>

\* withRetry: a failed try is repeated on the same worker, at most maxRetries
\* times, then the attempt ends as an error.  The environment's state is not set.
FailTry(m) ==
  /\ phase[m] \in {"ready", "asked", "running"}
  /\ IF tries[m] < MaxRetries
       THEN /\ tries' = [tries EXCEPT ![m] = @ + 1]
            /\ phase' = [phase EXCEPT ![m] = "ready"]
            /\ UNCHANGED answer
       ELSE /\ answer' = [answer EXCEPT ![m] = "error"]
            /\ phase' = [phase EXCEPT ![m] = "answered"]
            /\ UNCHANGED tries
  /\ stale' = IF phase[m] = "running" THEN stale \cup {runner[m]} ELSE stale
  /\ UNCHANGED <<attempt, runner, reload, verdict, pool_vars, known, environment,
                 gone, runs, served, missed, failed>>

\* The runner reports a failure, or the end of its run without a result.
TryFails(m) ==
  /\ runner[m] \notin gone
  /\ FailTry(m)
  /\ executing' = [executing EXCEPT ![runner[m]] = None]
  /\ UNCHANGED cutOff

\* failInFlightRequests: the pings of the connection go unanswered, or it closes.
\* The try fails, and a worker that was executing the mutant goes on with it.
ConnectionLost(m) ==
  LET w == runner[m]
  IN  /\ FailTry(m)
      /\ executing' = [executing EXCEPT ![w] = None]
      /\ cutOff' = [cutOff EXCEPT ![w] = @ \cup ({executing[w]} \ {None})]

\* A worker is done with a run that nobody waits for any more.
CutOffEnds(w, m) ==
  /\ m \in cutOff[w]
  /\ cutOff' = [cutOff EXCEPT ![w] = @ \ {m}]
  /\ UNCHANGED <<fiber_vars, pool_vars, known, environment, executing, gone, runs,
                 served, missed, stale, failed>>

\* The process of a worker at work exits.  Once it has booted nothing looks at
\* worker.exited any more, so the pool does not learn of it.
WorkerExits(w) ==
  /\ w \in live \ gone
  /\ executing[w] # None \/ cutOff[w] # {}
  /\ gone' = gone \cup {w}
  /\ executing' = [executing EXCEPT ![w] = None]
  /\ cutOff' = [cutOff EXCEPT ![w] = {}]
  /\ UNCHANGED <<fiber_vars, pool_vars, known, environment, runs, served, missed,
                 stale, failed>>

-----------------------------------------------------------------------------
(* interpretMutantRun on the attempt's answer.                             *)

\* coveringTestMissing
CoveringTestMissing(m) == m \in Covered /\ answer[m] = "missed"

VerdictOf(given) == CASE given \in {"tested", "missed"} -> "Tested"
                      [] given = "wallClock" -> "Timeout"
                      [] given = "error" -> "RuntimeError"

Settle(m, status) ==
  /\ verdict' = [verdict EXCEPT ![m] = status]
  /\ phase' = [phase EXCEPT ![m] = "settling"]

\* MutantRunSettled
SettleAnswer(m) ==
  /\ phase[m] = "answered"
  /\ answer[m] # "wallClock"
  /\ ~CoveringTestMissing(m)
  /\ Settle(m, VerdictOf(answer[m]))
  /\ UNCHANGED <<attempt, tries, runner, reload, answer, pool_vars, worker_vars,
                 failed>>

\* Faulty: the worker that hangs goes back to the pool.
RecycleForgotten(m) ==
  /\ phase[m] = "answered"
  /\ answer[m] = "wallClock"
  /\ Settle(m, VerdictOf(answer[m]))
  /\ UNCHANGED <<attempt, tries, runner, reload, answer, pool_vars, worker_vars,
                 failed>>

\* MutantRunPoolInvalidated: recycleAndSettleMutantRun
RecycleAndSettle(m) ==
  /\ phase[m] = "answered"
  /\ answer[m] = "wallClock"
  /\ invalidated' = invalidated \cup {runner[m]}
  /\ Settle(m, VerdictOf(answer[m]))
  /\ UNCHANGED <<attempt, tries, runner, reload, answer, live, owner,
                 worker_vars, failed>>

\* MutantRunRetry: a second attempt takes another worker from the pool.
RetryAttempt(m) ==
  /\ phase[m] = "answered"
  /\ CoveringTestMissing(m)
  /\ attempt[m] = 0
  /\ invalidated' = invalidated \cup {runner[m]}
  /\ attempt' = [attempt EXCEPT ![m] = 1]
  /\ tries' = [tries EXCEPT ![m] = 0]
  /\ runner' = [runner EXCEPT ![m] = None]
  /\ phase' = [phase EXCEPT ![m] = "acquiring"]
  /\ UNCHANGED <<reload, answer, verdict, live, owner, worker_vars, failed>>

\* Faulty: off by one attempt.
GiveUpAtOnce(m) ==
  /\ phase[m] = "answered"
  /\ CoveringTestMissing(m)
  /\ invalidated' = invalidated \cup {runner[m]}
  /\ Settle(m, "NoCoveringTest")
  /\ UNCHANGED <<attempt, tries, runner, reload, answer, live, owner,
                 worker_vars, failed>>

\* MutantRunRetryExhausted
GiveUp(m) ==
  /\ phase[m] = "answered"
  /\ CoveringTestMissing(m)
  /\ attempt[m] = 1
  /\ invalidated' = invalidated \cup {runner[m]}
  /\ Settle(m, "NoCoveringTest")
  /\ UNCHANGED <<attempt, tries, runner, reload, answer, live, owner,
                 worker_vars, failed>>

-----------------------------------------------------------------------------
\* What the fiber of the mutant does.
FiberStep(m) ==
  \/ Begin(m)
  \/ \E w \in Workers : Acquire(m, w)
  \/ DeadlinePasses(m)
  \/ SettleAnswer(m)
  \/ RecycleAndSettle(m)
  \/ RetryAttempt(m)
  \/ GiveUp(m)
  \/ Release(m)

\* What the worker does, or what becomes of it.
WorkerStep(m) ==
  \/ Ask(m)
  \/ RunStarts(m)
  \/ \E given \in Answers : RunAnswers(m, given)
  \/ TryFails(m)
  \/ ConnectionLost(m)
  \/ BootFails(m)

Over == failed \/ \A m \in Mutants : phase[m] = "done"

Next ==
  \/ /\ ~failed
     /\ \/ \E m \in Mutants : FiberStep(m) \/ WorkerStep(m)
        \/ \E w \in Workers : \/ Expire(w)
                              \/ WorkerExits(w)
                              \/ \E m \in Mutants : CutOffEnds(w, m)
  \/ Over /\ UNCHANGED vars

Spec == Init /\ [][Next]_vars

\* The capabilities request before a run is answered, or fails with its
\* connection, which pings watch over.
CapabilitiesSettle(m) ==
  phase[m] = "ready" /\ (Ask(m) \/ ConnectionLost(m))

\* The scheduler runs every fiber that can go on and every timer that is due, of
\* the pings too.  A worker need not start, answer or fail once a run is requested
\* of it.
FairSpec ==
  /\ Spec
  /\ \A m \in Mutants : /\ WF_vars(~failed /\ FiberStep(m))
                        /\ WF_vars(~failed /\ CapabilitiesSettle(m))
-----------------------------------------------------------------------------
(* Properties.                                                             *)

Trying == {m \in Mutants : phase[m] \in {"ready", "asked", "running"}}

\* A fiber tries only a worker of its own that the pool has not been told to
\* discard and that executes no other run for its connection: not one that still
\* hangs in a mutant given up as timed out, nor one that ran the wrong tests.
\* It may be at work on another mutant's run that was cut off with an earlier
\* connection (see LostWorkersReplaced), but only if that mutant was settled by an
\* answer of its own worker or after its last try, never by a deadline.
TriesOnSoundWorker ==
  \A m \in Trying :
    LET w == runner[m]
    IN  /\ w \in live \ (invalidated \cup missed)
        /\ owner[w] = m
        /\ executing[w] \in {None, m}
        /\ \A n \in Trying : runner[n] = w => n = m
        /\ \A n \in cutOff[w] \ {m} : verdict[n] \in {"Tested", "RuntimeError"}

\* A worker asked for a run without a reload holds nothing the mutant could be
\* misjudged on: a static mutant finds nothing loaded, any other mutant nothing
\* that was loaded under a static one.  It can fail only where an earlier try
\* on that worker failed after it had begun, for then the state was not set.
CleanEnvironment ==
  \A m \in Mutants :
    /\ phase[m] = "asked"
    /\ ~reload[m]
    /\ runner[m] \notin stale
    => environment[runner[m]] \in (IF m \in Static THEN {"empty"}
                                                   ELSE {"empty", "clean"})

\* A mutant with covering tests settles as tested only on an answer of theirs,
\* and as not covered only when two different workers ran other tests.
CoveringTestsRan ==
  \A m \in Covered :
    phase[m] = "settling" =>
      /\ verdict[m] = "Tested" => answer[m] = "tested"
      /\ verdict[m] = "NoCoveringTest" =>
           Cardinality(HeldBy(m) \cap missed \cap invalidated) = 2

\* No worker is lost to the pool and none is held without need: the workers
\* that are held are those of unsettled mutants, two when a second attempt runs.
HeldWhileNeeded ==
  \A m \in Mutants :
    Cardinality(HeldBy(m)) =
      CASE phase[m] \in {"queued", "done"} -> 0
        [] phase[m] = "acquiring" -> attempt[m]
        [] OTHER -> attempt[m] + 1

\* Every mutant settles, unless the stage fails.
AllSettle == <>(failed \/ \A m \in Mutants : phase[m] = "done")

\* A request on a worker that stops answering fails with its connection, "and the
\* worker is restarted per the existing crash policy": none that the pool may
\* hand out has exited or is still at work on a run that was cut off.
LostWorkersReplaced == \A w \in Available : w \notin gone /\ cutOff[w] = {}

\* Restart each test runner worker process after n runs.
ReuseBounded == MaxReuse > 0 => \A w \in Workers : served[w] <= MaxReuse
=============================================================================
