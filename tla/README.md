# Verification of stryker-js-effect

TLA+ models of the engine of `stryker-js-effect` (`src/packages/stryker-js`), the
TLC configurations that check them on small instances, and TLAPS proofs of what
matters most for every value of the constants. Paths below are relative to
`src/packages/stryker-js/src/` unless they begin with `src/`.

- [1. The system](#1-the-system)
- [2. The modules](#2-the-modules)
- [3. The runs](#3-the-runs)
- [4. Fairness](#4-fairness)
- [5. The proofs](#5-the-proofs)
- [6. Where the code departs from its documents](#6-where-the-code-departs-from-its-documents)
- [7. What is not modelled](#7-what-is-not-modelled)
- [8. Plan](#8-plan)

## 1. The system

A mutation-test run instruments a project, copies it to a sandbox, runs its
tests once, decides which mutants need a run of their own, settles each of
those on a pool of worker processes, and reports. It is written with `effect`:
fibers, scopes, queues, pub-subs, refs and pools that are not in the repository
and that the models take from the way the code uses them.

```
 initial test run -> plan of mutants -> MUTATION-TEST STAGE ------> report, verdict
                          ^              |    |    |      |              |
   incremental reuse -----+              |    |    |      +-> reporter stream -> reporters
   (report of the last run)              |    |    +--------> run event stream -> stdout, file
        ^                                |    +-------------> checkpoint writer -> incremental file
        |                                v                                             |
        |                         checkers, runner pool                                |
        +------------------------------------------------------------------------------+
```

| Component | State it keeps | Operations | Talks to | What is hard | What makes it correct |
|---|---|---|---|---|---|
| mutation-test stage (`run/mutant-settlement.ts`, `run/mutant-run.ts`, `readmit-subsumed.workflow.ts`, `run/mutation-test.cell.ts`) | the number of settled mutants, who holds a verdict, which mutants are held as subsumed | announce remembered and early mutants, check, run, rule on held mutants, readmit, report | checkers, runner pool, event stream, reporters, checkpoint | concurrent fibers, two passes, failures in the middle | held mutants wait; a ruling rests on dominators that ran; one event and one number for each mutant; complete reports |
| mutant runs (`run/mutant-run.cell.ts`, `pooled-test-runner.handle.ts`, `TestRunner.blueprint.ts`) | per worker: what is loaded, how often used, whether invalidated; per fiber: attempt, tries | acquire, reload, ask, run, time out, try again, attempt again, recycle, release | worker processes, pool | crashes, late answers, deadlines, nested acquisition | a worker is shared by nobody and not used after it was condemned; static state does not leak; every mutant settles |
| incremental reuse (`incremental-diff.workflow.ts`, `run/incremental-reuse.cell.ts`, `checkpoint-mutants.workflow.ts`) | the rows of the incremental report, digests, evidence of timeouts | decide what is kept, write rows at checkpoints and at the end | the disk, `incrementalSources`, the next run | edits between and during runs, interrupts, restricted runs | a kept verdict rests on unchanged content; a timeout is kept only when seen twice; what can be kept is kept |
| checkpoint writer (`run/mutant-run.ts`, `atomic-write.cell.ts`) | settled mutants, count last written, a sliding queue of one | record, signal, read, write, wait, close | the incremental file | records during a write, failed writes, interrupts, kills | the file never goes back, a closed writer has written everything, a record is written in the end |
| reporter stream (`reporter-stream.service.ts`) | a channel and a state per reporter | attach, publish, stall, detach, close, settle | reporters, in process or in workers | full channels, time-outs, failures of reporters, batches | the report reaches every reporter still attached, no reporter holds up the run, failures are told rightly |
| run event stream (`run-event-stream.service.ts`, `frame-run-event.workflow.ts`, `conclude-run.cell.ts`) | a bounded queue, a framing state, two sinks | offer, frame, tick, write, conclude, end, join | every fiber of a run, stdout, the stream file | the terminal event races offers and heartbeats; sinks fail | one terminal event, last and right; no gaps; the command exits |
| checker pool and contract (`Checker/`, `admit-checker-answer.workflow.ts`) | slots with one worker of each checker, an open stream per checker | boot, group, check, admit, pass on, invalidate | the stage | a crash takes a slot away from other groups; groups run unordered and pass on while others are still checked | each mutant goes through the chain of checkers and settles once; the stream ends |
| mutation server (`Serve/`) | per connection: a byte buffer, a busy flag, a fiber for each frame, an event queue for each run | frame, decide, claim, run, notify, answer, release, close | clients, the engine | bytes cut anywhere; a flag read and claimed in two steps; a consumer that ends early | one run at a time, every request answered once, progress before its answer |
| MCP server (`Mcp/`) | none of its own | tools over a rerun of one mutant | clients, the engine | a queue nobody drains | see section 7 |
| initial test run (`run/dry-run.cell.ts`, `run/deferrable-dry-run.cell.ts`, `run/dry-run-choice.ts`, ...) | the coverage and the flaky mutants in the reports | defer, make up for, reuse, run twice, hand on | runners, plan, reports | a deferred run that is needed after all; coverage of a moved or edited project; files read outside the project | coverage is of this project; no verdict rests on a flaky test; nothing is measured twice |
| planning (`plan-mutant-tests.workflow.ts`, `run/mutation-test-plan.cell.ts`, ...) | none | drafts, orders and materialises plans | stage | - | each mutant planned once |
| shards (`plan-shards.workflow.ts`, `plan-request.cell.ts`, `shard/`) | the plan file; streams and reports in a directory per shard | plan, run, unite, merge | child processes | shards that fail, are killed, start again, or belong to an earlier plan; a merge of any directories | merge equals one whole run; one checkout; each mutant planned once, within the predicted time |
| verdict, gates, exit classes; survivors, rerun, feedback; audit, budgets; sandbox; configuration; import closures; instrumenter; TypeScript checker; Vitest runner; reporters; plugin interface; ignorers, frameworks, tooling | none that outlives a call, or external | | | sequential | see section 7 |

`PROJECT.json` lists all components with their sources, and the hazards: what
could go wrong in this code at which line, and the properties that watch it.

## 2. The modules

Each behavioural module declares its parameters as CONSTANTS with named
assumptions, has one action for each step between two points where another
fiber may run, and states its properties at its end. `map` in `PROJECT.json`
gives the source lines of every definition. Definitions with a comment that
begins with "Faulty:" (`DrawNumberStale`, `CloseDropping`, `ClaimBlindly`, ...) are plausible
mistakes in the definition they stand before; no behaviour of a specification uses them,
they serve to show that the properties notice such a mistake.

**`ReadmitSubsumed`**: `readmit-subsumed.workflow.ts` and the status classes of
the plugin interface as pure operators: which statuses count as having run, and
the ruling on a held mutant from what its dominators came to.

**`Settlement`** (abstract): what the stage promises to everyone who listens. A
published status is never revised, and a report comes only from a complete set.

**`MutationTest`**: the stage from the plan to the report, with the checker
pool reduced to a chain of checkers each mutant passes, is refused by or fails
in.

| Variable | In the code |
|---|---|
| `kind`, `dominators` | the plan (`run/mutation-test-plan.ts`): remembered, early, kept or held, and `subsumption.dominators` |
| `phase` | where `settleMutants` stands |
| `stage`, `checker` | how far the fiber of a mutant is, and how many checkers it passed |
| `verdict`, `ruling` | the results collected so far; what `readmitSubsumed` ruled |
| `completed`, `ticket` | `context.completedRef`, and the value a mutant's event carries |
| `stream` | the order in which events are queued |

`DrawNumber` and `OfferEvent` are two steps because other fibers run between
the update of the ref and the offer; `Record` follows. `StartWork` is bounded by
`Capacity`, as `Checker/checker-pool.handle.ts:403` bounds the stream. A held mutant goes
through `RuleOnHeld`, then `AnnounceSubsumed` or `ReadmitHeld`, which sends it
through checkers and runners again. The rest is `EmitVerdict`, `WriteReport`,
`FailReport`, and the failure of the stage (`FailRun`) at any step of a mutant.

**`MutantRuns`**: what "a runner settles a mutant" means in `MutationTest`. The
fiber of a mutant goes through `Acquire`, `Ask`, `RunStarts`, then `RunAnswers`,
`DeadlinePasses` or a failed try, then `RetryAttempt`, `RecycleAndSettle`,
`GiveUp` or `SettleAnswer`, and `Release`. Four decorators wrap a runner,
`withRetry(withEnvironmentReload(withMaxReuse(withDryRunTimeout(...))))`, and
their states are `tries`, `known` and `runs`. `environment`, `executing`, `cutOff`
and `gone` are what is really the case in the worker, which the engine only believes
to know: `TriesOnSoundWorker` and `CleanEnvironment` compare the two.

A try fails in two ways, and `FailTry` is what `withRetry` does about either: once
more on the same worker, or an error. In `TryFails` the worker itself reports that the
run has failed, and is done with it. In `ConnectionLost` only the connection fails
(`worker-protocol.blueprint.ts:31`): a worker that was executing the mutant goes on with
it (`cutOff`), through further tries, after its release and beside runs of
other mutants, until `CutOffEnds`. `WorkerExits` is the end of a process that nobody
looks at any more (`gone`): it answers nothing, so tries on it fail with its connection
or end at a deadline. What a worker that was cut off or has exited means for the next
mutant is said in section 6 (`LostWorkersReplaced`); what still holds of it is part of `TriesOnSoundWorker`.

The pool (effect's `Pool`) is external: at most `Size` workers counted until their scope
closes, an invalidated one discarded on release. The branch of `readMutantRunAttempt` for a crash is
unreachable, because `withRetry` turns crashes into results.

**`IncrementalReuse`**: a history of runs over one project. `Edit` changes what
the covering tests import, the program the checker loads or the run inputs;
`Start` copies the sandbox; `Decide` reads digests and keeps verdicts; `Settle`,
`Checkpoint`, `EndRun` and `Stop` produce, save and lose results; `CopyReport`
puts a report where `incrementalSources` finds it. A mutant's id is a digest of
its own content, so an edited mutant is a new mutant and ids are model values.
Engine version, policy and run inputs are always compared together and are one
version here. `tested` stands for the statuses a run of the tests gives
(Killed, Survived, NoCoverage, Ignored). A run may be restricted to some mutants
(`scope`) and may be `--full` (`forced`). The basis of a verdict, the content it
was really reached on, travels in `verdicts` and in the rows as history;
`ReuseSound` compares it with the content when the verdict is kept.

**`InitialTestRun`**: the same kind of history, seen from the initial test run.
`EnterDryRun` looks at the rows of earlier reports and defers the run of the tests when the
checkers alone may settle all mutants; the checks may bring it back;
`Choose` compares digest, run inputs and root with the coverages of two
reports; `DryRun` runs the tests twice and tells what was flaky; the plan then keeps
verdicts that depend on no flaky test; the reports carry the coverage on. The
digest counts a file outside the project only when an earlier coverage names it,
and what a run of the tests really saw is the coverage's `basis`.

**`CheckpointWriter`**: `startCheckpoint` with its ref of settled mutants, its
sliding queue of one, and the count written last. The writing fiber reads,
writes, sets the count and pauses; the finalizer interrupts it, waits for it and
writes the rest. The write is a temporary file and a rename, so it happens or it
does not: interrupted, either.

**`ReporterStream`**: fibers deliver their event to one reporter after another
(`at`, `step`); `Publish` waits on a full channel until `Stall` detaches the
reporter. A consumer takes batches of `Batch[r]` events (one in process, up to
128 from a worker), may fail on any of them, ignore the end or never take at
all. `CloseStage` shuts all channels down, `Settle` reads how each consumer ended.
The pub-sub is external; its one subscriber and bound are the code's.
(The names of this module and of `CheckpointWriter` are disjoint from those of
`RunEventStream` and `IncrementalReuse`, next to which they are proved about.)

**`RunEventStream`**: a command from its request to its exit. Fibers offer to a
bounded queue; the drain merges it with heartbeats, frames each event and writes
a line to the file and to stdout; the conclusion adds the terminal event that is
missing, ends the queue and joins the drain. `Pull` and `Frame` are apart
because the merge takes ahead. `Exited` follows the join or a failed drain.
"failed" stands for every way a command fails; a torn last line is a file with
or without the line.

**`CheckerChain`** (abstract) and **`CheckerPool`**: the chain is what
`MutationTest` assumes of the checkers: each mutant passes them in turn and
settles once, by the first that refuses it or by being run. The pool is how it is
done: slots that boot or fail and hold a worker of every checker; for each
checker an open stream of groups (`level`), each asked for and admitted by
`admit-checker-answer`; results that come out in any order, of which those that passed open
the stream of the next checker; `runCheckedPlans`, which settles or runs at most
`Concurrency` at a time; crashes that invalidate a slot and fail the run.

**`MspFraming`** and **`MutationServer`**: framing turns any beginning of
the bytes of a connection into bodies, errors and a rest, on tokens: an empty line, a
header with its length, content. `ReadStep` takes one frame or notes one error,
`Reading` has the states of repeating it, `ReadFrames` the last one. The server gives each frame a fiber
(`handlers`), which decides by the flag as it reads it (`HandleFrame`) and
claims it in a second step (`Claim`); the engine of a run offers events to a
bounded queue, `Notify` writes them, `Drained` waits for the last, `Answer` and
`Release` follow in this order. A connection may hang up or break at any time
(`Hangup`, `Break`), and ends by `EndOfChunks` and `Joined`.

**`ShardPlanning`** and **`Shards`**: planning as operators, translated from
`plan-shards.workflow.ts`: the number of shards (`ShardCount`), the bins each project's
initial test run is charged to (`Reserving`), groups of mutants with what subsumes
them, costliest first (`Ordered`) into the least loaded bin that takes them (`Filling`).
Both repetitions are recursive functions, so that their steps can be reasoned about.
`CommandOK` is what a command fulfils: numbers, ids that are unique in a project, and that
the first of the mutants that subsume one is a mutant of the command and not itself
subsumed (`src/packages/stryker-js-instrumenter/src/subsume-mutants.workflow.ts:17`: at
one site the operators of the two differ). `Shards` writes
such a plan over an older one, starts shards, spawns their children one project
after the other, lets them settle, report, fail or be killed, start again over
what they left, and merges any directories in any order: streams give the report, the
incremental reports are united.

**MC modules** give plans, scripts, static and covered mutants, reporters,
fibers and commands. `MCMutantRunsFew` has a smaller instance for the disagreements.

How the modules meet:

- `MutationTest!RunMutant` is one whole behaviour of a mutant's fiber in
  `MutantRuns`; its checks are the chain `CheckerChain` of which `CheckerPool` is shown to
  be an implementation.
- `MutationTest!OfferEvent` is `Offer` in `RunEventStream`, an offerer in
  `ReporterStream` and, where a client asked for the run, `EngineOffers` in `MutationServer`.
- `MutationTest!Record` is `Record` in `CheckpointWriter`, whose `Write` is
  `Checkpoint` in `IncrementalReuse`; `kind = "remembered"` there is
  `IncrementalReuse!Kept`, less what `InitialTestRun` finds to depend on flaky tests.
- A child of a shard is a run restricted to its mutants: its stream ends as
  in `RunEventStream` and its report is that of `IncrementalReuse`.

They are checked apart, each with the others reduced to any answer they may give:
their product is out of TLC's reach.

## 3. The runs

| Run | Module, cfg | Shows | Bounds |
|---|---|---|---|
| `mutation_test` | `MCMutationTest` | rulings on subsumed mutants, numbers, progress, termination, and the refinement of `Settlement` | 4 plans of 4 mutants, 1 checker, 2 fibers |
| `mutant_runs` | `MCMutantRuns` | who tries on which worker, what is loaded there, which tests ran, who holds which worker, everyone settles | 3 mutants (static, covered, all tests), 2 workers, 1 retry |
| `reuse` | `MCIncrementalReuse` | kept verdicts are sound, timeouts reproduced, a complete report's verdicts are kept | 2 mutants (one static), 3 runs, 2 edits, 2 versions, 1 copy, restricted and forced runs |
| `initial_run` | `MCInitialTestRun` | coverage is current, no run without tests that needs them, flaky mutants are tested again, coverage is reused where it can be | 2 mutants (one static), 3 versions, 2 runs, 2 edits or moves, 1 copy |
| `checkpoint_writer` | `MCCheckpointWriter` | the file never goes back, a closed writer is complete, each record is written | 4 mutants, one already settled |
| `reporters` | `MCReporterStream` | the report is offered, failures told, the run goes on | 2 reporters (one in a worker), 2 fibers and the engine, channels of 1, batches of 2 |
| `run_events` | `MCRunEventStream` | terminal event last and right, no gap, all written, exit | 2 fibers, queue of 1, 2 taken ahead, 2 heartbeats |
| `checker_pool` | `MCCheckerPool` | the pool implements the chain of checkers, and its stream ends | 3 mutants (one a checker cannot be told about), 2 checkers, 2 slots, 2 at work |
| `mutation_server` | `MCMutationServer` | one run of a connection, progress before its answer, answers right and complete | 1 connection, scripts of 3 messages, runs of 1 event, queue of 1 |
| `shards` | `MCShards` | plans are complete and priced, the merge is whole, ready and of one checkout | some 600 commands planned, 2 plans of 2 shards run, 4 starts, 1 stream lost |
| `retry_stuck`, `broken_stdout` | `MCMutantRunsFew`, `MCRunEventStream` | section 6 | 2 mutants on 1 worker; as `run_events` |

Type invariants are left out of the configurations: a theorem has each of them
for every value of the constants.

Why the bounds are enough for what they are to show:

- `mutation_test`: the plans have chains, mutual dominators, one outside the
  run, dominators that are remembered as run and as not run, early ones, and
  more kept mutants than fibers. A ruling looks at single dominators, so
  two on each side distinguish "some" from "all"; two fibers give every
  interleaving of drawing, offering and recording.
- `mutant_runs`: two workers and three mutants make one fiber wait; a
  static mutant before and after others is what reload is about; one retry
  reaches the second try, beside a run cut off in the first, and its limit. The code's
  two repeat that step: with `MaxRetries = 2` the run finishes too, in twice the time.
- `reuse`: a timeout is kept after its second occurrence, so the third run is the
  first that may keep it, and it takes two edits for content to return to what
  it was. Versions are only compared; a third would not tell more apart. Two mutants,
  for a run restricted to one must do right by the other.
- `initial_run`: coverage is measured by one run and used by the next. The
  file outside the project matters to one version and not to the others, so that
  an edit may begin, end or keep that dependency; a move and an edit fit between two runs.
- `checkpoint_writer`: one mutant may settle before, during and after a write,
  and one is there from the start; the queue has one place, so two more signals
  are enough to drop one.
- `reporters`, `run_events`: a bound of one is full after one event; batches of
  two are the smallest that hold the report and an earlier event.
- `checker_pool`: two slots for two checkers, so that groups of both compete for
  them; three mutants make a group of two and one that is passed on
  before the others are checked.
- `mutation_server`: three messages are two that race for the flag and one that
  comes before or after; a queue of one is full after the one event of a run. Every chunking
  of the bytes is tried.
- `shards`: what is only planned varies targets, limits, costs and
  dominators; what is run has one project that is split and two that share a plan; four
  starts are a retry of each shard of a plan.

The deadlock check is off (`CHECK_DEADLOCK FALSE`) where the system really
stops: a history of runs, shards or messages at its bounds (`reuse`,
`initial_run`, `shards`, `mutation_server`), a stream that has ended or failed
(`checker_pool`), and the command whose stdout broke (`run_events`,
`broken_stdout`), which is one of the findings.

## 4. Fairness

- `MutationTest`: weak fairness on the steps of each mutant and of the stage. The effect
  scheduler runs every fiber that is ready; a runner answers or is timed out
  (that is `MutantRuns`); a checker is taken to answer or to crash, as its
  request has no deadline. Failures are allowed and never required.
- `MutantRuns`: weak fairness on the steps and timers of each fiber. Nothing is
  asked of a worker once a run is requested of it, for that is what the deadline is for.
  The capabilities request before that (`pooled-test-runner.handle.ts:301`) has no deadline;
  it is answered or, as the connection is watched by pings, fails with it
  (`CapabilitiesSettle`), and `withRetry` bounds how often. No process need exit, and no
  run that was cut off need end.
- `CheckpointWriter`: the writing fiber and the mutants' fibers run, timers
  fire. Finishing, interrupts, kills and failed writes need not come.
- `ReporterStream`: the engine's fibers and timers only. No reporter need do
  anything, which is the point of `RunGoesOn`.
- `RunEventStream`: the command, the drain and the offering fibers run, writes
  return. `Exits` excepts a stdout that broke; `AlwaysExits`, which does not, is
  violated.
- `CheckerPool`: weak fairness on checkers, slots and the stream together: a
  checker answers, the scheduler runs what can go on. A request to a checker has no
  deadline in the code, so that a checker answers or crashes is an assumption about it.
- `MutationServer`: for each connection, bytes that were sent arrive, a fiber that
  is ready runs, writes return, and the engine ends a run whose events are
  taken. Clients need send nothing, nor hang up. Nothing in the two modules
  goes on for ever, so weak fairness on "some step" is all that is needed.
- `IncrementalReuse`, `InitialTestRun`, `Shards`, `Settlement`, `CheckerChain`: safety only.

## 5. The proofs

All proofs assume only the named assumptions of the modules, for any number of
mutants, fibers, versions and bounds.

**`MutationTestProofs`.** The properties the run checks do not stand alone: that
a ruling is right after the fact needs that no dominator changes its status once
ruled on, which needs that everything not held has settled before the ruling
(`PhaseOrder`), that a verdict is there before it is announced
(`VerdictFirst`), and that numbers drawn and events queued agree with the stage
of each mutant (`NumbersUnique`, `StreamedOnce`). `IInv` is their conjunction with
`TypeOK`, `SubsumedBehindARunner` and `ReadmittedWithoutRunner`; `InitIInv` and
`NextIInv`, one step per action, give `Inductive`. From it follow `RulingsSound`,
`AnnouncedOnce`, `ReportSound` and the action property `HeldWaitsProved`.
`RulingsSound` states both halves of a ruling, which `RulingsRight` joins. A second
layer, `Crowd`, counts the fibers in flight: at most one where the stage announces
one after another, at most `Fibers` in a pass; so at most that many numbers are
ahead of their events, and `ProgressBounded` follows.
`Implements` maps published statuses and the outcome of the stage to
`Settlement` and shows that each step is a step there or a stutter.

**`IncrementalReuseProofs`.** Four layers. `TInv`: types, an idle run has no
leftovers, results are settled statuses, each row has a basis. `HInv`, under
`~EditsMidRun`: rows are honest (`RowsHonest`: where a digest is there it is the
digest of the content the verdict was reached on), the sandbox is the content on
disk while a run goes on (`Snapshot`), so are the digests read (`DigestsHonest`),
and the results have a basis to match (`ResultsHonest`). A kept
verdict matches in every digest its status asks for, so by honesty its basis is
the present content: `ReuseIsSound`. The assumption is needed: with edits during
a run the property is false (section 6). `SInv`: a row that says timeout has one in the
history on its basis, one that says reproduced has two of different runs; evidence is of
a run before the present one, and a timeout of the present run is dated by it. By
`HInv` a matching row speaks of the present content: `TimeoutsReproduced`. `KInv`,
as long as no report was copied: the report has, for every verdict the history takes it
to hold, a row with the digests and the reproduction a later decision asks for, and
evidence is there for every timeout that would be a second one: `KeepsWhatItCan`.

The same module has `CheckpointWriter`, whose `Write` is a `Checkpoint` there. `WriterInv`:
the writing fiber lives as long as the scope is open (`Working`); the count written is at most the size of the last snapshot
(`Counted`); unless the last write failed, the file is the snapshot once it was
written (`Landed`); a write under way takes nothing back (`Forward`); the closing
write has everything (`LastWrite`). It gives `ClosingCompletes` and `NeverBack`.
The finalizer leaves its write out when the count says nothing is new: that
the file is then complete follows from the inclusions and the library's facts on
the cardinality of subsets.

**`RunEventStreamProofs`.** Two layers. `IInv`: the file, and stdout in a machine
mode, hold the events that were framed, up to the one being written
(`FileFollows`, `StdoutFollows`); nothing is framed behind a terminal event
(`FramedEnds`); an unopened stream is empty (`NotOpened`). It gives `NoGap` and
`TerminalLast`. `OInv` relates what is framed to what was offered: the queue and
the events taken ahead are, in order, the last of the offers (`QueueFollows`,
`MergeFollows`), and until a terminal event is framed, what was framed and what
was taken ahead are together all that left the queue; which last word the command
and its conclusion have offered is known from how far they are (`Told`). With
`Ended`, the drain that has nothing left, it gives `LastWordIsTold` and `AllIsWritten`.

The same module has `ReporterStream`, where the same events go. `ReporterInv` is what each
party knows of the others: how a consumer ended agrees with what it took (`ConsumerRight`, `ExitRight`); a channel
is shut early only of a reporter that was detached, and holds only events that were
offered (`ChannelRight`); an offerer that has passed a reporter offered it its event
or found it detached (`OffererRight`); the engine, by its phase, has offered the
report to all of them (`EngineRight`). It gives `ReportGoesOut`, `FailuresTold`
and `EarlyFailures`.

**`MutantRunsProofs`.** Three layers. `IInv` says of each mutant, by how far
its fiber is, which workers it holds and in what state they are: sound until its
try is judged; in a second attempt, the first worker still held beside the second;
no longer than its scope. A worker nobody holds executes nothing for its connection. It
gives `CoveringTests` and `Holds`. `CInv` is about runs that were cut off: what a
worker that is not invalidated goes on with is the run of the mutant that holds it, or of
one that is done, settled as tested or as an error (`CutOffRight`); for a worker that is
not invalidated when its mutant settles is one of such a mutant (`SettledRight`). With `IInv` it gives `SoundWorkers`. `EInv` compares what is
loaded in a worker with what `withEnvironmentReload` takes it for: they differ
only where a run was not judged yet, or the worker is stale or invalidated. With
`CanReload = TRUE`, which is needed (section 6), that is `CleanRuns`.

**`InitialTestRunProofs`.** `TInv`: types, and what a run has not come to yet is
empty. `CInv`, under `LateFailures = FALSE`: the coverages in the reports are sound
(where their key is that of the project as it is, so is what they were measured on), the
sandbox is the content on disk, and so the coverage a run plans with is current:
`CoverageIsCurrent`, and `CurrentIsReused`. `RInv` gives `TestFreeIsRefused` and
`FlakyIsRetested`: rows and results of refused mutants rest on a refusal of
this content, and a run that has deferred its tests only has such results.

**`CheckerPoolProofs`.** `PInv`: a mutant is in exactly one place (waiting, in a group
being checked, checked and not yet passed on, at work, settled) with as many passes
as that place says, and a checker is asked of a mutant only after the ones before it.
Each step of the pool is then a step of the mutant it is about in the
chain, or a stutter: `Implements`, under `Overlap = FALSE`, which is what makes a
group's mutants its own. `TypeCorrect` is proved without it.

**`MutationServerProofs`.** `IInv` says of every connection that its flag is set exactly
while one fiber holds it (`Flag`), so that two fibers that decide on the flag before either
claims it still do not both run; that what a fiber has written, its answer as the last, is
written in full (`WrittenOK`, `Accounted`); that each fiber is about a message of its
own (`InOrder`); and that the bytes nobody has handled yet begin where a message begins
(`ReadSoFar`). The last is what the answers rest on, and its step is a lemma about framing:
`FramesRead`, however the bytes were cut, the bodies are those of complete messages in
their order, each error is that of a message without a length, and the rest is the
beginning of the next message. It gives `OneRunAtATime`, `ProgressComesFirst` and
`AnswersAreRight`.

**`ShardsProofs`.** Planning first. `Ranks` and `OrderedOK`: sorting gives each element one
place. `PlacedOK`: the bins hold each group that was placed once and nothing else; with
the groups a partition of the mutants (`GroupFacts`) and the shards as many as `ShardCount`
allows, `PlannedShardsOK` says that a plan has each mutant once, beside its first dominator:
`PlansAreWhole`. `Priced`: a bin is charged what its mutants cost (`CostOfBoth`, `SumOfBoth`)
above the dry runs of the projects it was reserved for (`ChargedOK`), and a group that needs
one is in a bin so charged. That gives `DryRunsArePriced`, under the one hypothesis in this
module: `OfTheirProject`, that the mutants of a group with such a need are of the project the
group counts as. Section 6 shows the property violated without it; the commands of
`MCShards` satisfy it. Then the runs of the shards. `IInv`: shards share no mutant (`Disjoint`);
a run of the present plan is done with every project it does not have before it
(`ProcOK`, `Done`), a child writes what it has settled (`ChildOK`), so a completed shard
has the rows of its mutants and no others; what was merged is what the directories
still say (`MergedOK`). It gives `MergesAreWhole`, `CompletedShardsMerge` and
`UnionsAreOfOneCheckout`.

What a recursive function yields (`Reading`, `Reserving`, `Filling`, the sums behind
`Cost`) is proved without an induction theorem: the library's take an operator as a
parameter, which the provers do not instantiate. Each proof takes the set of the
indices at which the claim is wrong and its least element (`LeastNumber`), and
refutes it from the step before.

Only model-checked: the liveness properties (`Terminates`, `AllSettle`,
`RecordedWritten`, `RunGoesOn`, `Exits`, `StreamEnds`, `EveryRequestAnswered`),
which are out of reach of the proof system. Every other property that a passing run
checks is a theorem.

## 6. Where the code departs from its documents

Two runs expect a violation; `findings` quotes the document each time.

1. `retry_stuck`: the second attempt of a mutant takes a worker while its scope
   still holds the first; with one slot, or all slots held by fibers in
   their second attempt, it waits for ever.
2. `broken_stdout`: when stdout breaks nobody takes from the event queue; once it
   is full, the fibers and the conclusion wait for ever.

Further disagreements, each reproduced by a change to a configuration that is
here, and kept out of the list of runs to keep that short:

- INVARIANT `LostWorkersReplaced` in `MCRetryStuck.cfg`: violated. A worker that is silent in
  the middle of a run loses its connection and no more. `withRetry` tries the same worker
  until its tries are used up and settles the mutant as an error
  (`pooled-test-runner.handle.ts:169`); the worker is not invalidated and goes back to the
  pool, still in that run, or as a process that has exited. By
  `src/packages/stryker-js/CHANGELOG.md:353` it "is restarted per the existing crash policy".
- `MaxReuse = 2`, `Size = 2` and INVARIANT `ReuseBounded` in `MCRetryStuck.cfg`: violated. The
  pool gives each runner an empty `retire` (`run/test-runner-pool.blueprint.ts:91`),
  so `maxTestRunnerReuse` (`bin/cli-command.ts:242`) resets a counter and restarts nothing.
- `CanReload = FALSE` in `MCMutantRuns.cfg`: `CleanEnvironment` is violated. Where a
  runner cannot reload, a fresh worker is to do instead, through the same empty
  `retire`.
- `CleanEnvironment` without its conjunct on `stale`: violated. A static mutant's try that fails
  after it has started loads the worker and leaves what `withEnvironmentReload` remembers of
  it as it was (`pooled-test-runner.handle.ts:308`).
- PROPERTY `FinishedReused` in `MCIncrementalReuse.cfg`: violated. Checkpoints carry no
  digests, so the verdicts an interrupted run saved are refused by the next run, and
  the first checkpoint has already replaced the last complete report
  (`src/packages/stryker-js/CHANGELOG.md:203` and `:741`).
- `EditsMidRun = TRUE` in `MCIncrementalReuse.cfg`: `ReuseSound` is violated. Digests are
  read from the project after the sandbox was copied (`run/mutant-settlement.ts:245`).
- `Attachments <- MCWorker`, `Batch <- MCWorkerBatch` and INVARIANT
  `EveryEarlyFailureForgiven` in `MCReporterStream.cfg`: violated. A reporter in a worker
  that fails on an early event of the batch the report is in fails the run
  (`src/packages/stryker-js/CHANGELOG.md:629`).
- `Connections <- TwoConnections`, `Scripts <- OneTest`, `OutputBreaks = FALSE` and INVARIANT
  `OneRunPerServer` in `MCMutationServer.cfg`: violated. The flag is kept for each
  connection, the documents speak of one run of the server (`Serve/Serve.cell.ts:2`,
  `src/packages/stryker-js/CHANGELOG.md:183`).
- `LateFailures = TRUE`, `MaxRuns = 4`, `MaxEdits = 3` in `MCInitialTestRun.cfg`:
  `CoverageReused` is violated, and `CoverageCurrent` when checked alone. A closure
  that could be read before the tests and not after them gives the coverage the digest of
  before, which need not count the file outside the project that the tests have turned
  out to read (`run/dry-run.cell.ts:552`).
- `Overlap = TRUE` in `MCCheckerPool.cfg`: `KeepsChain` is violated. A checker that puts a
  mutant in two groups has it checked and run twice; nothing refuses such groups.
- Commands for `MCShards` in which mutants of two projects name dominators with the same id:
  `DryRunsPriced` is violated. The key that keeps groups together does not name the
  project, and the group goes where only the first project's initial test run was charged
  (`plan-request.cell.ts:230`, `src/packages/stryker-js/CHANGELOG.md:44`).
- `PlannedOnce` without `~m.reused`: violated. A subsumed mutant whose verdict is reused may
  be in another shard than its dominator, for only the mutants that are run again are looked at to
  see what is a dominator (`plan-request.cell.ts:222`, `src/packages/stryker-js/CHANGELOG.md:30`).

These the models say in their own terms, so that what holds besides can be checked:

- A restricted run replaces the report by one of its own mutants
  (`run-request.cell.ts:229`), and the verdicts of the others are lost. `Unsaved` in
  `IncrementalReuse` takes them out of what is due.
- An old record in `incrementalSources` hides that a timeout was seen
  (`incremental-diff.workflow.ts:276`): hence `copies = 0` in `ReportedReused`.
- A report of a `--full` run is no use to an ordinary one, for `force` is one of the
  options that are compared: hence `~forced` in `NewVerdict`.
- A stream of a shard that cannot be opened or written is only logged, and the child
  succeeds: an earlier stream is merged in its place. `MergeReady` excepts it.
- The connection that breaks while a run has more events than the queue holds waits for a
  run that waits for the queue (`Serve/Serve.cell.ts:163`): `EveryRequestAnswered`
  speaks of connections that did not break.
- A reporter in a worker subscribes after its worker has started; `publish` to
  nobody answers true, so events before that, in a short run the report too, are
  lost (`reporter-stream.service.ts:225`). `ReportOffered` speaks of the offer.

Met while reading, and not followed further: `PlanKnown.total` leaves remembered
mutants out while `plannedTotal` counts them (`run/mutant-settlement.ts:293`);
`statusReasonOf` dies on an ignored mutant without a reason
(`run/mutant-run.ts:88`); a failure after the verdict event was queued exits
non-zero behind a stream that says verdict, which `LastWordTold` states as it is.

## 7. What is not modelled

- effect's own `Pool`, `Queue`, `PubSub`, `Stream` and scheduler: external,
  modelled from their use (`external` in `map`). Where their order is finer
  than the code relies on (who of several waiting fibers goes first) the models
  allow any order.
- The plan: any well-formed plan is an input of `MutationTest`. How coverage
  becomes a plan and how tests are ordered are pure algorithms.
- In `MutantRuns`: the command runner, whose process is per run; what a worker does inside; a
  run that answers without having started; a request that begins in the worker only
  after its connection was lost. Exits of workers that are idle. The Vitest runner ignores
  `reloadEnvironment`; the model has a runner that does what the contract says.
- In `IncrementalReuse`: mutants that carry subsumption, renamed files, how
  digests and closures are computed.
- In `InitialTestRun`: timings, `allowEmpty`, reports of other builds than those copied.
- In `CheckpointWriter`: the temporary file a kill leaves behind.
- In `ReporterStream`: which reporters are configured, what they render.
- In `RunEventStream`: the text of events and of the human output, stderr, the
  admission of an existing stream file.
- In `CheckerPool`: `programDigestOf`. A checker that crashes during it is only
  logged and its slot is used again, so that the next group meets the crash.
- In `MutationServer`: the configuration file, the parameters of a request, the stop of
  the server from outside.
- In `Shards`: where costs and budgets come from, thresholds of the merged report,
  coverage in the union, a merge that is interrupted, two processes at work on one directory.
- The MCP server: its requests are independent calls. A rerun gets a bounded
  queue that nobody drains (`Mcp/mcp-server.cell.ts:133`); it reruns one mutant, whose few
  events fit.
- Verdict, gates and exit classes, survivor selection, feedback, audit, configuration,
  sandbox, tooling: sequential code without state between calls, or pure I/O.
- The instrumenter, the TypeScript checker and the Vitest runner, half of the source:
  transformations of syntax trees and adapters to compilers and test runners. Their
  correctness is a matter of those languages and interfaces, about which finite instances
  of an abstract model say little. The share of the source that is modelled is small for
  that reason: what is modelled is where fibers, processes, files and runs meet.

## 8. Plan

Done: the stage, mutant runs, reuse, checkpoints, reporters, events, checkers, the
initial test run, the server and shards, with the proofs of section 5. What is left:

1. `PlanMutants`: plans from coverage (`plan-mutant-tests.workflow.ts`) against a
   reference definition: every mutant in one class, covering tests all of the coverage's.
2. `ImportClosure`: that a digest changes with everything reachable, cycles and unreadable
   files included, which `IncrementalReuse` and `InitialTestRun` assume.
3. `Verdict`: gates and exit classes as operators against the documented table.
