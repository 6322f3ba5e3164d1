---------------------------- MODULE InitialTestRun ----------------------------
(***************************************************************************)
(* The initial test run ("dry run") of deferrable-dry-run.cell.ts and        *)
(* dry-run.cell.ts over a history of runs: when it is deferred because the   *)
(* checkers alone may settle the run, when its coverage is taken from an     *)
(* earlier report, which mutants are flaky, and what the reports hand on.    *)
(*                                                                         *)
(* Coverage depends on the project, on the run inputs and, in the versions   *)
(* of UsesExtra, on a file outside the project that the tests read: only a   *)
(* dry run finds out about it, and the digest of the tests' closures counts  *)
(* that file only when it is told to (globalTestInputs, observedModules).    *)
(***************************************************************************)
EXTENDS Naturals

CONSTANTS Mutants,       \* the mutants, by content id
          Static,        \* those with static: true
          Scopes,        \* the sets of mutants a run may be restricted to
          Versions,      \* the contents of the project
          UsesExtra,     \* those whose tests read a file outside the project
          Extras,        \* the contents of that file
          Inputs,        \* the lockfile and what else counts as a run input
          Roots,         \* where the project may lie
          Refused,       \* the mutants the checkers refuse, by version
          Early,         \* the mutants ignored or held as subsumed, by version
          Options,       \* the options of a run
          FlakySets,     \* what the two passes of a dry run may find flaky
          LateFailures,  \* whether the closures may be readable before the
                         \* initial test run and not after it
          MaxRuns,       \* bound: runs started
          MaxEdits,      \* bound: edits of the project
          MaxCopies,     \* bound: reports copied to an incrementalSources file
          None

Statuses == {"CompileError", "tested", "Ignored"}

OptionRecords == [force : BOOLEAN, dryRunOnly : BOOLEAN, ignoreStatic : BOOLEAN,
                  checkers : BOOLEAN]

ASSUME InitialTestRunAssumption ==
  /\ Static \subseteq Mutants /\ Scopes \subseteq SUBSET Mutants
  /\ Versions # {} /\ None \notin Versions /\ UsesExtra \subseteq Versions
  /\ Extras # {} /\ None \notin Extras
  /\ Inputs # {} /\ Roots # {} /\ None \notin Roots
  /\ Refused \in [Versions -> SUBSET Mutants]
  /\ Early \in [Versions -> SUBSET Mutants]
  /\ Options \subseteq OptionRecords
  /\ FlakySets \subseteq SUBSET Mutants
  /\ LateFailures \in BOOLEAN
  /\ MaxRuns \in Nat /\ MaxEdits \in Nat /\ MaxCopies \in Nat

Worlds == [project : Versions, extra : Extras, inputs : Inputs, root : Roots]

RunInputs == Inputs \X OptionRecords

\* basis, not in the report: the content the tests ran on.
Coverages ==
  [digest : (Versions \X (Extras \cup {None})) \cup {None}, extra : BOOLEAN,
   inputs : RunInputs, root : Roots \cup {None}, flaky : SUBSET Mutants, basis : Worlds]

ASSUME NoneAssumption == None \notin Statuses \cup Coverages

\* project: what the digests of the row stand for; a checkpoint's has none.
Rows == [status : Statuses \cup {"Pending"}, project : Versions \cup {None},
         inputs : RunInputs]

NoRows == [m \in Mutants |-> None]
NoReport == [rows |-> NoRows, coverage |-> None]
Reports == [rows : [Mutants -> Rows \cup {None}], coverage : Coverages \cup {None}]

VARIABLES
  disk,       \* the project and what lies around it
  file,       \* options.incrementalFile
  source,     \* a file matched by options.incrementalSources
  phase,      \* idle, entered, checking, choosing, testing, planning or settled
  sandbox,    \* the copy a run works on
  scope,      \* the mutants the run is about
  options,    \* its options
  digest,     \* the currentTestClosureDigest it read
  coverage,   \* the dryRunCoverage it plans with
  remembered, \* the mutants whose earlier verdict is kept
  results,    \* the statuses of the run
  kept,       \* history: the flaky mutants its reports named under its root
  runs, edits, copies

run_vars == <<phase, sandbox, scope, options, digest, coverage, remembered, results, kept>>
vars == <<disk, file, source, run_vars, runs, edits, copies>>

-----------------------------------------------------------------------------
(* Coverage of earlier runs. *)

\* runInputsDigestOf: --full, ignoreStatic and the checkers are run inputs,
\* dryRunOnly and the requested mutants are not.
RunInputsDigest == <<disk.inputs, [options EXCEPT !.dryRunOnly = FALSE]>>

NoOptions == [force |-> FALSE, dryRunOnly |-> FALSE, ignoreStatic |-> FALSE, checkers |-> FALSE]

\* Faulty: the files the tests read outside the project are not counted.
TestClosureDigestOfProject(world, extra) == <<world.project, None>>

\* testClosureDigestOf, when the analysis succeeds.
TestClosureDigest(world, extra) == <<world.project, IF extra THEN world.extra ELSE None>>

Candidates == {file.coverage, source.coverage} \ {None}

\* keptCoveragesOf: only those recorded under the current root.
KeptCoverages == {c \in Candidates : c.root = sandbox.root}

\* The primary report comes first.
First(coverages) == IF file.coverage \in coverages THEN file.coverage ELSE source.coverage

\* The current digest is computed with what the first kept coverage names.
HeadNamesExtra == KeptCoverages # {} /\ First(KeptCoverages).extra

\* againstPrior over the kept coverages.
Reusable(now) ==
  {c \in KeptCoverages :
     ~options.force /\ now # None /\ c.digest = now /\ c.inputs = RunInputsDigest}

PriorFlaky == UNION {c.flaky : c \in KeptCoverages}

FlakyDependent(m, flaky) == m \in flaky \/ (m \in Static /\ flaky # {})

-----------------------------------------------------------------------------
(* Whether the initial test run may be deferred. *)

PriorStatuses(m) == {row.status : row \in {file.rows[m], source.rows[m]} \ {None}}

SettledByTheChecker(m) == PriorStatuses(m) = {"CompileError"}

CoverageFreeVerdictsPossible ==
  options.checkers /\ ~options.dryRunOnly /\ ~options.ignoreStatic

\* Faulty: flaky mutants do not count.
DependsOnAcceptance(m) == ~SettledByTheChecker(m)

DependsOnTheDryRun(m) == FlakyDependent(m, PriorFlaky) \/ ~SettledByTheChecker(m)

DryRunNeeded ==
  \/ options.dryRunOnly
  \/ ~CoverageFreeVerdictsPossible /\ scope # {}
  \/ \E m \in scope : DependsOnTheDryRun(m)

-----------------------------------------------------------------------------
(* Verdicts kept from earlier reports; IncrementalReuse has the whole of it. *)

Current(m) ==
  {row \in {file.rows[m], source.rows[m]} \ {None} :
     /\ row.status \in Statuses
     /\ row.project = sandbox.project
     /\ row.inputs = RunInputsDigest}

Remembered(flaky) ==
  {m \in scope : ~options.force /\ ~FlakyDependent(m, flaky) /\ Current(m) # {}}

StatusOf(m) ==
  IF m \in Early[sandbox.project] THEN "Ignored"
  ELSE IF options.checkers /\ m \in Refused[sandbox.project] THEN "CompileError"
  ELSE "tested"

ResultsOf(kept_ones) ==
  [m \in Mutants |-> IF m \notin scope THEN None
                     ELSE IF m \in kept_ones THEN (CHOOSE row \in Current(m) : TRUE).status
                     ELSE StatusOf(m)]

\* The mutants the checkers and the runners are given.
Planned(kept_ones) == scope \ (kept_ones \cup Early[sandbox.project])

-----------------------------------------------------------------------------
Init ==
  /\ disk \in Worlds
  /\ file = NoReport /\ source = NoReport
  /\ phase = "idle"
  /\ sandbox = disk
  /\ scope = {}
  /\ options = NoOptions
  /\ digest = None
  /\ coverage = None
  /\ remembered = {}
  /\ results = NoRows
  /\ kept = {}
  /\ runs = 0 /\ edits = 0 /\ copies = 0

EndRun ==
  /\ phase' = "idle"
  /\ scope' = {}
  /\ options' = NoOptions
  /\ digest' = None
  /\ coverage' = None
  /\ remembered' = {}
  /\ results' = NoRows
  /\ kept' = {}

\* Between runs the project, what its tests read besides, the run inputs or
\* the place of the project change.
Edit ==
  /\ phase = "idle"
  /\ edits < MaxEdits
  /\ edits' = edits + 1
  /\ \/ \E v \in Versions : disk' = [disk EXCEPT !.project = v]
     \/ \E x \in Extras : disk' = [disk EXCEPT !.extra = x]
     \/ \E i \in Inputs : disk' = [disk EXCEPT !.inputs = i]
     \/ \E r \in Roots : disk' = [disk EXCEPT !.root = r]
  /\ disk' # disk
  /\ UNCHANGED <<file, source, run_vars, runs, copies>>

\* The report is copied to where incrementalSources finds it; an older build
\* of the engine has recorded no root.
CopyReport ==
  /\ phase = "idle"
  /\ copies < MaxCopies
  /\ copies' = copies + 1
  /\ source' \in {file} \cup
       (IF file.coverage = None THEN {} ELSE {[file EXCEPT !.coverage.root = None]})
  /\ UNCHANGED <<disk, file, run_vars, runs, edits>>

Start ==
  /\ phase = "idle"
  /\ runs < MaxRuns
  /\ runs' = runs + 1
  /\ phase' = "entered"
  /\ sandbox' = disk
  /\ scope' \in Scopes
  /\ options' \in Options
  /\ UNCHANGED <<disk, file, source, digest, coverage, remembered, results, kept, edits, copies>>

\* enterDryRun: the initial test run is needed, or the checkers go first.
EnterDryRun ==
  /\ phase = "entered"
  /\ phase' = IF DryRunNeeded THEN "choosing" ELSE "checking"
  /\ kept' = PriorFlaky
  /\ UNCHANGED <<disk, file, source, sandbox, scope, options, digest, coverage, remembered,
                 results, runs, edits, copies>>

\* Faulty: mutants that are early or held do not count.
AllRefusedOfPlanned(kept_ones) ==
  \A m \in Planned(kept_ones) : m \in Refused[sandbox.project]

\* settledWithoutTests: nothing is early or held, and no planned mutant
\* passes the checkers.
AllRefused(kept_ones) ==
  /\ scope \cap Early[sandbox.project] \subseteq kept_ones
  /\ \A m \in Planned(kept_ones) : m \in Refused[sandbox.project]

\* checkerSettledRun: without an initial test run there are no flaky mutants.
SettleByChecker ==
  /\ phase = "checking"
  /\ AllRefused(Remembered({}))
  /\ phase' = "settled"
  /\ remembered' = Remembered({})
  /\ results' = ResultsOf(Remembered({}))
  /\ UNCHANGED <<disk, file, source, sandbox, scope, options, digest, coverage, kept, runs,
                 edits, copies>>

\* A checker accepted a mutant: the initial test run is made after all.
CheckerAccepts ==
  /\ phase = "checking"
  /\ ~AllRefused(Remembered({}))
  /\ phase' = "choosing"
  /\ UNCHANGED <<disk, file, source, sandbox, scope, options, digest, coverage, remembered,
                 results, kept, runs, edits, copies>>

\* readDryRun, dryRunChoiceOf: the closures are read, unless that fails, and
\* the first coverage that matches is taken.
Choose ==
  /\ phase = "choosing"
  /\ digest' \in {TestClosureDigest(disk, HeadNamesExtra), None}
  /\ IF Reusable(digest') # {}
     THEN /\ phase' = "planning"
          /\ coverage' = [First(Reusable(digest')) EXCEPT !.root = sandbox.root]
     ELSE phase' = "testing" /\ UNCHANGED coverage
  /\ UNCHANGED <<disk, file, source, sandbox, scope, options, remembered, results, kept,
                 runs, edits, copies>>

\* Faulty: what was read before the tests is recorded.
DigestBefore(extra) == {digest}

\* What a digest that cannot be read after the tests is replaced by.
DigestAfter(extra) ==
  LET now == TestClosureDigest(disk, extra)
  IN  IF digest # None /\ ~LateFailures THEN {now} ELSE {now, digest}

\* runFreshDryRun: the tests run once or twice; those that differ between the
\* passes make the mutants they cover flaky.
DryRun ==
  /\ phase = "testing"
  /\ phase' = "planning"
  /\ \E flaky \in FlakySets :
     \E after \in DigestAfter(sandbox.project \in UsesExtra) :
       coverage' = [digest |-> after, extra |-> sandbox.project \in UsesExtra,
                    inputs |-> RunInputsDigest, root |-> sandbox.root, flaky |-> flaky,
                    basis |-> sandbox]
  /\ UNCHANGED <<disk, file, source, sandbox, scope, options, digest, remembered, results,
                 kept, runs, edits, copies>>

\* publishDryRunCoverage: only the coverage of the report is replaced.
DryRunOnly ==
  /\ phase = "planning"
  /\ options.dryRunOnly
  /\ file' = [file EXCEPT !.coverage = coverage]
  /\ EndRun
  /\ UNCHANGED <<disk, source, sandbox, runs, edits, copies>>

\* mutationTestCell: verdicts are kept as the flaky mutants allow, the checkers
\* refuse theirs and the other mutants are tested.
MutationTest ==
  /\ phase = "planning"
  /\ ~options.dryRunOnly
  /\ phase' = "settled"
  /\ remembered' = Remembered(coverage.flaky)
  /\ results' = ResultsOf(Remembered(coverage.flaky))
  /\ UNCHANGED <<disk, file, source, sandbox, scope, options, digest, coverage, kept, runs,
                 edits, copies>>

Row(status, project) == [status |-> status, project |-> project, inputs |-> RunInputsDigest]

\* A checkpoint: some mutants have settled, and no row has digests.
Checkpoint ==
  /\ phase = "settled"
  /\ \E settled \in SUBSET scope :
       file' = [rows |-> [m \in Mutants |->
                  IF m \notin scope THEN None
                  ELSE Row(IF m \in settled THEN results[m] ELSE "Pending", None)],
                coverage |-> coverage]
  /\ UNCHANGED <<disk, source, run_vars, runs, edits, copies>>

\* reportAll, its last write.
Report ==
  /\ phase = "settled"
  /\ file' = [rows |-> [m \in Mutants |->
                IF m \notin scope THEN None ELSE Row(results[m], sandbox.project)],
              coverage |-> coverage]
  /\ EndRun
  /\ UNCHANGED <<disk, source, sandbox, runs, edits, copies>>

\* The tests fail without any mutant, a stage fails, or the run is interrupted.
Stop ==
  /\ phase # "idle"
  /\ EndRun
  /\ UNCHANGED <<disk, file, source, sandbox, runs, edits, copies>>

Next ==
  \/ Edit \/ CopyReport \/ Start \/ EnterDryRun \/ SettleByChecker \/ CheckerAccepts
  \/ Choose \/ DryRun \/ DryRunOnly \/ MutationTest \/ Checkpoint \/ Report \/ Stop

Spec == Init /\ [][Next]_vars

-----------------------------------------------------------------------------
(* The properties. *)

\* Every variable stays in its type.
TypeOK ==
  /\ disk \in Worlds /\ sandbox \in Worlds
  /\ file \in Reports /\ source \in Reports
  /\ phase \in {"idle", "entered", "checking", "choosing", "testing", "planning", "settled"}
  /\ scope \subseteq Mutants
  /\ options \in OptionRecords
  /\ digest \in (Versions \X (Extras \cup {None})) \cup {None}
  /\ coverage \in Coverages \cup {None}
  /\ remembered \subseteq Mutants /\ kept \subseteq Mutants
  /\ results \in [Mutants -> Statuses \cup {None}]
  /\ runs \in 0..MaxRuns /\ edits \in 0..MaxEdits /\ copies \in 0..MaxCopies

\* What the tests read is as it was when the coverage was recorded.
StillCurrent(c) ==
  /\ c.basis.project = sandbox.project
  /\ c.basis.root = sandbox.root
  /\ c.basis.inputs = sandbox.inputs
  /\ sandbox.project \in UsesExtra => c.basis.extra = sandbox.extra

\* A run plans only with coverage of what it works on: taken from a report or
\* not, over any history of edits, moves, restricted runs and copied reports
\* (matchesPrior, keptCoveragesOf, reusedRawOf).
CoverageCurrent == coverage # None => StillCurrent(coverage)

\* A run settles without tests only when a checker refuses each of its mutants
\* on the content at hand: a deferred initial test run is made up for as soon
\* as one is accepted, ignored or held (settledWithoutTests, requireDryRun).
TestFreeRefused ==
  phase = "settled" /\ coverage = None =>
    \A m \in scope : results[m] = "CompileError" /\ m \in Refused[sandbox.project]

\* A verdict that depends on a flaky test is not kept: not by the coverage the
\* run plans with, nor, when it has none, by what the reports knew
\* (refusedForPriorFlakes, flakyDependent).
FlakyRetested ==
  phase = "settled" =>
    \A m \in remembered :
      ~FlakyDependent(m, IF coverage = None THEN kept ELSE coverage.flaky)

\* When nothing that feeds the initial test run has changed since the report
\* was written, it is not made again (docs/plans/2026-09-29-0427, R11): what is
\* recorded after the tests is what the next run compares before them.
CoverageReused ==
  [][Choose /\ file.coverage # None /\ StillCurrent(file.coverage)
       /\ file.coverage.digest # None /\ file.coverage.inputs = RunInputsDigest
       /\ file.coverage.root = sandbox.root /\ ~options.force /\ digest' # None
     => phase' = "planning"]_vars
=============================================================================
