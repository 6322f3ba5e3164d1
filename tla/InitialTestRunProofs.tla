------------------------ MODULE InitialTestRunProofs ------------------------
(***************************************************************************)
(* The initial test run over any history of runs, for every set of mutants,  *)
(* contents, options and bounds: coverage that is planned with is current,   *)
(* a run without tests has only refused mutants, no verdict that depends on  *)
(* a flaky test is kept, and coverage that is still current is reused.       *)
(***************************************************************************)
EXTENDS InitialTestRun, TLAPS

\* A run has coverage as soon as it plans, and results once it has settled.
Stages ==
  /\ phase = "planning" => coverage # None
  /\ phase \notin {"planning", "settled"} => coverage = None
  /\ phase = "settled" => \A m \in scope : results[m] # None

TInv == TypeOK /\ Stages

\* The coverages there are, in the reports and in the run.
Known == {file.coverage, source.coverage, coverage} \ {None}

\* The digest of a coverage stands for what its tests read.
Sound(c) ==
  /\ c.digest # None => c.digest = TestClosureDigest(c.basis, c.extra)
  /\ c.extra = (c.basis.project \in UsesExtra)
  /\ c.inputs[1] = c.basis.inputs
  /\ c.root \in {None, c.basis.root}

\* The project is what the sandbox was copied from.
Snapshot == phase # "idle" => disk = sandbox

CInv == (\A c \in Known : Sound(c)) /\ Snapshot /\ CoverageCurrent

\* A row that says a mutant does not compile says so of content on which the
\* checkers refuse it, unless it is of a checkpoint.
RowRefused(m, row) ==
  row.project # None /\ row.status = "CompileError" => m \in Refused[row.project]

RowsRefused ==
  \A m \in Mutants : \A row \in {file.rows[m], source.rows[m]} \ {None} : RowRefused(m, row)

\* While the checkers go first, no mutant needs the initial test run.
Deferred ==
  phase = "checking" =>
    /\ scope # {} => options.checkers
    /\ \A m \in scope : SettledByTheChecker(m) /\ ~FlakyDependent(m, kept)

ResultsRefused ==
  phase = "settled" =>
    \A m \in scope : results[m] = "CompileError" => m \in Refused[sandbox.project]

RInv == RowsRefused /\ Deferred /\ ResultsRefused /\ TestFreeRefused /\ FlakyRetested

-----------------------------------------------------------------------------
(* What the operators return. *)

\* The first of some coverages is one of them.
LEMMA FirstIn ==
  ASSUME NEW coverages \in SUBSET {file.coverage, source.coverage}, coverages # {}
  PROVE  First(coverages) \in coverages
BY DEF First

\* A coverage that may be reused is kept, and matches.
LEMMA ReusableKept ==
  ASSUME NEW now, Reusable(now) # {}
  PROVE  /\ First(Reusable(now)) \in KeptCoverages
         /\ now # None
         /\ First(Reusable(now)).digest = now
         /\ First(Reusable(now)).inputs = RunInputsDigest
<1>1. Reusable(now) \subseteq {file.coverage, source.coverage}
  BY DEF Reusable, KeptCoverages, Candidates
<1>2. First(Reusable(now)) \in Reusable(now)
  BY <1>1, FirstIn
<1> QED BY <1>2 DEF Reusable

\* A kept coverage is one of a report, of the place the project lies in.
LEMMA KeptKnown ==
  ASSUME NEW c \in KeptCoverages
  PROVE  c \in {file.coverage, source.coverage} \ {None} /\ c.root = sandbox.root
BY DEF KeptCoverages, Candidates

\* The run inputs of a run.
LEMMA RunInputsType == ASSUME TypeOK PROVE RunInputsDigest \in RunInputs
<1>1. disk.inputs \in Inputs
  BY DEF TypeOK, Worlds
<1>2. [options EXCEPT !.dryRunOnly = FALSE] \in OptionRecords
  BY DEF TypeOK, OptionRecords
<1> QED BY <1>1, <1>2 DEF RunInputsDigest, RunInputs

\* The digest of the closures is never the missing one.
LEMMA DigestType ==
  ASSUME NEW world \in Worlds, NEW extra
  PROVE  TestClosureDigest(world, extra) \in Versions \X (Extras \cup {None})
BY DEF TestClosureDigest, Worlds

\* The result of a mutant, kept or reached.
LEMMA ResultType ==
  ASSUME TypeOK, NEW flaky
  PROVE  /\ ResultsOf(Remembered(flaky)) \in [Mutants -> Statuses \cup {None}]
         /\ Remembered(flaky) \subseteq Mutants
         /\ \A m \in scope : ResultsOf(Remembered(flaky))[m] \in Statuses
<1>1. ASSUME NEW m \in Remembered(flaky)
      PROVE  (CHOOSE row \in Current(m) : TRUE).status \in Statuses
  BY <1>1 DEF Remembered, Current
<1>2. ASSUME NEW m PROVE StatusOf(m) \in Statuses
  BY DEF StatusOf, Statuses
<1>3. Remembered(flaky) \subseteq Mutants /\ scope \subseteq Mutants
  BY DEF Remembered, TypeOK
<1> QED BY <1>1, <1>2, <1>3 DEF ResultsOf

-----------------------------------------------------------------------------
(* Types. *)

\* The first state has no report and no run.
LEMMA InitTInv == Init => TInv
<1> SUFFICES ASSUME Init PROVE TInv
  OBVIOUS
<1> USE DEF Init, NoReport, NoRows, NoOptions
<1>1. options \in OptionRecords
  BY DEF OptionRecords
<1>2. NoReport \in Reports
  BY DEF Reports
<1>3. runs \in 0..MaxRuns /\ edits \in 0..MaxEdits /\ copies \in 0..MaxCopies
  BY InitialTestRunAssumption
<1> QED BY <1>1, <1>2, <1>3 DEF TInv, TypeOK, Stages

\* An ended run holds nothing.
LEMMA EndRunTInv ==
  ASSUME TypeOK, EndRun, UNCHANGED <<disk, source, sandbox, runs, edits, copies>>,
         file' \in Reports
  PROVE  TInv'
<1>1. options' \in OptionRecords
  BY DEF EndRun, NoOptions, OptionRecords
<1>2. results' \in [Mutants -> Statuses \cup {None}]
  BY DEF EndRun, NoRows
<1> QED BY <1>1, <1>2 DEF EndRun, TInv, TypeOK, Stages

\* An edit changes the project alone.
LEMMA EditTInv == ASSUME TInv, Edit PROVE TInv'
<1> USE DEF TInv
<1>1. disk' \in Worlds
  BY DEF Edit, TypeOK, Worlds
<1>2. edits' \in 0..MaxEdits
  BY InitialTestRunAssumption DEF Edit, TypeOK
<1> QED BY <1>1, <1>2 DEF Edit, TypeOK, Stages, run_vars

\* A copied report is one, with or without the place it was recorded in.
LEMMA CopyReportTInv == ASSUME TInv, CopyReport PROVE TInv'
<1> USE DEF TInv
<1>1. source' \in Reports
  <2>1. CASE file.coverage = None
    BY <2>1 DEF CopyReport, TypeOK
  <2>2. CASE file.coverage # None
    <3>1. [file.coverage EXCEPT !.root = None] \in Coverages
      BY <2>2 DEF TypeOK, Reports, Coverages
    <3>2. [file EXCEPT !.coverage.root = None] \in Reports
      BY <2>2, <3>1 DEF TypeOK, Reports
    <3> QED BY <3>2, <2>2 DEF CopyReport, TypeOK
  <2> QED BY <2>1, <2>2
<1>2. copies' \in 0..MaxCopies
  BY InitialTestRunAssumption DEF CopyReport, TypeOK
<1> QED BY <1>1, <1>2 DEF CopyReport, TypeOK, Stages, run_vars

\* A run starts with nothing decided.
LEMMA StartTInv == ASSUME TInv, Start PROVE TInv'
<1> USE DEF TInv
<1>1. runs' \in 0..MaxRuns
  BY InitialTestRunAssumption DEF Start, TypeOK
<1>2. scope' \subseteq Mutants /\ options' \in OptionRecords
  BY InitialTestRunAssumption DEF Start
<1> QED BY <1>1, <1>2 DEF Start, TypeOK, Stages

\* What the reports know of flaky mutants is a set of mutants.
LEMMA EnterTInv == ASSUME TInv, EnterDryRun PROVE TInv'
<1> USE DEF TInv
<1>1. PriorFlaky \subseteq Mutants
  <2>1. ASSUME NEW c \in KeptCoverages PROVE c.flaky \subseteq Mutants
    BY <2>1, KeptKnown DEF TypeOK, Reports, Coverages
  <2> QED BY <2>1 DEF PriorFlaky
<1>2. phase' \in {"choosing", "checking"} /\ phase = "entered"
  BY DEF EnterDryRun
<1> QED BY <1>1, <1>2 DEF EnterDryRun, TypeOK, Stages

\* Without an initial test run the results are of their type.
LEMMA SettleTInv == ASSUME TInv, SettleByChecker PROVE TInv'
<1> USE DEF TInv
<1>1. /\ remembered' \subseteq Mutants
      /\ results' \in [Mutants -> Statuses \cup {None}]
      /\ \A m \in scope : results'[m] # None
  <2>1. None \notin Statuses
    BY NoneAssumption
  <2> QED BY <2>1, ResultType DEF SettleByChecker
<1> QED BY <1>1 DEF SettleByChecker, TypeOK, Stages

\* That the run goes to its initial test run after all changes no type.
LEMMA AcceptTInv == ASSUME TInv, CheckerAccepts PROVE TInv'
BY DEF TInv, CheckerAccepts, TypeOK, Stages

\* The chosen coverage is one of a report.
LEMMA ChooseTInv == ASSUME TInv, Choose PROVE TInv'
<1> USE DEF TInv
<1>1. digest' \in (Versions \X (Extras \cup {None})) \cup {None}
  BY DigestType DEF Choose, TypeOK
<1>2. phase = "choosing" /\ coverage = None
  BY DEF Choose, Stages
<1>3. CASE Reusable(digest') # {}
  <2> DEFINE c == First(Reusable(digest'))
  <2>1. c \in Coverages
    BY <1>3, ReusableKept, KeptKnown DEF TypeOK, Reports
  <2>2. sandbox.root \in Roots
    BY DEF TypeOK, Worlds
  <2>3. [c EXCEPT !.root = sandbox.root] \in Coverages
    BY <2>1, <2>2 DEF Coverages
  <2>4. None \notin Coverages
    BY NoneAssumption
  <2>5. phase' = "planning" /\ coverage' \in Coverages /\ coverage' # None
    BY <1>3, <2>3, <2>4 DEF Choose
  <2> QED BY <1>1, <2>5 DEF Choose, TypeOK, Stages
<1>4. CASE Reusable(digest') = {}
  BY <1>1, <1>2, <1>4 DEF Choose, TypeOK, Stages
<1> QED BY <1>3, <1>4

\* A fresh coverage is one, whatever digest it gets.
LEMMA DryRunTInv == ASSUME TInv, DryRun PROVE TInv'
<1> USE DEF TInv
<1>1. PICK flaky \in FlakySets, after \in DigestAfter(sandbox.project \in UsesExtra) :
        coverage' = [digest |-> after, extra |-> sandbox.project \in UsesExtra,
                     inputs |-> RunInputsDigest, root |-> sandbox.root, flaky |-> flaky,
                     basis |-> sandbox]
  BY DEF DryRun
<1>2. after \in (Versions \X (Extras \cup {None})) \cup {None}
  BY DigestType DEF DigestAfter, TypeOK
<1>3. sandbox \in Worlds /\ sandbox.root \in Roots /\ RunInputsDigest \in RunInputs
  BY RunInputsType DEF TypeOK, Worlds
<1>4. flaky \in SUBSET Mutants
  BY InitialTestRunAssumption
<1>5. coverage' \in Coverages
  BY <1>1, <1>2, <1>3, <1>4 DEF Coverages
<1> QED BY <1>5, NoneAssumption DEF DryRun, TypeOK, Stages

\* The coverage of the report is replaced by one that is of its type.
LEMMA DryRunOnlyTInv == ASSUME TInv, DryRunOnly PROVE TInv'
<1>1. file' \in Reports
  BY DEF TInv, TypeOK, DryRunOnly, Reports
<1> QED BY <1>1, EndRunTInv DEF TInv, DryRunOnly

\* Kept and reached results are of their type, and every mutant has one.
LEMMA MutationTestTInv == ASSUME TInv, MutationTest PROVE TInv'
<1> USE DEF TInv
<1>1. /\ remembered' \subseteq Mutants
      /\ results' \in [Mutants -> Statuses \cup {None}]
      /\ \A m \in scope : results'[m] # None
  BY NoneAssumption, ResultType DEF MutationTest
<1> QED BY <1>1 DEF MutationTest, TypeOK, Stages

\* A written row is of its type.
LEMMA RowType ==
  ASSUME TypeOK, NEW status \in Statuses \cup {"Pending"},
         NEW project \in Versions \cup {None}
  PROVE  Row(status, project) \in Rows
BY RunInputsType DEF Row, Rows

\* A checkpoint is a report.
LEMMA CheckpointTInv == ASSUME TInv, Checkpoint PROVE TInv'
<1> USE DEF TInv
<1>1. PICK settled \in SUBSET scope :
        file' = [rows |-> [m \in Mutants |->
                   IF m \notin scope THEN None
                   ELSE Row(IF m \in settled THEN results[m] ELSE "Pending", None)],
                 coverage |-> coverage]
  BY DEF Checkpoint
<1>2. ASSUME NEW m \in scope
      PROVE  Row(IF m \in settled THEN results[m] ELSE "Pending", None) \in Rows
  <2>1. results[m] \in Statuses
    BY DEF Checkpoint, TypeOK, Stages
  <2>2. (IF m \in settled THEN results[m] ELSE "Pending") \in Statuses \cup {"Pending"}
    BY <2>1
  <2> QED BY <2>2, RowType
<1>3. file' \in Reports
  BY <1>1, <1>2 DEF Reports, TypeOK
<1> QED BY <1>3 DEF Checkpoint, TypeOK, Stages, run_vars

\* So is the last report of a run.
LEMMA ReportTInv == ASSUME TInv, Report PROVE TInv'
<1> USE DEF TInv
<1>1. ASSUME NEW m \in scope PROVE Row(results[m], sandbox.project) \in Rows
  <2>1. results[m] \in Statuses
    BY DEF Report, TypeOK, Stages
  <2>2. sandbox.project \in Versions
    BY DEF TypeOK, Worlds
  <2> QED BY <2>1, <2>2, RowType
<1>2. file' \in Reports
  BY <1>1 DEF Report, Reports, TypeOK
<1> QED BY <1>2, EndRunTInv DEF Report

\* A run that is stopped holds nothing.
LEMMA StopTInv == ASSUME TInv, Stop PROVE TInv'
BY EndRunTInv DEF TInv, TypeOK, Stop

\* Every step keeps the types.
LEMMA NextTInv == TInv /\ [Next]_vars => TInv'
<1> SUFFICES ASSUME TInv, [Next]_vars PROVE TInv'
  OBVIOUS
<1>1. CASE UNCHANGED vars
  BY <1>1 DEF TInv, TypeOK, Stages, vars, run_vars
<1>2. CASE Next
  BY <1>2, EditTInv, CopyReportTInv, StartTInv, EnterTInv, SettleTInv, AcceptTInv, ChooseTInv,
     DryRunTInv, DryRunOnlyTInv, MutationTestTInv, CheckpointTInv, ReportTInv, StopTInv DEF Next
<1> QED BY <1>1, <1>2

\* Every variable stays in its type.
THEOREM TypeCorrect == Spec => []TypeOK
<1>1. TInv => TypeOK
  BY DEF TInv
<1> QED BY <1>1, InitTInv, NextTInv, PTL DEF Spec

-----------------------------------------------------------------------------
(* Coverage. *)

\* A sound coverage whose digest, run inputs and place are those of the project
\* was recorded on what the tests read now.
LEMMA MatchingCurrent ==
  ASSUME TypeOK, Snapshot, phase # "idle", NEW c \in Coverages, Sound(c),
         NEW extra \in BOOLEAN, c.digest = TestClosureDigest(disk, extra), c.digest # None,
         c.inputs = RunInputsDigest, c.root = sandbox.root
  PROVE  StillCurrent(c)
<1>1. disk = sandbox /\ sandbox \in Worlds
  BY DEF Snapshot, TypeOK
<1>2. c.digest = TestClosureDigest(c.basis, c.extra)
  BY DEF Sound
<1>3. /\ c.basis.project = sandbox.project
      /\ c.extra => c.basis.extra = sandbox.extra
  <2>1. c.basis.extra # None
    BY InitialTestRunAssumption DEF Coverages, Worlds
  <2> QED BY <1>1, <1>2, <2>1 DEF TestClosureDigest
<1>4. c.basis.inputs = sandbox.inputs
  BY <1>1 DEF Sound, RunInputsDigest
<1>5. c.basis.root = sandbox.root
  BY <1>1, InitialTestRunAssumption DEF Sound, Worlds
<1>6. sandbox.project \in UsesExtra => c.extra
  BY <1>3 DEF Sound
<1> QED BY <1>3, <1>4, <1>5, <1>6 DEF StillCurrent

\* The first state has no coverage.
LEMMA InitCInv == Init => CInv
BY DEF Init, NoReport, CInv, Known, Snapshot, CoverageCurrent

\* What is taken from a report is what is at hand.
LEMMA ChooseCInv == ASSUME TInv, CInv, Choose PROVE CInv'
<1> USE DEF TInv
<1>1. /\ UNCHANGED <<disk, file, source, sandbox>>
      /\ phase = "choosing" /\ phase' # "idle" /\ coverage = None
  BY DEF Choose, Stages
<1>2. Snapshot'
  BY <1>1 DEF Snapshot, CInv
<1>3. CASE Reusable(digest') # {}
  <2>1. PICK c : /\ c = First(Reusable(digest')) /\ c \in KeptCoverages
                  /\ c.digest = digest' /\ digest' # None /\ c.inputs = RunInputsDigest
    BY <1>3, ReusableKept
  <2>2. c \in Known /\ c.root = sandbox.root
    BY <2>1, KeptKnown DEF Known
  <2>3. c \in Coverages
    BY <2>1, KeptKnown DEF TypeOK, Reports
  <2>4. digest' = TestClosureDigest(disk, HeadNamesExtra)
    BY <2>1 DEF Choose
  <2>5. HeadNamesExtra \in BOOLEAN
    BY DEF HeadNamesExtra
  <2>6. StillCurrent(c)
    BY <1>1, <2>1, <2>2, <2>3, <2>4, <2>5, MatchingCurrent DEF CInv
  <2>7. coverage' = c
    BY <1>3, <2>1, <2>2, <2>3 DEF Choose, Coverages
  <2>8. StillCurrent(c)'
    BY <1>1, <2>6 DEF StillCurrent
  <2> QED BY <1>1, <1>2, <2>2, <2>7, <2>8 DEF CInv, Known, CoverageCurrent, Sound
<1>4. CASE Reusable(digest') = {}
  BY <1>1, <1>2, <1>4 DEF Choose, CInv, Known, CoverageCurrent, Sound
<1> QED BY <1>3, <1>4

\* Unless the closures become unreadable meanwhile, a fresh coverage has the
\* digest of what its tests read.
LEMMA DryRunCInv == ASSUME LateFailures = FALSE, TInv, CInv, DryRun PROVE CInv'
<1> USE DEF TInv
<1>1. PICK flaky \in FlakySets, after \in DigestAfter(sandbox.project \in UsesExtra) :
        coverage' = [digest |-> after, extra |-> sandbox.project \in UsesExtra,
                     inputs |-> RunInputsDigest, root |-> sandbox.root, flaky |-> flaky,
                     basis |-> sandbox]
  BY DEF DryRun
<1>2. UNCHANGED <<disk, file, source, sandbox>> /\ disk = sandbox /\ Snapshot'
  BY DEF DryRun, CInv, Snapshot
<1>3. after \in {TestClosureDigest(sandbox, sandbox.project \in UsesExtra), None}
  BY <1>2 DEF DigestAfter
<1>4. Sound(coverage')
  BY <1>1, <1>2, <1>3 DEF Sound, RunInputsDigest
<1>5. StillCurrent(coverage')
  BY <1>1 DEF StillCurrent
<1> QED BY <1>2, <1>4, <1>5 DEF CInv, Known, CoverageCurrent, Sound, StillCurrent

\* A run that ends, with a report of its coverage or without, adds none.
LEMMA EndRunCInv ==
  ASSUME CInv, EndRun, UNCHANGED <<disk, source, sandbox>>,
         file'.coverage \in {file.coverage, coverage}
  PROVE  CInv'
BY DEF EndRun, CInv, Known, Snapshot, CoverageCurrent, Sound

\* A copy without its place is as sound as the report.
LEMMA CopyReportCInv == ASSUME TInv, CInv, CopyReport PROVE CInv'
<1> USE DEF TInv
<1>1. UNCHANGED <<disk, file, sandbox, phase, coverage>> /\ coverage = None
  BY DEF CopyReport, run_vars, Stages
<1>2. CASE source' = file
  BY <1>1, <1>2 DEF CInv, Known, Snapshot, CoverageCurrent, Sound
<1>3. CASE file.coverage # None /\ source' = [file EXCEPT !.coverage.root = None]
  <2>1. file.coverage \in Coverages /\ Sound(file.coverage)
    BY <1>3 DEF TypeOK, Reports, CInv, Known
  <2>2. source'.coverage = [file.coverage EXCEPT !.root = None]
    BY <1>3 DEF TypeOK, Reports
  <2>3. Sound(source'.coverage)
    BY <2>1, <2>2 DEF Sound, Coverages
  <2> QED BY <1>1, <2>3 DEF CInv, Known, Snapshot, CoverageCurrent, Sound
<1> QED BY <1>2, <1>3 DEF CopyReport

\* Every step keeps coverages sound, and the one at hand current.
LEMMA NextCInv == ASSUME LateFailures = FALSE PROVE TInv /\ CInv /\ [Next]_vars => CInv'
<1> SUFFICES ASSUME TInv, CInv, [Next]_vars PROVE CInv'
  OBVIOUS
<1> USE DEF TInv
<1>1. CASE UNCHANGED <<file, source, sandbox, coverage>> /\ (phase' # "idle" => disk' = sandbox')
  BY <1>1 DEF CInv, Known, Snapshot, CoverageCurrent, Sound, StillCurrent
<1>2. CASE UNCHANGED vars
  BY <1>1, <1>2 DEF vars, run_vars, CInv, Snapshot
<1>3. CASE Edit
  BY <1>1, <1>3 DEF Edit, run_vars
<1>4. CASE Start
  BY <1>4 DEF Start, Stages, CInv, Known, Snapshot, CoverageCurrent, Sound
<1>5. CASE EnterDryRun \/ SettleByChecker \/ CheckerAccepts \/ MutationTest
  BY <1>1, <1>5 DEF EnterDryRun, SettleByChecker, CheckerAccepts, MutationTest, CInv, Snapshot
<1>6. CASE Checkpoint
  <2>1. file'.coverage = coverage /\ UNCHANGED <<disk, source, sandbox, coverage, phase>>
    BY <1>6 DEF Checkpoint, run_vars
  <2> QED BY <2>1 DEF CInv, Known, Snapshot, CoverageCurrent, Sound, StillCurrent
<1>7. CASE DryRunOnly \/ Report \/ Stop
  <2>1. file'.coverage \in {file.coverage, coverage}
    BY <1>7 DEF DryRunOnly, Report, Stop, TypeOK, Reports
  <2> QED BY <1>7, <2>1, EndRunCInv DEF DryRunOnly, Report, Stop
<1> QED BY <1>2, <1>3, <1>4, <1>5, <1>6, <1>7, CopyReportCInv, ChooseCInv, DryRunCInv DEF Next

\* When the closures that could be read before the tests can be read after them,
\* a run plans only with coverage of what it works on (matchesPrior,
\* keptCoveragesOf, runFreshDryRun).
THEOREM CoverageIsCurrent == ASSUME LateFailures = FALSE PROVE Spec => []CoverageCurrent
<1>1. CInv => CoverageCurrent
  BY DEF CInv
<1> QED BY <1>1, InitTInv, NextTInv, InitCInv, NextCInv, PTL DEF Spec

\* Coverage that is still current passes the match, whatever earlier runs knew
\* of files outside the project.
LEMMA ChooseReuses ==
  ASSUME TInv, CInv, Choose, file.coverage # None, StillCurrent(file.coverage),
         file.coverage.digest # None, file.coverage.inputs = RunInputsDigest,
         file.coverage.root = sandbox.root, ~options.force, digest' # None
  PROVE  phase' = "planning"
<1> USE DEF TInv
<1>1. disk = sandbox /\ Sound(file.coverage)
  BY DEF Choose, CInv, Snapshot, Known
<1>2. file.coverage \in KeptCoverages
  BY DEF KeptCoverages, Candidates
<1>3. HeadNamesExtra = file.coverage.extra
  <2>1. First(KeptCoverages) = file.coverage
    BY <1>2 DEF First
  <2>2. file.coverage.extra \in BOOLEAN
    BY <1>1 DEF Sound
  <2>3. HeadNamesExtra \in BOOLEAN /\ (HeadNamesExtra <=> file.coverage.extra)
    BY <1>2, <2>1, Zenon DEF HeadNamesExtra
  <2> QED BY <2>2, <2>3
<1>4. digest' = TestClosureDigest(disk, file.coverage.extra)
  BY <1>3 DEF Choose
<1>5. file.coverage.digest = TestClosureDigest(disk, file.coverage.extra)
  BY <1>1 DEF Sound, StillCurrent, TestClosureDigest
<1>6. file.coverage \in Reusable(digest')
  BY <1>2, <1>4, <1>5 DEF Reusable
<1> QED BY <1>6 DEF Choose

\* When nothing that feeds the initial test run has changed since the report
\* was written, it is not made again (dryRunChoiceOf, freshCoverageOf).
THEOREM CurrentIsReused == ASSUME LateFailures = FALSE PROVE Spec => CoverageReused
<1>1. TInv /\ CInv /\ [Next]_vars =>
        [Choose /\ file.coverage # None /\ StillCurrent(file.coverage)
           /\ file.coverage.digest # None /\ file.coverage.inputs = RunInputsDigest
           /\ file.coverage.root = sandbox.root /\ ~options.force /\ digest' # None
         => phase' = "planning"]_vars
  BY ChooseReuses
<1> QED BY <1>1, InitTInv, NextTInv, InitCInv, NextCInv, PTL DEF Spec, CoverageReused

-----------------------------------------------------------------------------
(* Verdicts without an initial test run, and flaky tests. *)

\* The first state has no rows and no results.
LEMMA InitRInv == Init => RInv
<1> SUFFICES ASSUME Init PROVE RInv
  OBVIOUS
<1> USE DEF Init, NoReport, NoRows
<1>1. RowsRefused
  BY DEF RowsRefused
<1> QED BY <1>1 DEF RInv, Deferred, ResultsRefused, TestFreeRefused, FlakyRetested

\* A kept compile error is one the checkers still make.
LEMMA KeptRefused ==
  ASSUME TInv, RowsRefused, NEW flaky, NEW m \in Remembered(flaky),
         (CHOOSE row \in Current(m) : TRUE).status = "CompileError"
  PROVE  m \in Refused[sandbox.project]
<1> DEFINE row == CHOOSE r \in Current(m) : TRUE
<1>1. row \in Current(m) /\ m \in Mutants
  BY DEF Remembered, TInv, TypeOK
<1>2. row \in {file.rows[m], source.rows[m]} \ {None} /\ row.project = sandbox.project
  BY <1>1 DEF Current
<1>3. row.project # None
  BY <1>2, InitialTestRunAssumption DEF TInv, TypeOK, Worlds
<1> QED BY <1>1, <1>2, <1>3 DEF RowsRefused, RowRefused

\* So is one that is reached.
LEMMA ResultsAreRefused ==
  ASSUME TInv, RowsRefused, NEW flaky, NEW m \in scope,
         ResultsOf(Remembered(flaky))[m] = "CompileError"
  PROVE  m \in Refused[sandbox.project]
<1>1. m \in Mutants
  BY DEF TInv, TypeOK
<1>2. CASE m \in Remembered(flaky)
  BY <1>1, <1>2, KeptRefused DEF ResultsOf
<1>3. CASE m \notin Remembered(flaky)
  BY <1>1, <1>3 DEF ResultsOf, StatusOf
<1> QED BY <1>2, <1>3

\* The run goes to the checkers first only when no mutant needs the tests.
LEMMA EnterDeferred == ASSUME EnterDryRun PROVE Deferred'
<1> SUFFICES ASSUME phase' = "checking" PROVE Deferred'
  BY DEF Deferred
<1>1. ~DryRunNeeded /\ kept' = PriorFlaky /\ UNCHANGED <<file, source, scope, options>>
  BY DEF EnterDryRun
<1>2. scope # {} => options.checkers
  BY <1>1 DEF DryRunNeeded, CoverageFreeVerdictsPossible
<1>3. \A m \in scope : SettledByTheChecker(m) /\ ~FlakyDependent(m, PriorFlaky)
  BY <1>1 DEF DryRunNeeded, DependsOnTheDryRun
<1> QED BY <1>1, <1>2, <1>3 DEF Deferred, SettledByTheChecker, PriorStatuses, FlakyDependent

\* Settled by the checkers, every mutant is refused and none depends on a
\* flaky test.
LEMMA SettleRInv == ASSUME TInv, RInv, SettleByChecker PROVE RInv'
<1> USE DEF RInv
<1>1. /\ phase = "checking" /\ phase' = "settled" /\ AllRefused(Remembered({}))
      /\ remembered' = Remembered({}) /\ results' = ResultsOf(Remembered({}))
      /\ UNCHANGED <<file, source, sandbox, scope, options, coverage, kept>>
  BY DEF SettleByChecker
<1>2. ASSUME NEW m \in scope PROVE results'[m] = "CompileError"
  <2>1. m \in Mutants
    BY DEF TInv, TypeOK
  <2>2. CASE m \in Remembered({})
    <3>1. PICK row \in Current(m) : row = CHOOSE r \in Current(m) : TRUE
      BY <2>2 DEF Remembered
    <3>2. row.status \in PriorStatuses(m)
      BY <3>1 DEF Current, PriorStatuses
    <3>3. SettledByTheChecker(m)
      BY <1>1 DEF Deferred
    <3> QED BY <1>1, <2>1, <2>2, <3>1, <3>2, <3>3 DEF ResultsOf, SettledByTheChecker
  <2>3. CASE m \notin Remembered({})
    <3>1. m \notin Early[sandbox.project] /\ m \in Refused[sandbox.project] /\ options.checkers
      BY <1>1, <2>3 DEF AllRefused, Planned, Deferred
    <3> QED BY <1>1, <2>1, <2>3, <3>1 DEF ResultsOf, StatusOf
  <2> QED BY <2>2, <2>3
<1>3. \A m \in scope : m \in Refused[sandbox.project]
  BY <1>1, <1>2, ResultsAreRefused
<1>4. \A m \in remembered' : ~FlakyDependent(m, kept)
  BY <1>1 DEF Remembered, Deferred
<1>5. coverage = None
  BY <1>1 DEF TInv, Stages
<1> QED BY <1>1, <1>2, <1>3, <1>4, <1>5 DEF RowsRefused, Deferred, ResultsRefused,
           TestFreeRefused, FlakyRetested, FlakyDependent

\* With an initial test run its flaky mutants count.
LEMMA MutationTestRInv == ASSUME TInv, RInv, MutationTest PROVE RInv'
<1> USE DEF RInv
<1>1. /\ phase = "planning" /\ phase' = "settled"
      /\ remembered' = Remembered(coverage.flaky)
      /\ results' = ResultsOf(Remembered(coverage.flaky))
      /\ UNCHANGED <<file, source, sandbox, scope, coverage, kept>>
  BY DEF MutationTest
<1>2. coverage # None
  BY <1>1 DEF TInv, Stages
<1>3. ResultsRefused'
  BY <1>1, ResultsAreRefused DEF ResultsRefused
<1>4. \A m \in remembered' : ~FlakyDependent(m, coverage.flaky)
  BY <1>1 DEF Remembered
<1> QED BY <1>1, <1>2, <1>3, <1>4 DEF RowsRefused, Deferred, TestFreeRefused, FlakyRetested,
           FlakyDependent

\* The rows of a checkpoint claim nothing, those of a report what was reached.
LEMMA WrittenRefused ==
  ASSUME TInv, RInv, Checkpoint \/ Report PROVE RowsRefused'
<1> USE DEF RInv
<1> SUFFICES ASSUME NEW m \in Mutants, NEW row \in {file'.rows[m], source'.rows[m]} \ {None}
             PROVE  RowRefused(m, row)
  BY DEF RowsRefused, RowRefused
<1>1. CASE row = source'.rows[m]
  BY <1>1 DEF Checkpoint, Report, RowsRefused
<1>2. CASE row = file'.rows[m] /\ Checkpoint
  <2>1. row.project = None
    BY <1>2 DEF Checkpoint, Row
  <2> QED BY <2>1 DEF RowRefused
<1>3. CASE row = file'.rows[m] /\ Report
  <2>1. m \in scope /\ row = Row(results[m], sandbox.project) /\ phase = "settled"
    BY <1>3 DEF Report
  <2> QED BY <2>1 DEF RowRefused, Row, ResultsRefused
<1> QED BY <1>1, <1>2, <1>3

\* Every step keeps what rows, results and a deferred run claim.
LEMMA NextRInv == TInv /\ RInv /\ [Next]_vars => RInv'
<1> SUFFICES ASSUME TInv, RInv, [Next]_vars PROVE RInv'
  OBVIOUS
<1> USE DEF RInv
<1>1. CASE UNCHANGED vars
  BY <1>1 DEF vars, run_vars, RowsRefused, Deferred, ResultsRefused, TestFreeRefused, FlakyRetested,
             SettledByTheChecker, PriorStatuses, FlakyDependent
<1>2. CASE phase' \notin {"checking", "settled"} /\ RowsRefused'
  BY <1>2 DEF Deferred, ResultsRefused, TestFreeRefused, FlakyRetested
<1>3. CASE Edit \/ CopyReport
  <2>1. phase' = "idle"
    BY <1>3 DEF Edit, CopyReport, run_vars
  <2>2. source'.rows \in {file.rows, source.rows} /\ UNCHANGED file
    BY <1>3 DEF Edit, CopyReport, TInv, TypeOK, Reports
  <2>3. RowsRefused'
    BY <2>2 DEF RowsRefused
  <2> QED BY <1>2, <2>1, <2>3
<1>4. CASE Start \/ CheckerAccepts \/ Choose \/ DryRun \/ Stop
  <2>1. UNCHANGED <<file, source>> /\ phase' \notin {"checking", "settled"}
    BY <1>4 DEF Start, CheckerAccepts, Choose, DryRun, Stop, EndRun
  <2> QED BY <1>2, <2>1 DEF RowsRefused
<1>5. CASE EnterDryRun
  <2>1. UNCHANGED <<file, source>> /\ phase' # "settled"
    BY <1>5 DEF EnterDryRun
  <2> QED BY <1>5, <2>1, EnterDeferred DEF RowsRefused, ResultsRefused, TestFreeRefused, FlakyRetested
<1>6. CASE DryRunOnly
  <2>1. file'.rows = file.rows /\ UNCHANGED source /\ phase' = "idle"
    BY <1>6 DEF DryRunOnly, EndRun, TInv, TypeOK, Reports
  <2> QED BY <1>2, <2>1 DEF RowsRefused
<1>7. CASE Checkpoint
  BY <1>7, WrittenRefused DEF Checkpoint, run_vars, Deferred, ResultsRefused, TestFreeRefused,
     FlakyRetested, FlakyDependent
<1>8. CASE Report
  <2>1. phase' = "idle"
    BY <1>8 DEF Report, EndRun
  <2> QED BY <1>2, <1>8, <2>1, WrittenRefused
<1> QED BY <1>1, <1>3, <1>4, <1>5, <1>6, <1>7, <1>8, SettleRInv, MutationTestRInv DEF Next

\* A run settles without tests only when the checkers refuse each of its mutants
\* on the content at hand (settledWithoutTests, requireDryRun).
THEOREM TestFreeIsRefused == Spec => []TestFreeRefused
<1>1. RInv => TestFreeRefused
  BY DEF RInv
<1> QED BY <1>1, InitTInv, NextTInv, InitRInv, NextRInv, PTL DEF Spec

\* A verdict that depends on a flaky test is not kept, with or without an
\* initial test run (refusedForPriorFlakes, flakyDependent).
THEOREM FlakyIsRetested == Spec => []FlakyRetested
<1>1. RInv => FlakyRetested
  BY DEF RInv
<1> QED BY <1>1, InitTInv, NextTInv, InitRInv, NextRInv, PTL DEF Spec
=============================================================================
