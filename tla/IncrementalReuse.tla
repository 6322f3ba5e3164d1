-------------------------- MODULE IncrementalReuse --------------------------
(***************************************************************************)
(* The verdicts one run leaves for the next: the incremental report that    *)
(* mutation-reporting.service.ts writes during and after a run, and the     *)
(* decision of incremental-diff.workflow.ts which of its verdicts the next  *)
(* run may keep.                                                           *)
(*                                                                         *)
(* The project on disk is edited between runs, and during a run when        *)
(* EditsMidRun holds.  A run copies it into a sandbox, reads the reports,    *)
(* keeps the verdicts whose key matches, tests the other mutants, rewrites  *)
(* the report as verdicts come in, and replaces it by the complete report   *)
(* at the end - or stops anywhere in between.  Mutants that carry a         *)
(* subsumption reference are left out: they are decided anew in every run.   *)
(***************************************************************************)
EXTENDS Naturals, FiniteSets

CONSTANTS Mutants,     \* the mutants of the project, by content id
          Static,      \* those with static: true
          Versions,    \* the contents an input may have
          Scopes,      \* the sets of mutants a run may be restricted to
          Outcomes,    \* the statuses a mutant that runs may settle with
          MaxRuns,     \* bound: runs started
          MaxEdits,    \* bound: edits of the project
          MaxCopies,   \* bound: reports copied to an incrementalSources file
          EditsMidRun, \* whether the project may be edited during a run
          None

\* "tested" stands for Killed, Survived, NoCoverage and Ignored; a Timeout is
\* one of hitLimit and wallClock.
SettledStatuses == {"tested", "CompileError", "RuntimeError", "hitLimit", "wallClock"}

\* isReusableStatus, the wall-clock timeout aside.
RememberedStatuses == {"tested", "CompileError", "hitLimit", "wallClock"}

ASSUME ReuseAssumption ==
  /\ Static \subseteq Mutants
  /\ Scopes \subseteq SUBSET Mutants
  /\ Outcomes \subseteq SettledStatuses
  /\ Versions # {} /\ None \notin Versions
  /\ MaxRuns \in Nat /\ MaxEdits \in Nat /\ MaxCopies \in Nat
  /\ EditsMidRun \in BOOLEAN

VARIABLES
  disk,        \* the project: what each mutant's covering tests import, the
               \* program the checker compiles, the engine and run inputs
  file,        \* the rows of options.incrementalFile
  source,      \* the rows of a file matched by options.incrementalSources
  phase,       \* idle, started or running
  sandbox,     \* the content the run tests
  scope,       \* the mutants the run is about
  forced,      \* options.force, set by --full
  flaky,       \* the flakyMutantIds of the initial test run
  digests,     \* what was read at the decision: closure digests, program digest
  remembered,  \* the mutants whose earlier verdict is kept
  evidence,    \* the mutants with an earlier wall-clock timeout to go by
  results,     \* the settled mutants of the run
  verdicts,    \* history: the last verdict of each mutant
  timeouts,    \* history: the wall-clock timeouts of each mutant
  runs, edits, copies

run_vars     == <<phase, sandbox, scope, forced, flaky, digests, remembered, evidence, results>>
history_vars == <<verdicts, timeouts>>
vars == <<disk, file, source, run_vars, history_vars, runs, edits, copies>>

Worlds  == [closure : [Mutants -> Versions], program : Versions, inputs : Versions]
Bases   == [closure : Versions, program : Versions, inputs : Versions]
Results == [status : SettledStatuses, basis : Bases]

\* basis, not in the report: the content the verdict was reached on.
Rows ==
  [status : SettledStatuses \cup {"Pending"}, closure : Versions \cup {None},
   program : Versions \cup {None}, inputs : Versions, forced : BOOLEAN,
   reproductions : 0..1, basis : Bases \cup {None}]

\* History: where the verdict is saved; keyed says that its row will be one a run
\* without options.force may match; again says that it is the second wall-clock
\* timeout in a row, in a run that could use the first.
Verdicts ==
  [status : SettledStatuses, basis : Bases, saved : {"no", "checkpoint", "report"},
   keyed : BOOLEAN, again : BOOLEAN]

ASSUME NoneAssumption == None \notin Results \cup Rows \cup Verdicts

BasisOf(world, m) ==
  [closure |-> world.closure[m], program |-> world.program, inputs |-> world.inputs]

NoDigests == [closure |-> [m \in Mutants |-> None], program |-> None]
NoResults == [m \in Mutants |-> None]

-----------------------------------------------------------------------------
(* The decision. *)

Unreproduced(row) == row.status = "wallClock" /\ row.reproductions = 0

ReusableRow(row) == row.status \in RememberedStatuses /\ ~Unreproduced(row)

\* Faulty: any program digest will do for a compile error.
KeyMatchesAnyProgram(row, m, now) ==
  /\ now.closure[m] # None
  /\ row.inputs = disk.inputs /\ ~row.forced
  /\ row.status = "CompileError" \/ row.closure = now.closure[m]

\* The key of the row agrees with what a run without options.force, which is
\* itself one of the run inputs (optionsFingerprintOf), reads now.  A row without a
\* closure digest matches only a mutant without one, and those are refused.
KeyMatches(row, m, now) ==
  /\ now.closure[m] # None
  /\ row.inputs = disk.inputs /\ ~row.forced
  /\ IF row.status = "CompileError"
     THEN row.program # None /\ row.program = now.program
     ELSE row.closure = now.closure[m]

\* The primary file is read first and the last matching record wins.
MatchingRows(m, now) ==
  {row \in {file[m], source[m]} \ {None} : ReusableRow(row) /\ KeyMatches(row, m, now)}

NewestMatching(m, now) ==
  IF source[m] \in MatchingRows(m, now) THEN source[m] ELSE file[m]

Newest(m) == IF source[m] # None THEN source[m] ELSE file[m]

FlakyDependent(m, flakyIds) == m \in flakyIds \/ (m \in Static /\ flakyIds # {})

Kept(now, flakyIds, force) ==
  {m \in scope : /\ ~force
                 /\ ~FlakyDependent(m, flakyIds)
                 /\ MatchingRows(m, now) # {}}

\* priorTimeout of a refused mutant: only the last record counts.
PriorTimeout(m, now) ==
  /\ Newest(m) # None
  /\ Unreproduced(Newest(m))
  /\ KeyMatches(Newest(m), m, now)

TimeoutEvidence(now, flakyIds, force) ==
  {m \in scope :
     /\ ~force
     /\ ~FlakyDependent(m, flakyIds)
     /\ IF MatchingRows(m, now) # {}
        THEN NewestMatching(m, now).status = "wallClock"
        ELSE PriorTimeout(m, now)}

-----------------------------------------------------------------------------
(* The reports. *)

Row(m, status, closure, program, reproductions) ==
  [status |-> status, closure |-> closure, program |-> program, inputs |-> disk.inputs,
   forced |-> forced, reproductions |-> reproductions,
   basis |-> IF results[m] = None THEN None ELSE results[m].basis]

\* Faulty: the first wall-clock timeout counts as its own reproduction.
ReproductionsOfFirst(m, status) == IF status = "wallClock" THEN 1 ELSE 0

\* timeoutFieldsOf: a second wall-clock timeout counts as a reproduction.
Reproductions(m, status) == IF status = "wallClock" /\ m \in evidence THEN 1 ELSE 0

\* Faulty: only the mutants that ran get their digests.
ReportRowOfRun(m) ==
  LET status == results[m].status
      ran == m \notin remembered
  IN  Row(m, status, IF ran THEN digests.closure[m] ELSE None,
          IF ran /\ status = "CompileError" THEN digests.program ELSE None,
          Reproductions(m, status))

\* A row of the complete report carries the digests read at the decision, the
\* program digest only when it is a compile error.
ReportRow(m) ==
  LET status == results[m].status
  IN  Row(m, status, digests.closure[m],
          IF status = "CompileError" THEN digests.program ELSE None,
          Reproductions(m, status))

\* writeCheckpoint passes no digests and no evidence of timeouts.
CheckpointRow(m) ==
  Row(m, IF results[m] = None THEN "Pending" ELSE results[m].status, None, None, 0)

-----------------------------------------------------------------------------
Init ==
  /\ disk \in Worlds
  /\ file = NoResults
  /\ source = NoResults
  /\ phase = "idle"
  /\ sandbox = disk
  /\ scope = {}
  /\ forced = FALSE
  /\ flaky = {}
  /\ digests = NoDigests
  /\ remembered = {}
  /\ evidence = {}
  /\ results = NoResults
  /\ verdicts = NoResults
  /\ timeouts = [m \in Mutants |-> {}]
  /\ runs = 0 /\ edits = 0 /\ copies = 0

\* Somebody changes a file the tests of m import, the program or the inputs.
Edit ==
  /\ edits < MaxEdits
  /\ phase # "idle" => EditsMidRun
  /\ edits' = edits + 1
  /\ \E v \in Versions :
       \/ \E m \in Mutants : disk' = [disk EXCEPT !.closure[m] = v]
       \/ disk' = [disk EXCEPT !.program = v]
       \/ disk' = [disk EXCEPT !.inputs = v]
  /\ disk' # disk
  /\ UNCHANGED <<file, source, run_vars, history_vars, runs, copies>>

\* The report is copied to where incrementalSources finds it.
CopyReport ==
  /\ copies < MaxCopies
  /\ phase = "idle"
  /\ source' = file
  /\ copies' = copies + 1
  /\ UNCHANGED <<disk, file, run_vars, history_vars, runs, edits>>

\* The project is copied to the sandbox; the run may be restricted to a scope.
Start ==
  /\ phase = "idle"
  /\ runs < MaxRuns
  /\ runs' = runs + 1
  /\ phase' = "started"
  /\ sandbox' = disk
  /\ scope' \in Scopes
  /\ UNCHANGED <<disk, file, source, forced, flaky, digests, remembered, evidence,
                 results, history_vars, edits, copies>>

\* reuseAndPlan: the closures are read from the project, the program digest
\* from the checkers, which have loaded the sandbox.
Decide ==
  /\ phase = "started"
  /\ phase' = "running"
  /\ forced' \in BOOLEAN
  /\ flaky' \in SUBSET Mutants
  /\ digests' \in {[closure |-> c, program |-> p] :
                     c \in {disk.closure, NoDigests.closure}, p \in {sandbox.program, None}}
  /\ remembered' = Kept(digests', flaky', forced')
  /\ evidence' = TimeoutEvidence(digests', flaky', forced')
  /\ results' = [m \in Mutants |->
                   IF m \in remembered'
                   THEN [status |-> NewestMatching(m, digests').status,
                         basis |-> NewestMatching(m, digests').basis]
                   ELSE None]
  /\ UNCHANGED <<disk, file, source, sandbox, scope, history_vars, runs, edits, copies>>

\* The digests that a later run compares the verdict by were read.
Keyed(m, status, now) ==
  /\ now.closure[m] # None
  /\ status = "CompileError" => now.program # None

\* What the verdict of m depends on is as it was when it was reached.
Unchanged(m, status, basis) ==
  /\ basis.inputs = sandbox.inputs
  /\ IF status = "CompileError" THEN basis.program = sandbox.program
                                ELSE basis.closure = sandbox.closure[m]

\* History: the verdict is not written yet.
NewVerdict(m, status) ==
  [status |-> status, basis |-> BasisOf(sandbox, m), saved |-> "no",
   keyed |-> Keyed(m, status, digests) /\ ~forced,
   again |-> /\ status = "wallClock" /\ Keyed(m, status, digests)
             /\ ~forced /\ ~FlakyDependent(m, flaky)
             /\ verdicts[m] # None
             /\ verdicts[m].status = "wallClock"
             /\ verdicts[m].saved = "report"
             /\ verdicts[m].keyed
             /\ Unchanged(m, status, verdicts[m].basis)]

Settle(m) ==
  /\ phase = "running"
  /\ m \in scope
  /\ results[m] = None
  /\ \E status \in Outcomes :
       /\ results' = [results EXCEPT ![m] =
            [status |-> status, basis |-> BasisOf(sandbox, m)]]
       /\ verdicts' = [verdicts EXCEPT ![m] = NewVerdict(m, status)]
       /\ timeouts' = [timeouts EXCEPT ![m] =
            IF status = "wallClock" THEN @ \cup {[run |-> runs, basis |-> BasisOf(sandbox, m)]}
                                   ELSE @]
  /\ UNCHANGED <<disk, file, source, phase, sandbox, scope, forced, flaky, digests,
                 remembered, evidence, runs, edits, copies>>

\* The report is replaced by a checkpoint: at once when the runs begin, and
\* again as they settle.
Checkpoint ==
  /\ phase = "running"
  /\ file' = [m \in Mutants |-> IF m \in scope THEN CheckpointRow(m) ELSE None]
  /\ verdicts' = [m \in Mutants |->
       IF verdicts[m] = None THEN None
       ELSE [verdicts[m] EXCEPT !.saved = IF results[m] = None THEN "no" ELSE "checkpoint"]]
  /\ UNCHANGED <<disk, source, run_vars, timeouts, runs, edits, copies>>

EndRun ==
  /\ phase' = "idle"
  /\ scope' = {}
  /\ forced' = FALSE
  /\ flaky' = {}
  /\ digests' = NoDigests
  /\ remembered' = {}
  /\ evidence' = {}
  /\ results' = NoResults

\* History: the report no longer holds the verdict.
Unsaved(m) ==
  IF verdicts[m] = None THEN None ELSE [verdicts[m] EXCEPT !.saved = "no"]

\* reportAll, its last write.
Report ==
  /\ phase = "running"
  /\ \A m \in scope : results[m] # None
  /\ file' = [m \in Mutants |-> IF m \in scope THEN ReportRow(m) ELSE None]
  /\ verdicts' = [m \in Mutants |->
       IF m \notin scope
       THEN Unsaved(m)
       ELSE [status |-> results[m].status, basis |-> results[m].basis, saved |-> "report",
             keyed |-> Keyed(m, results[m].status, digests) /\ ~forced,
             again |-> IF m \in remembered THEN results[m].status = "wallClock"
                                           ELSE verdicts[m].again]]
  /\ EndRun
  /\ UNCHANGED <<disk, source, sandbox, timeouts, runs, edits, copies>>

\* The run fails, is interrupted or is killed.
Stop ==
  /\ phase # "idle"
  /\ EndRun
  /\ UNCHANGED <<disk, file, source, sandbox, history_vars, runs, edits, copies>>

Next ==
  \/ Edit \/ CopyReport \/ Start \/ Decide
  \/ \E m \in Mutants : Settle(m)
  \/ Checkpoint \/ Report \/ Stop

Spec == Init /\ [][Next]_vars

-----------------------------------------------------------------------------
(* The properties. *)

\* Every variable stays in its type; an idle run leaves nothing behind.
TypeOK ==
  /\ disk \in Worlds
  /\ sandbox \in Worlds
  /\ file \in [Mutants -> Rows \cup {None}]
  /\ source \in [Mutants -> Rows \cup {None}]
  /\ phase \in {"idle", "started", "running"}
  /\ scope \subseteq Mutants
  /\ forced \in BOOLEAN
  /\ flaky \subseteq Mutants
  /\ digests \in [closure : [Mutants -> Versions \cup {None}], program : Versions \cup {None}]
  /\ remembered \subseteq scope
  /\ evidence \subseteq scope
  /\ results \in [Mutants -> Results \cup {None}]
  /\ verdicts \in [Mutants -> Verdicts \cup {None}]
  /\ timeouts \in [Mutants -> SUBSET [run : 1..MaxRuns, basis : Bases]]
  /\ runs \in 0..MaxRuns /\ edits \in 0..MaxEdits /\ copies \in 0..MaxCopies

\* A verdict is kept only when nothing it rests on has changed since the run
\* that tested the mutant, however many runs and reports lie in between: the
\* program for a compile error, the covering tests' imports for the others,
\* and the run inputs for both (matchingKey, stampClosureDigests).
ReuseSound ==
  \A m \in remembered : Unchanged(m, results[m].status, results[m].basis)

\* A wall-clock timeout is kept only when two runs on the same content have
\* seen it (isUnreproducedWallClockTimeout, reproducedCountOf).
TimeoutReproduced ==
  \A m \in remembered :
    results[m].status = "wallClock" =>
      Cardinality({t \in timeouts[m] : Unchanged(m, "wallClock", t.basis)}) >= 2

\* What a run that neither ignores the cache nor has lost its digests must
\* keep: a reusable verdict on unchanged content that a run has written.
Due(m, saved) ==
  LET v == verdicts[m]
  IN  /\ v # None
      /\ v.saved \in saved
      /\ v.keyed
      /\ v.status \in RememberedStatuses
      /\ v.status = "wallClock" => v.again
      /\ Unchanged(m, v.status, v.basis)

KeepsDue(saved) ==
  \A m \in scope :
    Due(m, saved) /\ Keyed(m, verdicts[m].status, digests')
      /\ ~forced' /\ ~FlakyDependent(m, flaky')
    => m \in remembered'

\* As long as no other report is read, a run keeps every reusable verdict on
\* unchanged content that the last report, a complete one, holds: it carries
\* all that the next decision asks for, for verdicts its run reached and for
\* those it kept itself.
ReportedReused == [][Decide /\ copies = 0 => KeepsDue({"report"})]_vars

\* The same for a verdict that an interrupted run had reached and written to
\* its checkpoint (CHANGELOG.md:203 and :741).
FinishedReused == [][Decide => KeepsDue({"report", "checkpoint"})]_vars
=============================================================================
