----------------------- MODULE IncrementalReuseProofs -----------------------
(***************************************************************************)
(* Reuse of verdicts is sound, for every set of mutants, contents, scopes    *)
(* and bounds, as long as the project is not edited while a run is going on: *)
(* what is kept rests on unchanged content, a timeout was seen in two runs,   *)
(* and what the last report holds and can be kept, is kept.                  *)
(*                                                                         *)
(* The second part is about the writer that puts those reports in their file *)
(* (CheckpointWriter): the report only grows, and is complete when the       *)
(* writer is closed.                                                        *)
(***************************************************************************)
EXTENDS IncrementalReuse, CheckpointWriter, FiniteSetTheorems, TLAPS

\* What a run has not decided yet is empty, and an idle run has decided nothing.
Quiet ==
  /\ phase # "idle" => runs >= 1
  /\ phase # "running" =>
       remembered = {} /\ evidence = {} /\ digests = NoDigests /\ results = NoResults

\* A kept verdict is a result; any other result is in the history.
Settled ==
  \A m \in Mutants :
    /\ m \in remembered => results[m] \in Results
    /\ results[m] # None /\ m \notin remembered => verdicts[m] \in Verdicts

\* A row that is not pending has the verdict's basis.
RowsBased ==
  \A m \in Mutants : \A row \in {file[m], source[m]} \ {None} :
    row.status # "Pending" => row.basis \in Bases

TInv == TypeOK /\ Quiet /\ Settled /\ RowsBased

\* The digests of a row agree with the content its verdict was reached on.
Honest(row) ==
  row.status # "Pending" =>
    /\ row.basis.inputs = row.inputs
    /\ row.status = "CompileError" /\ row.program # None
         => row.basis.program = row.program
    /\ row.status # "CompileError" /\ row.closure # None
         => row.basis.closure = row.closure

RowsHonest == \A m \in Mutants : \A row \in {file[m], source[m]} \ {None} : Honest(row)

\* The project is what the sandbox was copied from.
Snapshot == phase # "idle" => disk = sandbox

DigestsHonest ==
  /\ \A m \in Mutants : digests.closure[m] \in {None, sandbox.closure[m]}
  /\ digests.program \in {None, sandbox.program}

ResultsHonest ==
  \A m \in Mutants :
    m \in remembered \/ results[m] # None
      => Unchanged(m, results[m].status, results[m].basis)

HInv == RowsHonest /\ Snapshot /\ DigestsHonest /\ ResultsHonest

-----------------------------------------------------------------------------
(* What the operators return. *)

\* A row written to a report is a row, whatever digests it is given.
LEMMA RowType ==
  ASSUME TypeOK, NEW m \in Mutants, NEW status \in SettledStatuses \cup {"Pending"},
         NEW closure \in Versions \cup {None}, NEW program \in Versions \cup {None},
         NEW reproductions \in 0..1
  PROVE  Row(m, status, closure, program, reproductions) \in Rows
<1>1. disk.inputs \in Versions
  BY DEF TypeOK, Worlds
<1>2. (IF results[m] = None THEN None ELSE results[m].basis) \in Bases \cup {None}
  BY DEF TypeOK, Results
<1>3. forced \in BOOLEAN
  BY DEF TypeOK
<1> QED BY <1>1, <1>2, <1>3, Zenon DEF Row, Rows

\* The row of a kept mutant is in a report, reusable, and matches its key.
LEMMA KeptMatches ==
  ASSUME NEW now, NEW flakyIds, NEW force, NEW m \in Kept(now, flakyIds, force)
  PROVE  /\ NewestMatching(m, now) \in {file[m], source[m]} \ {None}
         /\ ReusableRow(NewestMatching(m, now))
         /\ KeyMatches(NewestMatching(m, now), m, now)
<1>1. NewestMatching(m, now) \in MatchingRows(m, now)
  BY DEF Kept, NewestMatching, MatchingRows
<1> QED BY <1>1 DEF MatchingRows

\* The content a mutant is tested on is a basis.
LEMMA BasisType ==
  ASSUME NEW w \in Worlds, NEW m \in Mutants
  PROVE  BasisOf(w, m) \in Bases
BY DEF Worlds, Bases, BasisOf

-----------------------------------------------------------------------------
(* Types, and what an undecided run holds. *)

\* The first state has no report and no run.
LEMMA InitTInv == Init => TInv
<1> SUFFICES ASSUME Init PROVE TInv
  OBVIOUS
<1> USE DEF Init, NoResults, NoDigests
<1>1. TypeOK
  <2>1. disk \in Worlds /\ sandbox \in Worlds
    OBVIOUS
  <2>2. digests \in [closure : [Mutants -> Versions \cup {None}], program : Versions \cup {None}]
    OBVIOUS
  <2>3. runs \in 0..MaxRuns /\ edits \in 0..MaxEdits /\ copies \in 0..MaxCopies
    BY ReuseAssumption
  <2> QED BY <2>1, <2>2, <2>3 DEF TypeOK
<1>2. Quiet /\ Settled /\ RowsBased
  BY DEF Quiet, Settled, RowsBased
<1> QED BY <1>1, <1>2 DEF TInv

\* An edit changes the project alone.
LEMMA EditTInv == ASSUME TInv, Edit PROVE TInv'
<1> USE DEF TInv
<1>1. disk' \in Worlds
  BY DEF Edit, TypeOK, Worlds
<1>2. TypeOK'
  BY <1>1, ReuseAssumption DEF Edit, TypeOK, run_vars, history_vars
<1>3. Quiet' /\ Settled' /\ RowsBased'
  BY DEF Edit, Quiet, Settled, RowsBased, run_vars, history_vars
<1> QED BY <1>2, <1>3

\* A copied report has the rows of the report.
LEMMA CopyReportTInv == ASSUME TInv, CopyReport PROVE TInv'
<1> USE DEF TInv, CopyReport, run_vars, history_vars
<1>1. TypeOK'
  BY ReuseAssumption DEF TypeOK
<1>2. Quiet' /\ Settled' /\ RowsBased'
  BY DEF Quiet, Settled, RowsBased
<1> QED BY <1>1, <1>2

\* A run starts with nothing decided.
LEMMA StartTInv == ASSUME TInv, Start PROVE TInv'
<1> USE DEF TInv, Start, history_vars
<1>1. TypeOK'
  <2>1. remembered = {} /\ evidence = {}
    BY DEF Quiet
  <2>2. scope' \subseteq Mutants
    BY ReuseAssumption
  <2>3. runs' \in 0..MaxRuns /\ timeouts' \in [Mutants -> SUBSET [run : 1..MaxRuns, basis : Bases]]
    BY ReuseAssumption DEF TypeOK
  <2> QED BY <2>1, <2>2, <2>3 DEF TypeOK
<1>2. Quiet'
  BY ReuseAssumption DEF Quiet, TypeOK
<1>3. Settled' /\ RowsBased'
  BY DEF Settled, RowsBased
<1> QED BY <1>1, <1>2, <1>3

\* The decision keeps verdicts of mutants in scope, each with a basis.
LEMMA DecideTInv == ASSUME TInv, Decide PROVE TInv'
<1> USE DEF TInv
<1>1. \A m \in remembered' : /\ m \in Mutants /\ m \in scope
                             /\ results'[m] \in Results
  <2> TAKE m \in remembered'
  <2>0. m \in Kept(digests', flaky', forced')
    BY DEF Decide
  <2>1. m \in scope /\ m \in Mutants
    BY <2>0 DEF Kept, TypeOK
  <2> DEFINE row == NewestMatching(m, digests')
  <2>2. row \in {file[m], source[m]} \ {None} /\ ReusableRow(row)
    BY <2>0, KeptMatches
  <2>3. row \in Rows /\ row.status \in SettledStatuses /\ row.status # "Pending"
    BY <2>1, <2>2 DEF TypeOK, ReusableRow, RememberedStatuses, SettledStatuses
  <2>4. row.basis \in Bases
    BY <2>1, <2>2, <2>3 DEF RowsBased
  <2>5. results'[m] = [status |-> row.status, basis |-> row.basis]
    BY <2>1 DEF Decide
  <2> QED BY <2>1, <2>3, <2>4, <2>5 DEF Results
<1>2. \A m \in Mutants : m \notin remembered' => results'[m] = None
  BY DEF Decide
<1>3. results' \in [Mutants -> Results \cup {None}]
  BY <1>1, <1>2 DEF Decide
<1>4. digests' \in [closure : [Mutants -> Versions \cup {None}], program : Versions \cup {None}]
  <2>1. disk.closure \in [Mutants -> Versions \cup {None}] /\ sandbox.program \in Versions
    BY DEF TypeOK, Worlds
  <2>2. NoDigests.closure \in [Mutants -> Versions \cup {None}]
    BY DEF NoDigests
  <2> QED BY <2>1, <2>2 DEF Decide
<1>5. evidence' \subseteq scope /\ remembered' \subseteq scope
  BY DEF Decide, Kept, TimeoutEvidence
<1>6. TypeOK'
  BY <1>3, <1>4, <1>5 DEF TypeOK, Decide, history_vars
<1>7. Quiet'
  BY DEF Quiet, Decide
<1>8. Settled'
  BY <1>1, <1>2 DEF Settled
<1>9. RowsBased'
  BY DEF RowsBased, Decide
<1> QED BY <1>6, <1>7, <1>8, <1>9

\* A settled mutant gets a result and a verdict on the content of the sandbox.
LEMMA SettleTInv == ASSUME TInv, NEW m \in Mutants, Settle(m) PROVE TInv'
<1> USE DEF TInv
<1>1. PICK status \in Outcomes :
        /\ results' = [results EXCEPT ![m] =
             [status |-> status, basis |-> BasisOf(sandbox, m)]]
        /\ verdicts' = [verdicts EXCEPT ![m] = NewVerdict(m, status)]
        /\ timeouts' = [timeouts EXCEPT ![m] =
             IF status = "wallClock" THEN @ \cup {[run |-> runs, basis |-> BasisOf(sandbox, m)]}
                                     ELSE @]
  BY DEF Settle
<1>2. UNCHANGED <<disk, file, source, phase, sandbox, scope, forced, flaky, digests,
                  remembered, evidence, runs, edits, copies>> /\ phase = "running"
  BY DEF Settle
<1>3. status \in SettledStatuses /\ BasisOf(sandbox, m) \in Bases
  BY BasisType, ReuseAssumption DEF TypeOK
<1>4. [status |-> status, basis |-> BasisOf(sandbox, m)] \in Results
  BY <1>3 DEF Results
<1>5. NewVerdict(m, status) \in Verdicts
  <2> DEFINE v == NewVerdict(m, status)
  <2>1. v = [status |-> v.status, basis |-> v.basis, saved |-> v.saved,
             keyed |-> v.keyed, again |-> v.again]
    BY Zenon DEF NewVerdict
  <2>2. v.status = status /\ v.basis = BasisOf(sandbox, m) /\ v.saved = "no"
    BY Zenon DEF NewVerdict
  <2>3. v.keyed \in BOOLEAN /\ v.again \in BOOLEAN
    BY Zenon DEF NewVerdict, Keyed
  <2> HIDE DEF v
  <2>4. [status |-> v.status, basis |-> v.basis, saved |-> v.saved,
         keyed |-> v.keyed, again |-> v.again] \in Verdicts
    BY <1>3, <2>2, <2>3, Zenon DEF Verdicts
  <2>5. v \in Verdicts
    BY <2>1, <2>4
  <2> QED BY <2>5 DEF v
<1>6. runs \in 1..MaxRuns
  BY <1>2 DEF Quiet, TypeOK
<1>7. TypeOK'
  <2>1. results' \in [Mutants -> Results \cup {None}]
    BY <1>1, <1>4 DEF TypeOK
  <2>2. verdicts' \in [Mutants -> Verdicts \cup {None}]
    BY <1>1, <1>5 DEF TypeOK
  <2>3. timeouts' \in [Mutants -> SUBSET [run : 1..MaxRuns, basis : Bases]]
    <3>1. [run |-> runs, basis |-> BasisOf(sandbox, m)] \in [run : 1..MaxRuns, basis : Bases]
      BY <1>3, <1>6
    <3> QED BY <1>1, <3>1 DEF TypeOK
  <2> QED BY <1>2, <2>1, <2>2, <2>3 DEF TypeOK
<1>8. Quiet' /\ RowsBased'
  BY <1>2 DEF Quiet, RowsBased
<1>9. Settled'
  <2>1. results'[m] \in Results /\ verdicts'[m] \in Verdicts
    BY <1>1, <1>4, <1>5 DEF TypeOK
  <2>2. \A n \in Mutants \ {m} : results'[n] = results[n] /\ verdicts'[n] = verdicts[n]
    BY <1>1 DEF TypeOK
  <2> QED BY <1>2, <2>1, <2>2 DEF Settled
<1> QED BY <1>7, <1>8, <1>9

\* A checkpoint writes rows, and marks what it saved.
LEMMA CheckpointTInv == ASSUME TInv, Checkpoint PROVE TInv'
<1> USE DEF TInv
<1>1. UNCHANGED <<disk, source, run_vars, timeouts, runs, edits, copies>> /\ phase = "running"
  BY DEF Checkpoint
<1>2. \A m \in Mutants : file'[m] \in Rows \cup {None}
  <2> TAKE m \in Mutants
  <2>1. (IF results[m] = None THEN "Pending" ELSE results[m].status)
          \in SettledStatuses \cup {"Pending"}
    BY DEF TypeOK, Results
  <2>2. CheckpointRow(m) \in Rows
    BY <2>1, RowType DEF CheckpointRow
  <2> QED BY <2>2 DEF Checkpoint
<1>3. \A m \in Mutants :
        /\ verdicts[m] \in Verdicts => verdicts'[m] \in Verdicts \cup {None}
        /\ verdicts[m] = None => verdicts'[m] = None
        /\ verdicts[m] \in Verdicts /\ verdicts[m] # None => verdicts'[m] \in Verdicts
  BY DEF Checkpoint, Verdicts
<1>4. TypeOK'
  <2>1. file' \in [Mutants -> Rows \cup {None}]
    BY <1>2 DEF Checkpoint
  <2>2. verdicts' \in [Mutants -> Verdicts \cup {None}]
    BY <1>3 DEF Checkpoint, TypeOK
  <2> QED BY <1>1, <2>1, <2>2 DEF TypeOK, run_vars
<1>5. Quiet'
  BY <1>1 DEF Quiet, run_vars
<1>6. RowsBased'
  <2> SUFFICES ASSUME NEW m \in Mutants, NEW row \in {file'[m], source'[m]} \ {None},
                      row.status # "Pending"
               PROVE  row.basis \in Bases
    BY DEF RowsBased
  <2>1. CASE row = source[m]
    BY <1>1, <2>1 DEF RowsBased
  <2>2. CASE row = file'[m]
    <3>1. row = CheckpointRow(m)
      BY <2>2 DEF Checkpoint
    <3>2. results[m] # None /\ row.basis = results[m].basis
      BY <3>1 DEF CheckpointRow, Row
    <3> QED BY <3>2 DEF TypeOK, Results
  <2> QED BY <1>1, <2>1, <2>2
<1>7. Settled'
  BY <1>1, <1>3 DEF Settled, TypeOK, run_vars
<1> QED BY <1>4, <1>5, <1>6, <1>7

\* An ended run has decided nothing.
LEMMA EndRunTypes ==
  ASSUME EndRun
  PROVE  /\ phase' \in {"idle", "started", "running"} /\ phase' = "idle"
         /\ scope' \subseteq Mutants /\ forced' \in BOOLEAN /\ flaky' \subseteq Mutants
         /\ digests' \in [closure : [Mutants -> Versions \cup {None}], program : Versions \cup {None}]
         /\ remembered' \subseteq scope' /\ evidence' \subseteq scope'
         /\ results' \in [Mutants -> Results \cup {None}]
         /\ Quiet' /\ Settled'
BY DEF EndRun, NoDigests, NoResults, Quiet, Settled

\* The complete report writes rows with the digests the run read.
LEMMA ReportTInv == ASSUME TInv, Report PROVE TInv'
<1> USE DEF TInv
<1>1. \A m \in scope : m \in Mutants /\ results[m] \in Results
  BY DEF Report, TypeOK
<1>2. \A m \in scope : ReportRow(m) \in Rows
  <2> TAKE m \in scope
  <2>1. results[m].status \in SettledStatuses
    BY <1>1 DEF Results
  <2>2. digests.closure[m] \in Versions \cup {None} /\ digests.program \in Versions \cup {None}
    BY <1>1 DEF TypeOK
  <2>3. Reproductions(m, results[m].status) \in 0..1
    BY DEF Reproductions
  <2> QED BY <1>1, <2>1, <2>2, <2>3, RowType DEF ReportRow
<1>3. file' \in [Mutants -> Rows \cup {None}]
  BY <1>2 DEF Report
<1>4. \A m \in Mutants : verdicts'[m] \in Verdicts \cup {None}
  <2> TAKE m \in Mutants
  <2>1. CASE m \notin scope
    <3>1. verdicts'[m] = Unsaved(m)
      BY <2>1, Zenon DEF Report
    <3>2. Unsaved(m) \in Verdicts \cup {None}
      BY DEF Unsaved, TypeOK, Verdicts
    <3> QED BY <3>1, <3>2
  <2>2. CASE m \in scope
    <3> DEFINE again == IF m \in remembered THEN results[m].status = "wallClock"
                                            ELSE verdicts[m].again
    <3>1. again \in BOOLEAN
      <4>1. CASE m \in remembered
        BY <4>1
      <4>2. CASE m \notin remembered
        <5>1. verdicts[m] \in Verdicts
          BY <2>2, <4>2 DEF Settled, Report
        <5> QED BY <4>2, <5>1, Zenon DEF Verdicts
      <4> QED BY <4>1, <4>2
    <3>2. (Keyed(m, results[m].status, digests) /\ ~forced) \in BOOLEAN
      BY Zenon DEF Keyed
    <3>3. results[m].status \in SettledStatuses /\ results[m].basis \in Bases
      BY <1>1, <2>2 DEF Results
    <3> HIDE DEF again
    <3>4. [status |-> results[m].status, basis |-> results[m].basis, saved |-> "report",
           keyed |-> Keyed(m, results[m].status, digests) /\ ~forced, again |-> again] \in Verdicts
      BY <3>1, <3>2, <3>3, Zenon DEF Verdicts
    <3>5. verdicts'[m] =
            [status |-> results[m].status, basis |-> results[m].basis, saved |-> "report",
             keyed |-> Keyed(m, results[m].status, digests) /\ ~forced, again |-> again]
      BY <2>2, Zenon DEF Report, again
    <3> QED BY <3>4, <3>5
  <2> QED BY <2>1, <2>2
<1>5. verdicts' \in [Mutants -> Verdicts \cup {None}]
  <2>1. verdicts' = [m \in Mutants |-> verdicts'[m]]
    BY Zenon DEF Report
  <2> QED BY <1>4, <2>1
<1>6. EndRun /\ UNCHANGED <<disk, source, sandbox, timeouts, runs, edits, copies>>
  BY DEF Report
<1>7. TypeOK' /\ Quiet' /\ Settled'
  BY <1>3, <1>5, <1>6, EndRunTypes DEF TypeOK
<1>8. RowsBased'
  <2> SUFFICES ASSUME NEW m \in Mutants, NEW row \in {file'[m], source'[m]} \ {None},
                      row.status # "Pending"
               PROVE  row.basis \in Bases
    BY DEF RowsBased
  <2>1. CASE row = source[m]
    BY <2>1 DEF RowsBased
  <2>2. CASE row = file'[m]
    <3>1. m \in scope /\ row = ReportRow(m)
      BY <2>2 DEF Report
    <3>2. results[m] # None /\ row.basis = results[m].basis
      BY <3>1 DEF ReportRow, Row, Report
    <3> QED BY <1>1, <3>1, <3>2 DEF Results
  <2> QED BY <1>6, <2>1, <2>2
<1> QED BY <1>7, <1>8

\* A run that stops leaves the reports as they are.
LEMMA StopTInv == ASSUME TInv, Stop PROVE TInv'
<1> USE DEF TInv, Stop, history_vars
<1>1. TypeOK' /\ Quiet' /\ Settled'
  BY EndRunTypes DEF TypeOK
<1>2. RowsBased'
  BY DEF RowsBased
<1> QED BY <1>1, <1>2

\* Every step keeps the types.
LEMMA NextTInv == TInv /\ [Next]_vars => TInv'
<1> SUFFICES ASSUME TInv, [Next]_vars PROVE TInv'
  OBVIOUS
<1>1. CASE UNCHANGED vars
  BY <1>1 DEF TInv, vars, run_vars, history_vars, TypeOK, Quiet, Settled, RowsBased
<1>2. CASE Next
  BY <1>2, EditTInv, CopyReportTInv, StartTInv, DecideTInv, SettleTInv, CheckpointTInv,
     ReportTInv, StopTInv DEF Next
<1> QED BY <1>1, <1>2

\* Every variable of a reuse history stays in its type, and an idle run holds
\* no decision of the last one (incremental-reuse.cell.ts, reportAll).
THEOREM TypeCorrect == Spec => []TypeOK
<1>1. Init => TInv
  BY InitTInv
<1>2. TInv /\ [Next]_vars => TInv'
  BY NextTInv
<1>3. TInv => TypeOK
  BY DEF TInv
<1> QED BY <1>1, <1>2, <1>3, PTL DEF Spec

-----------------------------------------------------------------------------
(* Soundness of reuse.                                                     *)

\* The first state has no rows, digests or results.
LEMMA InitHInv == Init => HInv
BY DEF Init, HInv, RowsHonest, Snapshot, DigestsHonest, ResultsHonest, NoDigests, NoResults

\* A row that carries the digests of the run is honest about its verdict.
LEMMA RowHonest ==
  ASSUME HInv, phase = "running", NEW m \in Mutants, results[m] # None,
         NEW status, NEW closure, NEW program, NEW reproductions,
         status = results[m].status,
         closure \in {None, digests.closure[m]}, program \in {None, digests.program}
  PROVE  Honest(Row(m, status, closure, program, reproductions))
<1> DEFINE row == Row(m, status, closure, program, reproductions)
<1>1. /\ row.status = status /\ row.closure = closure /\ row.program = program
      /\ row.inputs = disk.inputs /\ row.basis = results[m].basis
  BY DEF Row
<1>2. disk = sandbox /\ Unchanged(m, status, results[m].basis)
  BY DEF HInv, Snapshot, ResultsHonest
<1>3. digests.closure[m] \in {None, sandbox.closure[m]} /\ digests.program \in {None, sandbox.program}
  BY DEF HInv, DigestsHonest
<1> QED BY <1>1, <1>2, <1>3 DEF Honest, Unchanged

\* The project is edited only between runs.
LEMMA EditHInv == ASSUME ~EditsMidRun, HInv, Edit PROVE HInv'
BY DEF HInv, Edit, run_vars, history_vars, RowsHonest, Snapshot, DigestsHonest,
       ResultsHonest, Unchanged

\* A copy holds the rows of the report.
LEMMA CopyReportHInv == ASSUME HInv, CopyReport PROVE HInv'
BY DEF HInv, CopyReport, run_vars, history_vars, RowsHonest, Snapshot, DigestsHonest,
       ResultsHonest, Unchanged

\* A new sandbox is the project, and nothing is decided about it.
LEMMA StartHInv == ASSUME TInv, HInv, Start PROVE HInv'
<1> USE DEF Start, history_vars
<1>1. remembered = {} /\ digests = NoDigests /\ results = NoResults
  BY DEF TInv, Quiet
<1>2. Snapshot' /\ RowsHonest'
  BY DEF HInv, Snapshot, RowsHonest
<1>3. DigestsHonest'
  BY <1>1 DEF DigestsHonest, NoDigests
<1>4. ResultsHonest'
  BY <1>1 DEF ResultsHonest, NoResults
<1> QED BY <1>2, <1>3, <1>4 DEF HInv

\* A matching key means that nothing the verdict rests on has changed.
LEMMA DecideHInv == ASSUME TInv, HInv, Decide PROVE HInv'
<1>1. disk = sandbox /\ UNCHANGED <<disk, file, source, sandbox>>
  BY DEF Decide, HInv, Snapshot
<1>2. Snapshot' /\ RowsHonest'
  BY <1>1 DEF HInv, Snapshot, RowsHonest
<1>3. DigestsHonest'
  BY <1>1 DEF Decide, DigestsHonest, NoDigests
<1>4. ResultsHonest'
  <2> SUFFICES ASSUME NEW m \in Mutants, m \in remembered' \/ results'[m] # None
               PROVE  Unchanged(m, results[m].status, results[m].basis)'
    BY DEF ResultsHonest
  <2>1. m \in remembered'
    BY DEF Decide
  <2>2. m \in Kept(digests', flaky', forced')
    BY <2>1 DEF Decide
  <2> DEFINE row == NewestMatching(m, digests')
  <2>3. /\ row \in {file[m], source[m]} \ {None} /\ ReusableRow(row)
        /\ KeyMatches(row, m, digests')
    BY <2>2, KeptMatches
  <2>4. Honest(row) /\ row.status # "Pending"
    BY <2>3 DEF HInv, RowsHonest, ReusableRow, RememberedStatuses
  <2>5. results'[m] = [status |-> row.status, basis |-> row.basis]
    BY <2>1 DEF Decide
  <2>6. digests'.closure[m] \in {None, sandbox.closure[m]} /\ digests'.program \in {None, sandbox.program}
    BY <1>1, <1>3 DEF DigestsHonest
  <2>7. Unchanged(m, row.status, row.basis)
    BY <1>1, <2>3, <2>4, <2>6 DEF Honest, KeyMatches, Unchanged
  <2> QED BY <1>1, <2>5, <2>7 DEF Unchanged
<1> QED BY <1>2, <1>3, <1>4 DEF HInv

\* A verdict reached in this run is about the content of the sandbox.
LEMMA SettleHInv == ASSUME TInv, HInv, NEW m \in Mutants, Settle(m) PROVE HInv'
<1>1. PICK status \in Outcomes :
        results' = [results EXCEPT ![m] = [status |-> status, basis |-> BasisOf(sandbox, m)]]
  BY DEF Settle
<1>2. UNCHANGED <<disk, file, source, phase, sandbox, digests, remembered>>
  BY DEF Settle
<1>3. RowsHonest' /\ Snapshot' /\ DigestsHonest'
  BY <1>2 DEF HInv, RowsHonest, Snapshot, DigestsHonest
<1>4. ResultsHonest'
  <2>1. results'[m] = [status |-> status, basis |-> BasisOf(sandbox, m)]
    BY <1>1 DEF TInv, TypeOK
  <2>2. \A n \in Mutants \ {m} : results'[n] = results[n]
    BY <1>1 DEF TInv, TypeOK
  <2>3. Unchanged(m, status, BasisOf(sandbox, m))
    BY DEF Unchanged, BasisOf
  <2> QED BY <1>2, <2>1, <2>2, <2>3 DEF HInv, ResultsHonest, Unchanged
<1> QED BY <1>3, <1>4 DEF HInv

\* The rows of a checkpoint carry no digests, those of the report the run's.
LEMMA CheckpointHInv == ASSUME HInv, Checkpoint PROVE HInv'
<1>1. UNCHANGED <<disk, source, run_vars>> /\ phase = "running"
  BY DEF Checkpoint
<1>2. RowsHonest'
  <2> SUFFICES ASSUME NEW m \in Mutants, NEW row \in {file'[m], source'[m]} \ {None}
               PROVE  Honest(row)
    BY DEF RowsHonest
  <2>1. CASE row = source[m]
    BY <2>1 DEF HInv, RowsHonest
  <2>2. CASE row = file'[m]
    <3>1. row = CheckpointRow(m)
      BY <2>2 DEF Checkpoint
    <3>2. CASE results[m] = None
      BY <3>1, <3>2 DEF CheckpointRow, Row, Honest
    <3>3. CASE results[m] # None
      BY <1>1, <3>1, <3>3, RowHonest DEF CheckpointRow
    <3> QED BY <3>2, <3>3
  <2> QED BY <1>1, <2>1, <2>2
<1> QED BY <1>1, <1>2 DEF HInv, run_vars, Snapshot, DigestsHonest, ResultsHonest, Unchanged

\* An ended run makes no claim about its sandbox.
LEMMA EndRunHonest ==
  ASSUME EndRun PROVE Snapshot' /\ DigestsHonest' /\ ResultsHonest'
BY DEF EndRun, Snapshot, DigestsHonest, ResultsHonest, NoDigests, NoResults

\* A kept verdict gets the digests read in this run: its key had matched them.
LEMMA ReportHInv == ASSUME HInv, Report PROVE HInv'
<1>1. UNCHANGED source /\ phase = "running" /\ EndRun
  BY DEF Report
<1>2. RowsHonest'
  <2> SUFFICES ASSUME NEW m \in Mutants, NEW row \in {file'[m], source'[m]} \ {None}
               PROVE  Honest(row)
    BY DEF RowsHonest
  <2>1. CASE row = source[m]
    BY <2>1 DEF HInv, RowsHonest
  <2>2. CASE row = file'[m]
    <3>1. m \in scope /\ row = ReportRow(m)
      BY <2>2 DEF Report
    <3>2. results[m] # None
      BY <3>1 DEF Report
    <3> QED BY <1>1, <3>1, <3>2, RowHonest DEF ReportRow
  <2> QED BY <1>1, <2>1, <2>2
<1> QED BY <1>1, <1>2, EndRunHonest DEF HInv

\* Every step keeps rows, digests and results honest.
LEMMA NextHInv == ASSUME ~EditsMidRun PROVE TInv /\ HInv /\ [Next]_vars => HInv'
<1> SUFFICES ASSUME TInv, HInv, [Next]_vars PROVE HInv'
  OBVIOUS
<1>1. CASE UNCHANGED vars
  BY <1>1 DEF HInv, vars, run_vars, history_vars, RowsHonest, Snapshot, DigestsHonest,
              ResultsHonest, Unchanged
<1>2. CASE Stop
  BY <1>2, EndRunHonest DEF Stop, HInv, RowsHonest
<1>3. CASE Next
  BY <1>2, <1>3, EditHInv, CopyReportHInv, StartHInv, DecideHInv, SettleHInv, CheckpointHInv,
     ReportHInv DEF Next
<1> QED BY <1>1, <1>3

\* When nobody edits the project during a run, a verdict is kept only when
\* nothing it rests on has changed since the mutant was tested (matchingKey).
THEOREM ReuseIsSound == ASSUME ~EditsMidRun PROVE Spec => []ReuseSound
<1>1. Init => TInv /\ HInv
  BY InitTInv, InitHInv
<1>2. TInv /\ HInv /\ [Next]_vars => (TInv /\ HInv)'
  BY NextTInv, NextHInv
<1>3. TInv /\ HInv => ReuseSound
  BY DEF TInv, TypeOK, HInv, ResultsHonest, ReuseSound
<1> QED BY <1>1, <1>2, <1>3, PTL DEF Spec

-----------------------------------------------------------------------------
(* A wall-clock timeout is kept after its second occurrence.               *)

\* The wall-clock timeouts of m on the content of a basis.
Seen(m, basis) ==
  {t \in timeouts[m] : t.basis.inputs = basis.inputs /\ t.basis.closure = basis.closure}

\* Seen in two runs.
SeenTwice(m, basis) == \E t \in Seen(m, basis) : \E u \in Seen(m, basis) : t.run # u.run

\* A row that says timeout had one, and one that says reproduced had two.
RowsSeen ==
  \A m \in Mutants : \A row \in {file[m], source[m]} \ {None} :
    row.status = "wallClock" =>
      /\ Seen(m, row.basis) # {}
      /\ row.reproductions = 1 => SeenTwice(m, row.basis)

\* A kept timeout had two; one of this run is dated by it; what evidence stands
\* for is of an earlier run.
TimeoutsSeen ==
  \A m \in Mutants :
    /\ m \in remembered /\ results[m].status = "wallClock"
         => SeenTwice(m, BasisOf(sandbox, m))
    /\ results[m] # None /\ m \notin remembered /\ results[m].status = "wallClock"
         => \E t \in Seen(m, BasisOf(sandbox, m)) : t.run = runs
    /\ m \in evidence => \E t \in Seen(m, BasisOf(sandbox, m)) : t.run < runs

\* Timeouts are dated by the runs so far, and there are finitely many.
Dated ==
  \A m \in Mutants :
    /\ IsFiniteSet(timeouts[m])
    /\ \A t \in timeouts[m] : t.run <= runs /\ (phase = "started" => t.run < runs)

SInv == RowsSeen /\ TimeoutsSeen /\ Dated

\* Two bases with the inputs and the closure in common have seen the same.
LEMMA SameSeen ==
  ASSUME NEW m, NEW b, NEW c, b.inputs = c.inputs, b.closure = c.closure
  PROVE  Seen(m, b) = Seen(m, c) /\ (SeenTwice(m, b) <=> SeenTwice(m, c))
BY DEF Seen, SeenTwice

\* Nothing was seen before the first run.
LEMMA InitSInv == Init => SInv
<1> SUFFICES ASSUME Init PROVE SInv
  OBVIOUS
<1> USE DEF Init, NoResults
<1>1. RowsSeen /\ TimeoutsSeen
  BY DEF RowsSeen, TimeoutsSeen
<1>2. Dated
  BY FS_EmptySet DEF Dated
<1> QED BY <1>1, <1>2 DEF SInv

\* What is seen stays seen as long as reports, results and timeouts do.
LEMMA SeenStays ==
  ASSUME SInv, UNCHANGED <<timeouts, sandbox, remembered, evidence, results, runs>>,
         phase' = "started" => phase = "started",
         \A m \in Mutants : {file'[m], source'[m]} \subseteq {file[m], source[m]}
  PROVE  SInv'
BY DEF SInv, RowsSeen, TimeoutsSeen, Dated, Seen, SeenTwice, BasisOf

\* A new run has everything seen behind it.
LEMMA StartSInv == ASSUME TInv, SInv, Start PROVE SInv'
<1> USE DEF Start, history_vars
<1>1. remembered = {} /\ evidence = {} /\ results = NoResults
  BY DEF TInv, Quiet
<1>2. runs \in Nat /\ runs' = runs + 1
  BY ReuseAssumption DEF TInv, TypeOK
<1>3. \A m \in Mutants : \A t \in timeouts[m] : t.run \in Nat
  BY DEF TInv, TypeOK
<1>4. RowsSeen'
  BY DEF SInv, RowsSeen, Seen, SeenTwice
<1>5. TimeoutsSeen'
  BY <1>1 DEF TimeoutsSeen, NoResults
<1>6. Dated'
  BY <1>2, <1>3 DEF SInv, Dated
<1> QED BY <1>4, <1>5, <1>6 DEF SInv

\* A row whose key matches has the basis of a test now, as far as a timeout goes.
LEMMA MatchSeen ==
  ASSUME HInv, Decide, NEW m \in Mutants, NEW row \in {file[m], source[m]} \ {None},
         row.status = "wallClock", KeyMatches(row, m, digests')
  PROVE  /\ Seen(m, row.basis) = Seen(m, BasisOf(sandbox, m))
         /\ SeenTwice(m, row.basis) <=> SeenTwice(m, BasisOf(sandbox, m))
<1>1. disk = sandbox
  BY DEF Decide, HInv, Snapshot
<1>2. digests'.closure[m] \in {None, sandbox.closure[m]}
  BY <1>1 DEF Decide, NoDigests
<1>3. row.basis.inputs = row.inputs /\ (row.closure # None => row.basis.closure = row.closure)
  BY DEF HInv, RowsHonest, Honest
<1>4. row.basis.inputs = sandbox.inputs /\ row.basis.closure = sandbox.closure[m]
  BY <1>1, <1>2, <1>3 DEF KeyMatches
<1> QED BY <1>4, SameSeen DEF BasisOf

\* What the decision keeps as a timeout was reproduced, and what it takes for
\* evidence was seen.
LEMMA DecideSInv == ASSUME TInv, HInv, SInv, Decide PROVE SInv'
<1>1. UNCHANGED <<file, source, sandbox, timeouts, runs>> /\ phase = "started" /\ phase' = "running"
  BY DEF Decide, history_vars
<1>2. RowsSeen' /\ Dated'
  BY <1>1 DEF SInv, RowsSeen, Seen, SeenTwice, Dated
<1>3. \A m, b : Seen(m, b)' = Seen(m, b)
  BY <1>1 DEF Seen
<1>4. ASSUME NEW m \in Mutants, m \in remembered', results'[m].status = "wallClock"
      PROVE  SeenTwice(m, BasisOf(sandbox, m))
  <2>1. m \in Kept(digests', flaky', forced')
    BY <1>4 DEF Decide
  <2> DEFINE row == NewestMatching(m, digests')
  <2>2. /\ row \in {file[m], source[m]} \ {None} /\ ReusableRow(row)
        /\ KeyMatches(row, m, digests')
    BY <2>1, KeptMatches
  <2>3. row.status = "wallClock"
    BY <1>4 DEF Decide
  <2>4. row \in Rows
    BY <2>2 DEF TInv, TypeOK
  <2>5. row.reproductions = 1
    BY <2>2, <2>3, <2>4 DEF ReusableRow, Unreproduced, Rows
  <2> HIDE DEF row
  <2> QED BY <2>2, <2>3, <2>5, MatchSeen DEF SInv, RowsSeen
<1>5. ASSUME NEW m \in Mutants, m \in evidence'
      PROVE  \E t \in Seen(m, BasisOf(sandbox, m)) : t.run < runs
  <2>1. m \in TimeoutEvidence(digests', flaky', forced')
    BY <1>5 DEF Decide
  <2>2. PICK row \in {file[m], source[m]} \ {None} :
          row.status = "wallClock" /\ KeyMatches(row, m, digests')
    <3>1. CASE MatchingRows(m, digests') # {}
      <4>1. NewestMatching(m, digests') \in MatchingRows(m, digests')
        BY <3>1 DEF NewestMatching, MatchingRows
      <4> QED BY <2>1, <3>1, <4>1 DEF MatchingRows, TimeoutEvidence
    <3>2. CASE MatchingRows(m, digests') = {}
      <4>1. PriorTimeout(m, digests')
        BY <2>1, <3>2 DEF TimeoutEvidence
      <4> QED BY <4>1 DEF PriorTimeout, Newest, Unreproduced
    <3> QED BY <3>1, <3>2
  <2>3. Seen(m, BasisOf(sandbox, m)) # {}
    BY <2>2, MatchSeen DEF SInv, RowsSeen
  <2>4. \A t \in Seen(m, BasisOf(sandbox, m)) : t.run < runs
    BY <1>1 DEF SInv, Dated, Seen
  <2> QED BY <2>3, <2>4
<1>6. \A m \in Mutants : m \notin remembered' => results'[m] = None
  BY DEF Decide
<1>7. TimeoutsSeen'
  BY <1>1, <1>4, <1>5, <1>6 DEF TimeoutsSeen, Seen, SeenTwice, BasisOf
<1> QED BY <1>2, <1>7 DEF SInv

\* A timeout of this run is dated by it.
LEMMA SettleSInv == ASSUME TInv, SInv, NEW m \in Mutants, Settle(m) PROVE SInv'
<1>1. PICK status \in Outcomes :
        /\ results' = [results EXCEPT ![m] =
             [status |-> status, basis |-> BasisOf(sandbox, m)]]
        /\ timeouts' = [timeouts EXCEPT ![m] =
             IF status = "wallClock" THEN @ \cup {[run |-> runs, basis |-> BasisOf(sandbox, m)]}
                                     ELSE @]
  BY DEF Settle
<1>2. /\ UNCHANGED <<file, source, phase, sandbox, remembered, evidence, runs>>
      /\ phase = "running"
  BY DEF Settle
<1>3. \A n \in Mutants : timeouts[n] \subseteq timeouts'[n]
  BY <1>1 DEF TInv, TypeOK
<1>4. RowsSeen'
  BY <1>2, <1>3 DEF SInv, RowsSeen, Seen, SeenTwice
<1>5. Dated'
  <2> SUFFICES ASSUME NEW n \in Mutants
               PROVE  /\ IsFiniteSet(timeouts'[n])
                      /\ \A t \in timeouts'[n] : t.run <= runs
    BY <1>2 DEF Dated
  <2> DEFINE new == [run |-> runs, basis |-> BasisOf(sandbox, m)]
  <2>1. timeouts'[n] \in {timeouts[n], timeouts[n] \cup {new}}
    BY <1>1 DEF TInv, TypeOK
  <2>2. IsFiniteSet(timeouts[n]) /\ IsFiniteSet(timeouts[n] \cup {new})
    BY FS_AddElement DEF SInv, Dated
  <2>3. new.run <= runs
    BY DEF TInv, TypeOK
  <2> HIDE DEF new
  <2>4. \A t \in timeouts'[n] : t.run <= runs
    BY <2>1, <2>3 DEF SInv, Dated
  <2> QED BY <2>1, <2>2, <2>4
<1>6. TimeoutsSeen'
  <2> SUFFICES ASSUME NEW n \in Mutants
               PROVE  /\ n \in remembered /\ results'[n].status = "wallClock"
                           => SeenTwice(n, BasisOf(sandbox, n))'
                      /\ results'[n] # None /\ n \notin remembered /\ results'[n].status = "wallClock"
                           => \E t \in Seen(n, BasisOf(sandbox, n))' : t.run = runs
                      /\ n \in evidence => \E t \in Seen(n, BasisOf(sandbox, n))' : t.run < runs
    BY <1>2 DEF TimeoutsSeen
  <2> DEFINE b == BasisOf(sandbox, n)
  <2>0. b' = b
    BY <1>2 DEF BasisOf
  <2>1. Seen(n, b) \subseteq Seen(n, b)'
    BY <1>2, <1>3 DEF Seen, BasisOf
  <2>2. n \in evidence => \E t \in Seen(n, b)' : t.run < runs
    BY <2>1 DEF SInv, TimeoutsSeen
  <2>3. CASE n # m
    <3>1. results'[n] = results[n]
      BY <1>1, <2>3 DEF TInv, TypeOK
    <3> QED BY <2>0, <2>1, <2>2, <3>1 DEF SInv, TimeoutsSeen, SeenTwice
  <2>4. CASE n = m
    <3>1. n \notin remembered
      BY <2>4, NoneAssumption DEF Settle, TInv, Settled
    <3>2. results'[n].status = status
      BY <1>1, <2>4 DEF TInv, TypeOK
    <3>3. status = "wallClock" => [run |-> runs, basis |-> b] \in Seen(n, b)'
      BY <1>1, <1>2, <2>4 DEF TInv, TypeOK, Seen, BasisOf
    <3>4. [run |-> runs, basis |-> b].run = runs
      OBVIOUS
    <3> QED BY <2>2, <3>1, <3>2, <3>3, <3>4
  <2> QED BY <2>3, <2>4
<1> QED BY <1>4, <1>5, <1>6 DEF SInv

\* A row written from the results of a run is backed as they are.
LEMMA WrittenSeen ==
  ASSUME TInv, SInv, HInv, phase = "running", NEW m \in Mutants, results[m] # None,
         results[m].status = "wallClock"
  PROVE  /\ Seen(m, results[m].basis) # {}
         /\ m \in evidence => SeenTwice(m, results[m].basis)
<1>1. Unchanged(m, "wallClock", results[m].basis)
  BY DEF HInv, ResultsHonest
<1>2. /\ Seen(m, results[m].basis) = Seen(m, BasisOf(sandbox, m))
      /\ SeenTwice(m, results[m].basis) <=> SeenTwice(m, BasisOf(sandbox, m))
  BY <1>1, SameSeen DEF Unchanged, BasisOf
<1>3. CASE m \in remembered
  BY <1>2, <1>3 DEF SInv, TimeoutsSeen, SeenTwice
<1>4. CASE m \notin remembered
  <2>1. PICK t \in Seen(m, BasisOf(sandbox, m)) : t.run = runs
    BY <1>4 DEF SInv, TimeoutsSeen
  <2>2. m \in evidence => \E u \in Seen(m, BasisOf(sandbox, m)) : u.run < runs
    BY DEF SInv, TimeoutsSeen
  <2>3. runs \in Nat
    BY ReuseAssumption DEF TInv, TypeOK
  <2> QED BY <1>2, <2>1, <2>2, <2>3 DEF SeenTwice
<1> QED BY <1>3, <1>4

\* A checkpoint writes no timeout that was not seen.
LEMMA CheckpointSInv == ASSUME TInv, HInv, SInv, Checkpoint PROVE SInv'
<1>1. UNCHANGED <<source, run_vars, timeouts, runs>> /\ phase = "running"
  BY DEF Checkpoint
<1>2. TimeoutsSeen' /\ Dated'
  BY <1>1 DEF run_vars, SInv, TimeoutsSeen, Dated, Seen, SeenTwice, BasisOf
<1>3. RowsSeen'
  <2> SUFFICES ASSUME NEW m \in Mutants, NEW row \in {file'[m], source'[m]} \ {None},
                      row.status = "wallClock"
               PROVE  /\ Seen(m, row.basis) # {}
                      /\ row.reproductions = 1 => SeenTwice(m, row.basis)
    BY <1>1 DEF RowsSeen, Seen, SeenTwice
  <2>1. CASE row = source[m]
    BY <2>1 DEF SInv, RowsSeen
  <2>2. CASE row = file'[m]
    <3>1. row = CheckpointRow(m)
      BY <2>2 DEF Checkpoint
    <3>2. /\ results[m] # None /\ row.basis = results[m].basis /\ results[m].status = "wallClock"
          /\ row.reproductions = 0
      BY <3>1 DEF CheckpointRow, Row
    <3> QED BY <1>1, <3>2, WrittenSeen
  <2> QED BY <1>1, <2>1, <2>2
<1> QED BY <1>2, <1>3 DEF SInv

\* The report says reproduced of a timeout with evidence.
LEMMA ReportSInv == ASSUME TInv, HInv, SInv, Report PROVE SInv'
<1>1. UNCHANGED <<source, sandbox, timeouts, runs>> /\ phase = "running" /\ EndRun
  BY DEF Report
<1>2. TimeoutsSeen' /\ Dated'
  BY <1>1 DEF EndRun, NoResults, SInv, TimeoutsSeen, Dated
<1>3. RowsSeen'
  <2> SUFFICES ASSUME NEW m \in Mutants, NEW row \in {file'[m], source'[m]} \ {None},
                      row.status = "wallClock"
               PROVE  /\ Seen(m, row.basis) # {}
                      /\ row.reproductions = 1 => SeenTwice(m, row.basis)
    BY <1>1 DEF RowsSeen, Seen, SeenTwice
  <2>1. CASE row = source[m]
    BY <2>1 DEF SInv, RowsSeen
  <2>2. CASE row = file'[m]
    <3>1. m \in scope /\ row = ReportRow(m)
      BY <2>2 DEF Report
    <3>2. results[m] # None
      BY <3>1 DEF Report
    <3>3. /\ row.basis = results[m].basis /\ results[m].status = "wallClock"
          /\ row.reproductions = 1 => m \in evidence
      BY <3>1, <3>2 DEF ReportRow, Row, Reproductions
    <3> QED BY <1>1, <3>2, <3>3, WrittenSeen
  <2> QED BY <1>1, <2>1, <2>2
<1> QED BY <1>2, <1>3 DEF SInv

\* A run that stops forgets its results, not what was seen.
LEMMA StopSInv == ASSUME SInv, Stop PROVE SInv'
<1>1. UNCHANGED <<file, source, timeouts, runs>> /\ EndRun
  BY DEF Stop, history_vars
<1>2. RowsSeen'
  BY <1>1 DEF SInv, RowsSeen, Seen, SeenTwice
<1>3. TimeoutsSeen' /\ Dated'
  BY <1>1 DEF EndRun, NoResults, SInv, TimeoutsSeen, Dated
<1> QED BY <1>2, <1>3 DEF SInv

\* Every step keeps timeouts backed by what was seen.
LEMMA NextSInv == TInv /\ HInv /\ SInv /\ [Next]_vars => SInv'
<1> SUFFICES ASSUME TInv, HInv, SInv, [Next]_vars PROVE SInv'
  OBVIOUS
<1>1. CASE UNCHANGED vars
  BY <1>1, SeenStays DEF vars, run_vars, history_vars
<1>2. CASE Edit
  BY <1>2, SeenStays DEF Edit, run_vars, history_vars
<1>3. CASE CopyReport
  BY <1>3, SeenStays DEF CopyReport, run_vars, history_vars
<1>4. CASE Next
  BY <1>2, <1>3, <1>4, StartSInv, DecideSInv, SettleSInv, CheckpointSInv, ReportSInv, StopSInv
  DEF Next
<1> QED BY <1>1, <1>4

\* When nobody edits the project during a run, a wall-clock timeout is kept
\* only when two runs have seen it on the content as it is
\* (isUnreproducedWallClockTimeout, timeoutFieldsOf).
THEOREM TimeoutsReproduced == ASSUME ~EditsMidRun PROVE Spec => []TimeoutReproduced
<1>1. Init => TInv /\ HInv /\ SInv
  BY InitTInv, InitHInv, InitSInv
<1>2. TInv /\ HInv /\ SInv /\ [Next]_vars => (TInv /\ HInv /\ SInv)'
  BY NextTInv, NextHInv, NextSInv
<1>3. TInv /\ SInv => TimeoutReproduced
  <2> SUFFICES ASSUME TInv, SInv, NEW m \in remembered, results[m].status = "wallClock"
               PROVE  Cardinality({t \in timeouts[m] : Unchanged(m, "wallClock", t.basis)}) >= 2
    BY DEF TimeoutReproduced
  <2> DEFINE S == {t \in timeouts[m] : Unchanged(m, "wallClock", t.basis)}
  <2>1. m \in Mutants
    BY DEF TInv, TypeOK
  <2>2. PICK t, u : t \in S /\ u \in S /\ t # u
    BY <2>1 DEF SInv, TimeoutsSeen, SeenTwice, Seen, BasisOf, Unchanged
  <2>3. IsFiniteSet(S)
    BY <2>1, FS_Subset DEF SInv, Dated
  <2>4. Cardinality({t, u}) = 2
    <3>1. Cardinality({t}) = 1 /\ IsFiniteSet({t})
      BY FS_Singleton
    <3>2. Cardinality({t} \cup {u}) = Cardinality({t}) + 1
      BY <2>2, <3>1, FS_AddElement
    <3>3. {t} \cup {u} = {t, u}
      OBVIOUS
    <3> QED BY <3>1, <3>2, <3>3
  <2>5. {t, u} \subseteq S
    BY <2>2
  <2> HIDE DEF S
  <2>6. Cardinality({t, u}) <= Cardinality(S) /\ Cardinality(S) \in Nat
    BY <2>3, <2>5, FS_Subset, FS_CardinalityType
  <2> QED BY <2>4, <2>6 DEF S
<1> QED BY <1>1, <1>2, <1>3, PTL DEF Spec

-----------------------------------------------------------------------------
(* What the last report holds and can be kept, is kept.                    *)

\* The report has what the history says it has, with all a later decision asks for.
ReportHas ==
  \A m \in Mutants :
    verdicts[m] # None /\ verdicts[m].saved = "report" =>
      /\ file[m] # None
      /\ file[m].status = verdicts[m].status
      /\ file[m].basis = verdicts[m].basis
      /\ verdicts[m].keyed =>
           /\ file[m].closure # None /\ ~file[m].forced
           /\ file[m].status = "CompileError" => file[m].program # None
      /\ verdicts[m].again /\ file[m].status = "wallClock" => file[m].reproductions = 1

\* A second timeout in a row, kept or of this run, has its evidence.
RunHas ==
  \A m \in Mutants :
    /\ results[m] # None /\ results[m].status = "wallClock"
    /\ m \in remembered \/ verdicts[m].again
    => m \in evidence

\* So would one that is still to come.
Foreseen ==
  phase = "running" =>
    \A m \in scope : results[m] = None /\ NewVerdict(m, "wallClock").again => m \in evidence

NoCopy == source = NoResults

KInv == copies = 0 => NoCopy /\ ReportHas /\ RunHas /\ Foreseen

\* There is no report and no history.
LEMMA InitKInv == Init => KInv
BY DEF Init, KInv, NoCopy, ReportHas, RunHas, Foreseen, NoResults

\* A keyed verdict of the last report on unchanged content matches.
LEMMA KeyedMatches ==
  ASSUME TInv, HInv, KInv, copies = 0, Decide, NEW m \in Mutants,
         verdicts[m] # None, verdicts[m].saved = "report", verdicts[m].keyed,
         Unchanged(m, verdicts[m].status, verdicts[m].basis),
         Keyed(m, verdicts[m].status, digests')
  PROVE  file[m] # None /\ file[m].status = verdicts[m].status /\ KeyMatches(file[m], m, digests')
<1>1. /\ file[m] # None /\ file[m].status = verdicts[m].status
      /\ file[m].basis = verdicts[m].basis /\ file[m].closure # None /\ ~file[m].forced
      /\ file[m].status = "CompileError" => file[m].program # None
  BY DEF KInv, ReportHas
<1>2. file[m].status # "Pending"
  BY <1>1 DEF TInv, TypeOK, Verdicts, SettledStatuses
<1>3. Honest(file[m])
  BY <1>1 DEF HInv, RowsHonest
<1>4. disk = sandbox
  BY DEF Decide, HInv, Snapshot
<1>5. digests'.closure[m] = sandbox.closure[m]
  BY <1>4 DEF Decide, Keyed, NoDigests
<1>6. verdicts[m].status = "CompileError" => digests'.program = sandbox.program
  BY DEF Decide, Keyed
<1>7. digests'.closure[m] # None
  BY DEF Keyed
<1> QED BY <1>1, <1>2, <1>3, <1>4, <1>5, <1>6, <1>7 DEF KeyMatches, Honest, Unchanged

\* Where no other report is read, a matching timeout is kept or evidence.
LEMMA MatchIsEvidence ==
  ASSUME TInv, NoCopy, NEW m \in scope, NEW now, NEW flakyIds, NEW force, ~force,
         ~FlakyDependent(m, flakyIds), file[m] # None, file[m].status = "wallClock",
         KeyMatches(file[m], m, now)
  PROVE  m \in TimeoutEvidence(now, flakyIds, force)
<1>1. m \in Mutants /\ source[m] = None
  BY DEF TInv, TypeOK, NoCopy, NoResults
<1>2. file[m].reproductions \in 0..1
  BY <1>1 DEF TInv, TypeOK, Rows
<1>3. NewestMatching(m, now) = file[m] /\ Newest(m) = file[m]
  BY <1>1 DEF NewestMatching, Newest, MatchingRows
<1>4. CASE MatchingRows(m, now) # {}
  BY <1>3, <1>4 DEF TimeoutEvidence
<1>5. CASE MatchingRows(m, now) = {}
  <2>1. ~ReusableRow(file[m])
    BY <1>5 DEF MatchingRows
  <2>2. Unreproduced(file[m])
    BY <2>1 DEF ReusableRow, RememberedStatuses
  <2>3. PriorTimeout(m, now)
    BY <1>3, <2>2 DEF PriorTimeout
  <2> QED BY <1>5, <2>3 DEF TimeoutEvidence
<1> QED BY <1>4, <1>5

\* The decision finds the evidence for every timeout that would be a second one.
LEMMA DecideKInv == ASSUME TInv, HInv, KInv, Decide PROVE KInv'
<1> SUFFICES ASSUME copies = 0 PROVE (NoCopy /\ ReportHas /\ RunHas /\ Foreseen)'
  BY DEF KInv, Decide
<1>1. UNCHANGED <<file, source, sandbox, scope, verdicts>>
  BY DEF Decide, history_vars
<1>2. NoCopy' /\ ReportHas'
  BY <1>1 DEF KInv, NoCopy, ReportHas
<1>3. RunHas'
  <2> SUFFICES ASSUME NEW m \in Mutants, results'[m] # None, results'[m].status = "wallClock"
               PROVE  m \in evidence'
    BY DEF RunHas
  <2>1. m \in remembered'
    BY DEF Decide
  <2>2. m \in Kept(digests', flaky', forced')
    BY <2>1 DEF Decide
  <2>3. NewestMatching(m, digests').status = "wallClock"
    BY <2>1 DEF Decide
  <2> QED BY <2>2, <2>3 DEF Decide, Kept, TimeoutEvidence
<1>4. Foreseen'
  <2> SUFFICES ASSUME NEW m \in scope, NewVerdict(m, "wallClock").again' PROVE m \in evidence'
    BY <1>1 DEF Foreseen
  <2>1. /\ Keyed(m, "wallClock", digests') /\ ~forced' /\ ~FlakyDependent(m, flaky')
        /\ verdicts[m] # None /\ verdicts[m].status = "wallClock"
        /\ verdicts[m].saved = "report" /\ verdicts[m].keyed
        /\ Unchanged(m, "wallClock", verdicts[m].basis)
    BY <1>1 DEF NewVerdict, Unchanged
  <2>2. m \in Mutants
    BY DEF TInv, TypeOK
  <2>3. file[m] # None /\ file[m].status = "wallClock" /\ KeyMatches(file[m], m, digests')
    BY <2>1, <2>2, KeyedMatches
  <2>4. m \in TimeoutEvidence(digests', flaky', forced')
    BY <2>1, <2>3, MatchIsEvidence DEF KInv
  <2> QED BY <2>4 DEF Decide
<1> QED BY <1>2, <1>3, <1>4

\* What is settled in the run was foreseen.
LEMMA SettleKInv == ASSUME TInv, KInv, NEW m \in Mutants, Settle(m) PROVE KInv'
<1> SUFFICES ASSUME copies = 0 PROVE (NoCopy /\ ReportHas /\ RunHas /\ Foreseen)'
  BY DEF KInv, Settle
<1>1. PICK status \in Outcomes :
        /\ results' = [results EXCEPT ![m] =
             [status |-> status, basis |-> BasisOf(sandbox, m)]]
        /\ verdicts' = [verdicts EXCEPT ![m] = NewVerdict(m, status)]
  BY DEF Settle
<1>2. /\ UNCHANGED <<file, source, phase, sandbox, scope, forced, flaky, digests, remembered, evidence>>
      /\ phase = "running" /\ m \in scope /\ results[m] = None
  BY DEF Settle
<1>3. \A n \in Mutants \ {m} : results'[n] = results[n] /\ verdicts'[n] = verdicts[n]
  BY <1>1 DEF TInv, TypeOK
<1>4. results'[m].status = status /\ results'[m] # None /\ verdicts'[m] = NewVerdict(m, status)
  <2>1. status \in SettledStatuses /\ BasisOf(sandbox, m) \in Bases
    BY BasisType, ReuseAssumption DEF TInv, TypeOK
  <2>2. [status |-> status, basis |-> BasisOf(sandbox, m)] # None
    BY <2>1, NoneAssumption DEF Results
  <2> QED BY <1>1, <2>2 DEF TInv, TypeOK
<1>5. NoCopy' /\ ReportHas'
  <2>1. verdicts'[m].saved = "no"
    BY <1>4 DEF NewVerdict
  <2> QED BY <1>2, <1>3, <2>1 DEF KInv, NoCopy, ReportHas
<1>6. RunHas'
  <2>1. status = "wallClock" /\ NewVerdict(m, status).again => m \in evidence
    BY <1>2 DEF KInv, Foreseen
  <2>2. m \notin remembered
    BY <1>2, NoneAssumption DEF TInv, Settled
  <2> QED BY <1>2, <1>3, <1>4, <2>1, <2>2 DEF KInv, RunHas
<1>7. Foreseen'
  <2>1. \A n \in scope \ {m} : NewVerdict(n, "wallClock").again' <=> NewVerdict(n, "wallClock").again
    BY <1>2, <1>3 DEF NewVerdict, Keyed, FlakyDependent, Unchanged, TInv, TypeOK
  <2>2. scope \subseteq Mutants
    BY DEF TInv, TypeOK
  <2> QED BY <1>2, <1>3, <1>4, <2>1, <2>2 DEF KInv, Foreseen
<1> QED BY <1>5, <1>6, <1>7

\* A checkpoint takes the place of the report.
LEMMA CheckpointKInv == ASSUME TInv, KInv, Checkpoint PROVE KInv'
<1> SUFFICES ASSUME copies = 0 PROVE (NoCopy /\ ReportHas /\ RunHas /\ Foreseen)'
  BY DEF KInv, Checkpoint
<1>1. UNCHANGED <<source, run_vars>>
  BY DEF Checkpoint
<1>2. \A m \in Mutants :
        /\ verdicts[m] = None => verdicts'[m] = None
        /\ verdicts[m] # None =>
             /\ verdicts'[m].saved \in {"no", "checkpoint"}
             /\ results[m] = None => verdicts'[m].saved = "no"
             /\ verdicts'[m].again = verdicts[m].again
  BY DEF Checkpoint, TInv, TypeOK, Verdicts
<1>3. NoCopy' /\ ReportHas'
  BY <1>1, <1>2 DEF KInv, NoCopy, ReportHas
<1>4. RunHas'
  <2> SUFFICES ASSUME NEW m \in Mutants, results[m] # None, results[m].status = "wallClock",
                      m \in remembered \/ verdicts'[m].again
               PROVE  m \in evidence
    BY <1>1 DEF RunHas, run_vars
  <2>1. CASE m \in remembered
    BY <2>1 DEF KInv, RunHas
  <2>2. CASE m \notin remembered
    <3>1. verdicts[m] # None
      BY <2>2, NoneAssumption DEF TInv, Settled
    <3> QED BY <1>2, <2>2, <3>1 DEF KInv, RunHas
  <2> QED BY <2>1, <2>2
<1>5. Foreseen'
  <2> SUFFICES ASSUME NEW m \in scope, results[m] = None, NewVerdict(m, "wallClock").again'
               PROVE  FALSE
    BY <1>1 DEF Foreseen, run_vars
  <2>1. verdicts'[m] # None /\ verdicts'[m].saved = "report"
    BY DEF NewVerdict
  <2> QED BY <1>2, <2>1 DEF TInv, TypeOK
<1> QED BY <1>3, <1>4, <1>5

\* An ended run has nothing left to settle.
LEMMA EndRunForeseen == ASSUME EndRun PROVE RunHas' /\ Foreseen'
BY DEF EndRun, RunHas, Foreseen, NoResults

\* The complete report carries what a later decision asks for.
LEMMA ReportKInv == ASSUME TInv, KInv, Report PROVE KInv'
<1> SUFFICES ASSUME copies = 0 PROVE (NoCopy /\ ReportHas /\ RunHas /\ Foreseen)'
  BY DEF KInv, Report
<1>1. UNCHANGED source /\ EndRun
  BY DEF Report
<1>2. ReportHas'
  <2> SUFFICES ASSUME NEW m \in Mutants, verdicts'[m] # None, verdicts'[m].saved = "report"
               PROVE  /\ file'[m] # None
                      /\ file'[m].status = verdicts'[m].status
                      /\ file'[m].basis = verdicts'[m].basis
                      /\ verdicts'[m].keyed =>
                           /\ file'[m].closure # None /\ ~file'[m].forced
                           /\ file'[m].status = "CompileError" => file'[m].program # None
                      /\ verdicts'[m].again /\ file'[m].status = "wallClock"
                           => file'[m].reproductions = 1
    BY DEF ReportHas
  <2>1. m \in scope
    <3> SUFFICES ASSUME m \notin scope PROVE FALSE
      OBVIOUS
    <3>1. verdicts'[m] = Unsaved(m)
      BY DEF Report
    <3> QED BY <3>1 DEF Unsaved, TInv, TypeOK, Verdicts
  <2>2. results[m] # None
    BY <2>1 DEF Report
  <2> DEFINE again == IF m \in remembered THEN results[m].status = "wallClock"
                                          ELSE verdicts[m].again
              keyed == Keyed(m, results[m].status, digests) /\ ~forced
  <2>3. verdicts'[m] =
          [status |-> results[m].status, basis |-> results[m].basis, saved |-> "report",
           keyed |-> keyed, again |-> again]
    BY <2>1, Zenon DEF Report
  <2>4. /\ verdicts'[m].status = results[m].status /\ verdicts'[m].basis = results[m].basis
        /\ verdicts'[m].keyed = keyed /\ verdicts'[m].again = again
    <3> HIDE DEF again, keyed
    <3> QED BY <2>3
  <2>5. file'[m] = ReportRow(m)
    BY <2>1 DEF Report
  <2>6. /\ ReportRow(m).status = results[m].status /\ ReportRow(m).basis = results[m].basis
        /\ ReportRow(m).closure = digests.closure[m] /\ ReportRow(m).forced = forced
        /\ results[m].status = "CompileError" => ReportRow(m).program = digests.program
        /\ ReportRow(m).reproductions = Reproductions(m, results[m].status)
    BY <2>2 DEF ReportRow, Row
  <2>7. ReportRow(m) # None
    <3>1. results[m].status \in SettledStatuses
      BY <2>2 DEF TInv, TypeOK, Results
    <3>2. digests.closure[m] \in Versions \cup {None} /\ digests.program \in Versions \cup {None}
      BY DEF TInv, TypeOK
    <3>3. Reproductions(m, results[m].status) \in 0..1
      BY DEF Reproductions
    <3>4. ReportRow(m) \in Rows
      BY <3>1, <3>2, <3>3, RowType DEF TInv, ReportRow
    <3> QED BY <3>4, NoneAssumption
  <2>8. again /\ results[m].status = "wallClock" => m \in evidence
    BY <2>2 DEF KInv, RunHas
  <2>9. verdicts'[m].again /\ results[m].status = "wallClock" => Reproductions(m, results[m].status) = 1
    <3> HIDE DEF again
    <3> QED BY <2>4, <2>8, Zenon DEF Reproductions
  <2>10. verdicts'[m].keyed =>
           /\ digests.closure[m] # None /\ ~forced
           /\ results[m].status = "CompileError" => digests.program # None
    BY <2>4, Zenon DEF Keyed
  <2> HIDE DEF again, keyed
  <2> QED BY <2>4, <2>5, <2>6, <2>7, <2>9, <2>10
<1> QED BY <1>1, <1>2, EndRunForeseen DEF KInv, NoCopy

\* Every other step leaves the report and the history as they are.
LEMMA HistoryStays ==
  ASSUME KInv, UNCHANGED <<file, verdicts>>, copies' = 0 => copies = 0 /\ UNCHANGED source,
         \/ RunHas' /\ Foreseen'
         \/ UNCHANGED <<phase, sandbox, scope, forced, flaky, digests, remembered, evidence, results>>
  PROVE  KInv'
BY DEF KInv, NoCopy, ReportHas, RunHas, Foreseen, NewVerdict, Keyed, Unchanged, FlakyDependent

\* Every step keeps the report and the history together.
LEMMA NextKInv == TInv /\ HInv /\ KInv /\ [Next]_vars => KInv'
<1> SUFFICES ASSUME TInv, HInv, KInv, [Next]_vars PROVE KInv'
  OBVIOUS
<1>1. CASE UNCHANGED vars
  BY <1>1, HistoryStays DEF vars, run_vars, history_vars
<1>2. CASE Edit
  BY <1>2, HistoryStays DEF Edit, run_vars, history_vars
<1>3. CASE CopyReport
  <2>1. copies' # 0
    BY <1>3 DEF CopyReport, TInv, TypeOK
  <2> QED BY <2>1 DEF KInv
<1>4. CASE Start
  <2>1. RunHas' /\ Foreseen'
    BY <1>4 DEF Start, TInv, Quiet, RunHas, Foreseen, NoResults
  <2> QED BY <1>4, <2>1, HistoryStays DEF Start, history_vars
<1>5. CASE Stop
  BY <1>5, EndRunForeseen, HistoryStays DEF Stop, history_vars
<1>6. CASE Next
  BY <1>2, <1>3, <1>4, <1>5, <1>6, DecideKInv, SettleKInv, CheckpointKInv, ReportKInv DEF Next
<1> QED BY <1>1, <1>6

\* When nobody edits the project during a run and no other report is read, a
\* run keeps every reusable verdict on unchanged content that the last complete
\* report holds (timeoutFieldsOf, stampClosureDigests, reportAll).
THEOREM KeepsWhatItCan == ASSUME ~EditsMidRun PROVE Spec => ReportedReused
<1>1. Init => TInv /\ HInv /\ KInv
  BY InitTInv, InitHInv, InitKInv
<1>2. TInv /\ HInv /\ KInv /\ [Next]_vars => (TInv /\ HInv /\ KInv)'
  BY NextTInv, NextHInv, NextKInv
<1>3. TInv /\ HInv /\ KInv /\ [Next]_vars => [Decide /\ copies = 0 => KeepsDue({"report"})]_vars
  <2> SUFFICES ASSUME TInv, HInv, KInv, Decide, copies = 0, NEW m \in scope, Due(m, {"report"}),
                      Keyed(m, verdicts[m].status, digests'),
                      ~forced', ~FlakyDependent(m, flaky')
               PROVE  m \in remembered'
    BY DEF KeepsDue
  <2>1. m \in Mutants
    BY DEF TInv, TypeOK
  <2>2. /\ file[m] # None /\ file[m].status = verdicts[m].status
        /\ KeyMatches(file[m], m, digests')
    <3>1. /\ verdicts[m] # None /\ verdicts[m].saved = "report" /\ verdicts[m].keyed
          /\ Unchanged(m, verdicts[m].status, verdicts[m].basis)
      BY DEF Due
    <3> QED BY <2>1, <3>1, KeyedMatches
  <2>3. ReusableRow(file[m])
    BY <2>1, <2>2 DEF Due, KInv, ReportHas, ReusableRow, Unreproduced
  <2>4. m \in Kept(digests', flaky', forced')
    BY <2>2, <2>3 DEF Kept, MatchingRows
  <2> QED BY <2>4 DEF Decide
<1> QED BY <1>1, <1>2, <1>3, PTL DEF Spec, ReportedReused

-----------------------------------------------------------------------------
(* The writer of checkpoints, for every finite set of mutants.  The number of *)
(* mutants written tells whether the report is behind, since the sets written *)
(* only ever grow.                                                          *)

\* No write holds more than was settled when it was read.
Counted == written <= Cardinality(snapshot)

\* What the fiber wrote last is in the report, unless that write failed.
Landed ==
  ~lost =>
    /\ stage = "open" /\ writer \in {"ready", "waiting", "pausing"} => report = snapshot
    /\ stage = "open" /\ writer = "writing" => written <= Cardinality(report)
    /\ writer = "done" => report = snapshot

\* A write under way does not take anything back.
Forward == writer = "writing" => report \subseteq snapshot

\* The finalizer writes all that is settled.
LastWrite == stage = "closing" /\ writer \in {"writing", "done"} => snapshot = completed

\* The fiber ends only when the scope closes.
Working == stage = "open" => writer # "ended"

WriterInv ==
  /\ WriterTypeOK
  /\ Working
  /\ Counted
  /\ Landed
  /\ Forward
  /\ LastWrite
  /\ ClosedComplete

-----------------------------------------------------------------------------
\* Sets of mutants are finite, and a part as large as the whole is the whole.
LEMMA Counting ==
  ASSUME NEW S \in SUBSET Planned, NEW T \in SUBSET S
  PROVE  /\ Cardinality(S) \in Nat /\ Cardinality(T) \in Nat
         /\ Cardinality(T) <= Cardinality(S)
         /\ Cardinality(T) >= Cardinality(S) => T = S
<1>1. IsFiniteSet(S)
  BY WriterAssumption, FS_Subset
<1>2. IsFiniteSet(T) /\ Cardinality(T) <= Cardinality(S)
      /\ (Cardinality(S) = Cardinality(T) => S = T)
  BY <1>1, FS_Subset
<1>3. Cardinality(S) \in Nat /\ Cardinality(T) \in Nat
  BY <1>1, <1>2, FS_CardinalityType
<1> QED BY <1>2, <1>3

\* The report is empty and nothing has been written.
LEMMA InitWriterInv == WriterInit => WriterInv
<1> SUFFICES ASSUME WriterInit PROVE WriterInv
  OBVIOUS
<1>1. Cardinality({}) = 0
  BY FS_EmptySet
<1>2. Cardinality(completed) \in Nat
  BY WriterAssumption, Counting DEF WriterInit
<1>3. WriterTypeOK
  <2>1. mutant \in [Planned -> {"running", "announced", "updated", "recorded"}]
    BY DEF WriterInit
  <2>2. written \in -1 .. Cardinality(completed) /\ completed \subseteq Planned
    BY <1>2, WriterAssumption DEF WriterInit
  <2> QED BY <2>1, <2>2 DEF WriterInit, WriterTypeOK
<1>4. Working /\ Counted /\ Landed /\ Forward /\ LastWrite /\ ClosedComplete
  BY <1>1 DEF WriterInit, Working, Counted, Landed, Forward, LastWrite, ClosedComplete
<1> QED BY <1>3, <1>4 DEF WriterInv

\* A mutant is announced, recorded or signals; only completed grows, while open.
LEMMA MutantStepWriterInv ==
  ASSUME WriterInv, NEW m \in Planned, MutantStep(m) PROVE WriterInv'
<1> USE DEF WriterInv
<1>1. /\ stage = "open"
      /\ UNCHANGED <<stage, writer, snapshot, written, report, lost>>
      /\ completed' \in {completed, completed \cup {m}}
      /\ signal' \in {signal, TRUE}
  BY DEF MutantStep, Announce, Record, Offer
<1>2. mutant' \in [Planned -> {"running", "announced", "updated", "recorded"}]
  BY DEF MutantStep, Announce, Record, Offer, WriterTypeOK
<1>3. /\ completed' \subseteq Planned /\ completed \subseteq completed'
      /\ Cardinality(completed) <= Cardinality(completed')
      /\ Cardinality(completed) \in Nat /\ Cardinality(completed') \in Nat
  BY <1>1, Counting DEF WriterTypeOK
<1>4. WriterTypeOK'
  <2>1. written' \in -1 .. Cardinality(completed')
    BY <1>1, <1>3 DEF WriterTypeOK
  <2> QED BY <1>1, <1>2, <1>3, <2>1 DEF WriterTypeOK
<1>5. Working' /\ Counted' /\ Landed' /\ Forward' /\ LastWrite' /\ ClosedComplete'
  BY <1>1 DEF Working, Counted, Landed, Forward, LastWrite, ClosedComplete
<1> QED BY <1>4, <1>5

\* Each step of the writer.
LEMMA WriterStepWriterInv == ASSUME WriterInv, WriterStep PROVE WriterInv'
<1> USE DEF WriterInv
<1>0. /\ snapshot \subseteq completed /\ report \subseteq completed /\ completed \subseteq Planned
      /\ Cardinality(completed) \in Nat /\ Cardinality(snapshot) \in Nat
      /\ Cardinality(snapshot) <= Cardinality(completed)
  BY Counting DEF WriterTypeOK
<1>1. CASE Take
  <2>1. WriterTypeOK'
    BY <1>1 DEF Take, WriterTypeOK
  <2>2. Working' /\ Counted' /\ Landed' /\ Forward' /\ LastWrite' /\ ClosedComplete'
    BY <1>1 DEF Take, Working, Counted, Landed, Forward, LastWrite, ClosedComplete
  <2> QED BY <2>1, <2>2
<1>2. CASE Read
  <2>1. WriterTypeOK'
    BY <1>2 DEF Read, WriterTypeOK
  <2>2. Counted'
    BY <1>0, <1>2 DEF Read, Counted, WriterTypeOK
  <2>3. Landed'
    BY <1>2 DEF Read, Landed, Counted
  <2>4. Working' /\ Forward' /\ LastWrite' /\ ClosedComplete'
    BY <1>0, <1>2 DEF Read, Working, Forward, LastWrite, ClosedComplete
  <2> QED BY <2>1, <2>2, <2>3, <2>4
<1>3. CASE Write
  <2>1. WriterTypeOK'
    BY <1>3 DEF Write, WriterTypeOK
  <2>2. Working' /\ Counted' /\ Landed' /\ Forward' /\ LastWrite' /\ ClosedComplete'
    BY <1>3 DEF Write, Working, Counted, Landed, Forward, LastWrite, ClosedComplete
  <2> QED BY <2>1, <2>2
<1>4. CASE Mark
  <2>1. /\ written' = Cardinality(snapshot) /\ written' \in -1 .. Cardinality(completed)
        /\ stage' \in {"open", "closed"} /\ writer' \in {"waiting", "pausing", "ended"}
    BY <1>0, <1>4 DEF Mark, NextPlace
  <2>2. WriterTypeOK'
    BY <1>4, <2>1 DEF Mark, WriterTypeOK
  <2>3. Working' /\ Counted' /\ Landed' /\ Forward' /\ LastWrite'
    BY <1>0, <1>4, <2>1 DEF Mark, NextPlace, Working, Counted, Landed, Forward, LastWrite
  <2>4. ClosedComplete'
    BY <1>4 DEF Mark, NextPlace, Landed, LastWrite, ClosedComplete
  <2> QED BY <2>2, <2>3, <2>4
<1>5. CASE Wake
  <2>1. WriterTypeOK'
    BY <1>5 DEF Wake, WriterTypeOK
  <2>2. Working' /\ Counted' /\ Landed' /\ Forward' /\ LastWrite' /\ ClosedComplete'
    BY <1>5 DEF Wake, Working, Counted, Landed, Forward, LastWrite, ClosedComplete
  <2> QED BY <2>1, <2>2
<1> QED BY <1>1, <1>2, <1>3, <1>4, <1>5 DEF WriterStep

\* When the writer is not behind, the report it wrote last is complete.
LEMMA CloseWriterInv == ASSUME WriterInv, Close PROVE WriterInv'
<1> USE DEF WriterInv
<1>1. /\ stage = "open" /\ stage' \in {"closing", "closed"} /\ writer' \in {"ready", "ended"}
      /\ UNCHANGED <<mutant, completed, signal, snapshot, written>>
  BY DEF Close
<1>2. report' \subseteq completed
  BY DEF Close, WriterTypeOK
<1>3. WriterTypeOK'
  BY <1>1, <1>2, Zenon DEF WriterTypeOK, Close
<1>4. Working' /\ Counted' /\ Forward' /\ LastWrite'
  BY <1>1 DEF Working, Counted, Forward, LastWrite
<1>5. Landed'
  BY <1>1 DEF Landed
<1>6. ClosedComplete'
  <2> SUFFICES ASSUME stage' = "closed", ~lost' PROVE report' = completed
    BY <1>1 DEF ClosedComplete
  <2>1. Cardinality(completed) = written
    BY DEF Close, Behind
  <2>2. \A T \in SUBSET completed : written <= Cardinality(T) => T = completed
    BY <2>1, Counting DEF WriterTypeOK
  <2>3. snapshot = completed
    BY <2>2 DEF Counted, WriterTypeOK
  <2>4. CASE writer = "writing" /\ report' = snapshot
    BY <2>3, <2>4
  <2>5. CASE writer = "writing" /\ report' = report
    <3>1. ~lost
      BY <2>5 DEF Close
    <3> QED BY <1>1, <2>2, <2>5, <3>1 DEF Landed, WriterTypeOK
  <2>6. CASE writer # "writing"
    <3>1. report' = report /\ ~lost
      BY <2>6 DEF Close
    <3>2. writer # "ended"
      BY <1>1 DEF Working
    <3> QED BY <1>1, <2>3, <2>6, <3>1, <3>2 DEF Landed, WriterTypeOK
  <2> QED BY <2>4, <2>5, <2>6 DEF Close
<1> QED BY <1>3, <1>4, <1>5, <1>6

\* Every step keeps the invariant.
LEMMA NextWriterInv == WriterInv /\ [WriterNext]_writer_vars => WriterInv'
<1> SUFFICES ASSUME WriterInv, [WriterNext]_writer_vars PROVE WriterInv'
  OBVIOUS
<1>1. CASE UNCHANGED writer_vars
  BY <1>1 DEF WriterInv, writer_vars, WriterTypeOK, Working, Counted, Landed, Forward, LastWrite, ClosedComplete
<1>2. CASE Kill
  BY <1>2 DEF Kill, WriterInv, WriterTypeOK, Working, Counted, Landed, Forward, LastWrite, ClosedComplete
<1>3. CASE WriterNext
  BY <1>1, <1>2, <1>3, MutantStepWriterInv, WriterStepWriterInv, CloseWriterInv
     DEF WriterNext, Finish, Interrupt, Ended
<1> QED BY <1>1, <1>3

\* What holds in every state.
LEMMA WriterInductive == WriterSpec => []WriterInv
BY InitWriterInv, NextWriterInv, PTL DEF WriterSpec

\* Every variable of the writer stays in its type (makeCheckpointWriter).
THEOREM WriterTypeCorrect == WriterSpec => []WriterTypeOK
<1>1. WriterInv => WriterTypeOK
  BY DEF WriterInv
<1> QED BY <1>1, WriterInductive, PTL

\* After a close every settled mutant is in the report, unless the write that
\* should have put it there failed (writeIfBehind).
THEOREM ClosingCompletes == WriterSpec => []ClosedComplete
<1>1. WriterInv => ClosedComplete
  BY DEF WriterInv
<1> QED BY <1>1, WriterInductive, PTL

\* The report never goes back to an older one (writeLatest, the order of
\* addFinalizer and forkScoped).
THEOREM NeverBack == WriterSpec => FileGrows
<1>1. WriterInv /\ [WriterNext]_writer_vars => [report \subseteq report']_report
  <2> SUFFICES ASSUME WriterInv, [WriterNext]_writer_vars, report' # report PROVE report \subseteq report'
    OBVIOUS
  <2>1. Write \/ Close
    BY DEF WriterNext, writer_vars, MutantStep, Announce, Record, Offer, WriterStep, Take, Read, Mark,
           Wake, Finish, Interrupt, Kill, Ended
  <2>2. writer = "writing" /\ report' = snapshot
    BY <2>1 DEF Write, Close
  <2> QED BY <2>2 DEF WriterInv, Forward
<1> QED BY <1>1, WriterInductive, PTL DEF WriterSpec, FileGrows
=============================================================================
