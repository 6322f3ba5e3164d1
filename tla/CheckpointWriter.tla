-------------------------- MODULE CheckpointWriter --------------------------
(***************************************************************************)
(* makeCheckpointWriter of run/mutant-run.ts: one fiber rewrites the        *)
(* incremental report in the background while mutants settle, at most once  *)
(* a second, and a finalizer of the stage's scope writes what is missing    *)
(* when the mutants are done, the stage fails or the run is interrupted.    *)
(*                                                                         *)
(* A write takes the settled mutants at one time and puts them in the file   *)
(* at a later one.  The finalizer is registered before the fiber is forked,  *)
(* so the fiber has ended when it runs.                                     *)
(***************************************************************************)
EXTENDS Integers, FiniteSets

CONSTANTS Planned,        \* the mutants of the plan
          SettledBefore,  \* those settled before the writer is made
          MayFail         \* whether a write may fail

ASSUME WriterAssumption ==
  /\ IsFiniteSet(Planned)
  /\ SettledBefore \subseteq Planned
  /\ MayFail \in BOOLEAN

VARIABLES
  stage,     \* opening, open, closing, closed or killed
  mutant,    \* where the fiber of each mutant stands
  completed, \* the Ref of settled mutants
  signal,    \* whether the sliding queue of one holds a signal
  writer,    \* where the writing fiber stands
  snapshot,  \* the mutants it is writing
  written,   \* the Ref with the number of mutants written last
  report,    \* the mutants the incremental report holds
  lost       \* history: the last write failed

writer_vars == <<stage, mutant, completed, signal, writer, snapshot, written, report, lost>>

WriterInit ==
  /\ stage = "opening"
  /\ mutant = [m \in Planned |-> IF m \in SettledBefore THEN "recorded" ELSE "running"]
  /\ completed = SettledBefore
  /\ signal = FALSE
  /\ writer = "ready"
  /\ snapshot = {}
  /\ written = -1
  /\ report = {}
  /\ lost = FALSE

-----------------------------------------------------------------------------
(* settleMutantRun and settleChecked: a mutant is announced, then recorded. *)

Announce(m) ==
  /\ stage = "open"
  /\ mutant[m] = "running"
  /\ mutant' = [mutant EXCEPT ![m] = "announced"]
  /\ UNCHANGED <<stage, completed, signal, writer, snapshot, written, report, lost>>

Record(m) ==
  /\ stage = "open"
  /\ mutant[m] = "announced"
  /\ mutant' = [mutant EXCEPT ![m] = "updated"]
  /\ completed' = completed \cup {m}
  /\ UNCHANGED <<stage, signal, writer, snapshot, written, report, lost>>

\* A signal that is already waiting is replaced by this one.
Offer(m) ==
  /\ stage = "open"
  /\ mutant[m] = "updated"
  /\ mutant' = [mutant EXCEPT ![m] = "recorded"]
  /\ signal' = TRUE
  /\ UNCHANGED <<stage, completed, writer, snapshot, written, report, lost>>

-----------------------------------------------------------------------------
(* writeLatest, run on opening, by the fiber and on closing.               *)

Take ==
  /\ stage = "open"
  /\ writer = "waiting"
  /\ signal
  /\ signal' = FALSE
  /\ writer' = "ready"
  /\ UNCHANGED <<stage, mutant, completed, snapshot, written, report, lost>>

\* Faulty: only what the report does not hold yet is written.
ReadNew ==
  /\ stage \in {"opening", "open", "closing"}
  /\ writer = "ready"
  /\ writer' = "writing"
  /\ snapshot' = completed \ report
  /\ UNCHANGED <<stage, mutant, completed, signal, written, report, lost>>

Read ==
  /\ stage \in {"opening", "open", "closing"}
  /\ writer = "ready"
  /\ writer' = "writing"
  /\ snapshot' = completed
  /\ UNCHANGED <<stage, mutant, completed, signal, written, report, lost>>

\* The file is replaced by a rename, or a failure is logged and forgotten.
Write ==
  /\ stage \in {"opening", "open", "closing"}
  /\ writer = "writing"
  /\ \/ report' = snapshot /\ lost' = FALSE
     \/ MayFail /\ report' = report /\ lost' = TRUE
  /\ writer' = "done"
  /\ UNCHANGED <<stage, mutant, completed, signal, snapshot, written>>

\* The writer is open once the first write is over, pauses after each of the
\* fiber's, and is closed after the finalizer's.
NextPlace ==
  \/ stage = "opening" /\ stage' = "open" /\ writer' = "waiting"
  \/ stage = "open" /\ stage' = "open" /\ writer' = "pausing"
  \/ stage = "closing" /\ stage' = "closed" /\ writer' = "ended"

\* Faulty: mutants that settled during the write count as written.
MarkCompleted ==
  /\ stage \in {"opening", "open", "closing"}
  /\ writer = "done"
  /\ written' = Cardinality(completed)
  /\ NextPlace
  /\ UNCHANGED <<mutant, completed, signal, snapshot, report, lost>>

\* Faulty: signals that came during the write are drained after it.
MarkDraining ==
  /\ stage \in {"opening", "open", "closing"}
  /\ writer = "done"
  /\ written' = Cardinality(snapshot)
  /\ signal' = FALSE
  /\ NextPlace
  /\ UNCHANGED <<mutant, completed, snapshot, report, lost>>

\* Ref.set(written) with the number of mutants of the write.
Mark ==
  /\ stage \in {"opening", "open", "closing"}
  /\ writer = "done"
  /\ written' = Cardinality(snapshot)
  /\ NextPlace
  /\ UNCHANGED <<mutant, completed, signal, snapshot, report, lost>>

\* MIN_PAUSE_BETWEEN_CHECKPOINT_WRITES is over.
Wake ==
  /\ stage = "open"
  /\ writer = "pausing"
  /\ writer' = "waiting"
  /\ UNCHANGED <<stage, mutant, completed, signal, snapshot, written, report, lost>>

-----------------------------------------------------------------------------
(* The scope closes.                                                       *)

Behind == Cardinality(completed) # written

\* The writing fiber is interrupted wherever it is; a rename under way has
\* happened or not.  Then the finalizer runs writeIfBehind.
Close ==
  /\ stage = "open"
  /\ report' \in {report} \cup (IF writer = "writing" THEN {snapshot} ELSE {})
  /\ lost' = (lost /\ report' = report)
  /\ IF Behind THEN stage' = "closing" /\ writer' = "ready"
               ELSE stage' = "closed" /\ writer' = "ended"
  /\ UNCHANGED <<mutant, completed, signal, snapshot, written>>

AllRecorded == \A m \in Planned : mutant[m] = "recorded"

\* Every mutant has settled.
Finish == AllRecorded /\ Close

\* The stage fails, or the run is interrupted.
Interrupt == ~AllRecorded /\ Close

\* The process is killed.
Kill ==
  /\ stage \in {"opening", "open", "closing"}
  /\ stage' = "killed"
  /\ UNCHANGED <<mutant, completed, signal, writer, snapshot, written, report, lost>>

Ended == stage \in {"closed", "killed"} /\ UNCHANGED writer_vars

MutantStep(m) == Announce(m) \/ Record(m) \/ Offer(m)
WriterStep == Take \/ Read \/ Write \/ Mark \/ Wake

WriterNext ==
  \/ \E m \in Planned : MutantStep(m)
  \/ WriterStep
  \/ Finish \/ Interrupt \/ Kill
  \/ Ended

WriterSpec == WriterInit /\ [][WriterNext]_writer_vars

\* The effect scheduler runs every fiber that is ready, and timers fire.
FairWriterSpec ==
  /\ WriterSpec
  /\ WF_writer_vars(WriterStep)
  /\ \A m \in Planned : WF_writer_vars(MutantStep(m))

-----------------------------------------------------------------------------
(* The properties.                                                         *)

\* Every variable stays in its type.
WriterTypeOK ==
  /\ stage \in {"opening", "open", "closing", "closed", "killed"}
  /\ mutant \in [Planned -> {"running", "announced", "updated", "recorded"}]
  /\ completed \subseteq Planned
  /\ signal \in BOOLEAN
  /\ writer \in {"ready", "writing", "done", "pausing", "waiting", "ended"}
  /\ snapshot \subseteq completed
  /\ written \in -1 .. Cardinality(completed)
  /\ report \subseteq completed
  /\ lost \in BOOLEAN

\* The report never goes back: no write replaces it by an older one, and no
\* second writer is at work (the finalizer is registered before the fiber).
FileGrows == [][report \subseteq report']_report

\* After a close every settled mutant is in the report, unless the write that
\* should have put it there failed (writeIfBehind).
ClosedComplete == stage = "closed" /\ ~lost => report = completed

\* While the run goes on, a settled mutant gets into the report, or the write
\* fails: no signal is lost (Queue.sliding, andThen in record).
RecordedWritten ==
  \A m \in Planned : (m \in completed) ~> (m \in report \/ lost \/ stage = "killed")
=============================================================================
