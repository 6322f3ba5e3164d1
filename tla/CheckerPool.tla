----------------------------- MODULE CheckerPool -----------------------------
(***************************************************************************)
(* checker-pool.handle.ts: the mutants of a run are put to every checker in  *)
(* turn.  A checker groups them, the groups are checked concurrently on the  *)
(* slots of a pool, each of which holds a worker of every checker, and what  *)
(* passes in one group goes on to the next checker while other groups are    *)
(* still being checked.  runCheckedPlans settles what did not pass, and runs *)
(* the rest.                                                                 *)
(*                                                                         *)
(* The streams of the effect library are external: flatMap takes one result  *)
(* of a checker at a time and goes on when all that follows from it is done. *)
(***************************************************************************)
EXTENDS Integers, FiniteSets

CONSTANTS Mutants,
          Undescribable,  \* those a checker cannot be told about
          Checkers,       \* how many the options name
          Slots,          \* size of the pool
          Concurrency,    \* of runCheckedPlans
          Overlap         \* whether a checker may name a mutant in two groups

Levels == 1 .. Checkers
SlotIds == 1 .. Slots

ASSUME CheckerPoolAssumption ==
  /\ Undescribable \subseteq Mutants
  /\ Checkers \in Nat \ {0} /\ Slots \in Nat \ {0} /\ Concurrency \in Nat
  /\ Overlap \in BOOLEAN

VARIABLES
  over,      \* whether the stream goes on, is done or has failed
  slots,     \* each slot: booting, free, failed, dead or the job it works on
  level,     \* the stream of each checker, of which one is open at a time
  works,     \* the elements that came out of it
  running,   \* and those that runCheckedPlans is working on
  verdict,   \* what became of a mutant, or none
  passed,    \* history: how many checkers have passed it
  settled    \* history: how often it was settled

vars == <<over, slots, level, works, running, verdict, passed, settled>>

Slot(state) == [state |-> state, level |-> 0, asks |-> "none", plans |-> {}]
Job(i, asks, plans) == [state |-> "busy", level |-> i, asks |-> asks, plans |-> plans]

Idle == [at |-> "idle", plans |-> {}, waiting |-> {}, checked |-> {}]
Opened(plans) == [Idle EXCEPT !.at = "grouping", !.plans = plans]

Init ==
  /\ over = "no"
  /\ slots = [s \in SlotIds |-> Slot("booting")]
  /\ level = [i \in Levels |-> IF i = 1 THEN Opened(Mutants) ELSE Idle]
  /\ works = {} /\ running = {}
  /\ verdict = [m \in Mutants |-> "none"]
  /\ passed = [m \in Mutants |-> 0]
  /\ settled = [m \in Mutants |-> 0]

JobsOf(i) == {s \in SlotIds : slots[s].state = "busy" /\ slots[s].level = i}

-----------------------------------------------------------------------------
(* The slots.                                                              *)

\* The workers of a slot come up, or do not in CHECKER_ACQUIRE_RETRIES tries.
Boot(s) ==
  /\ over = "no" /\ slots[s].state = "booting"
  /\ \E state \in {"free", "failed"} : slots' = [slots EXCEPT ![s] = Slot(state)]
  /\ UNCHANGED <<over, level, works, running, verdict, passed, settled>>

\* Pool.use of a slot that did not come up fails.
UseFails(s) ==
  /\ over = "no" /\ slots[s].state = "failed"
  /\ over' = "failed"
  /\ UNCHANGED <<slots, level, works, running, verdict, passed, settled>>

\* A checker says that it failed, answers what it was not asked, leaves out what
\* it was, or ignores a mutant without a rule.
Refuse(s) ==
  /\ over = "no" /\ slots[s].state = "busy"
  /\ over' = "failed"
  /\ slots' = [slots EXCEPT ![s] = Slot("free")]
  /\ UNCHANGED <<level, works, running, verdict, passed, settled>>

\* Its worker crashes or runs out of memory: the slot is given up with all of
\* its workers.
Crash(s) ==
  /\ over = "no" /\ slots[s].state = "busy"
  /\ over' = "failed"
  /\ slots' = [slots EXCEPT ![s] = Slot("dead")]
  /\ UNCHANGED <<level, works, running, verdict, passed, settled>>

-----------------------------------------------------------------------------
(* The streams.                                                            *)

AskGroups(i, s) ==
  /\ over = "no" /\ slots[s].state = "free"
  /\ level[i].at = "grouping" /\ JobsOf(i) = {}
  /\ slots' = [slots EXCEPT ![s] = Job(i, "group", level[i].plans)]
  /\ UNCHANGED <<over, level, works, running, verdict, passed, settled>>

\* What a checker may answer: some groups, which readGroupCommand relieves of the
\* mutants the checker was not told about; each of those is a group of its own.
GroupsOf(answer, plans) ==
  ({group \ Undescribable : group \in answer} \ {{}}) \cup {{m} : m \in plans \cap Undescribable}

Disjoint(groups) == \A g, h \in groups : g # h => g \cap h = {}

\* evaluateGroup: the groups name every mutant asked about, and no other.  That
\* they name it once is not looked at.
Admitted(groups, plans) == UNION groups = plans

AnswerGroups(s) ==
  /\ over = "no" /\ slots[s].asks = "group"
  /\ LET i == slots[s].level
         plans == slots[s].plans
     IN \E answer \in SUBSET SUBSET (plans \ Undescribable) :
          /\ Overlap \/ Disjoint(answer)
          /\ Admitted(GroupsOf(answer, plans), plans)
          /\ level' = [level EXCEPT ![i].at = "streaming",
                                    ![i].waiting = GroupsOf(answer, plans)]
  /\ slots' = [slots EXCEPT ![s] = Slot("free")]
  /\ UNCHANGED <<over, works, running, verdict, passed, settled>>

\* The groups are checked as slots come free, in any order.
AskCheck(i, s) ==
  /\ over = "no" /\ slots[s].state = "free"
  /\ \E group \in level[i].waiting :
       /\ slots' = [slots EXCEPT ![s] = Job(i, "check", group)]
       /\ level' = [level EXCEPT ![i].waiting = @ \ {group}]
  /\ UNCHANGED <<over, works, running, verdict, passed, settled>>

\* readCheckCommand: a mutant the checker was not told about does not compile.
CheckAnswers(group) ==
  {a \in [group -> {"passed", "compileError", "ignored"}] :
     \A m \in group \cap Undescribable : a[m] = "compileError"}

\* partitionCheckedPlans.
With(answer, status) == {m \in DOMAIN answer : answer[m] = status}
Split(answer) ==
  [ignored |-> With(answer, "ignored"), failed |-> With(answer, "compileError"),
   passed |-> With(answer, "passed")]

\* Faulty: the slot is kept for what the group still has to go through.
AnswerCheckKeeping(s) ==
  /\ over = "no" /\ slots[s].asks = "check"
  /\ LET i == slots[s].level
     IN \E answer \in CheckAnswers(slots[s].plans) :
          /\ level' = [level EXCEPT ![i].checked = @ \cup {Split(answer)}]
          /\ passed' = [m \in Mutants |-> IF m \in Split(answer).passed THEN passed[m] + 1
                                          ELSE passed[m]]
  /\ slots' = [slots EXCEPT ![s] = Slot("dead")]
  /\ UNCHANGED <<over, works, running, verdict, settled>>

AnswerCheck(s) ==
  /\ over = "no" /\ slots[s].asks = "check"
  /\ LET i == slots[s].level
     IN \E answer \in CheckAnswers(slots[s].plans) :
          /\ level' = [level EXCEPT ![i].checked = @ \cup {Split(answer)}]
          /\ passed' = [m \in Mutants |-> IF m \in Split(answer).passed THEN passed[m] + 1
                                          ELSE passed[m]]
  /\ slots' = [slots EXCEPT ![s] = Slot("free")]
  /\ UNCHANGED <<over, works, running, verdict, settled>>

Elements(mutants, as) == {[mutant |-> m, as |-> as] : m \in mutants}

\* ignoredElement and failedElement.
Refused(result) == Elements(result.ignored, "ignored") \cup Elements(result.failed, "compileError")

\* Whether what followed from the last result of a checker is done.
Drained(i) == IF i = Checkers THEN TRUE ELSE level[i + 1].at = "idle"

\* Faulty: what a group does not fail goes on to the next checker.
TakeUnfailed(i) ==
  /\ over = "no"
  /\ level[i].at = "streaming" /\ Drained(i) /\ works = {}
  /\ \E result \in level[i].checked :
       LET on == result.passed \cup result.ignored
       IN /\ works' = Refused(result) \cup (IF i = Checkers THEN Elements(on, "ran") ELSE {})
          /\ level' = [j \in Levels |->
               CASE j = i -> [level[i] EXCEPT !.checked = @ \ {result}]
                 [] j = i + 1 -> Opened(on)
                 [] OTHER -> level[j]]
  /\ UNCHANGED <<over, slots, running, verdict, passed, settled>>

\* A result of checker i is taken: what it refused comes out, and what it passed
\* is put to the next one or comes out to be run.
Take(i) ==
  /\ over = "no"
  /\ level[i].at = "streaming" /\ Drained(i) /\ works = {}
  /\ \E result \in level[i].checked :
       /\ works' = Refused(result)
                     \cup (IF i = Checkers THEN Elements(result.passed, "ran") ELSE {})
       /\ level' = [j \in Levels |->
            CASE j = i -> [level[i] EXCEPT !.checked = @ \ {result}]
              [] j = i + 1 -> Opened(result.passed)
              [] OTHER -> level[j]]
  /\ UNCHANGED <<over, slots, running, verdict, passed, settled>>

\* A checker's stream ends with the last of its groups.
EndLevel(i) ==
  /\ over = "no"
  /\ level[i].at = "streaming" /\ Drained(i) /\ JobsOf(i) = {}
  /\ level[i].waiting = {} /\ level[i].checked = {}
  /\ level' = [level EXCEPT ![i] = Idle]
  /\ UNCHANGED <<over, slots, works, running, verdict, passed, settled>>

-----------------------------------------------------------------------------
(* runCheckedPlans.                                                        *)

StartWork ==
  /\ over = "no"
  /\ Cardinality(running) < (IF Concurrency = 0 THEN 1 ELSE Concurrency)
  /\ \E w \in works :
       /\ works' = works \ {w}
       /\ running' = running \cup {w}
  /\ UNCHANGED <<over, slots, level, verdict, passed, settled>>

\* settleFailure, settleIgnored or runPlan.
FinishWork ==
  /\ over = "no"
  /\ \E w \in running :
       /\ running' = running \ {w}
       /\ verdict' = [verdict EXCEPT ![w.mutant] = w.as]
       /\ settled' = [settled EXCEPT ![w.mutant] = @ + 1]
  /\ UNCHANGED <<over, slots, level, works, passed>>

\* A runner fails the stage.
FailWork ==
  /\ over = "no" /\ running # {}
  /\ over' = "failed"
  /\ UNCHANGED <<slots, level, works, running, verdict, passed, settled>>

EndStream ==
  /\ over = "no"
  /\ \A i \in Levels : level[i].at = "idle"
  /\ works = {} /\ running = {}
  /\ over' = "done"
  /\ UNCHANGED <<slots, level, works, running, verdict, passed, settled>>

CheckStep ==
  \/ \E s \in SlotIds : Boot(s) \/ UseFails(s) \/ AnswerGroups(s) \/ AnswerCheck(s)
  \/ \E i \in Levels : Take(i) \/ EndLevel(i) \/ \E s \in SlotIds : AskGroups(i, s) \/ AskCheck(i, s)

WorkStep == StartWork \/ FinishWork \/ EndStream

Next ==
  \/ CheckStep \/ WorkStep \/ FailWork
  \/ \E s \in SlotIds : Refuse(s) \/ Crash(s)

Spec == Init /\ [][Next]_vars

\* Checkers and runners answer, and the scheduler runs what can go on; no step is
\* taken for ever, so that some step is taken is enough.
FairSpec == Spec /\ WF_vars(CheckStep \/ WorkStep)

-----------------------------------------------------------------------------
(* The properties.                                                         *)

Jobs ==
  [state : {"booting", "free", "failed", "dead", "busy"}, level : 0 .. Checkers,
   asks : {"none", "group", "check"}, plans : SUBSET Mutants]
Results == [ignored : SUBSET Mutants, failed : SUBSET Mutants, passed : SUBSET Mutants]
Works == [mutant : Mutants, as : {"ignored", "compileError", "ran"}]

\* Every variable stays in its type, no more work under way than is allowed.
TypeOK ==
  /\ over \in {"no", "done", "failed"}
  /\ slots \in [SlotIds -> Jobs]
  /\ level \in [Levels -> [at : {"idle", "grouping", "streaming"}, plans : SUBSET Mutants,
                           waiting : SUBSET SUBSET Mutants, checked : SUBSET Results]]
  /\ works \subseteq Works /\ running \subseteq Works
  /\ verdict \in [Mutants -> {"none", "ignored", "compileError", "ran"}]
  /\ passed \in [Mutants -> Nat] /\ settled \in [Mutants -> Nat]
  /\ Cardinality(running) <= (IF Concurrency = 0 THEN 1 ELSE Concurrency)

Chain == INSTANCE CheckerChain

\* The concurrent checks on the pool keep what a chain of checkers promises:
\* every mutant passes them in turn, is settled once, by the first that refuses
\* it or by running it, and the stream ends only when all are settled.
KeepsChain == Chain!Spec

\* However few slots there are, the stream ends: no check waits for a slot that
\* is held for it.
StreamEnds == <>(over # "no")
=============================================================================
