-------------------------- MODULE CheckerPoolProofs --------------------------
(***************************************************************************)
(* The pool of checkers implements the chain of checkers, for any number of  *)
(* mutants, checkers and slots, when no checker names a mutant in two groups. *)
(* As long as the stream goes on, every mutant is in one place: with a       *)
(* checker that groups it, in a group that waits, on a slot, in a result that *)
(* was not taken yet, at work, or settled.                                  *)
(***************************************************************************)
EXTENDS CheckerPool, FiniteSetTheorems, TLAPS

Bound == IF Concurrency = 0 THEN 1 ELSE Concurrency

\* Where mutant m is: at checker or slot i, in the group, result or element x.
At(m, place, i, x) ==
  \/ /\ place = "grouping" /\ i \in Levels /\ x = {}
     /\ level[i].at = "grouping" /\ m \in level[i].plans
  \/ place = "waiting" /\ i \in Levels /\ x \in level[i].waiting /\ m \in x
  \/ /\ place = "checking" /\ i \in SlotIds /\ x = {}
     /\ slots[i].asks = "check" /\ m \in slots[i].plans
  \/ place = "passed" /\ i \in Levels /\ x \in level[i].checked /\ m \in x.passed
  \/ place = "failed" /\ i \in Levels /\ x \in level[i].checked /\ m \in x.failed
  \/ place = "ignored" /\ i \in Levels /\ x \in level[i].checked /\ m \in x.ignored
  \/ place = "works" /\ i = 0 /\ x \in works /\ x.mutant = m
  \/ place = "running" /\ i = 0 /\ x \in running /\ x.mutant = m
  \/ place = "settled" /\ i = 0 /\ x = {} /\ verdict[m] # "none"

\* How many checkers a mutant has passed that is there.
PassedAt(m, place, i, x) ==
  /\ place \in {"grouping", "waiting", "failed", "ignored"} => passed[m] = i - 1
  /\ place = "checking" => passed[m] = slots[i].level - 1
  /\ place = "passed" => passed[m] = i
  /\ place \in {"works", "running"} => (x.as = "ran" <=> passed[m] = Checkers)

InOnePlace(m) ==
  \E p, i, x :
    /\ \A q, j, y : At(m, q, j, y) <=> q = p /\ j = i /\ y = x
    /\ PassedAt(m, p, i, x)

\* What a checker is asked goes with the state of its stream.
AsksRight(i) ==
  /\ level[i].at # "streaming" => level[i].waiting = {} /\ level[i].checked = {}
  /\ \A s \in JobsOf(i) :
       /\ level[i].at # "idle"
       /\ slots[s].asks = IF level[i].at = "grouping" THEN "group" ELSE "check"
       /\ level[i].at = "grouping" => slots[s].plans = level[i].plans /\ JobsOf(i) = {s}

SlotsRight ==
  \A s \in SlotIds :
    /\ (slots[s].state = "busy") <=> (slots[s].asks # "none")
    /\ slots[s].asks # "none" => slots[s].level \in Levels

TInv == TypeOK /\ SlotsRight /\ IsFiniteSet(running)

PInv ==
  over = "no" => (\A i \in Levels : AsksRight(i)) /\ (\A m \in Mutants : InOnePlace(m))

-----------------------------------------------------------------------------
(* The types.                                                              *)

\* An answer splits a group, and every mutant of it is in one part.
LEMMA SplitType ==
  ASSUME NEW group \in SUBSET Mutants, NEW answer \in CheckAnswers(group)
  PROVE  /\ Split(answer) \in Results
         /\ \A m \in group : /\ m \in Split(answer).passed <=> answer[m] = "passed"
                             /\ m \in Split(answer).failed <=> answer[m] = "compileError"
                             /\ m \in Split(answer).ignored <=> answer[m] = "ignored"
                             /\ answer[m] \in {"passed", "compileError", "ignored"}
         /\ Split(answer).passed \subseteq group
         /\ Split(answer).failed \subseteq group
         /\ Split(answer).ignored \subseteq group
BY DEF CheckAnswers, Split, With, Results

LEMMA GroupsType ==
  ASSUME NEW plans \in SUBSET Mutants, NEW answer \in SUBSET SUBSET (plans \ Undescribable)
  PROVE  GroupsOf(answer, plans) \in SUBSET SUBSET Mutants
BY DEF GroupsOf

LEMMA ElementsType ==
  ASSUME NEW result \in Results
  PROVE  Refused(result) \cup Elements(result.passed, "ran") \subseteq Works
BY DEF Results, Refused, Elements, Works

LEMMA InitTInv == Init => TInv
<1> SUFFICES ASSUME Init PROVE TInv
  OBVIOUS
<1>1. slots \in [SlotIds -> Jobs] /\ SlotsRight
  BY CheckerPoolAssumption DEF Init, Slot, Jobs, SlotsRight, Levels
<1>2. level \in [Levels -> [at : {"idle", "grouping", "streaming"}, plans : SUBSET Mutants,
                            waiting : SUBSET SUBSET Mutants, checked : SUBSET Results]]
  BY DEF Init, Opened, Idle
<1>3. IsFiniteSet(running) /\ Cardinality(running) <= Bound
  BY FS_EmptySet, CheckerPoolAssumption DEF Init, Bound
<1> QED BY <1>1, <1>2, <1>3 DEF Init, TInv, TypeOK, Bound, Works

LEMMA NextTInv == TInv /\ [Next]_vars => TInv'
<1> SUFFICES ASSUME TInv, [Next]_vars PROVE TInv'
  OBVIOUS
<1> USE CheckerPoolAssumption
<1> DEFINE LevelType == [at : {"idle", "grouping", "streaming"}, plans : SUBSET Mutants,
                         waiting : SUBSET SUBSET Mutants, checked : SUBSET Results]
<1>1. CASE UNCHANGED vars
  BY <1>1 DEF vars, TInv, TypeOK, SlotsRight
<1>2. ASSUME NEW s \in SlotIds, Boot(s) PROVE TInv'
  BY <1>2 DEF Boot, Slot, TInv, TypeOK, SlotsRight, Jobs
<1>3. ASSUME NEW s \in SlotIds, UseFails(s) PROVE TInv'
  BY <1>3 DEF UseFails, TInv, TypeOK, SlotsRight
<1>4. ASSUME NEW s \in SlotIds, Refuse(s) \/ Crash(s) PROVE TInv'
  <2>1. PICK state \in {"free", "dead"} : slots' = [slots EXCEPT ![s] = Slot(state)]
    BY <1>4 DEF Refuse, Crash
  <2>2. slots' \in [SlotIds -> Jobs] /\ SlotsRight'
    BY <2>1 DEF Slot, TInv, TypeOK, SlotsRight, Jobs
  <2> QED BY <1>4, <2>2 DEF Refuse, Crash, TInv, TypeOK
<1>5. ASSUME NEW i \in Levels, NEW s \in SlotIds, AskGroups(i, s) PROVE TInv'
  BY <1>5 DEF AskGroups, Job, TInv, TypeOK, SlotsRight, Jobs, Levels
<1>6. ASSUME NEW s \in SlotIds, AnswerGroups(s) PROVE TInv'
  <2>1. slots[s].level \in Levels /\ slots[s].plans \in SUBSET Mutants
    BY <1>6 DEF AnswerGroups, TInv, TypeOK, SlotsRight, Jobs
  <2>2. PICK answer \in SUBSET SUBSET (slots[s].plans \ Undescribable) :
          level' = [level EXCEPT ![slots[s].level].at = "streaming",
                                 ![slots[s].level].waiting = GroupsOf(answer, slots[s].plans)]
    BY <1>6 DEF AnswerGroups
  <2>2a. GroupsOf(answer, slots[s].plans) \in SUBSET SUBSET Mutants
    BY <2>1, GroupsType
  <2>3. level' \in [Levels -> LevelType]
    BY <2>1, <2>2, <2>2a DEF TInv, TypeOK
  <2>4. slots' \in [SlotIds -> Jobs] /\ SlotsRight'
    BY <1>6 DEF AnswerGroups, Slot, TInv, TypeOK, SlotsRight, Jobs
  <2> QED BY <1>6, <2>3, <2>4 DEF AnswerGroups, TInv, TypeOK
<1>7. ASSUME NEW i \in Levels, NEW s \in SlotIds, AskCheck(i, s) PROVE TInv'
  <2>1. PICK group \in level[i].waiting :
          /\ slots' = [slots EXCEPT ![s] = Job(i, "check", group)]
          /\ level' = [level EXCEPT ![i].waiting = @ \ {group}]
    BY <1>7 DEF AskCheck
  <2>2. group \in SUBSET Mutants
    BY DEF TInv, TypeOK
  <2>3. slots' \in [SlotIds -> Jobs] /\ SlotsRight'
    BY <2>1, <2>2 DEF Job, TInv, TypeOK, SlotsRight, Jobs, Levels
  <2>4. level' \in [Levels -> LevelType]
    BY <2>1, SMTT(20) DEF TInv, TypeOK
  <2> QED BY <1>7, <2>3, <2>4 DEF AskCheck, TInv, TypeOK
<1>8. ASSUME NEW s \in SlotIds, AnswerCheck(s) PROVE TInv'
  <2>1. slots[s].level \in Levels /\ slots[s].plans \in SUBSET Mutants
    BY <1>8 DEF AnswerCheck, TInv, TypeOK, SlotsRight, Jobs
  <2>2. PICK answer \in CheckAnswers(slots[s].plans) :
          /\ level' = [level EXCEPT ![slots[s].level].checked = @ \cup {Split(answer)}]
          /\ passed' = [m \in Mutants |-> IF m \in Split(answer).passed THEN passed[m] + 1
                                          ELSE passed[m]]
    BY <1>8 DEF AnswerCheck
  <2>3. Split(answer) \in Results
    BY <2>1, SplitType
  <2>4. level' \in [Levels -> LevelType] /\ passed' \in [Mutants -> Nat]
    BY <2>1, <2>2, <2>3 DEF TInv, TypeOK
  <2>5. slots' \in [SlotIds -> Jobs] /\ SlotsRight'
    BY <1>8 DEF AnswerCheck, Slot, TInv, TypeOK, SlotsRight, Jobs
  <2> QED BY <1>8, <2>4, <2>5 DEF AnswerCheck, TInv, TypeOK
<1>9. ASSUME NEW i \in Levels, Take(i) PROVE TInv'
  <2>1. PICK result \in level[i].checked :
          /\ works' = Refused(result)
                        \cup (IF i = Checkers THEN Elements(result.passed, "ran") ELSE {})
          /\ level' = [j \in Levels |->
               CASE j = i -> [level[i] EXCEPT !.checked = @ \ {result}]
                 [] j = i + 1 -> Opened(result.passed)
                 [] OTHER -> level[j]]
    BY <1>9 DEF Take
  <2>2. result \in Results
    BY DEF TInv, TypeOK
  <2>3. works' \subseteq Works
    BY <2>1, <2>2, ElementsType
  <2>4. Opened(result.passed) \in LevelType
    BY <2>2 DEF Opened, Idle, Results
  <2>5. \A j \in Levels : level'[j] \in LevelType
    BY <2>1, <2>4 DEF TInv, TypeOK
  <2>6. level' = [j \in Levels |-> level'[j]]
    BY <2>1
  <2>7. level' \in [Levels -> LevelType]
    BY <2>5, <2>6
  <2> QED BY <1>9, <2>3, <2>7 DEF Take, TInv, TypeOK, SlotsRight
<1>10. ASSUME NEW i \in Levels, EndLevel(i) PROVE TInv'
  <2>1. level' \in [Levels -> LevelType]
    BY <1>10 DEF EndLevel, Idle, TInv, TypeOK
  <2> QED BY <1>10, <2>1 DEF EndLevel, TInv, TypeOK, SlotsRight
<1>11. CASE StartWork
  <2>1. PICK w \in works : works' = works \ {w} /\ running' = running \cup {w}
    BY <1>11 DEF StartWork
  <2>2. Cardinality(running) \in Nat /\ Cardinality(running) < Bound
    BY <1>11, FS_CardinalityType DEF StartWork, Bound, TInv
  <2>3. IsFiniteSet(running') /\ Cardinality(running') <= Cardinality(running) + 1
    <3>1. IsFiniteSet(running)
      BY DEF TInv
    <3>2. IsFiniteSet(running \cup {w})
          /\ Cardinality(running \cup {w}) = IF w \in running THEN Cardinality(running)
                                             ELSE Cardinality(running) + 1
      BY <3>1, FS_AddElement, Zenon
    <3> QED BY <2>1, <2>2, <3>2
  <2>4. Cardinality(running') \in Nat
    BY <2>3, FS_CardinalityType
  <2>5. Cardinality(running') <= Bound
    BY <2>2, <2>3, <2>4 DEF Bound
  <2> QED BY <1>11, <2>1, <2>3, <2>5 DEF StartWork, TInv, TypeOK, Bound, SlotsRight
<1>12. CASE FinishWork
  <2>1. PICK w \in running : /\ running' = running \ {w}
                             /\ verdict' = [verdict EXCEPT ![w.mutant] = w.as]
                             /\ settled' = [settled EXCEPT ![w.mutant] = @ + 1]
    BY <1>12 DEF FinishWork
  <2>2. w \in Works
    BY DEF TInv, TypeOK
  <2>3. IsFiniteSet(running') /\ Cardinality(running') <= Cardinality(running)
    <3>1. IsFiniteSet(running)
      BY DEF TInv
    <3>2. IsFiniteSet(running \ {w})
          /\ Cardinality(running \ {w}) = IF w \in running THEN Cardinality(running) - 1
                                           ELSE Cardinality(running)
      BY <3>1, FS_RemoveElement, Zenon
    <3>3. Cardinality(running) \in Nat
      BY <3>1, FS_CardinalityType
    <3> QED BY <2>1, <3>2, <3>3
  <2>4. Cardinality(running') \in Nat /\ Cardinality(running) \in Nat
    BY <2>3, FS_CardinalityType DEF TInv
  <2>5. Cardinality(running') <= Bound
    BY <2>3, <2>4 DEF TInv, TypeOK, Bound
  <2> QED BY <1>12, <2>1, <2>2, <2>3, <2>5 DEF FinishWork, TInv, TypeOK, Works, Bound, SlotsRight
<1>13. CASE EndStream
  BY <1>13 DEF EndStream, TInv, TypeOK, SlotsRight
<1>14. CASE FailWork
  BY <1>14 DEF FailWork, TInv, TypeOK, SlotsRight
<1> QED BY <1>1, <1>2, <1>3, <1>4, <1>5, <1>6, <1>7, <1>8, <1>9, <1>10, <1>11, <1>12, <1>13,
           <1>14 DEF Next, CheckStep, WorkStep

\* Every variable stays in its type, and no more elements are worked on than
\* runCheckedPlans allows.
THEOREM TypeCorrect == Spec => []TypeOK
<1>1. TInv => TypeOK
  BY DEF TInv
<1> QED BY <1>1, InitTInv, NextTInv, PTL DEF Spec

-----------------------------------------------------------------------------
(* Every mutant is in one place.                                           *)

\* A mutant that is where it was, and has passed what it had.
LEMMA Stays ==
  ASSUME NEW m \in Mutants, InOnePlace(m),
         \A p, i, x : At(m, p, i, x)' <=> At(m, p, i, x),
         passed'[m] = passed[m],
         \A s \in SlotIds : At(m, "checking", s, {}) => slots'[s].level = slots[s].level
  PROVE  InOnePlace(m)'
<1>1. PICK p, i, x : /\ \A q, j, y : At(m, q, j, y) <=> q = p /\ j = i /\ y = x
                     /\ PassedAt(m, p, i, x)
  BY DEF InOnePlace
<1>2. p = "checking" => i \in SlotIds /\ x = {}
  <2>1. At(m, p, i, x)
    BY <1>1
  <2> QED BY <2>1 DEF At
<1>3. PassedAt(m, p, i, x)'
  BY <1>1, <1>2 DEF PassedAt
<1>4. \A q, j, y : At(m, q, j, y)' <=> q = p /\ j = i /\ y = x
  BY <1>1
<1> QED BY <1>3, <1>4 DEF InOnePlace

\* Mutant m is nowhere but at place p, at i, in x.
Only(m, p, i, x) ==
  /\ \A j \in Levels :
       /\ level[j].at = "grouping" /\ m \in level[j].plans => p = "grouping" /\ i = j /\ x = {}
       /\ \A g \in level[j].waiting : m \in g => p = "waiting" /\ i = j /\ x = g
       /\ \A r \in level[j].checked :
            /\ m \in r.passed => p = "passed" /\ i = j /\ x = r
            /\ m \in r.failed => p = "failed" /\ i = j /\ x = r
            /\ m \in r.ignored => p = "ignored" /\ i = j /\ x = r
  /\ \A s \in SlotIds :
       slots[s].asks = "check" /\ m \in slots[s].plans => p = "checking" /\ i = s /\ x = {}
  /\ \A w \in works : w.mutant = m => p = "works" /\ i = 0 /\ x = w
  /\ \A w \in running : w.mutant = m => p = "running" /\ i = 0 /\ x = w
  /\ verdict[m] # "none" => p = "settled" /\ i = 0 /\ x = {}

\* A mutant that is somewhere is nowhere else.
LEMMA OnlyThere ==
  ASSUME NEW m \in Mutants, InOnePlace(m), NEW p, NEW i, NEW x, At(m, p, i, x)
  PROVE  Only(m, p, i, x) /\ PassedAt(m, p, i, x)
<1>1. PICK q, k, z : /\ \A r, j, y : At(m, r, j, y) <=> r = q /\ j = k /\ y = z
                     /\ PassedAt(m, q, k, z)
  BY DEF InOnePlace
<1>2. q = p /\ k = i /\ z = x
  BY <1>1
<1>3. \A r, j, y : At(m, r, j, y) => r = p /\ j = i /\ y = x
  BY <1>1
<1>4. \A j \in Levels :
        /\ level[j].at = "grouping" /\ m \in level[j].plans => At(m, "grouping", j, {})
        /\ \A g \in level[j].waiting : m \in g => At(m, "waiting", j, g)
        /\ \A r \in level[j].checked :
             /\ m \in r.passed => At(m, "passed", j, r)
             /\ m \in r.failed => At(m, "failed", j, r)
             /\ m \in r.ignored => At(m, "ignored", j, r)
  BY DEF At
<1>5. \A s \in SlotIds :
        slots[s].asks = "check" /\ m \in slots[s].plans => At(m, "checking", s, {})
  BY DEF At
<1>6. /\ \A w \in works : w.mutant = m => At(m, "works", 0, w)
      /\ \A w \in running : w.mutant = m => At(m, "running", 0, w)
      /\ verdict[m] # "none" => At(m, "settled", 0, {})
  BY DEF At
<1>7. Only(m, p, i, x)
  BY <1>3, <1>4, <1>5, <1>6 DEF Only
<1> QED BY <1>1, <1>2, <1>7

\* And conversely, after a step.
LEMMA OnlyHere ==
  ASSUME NEW m \in Mutants, NEW p, NEW i, NEW x,
         At(m, p, i, x)', Only(m, p, i, x)', PassedAt(m, p, i, x)'
  PROVE  InOnePlace(m)'
<1>1. ASSUME NEW q, NEW j, NEW y, At(m, q, j, y)' PROVE q = p /\ j = i /\ y = x
  BY <1>1 DEF At, Only
<1>2. \A q, j, y : At(m, q, j, y)' <=> q = p /\ j = i /\ y = x
  BY <1>1
<1> QED BY <1>2 DEF InOnePlace

LEMMA InitPInv == Init => PInv
<1> SUFFICES ASSUME Init PROVE PInv
  OBVIOUS
<1>1. ASSUME NEW i \in Levels PROVE AsksRight(i)
  BY DEF Init, AsksRight, JobsOf, Slot, Opened, Idle
<1>2. ASSUME NEW m \in Mutants PROVE InOnePlace(m)
  <2>1. 1 \in Levels
    BY CheckerPoolAssumption DEF Levels
  <2>2. \A q, j, y : At(m, q, j, y) <=> q = "grouping" /\ j = 1 /\ y = {}
    BY <2>1 DEF At, Init, Slot, Opened, Idle
  <2>3. PassedAt(m, "grouping", 1, {})
    BY DEF PassedAt, Init
  <2> QED BY <2>2, <2>3 DEF InOnePlace
<1> QED BY <1>1, <1>2 DEF PInv

\* A checker is asked to group what its stream was opened with.
LEMMA AskGroupsPInv ==
  ASSUME TInv, PInv, NEW i \in Levels, NEW s \in SlotIds, AskGroups(i, s)
  PROVE  PInv'
<1>1. over = "no" /\ UNCHANGED <<over, level, works, running, verdict, passed>>
  BY DEF AskGroups
<1>2. slots' = [slots EXCEPT ![s] = Job(i, "group", level[i].plans)]
      /\ slots[s].state = "free" /\ slots[s].asks = "none"
  BY DEF AskGroups, TInv, SlotsRight
<1>3. slots \in [SlotIds -> Jobs]
  BY DEF TInv, TypeOK
<1>4. ASSUME NEW j \in Levels PROVE AsksRight(j)'
  <2>1. AsksRight(j)
    BY <1>1 DEF PInv
  <2>2. CASE j = i
    BY <1>1, <1>2, <1>3, <2>1, <2>2 DEF AskGroups, AsksRight, JobsOf, Job
  <2>3. CASE j # i
    <3>1. \A t \in SlotIds : t \in JobsOf(j)' <=> t \in JobsOf(j)
      BY <1>2, <1>3, <2>3 DEF JobsOf, Job
    <3>2. \A t \in JobsOf(j) : slots'[t] = slots[t]
      BY <1>2, <1>3 DEF JobsOf
    <3>3. JobsOf(j)' = JobsOf(j)
      BY <3>1 DEF JobsOf
    <3> QED BY <1>1, <2>1, <3>2, <3>3 DEF AsksRight
  <2> QED BY <2>2, <2>3
<1>5. ASSUME NEW m \in Mutants PROVE InOnePlace(m)'
  <2>1. InOnePlace(m)
    BY <1>1 DEF PInv
  <2>2. \A p, k, x : At(m, p, k, x)' <=> At(m, p, k, x)
    BY <1>1, <1>2, <1>3 DEF At, Job
  <2>3. \A t \in SlotIds : At(m, "checking", t, {}) => slots'[t].level = slots[t].level
    BY <1>2, <1>3 DEF At
  <2> QED BY <1>1, <2>1, <2>2, <2>3, Stays
<1> QED BY <1>4, <1>5 DEF PInv

\* The groups a checker names put each mutant it was asked about in one.
LEMMA GroupedOnce ==
  ASSUME NEW plans \in SUBSET Mutants, NEW answer \in SUBSET SUBSET (plans \ Undescribable),
         Disjoint(answer), Admitted(GroupsOf(answer, plans), plans), NEW m \in Mutants
  PROVE  /\ m \in plans => \E g \in GroupsOf(answer, plans) :
                             \A h \in GroupsOf(answer, plans) : m \in h <=> h = g
         /\ m \notin plans => \A h \in GroupsOf(answer, plans) : m \notin h
<1> DEFINE groups == GroupsOf(answer, plans)
<1>1. ASSUME NEW g \in groups, NEW h \in groups, m \in g, m \in h PROVE g = h
  <2>1. \A k \in answer : k \ Undescribable = k
    OBVIOUS
  <2>2. \A k \in groups : m \in k =>
          \/ m \notin Undescribable /\ k \in answer
          \/ m \in Undescribable /\ k = {m}
    <3> SUFFICES ASSUME NEW k \in groups, m \in k
                 PROVE  \/ m \notin Undescribable /\ k \in answer
                        \/ m \in Undescribable /\ k = {m}
      OBVIOUS
    <3>1. CASE k \in {group \ Undescribable : group \in answer}
      BY <2>1, <3>1
    <3>2. CASE k \in {{n} : n \in plans \cap Undescribable}
      BY <3>2
    <3> QED BY <3>1, <3>2 DEF GroupsOf
  <2> QED BY <1>1, <2>2 DEF Disjoint
<1>2. m \in plans => \E g \in groups : m \in g
  BY DEF Admitted
<1>3. \A h \in groups : m \in h => m \in plans
  BY DEF Admitted
<1> QED BY <1>1, <1>2, <1>3

LEMMA AnswerGroupsPInv ==
  ASSUME Overlap = FALSE, TInv, PInv, NEW s \in SlotIds, AnswerGroups(s)
  PROVE  PInv'
<1>1. over = "no" /\ UNCHANGED <<over, works, running, verdict, passed>>
  BY DEF AnswerGroups
<1>2. slots' = [slots EXCEPT ![s] = Slot("free")] /\ slots[s].asks = "group"
  BY DEF AnswerGroups
<1>2a. PICK i \in Levels, plans \in SUBSET Mutants : i = slots[s].level /\ plans = slots[s].plans
  BY <1>2 DEF TInv, TypeOK, SlotsRight, Jobs
<1>3. slots \in [SlotIds -> Jobs] /\ s \in JobsOf(i)
  BY <1>2, <1>2a DEF TInv, TypeOK, SlotsRight, JobsOf
<1>4. PICK answer \in SUBSET SUBSET (plans \ Undescribable) :
        /\ Disjoint(answer)
        /\ Admitted(GroupsOf(answer, plans), plans)
        /\ level' = [level EXCEPT ![i].at = "streaming", ![i].waiting = GroupsOf(answer, plans)]
  BY <1>2a DEF AnswerGroups
<1> DEFINE groups == GroupsOf(answer, plans)
<1>5. AsksRight(i)
  BY <1>1, <1>3 DEF PInv
<1>6. /\ level[i].at = "grouping" /\ level[i].plans = plans /\ JobsOf(i) = {s}
      /\ level[i].waiting = {} /\ level[i].checked = {}
  BY <1>2, <1>3, <1>5, <1>2a DEF AsksRight
<1>7. /\ level'[i].at = "streaming" /\ level'[i].waiting = groups /\ level'[i].checked = {}
      /\ \A j \in Levels : j # i => level'[j] = level[j]
  BY <1>3, <1>4, <1>6 DEF TInv, TypeOK
<1>8. \A t \in SlotIds : t # s => slots'[t] = slots[t]
  BY <1>2, <1>3
<1>9. slots'[s].asks = "none" /\ slots'[s].state = "free"
  BY <1>2, <1>3 DEF Slot
<1> HIDE DEF groups
<1>10. ASSUME NEW j \in Levels PROVE AsksRight(j)'
  <2>1. AsksRight(j)
    BY <1>1 DEF PInv
  <2>2. CASE j = i
    <3>1. JobsOf(i)' = {}
      BY <1>6, <1>8, <1>9 DEF JobsOf
    <3> QED BY <1>7, <2>2, <3>1 DEF AsksRight
  <2>3. CASE j # i
    <3>1. JobsOf(j)' = JobsOf(j)
      BY <1>3, <1>8, <1>9, <1>2a, <2>3 DEF JobsOf
    <3>2. \A t \in JobsOf(j) : slots'[t] = slots[t]
      BY <1>3, <1>8, <1>2a, <2>3 DEF JobsOf
    <3> QED BY <1>7, <2>1, <2>3, <3>1, <3>2 DEF AsksRight
  <2> QED BY <2>2, <2>3
<1>11. ASSUME NEW m \in Mutants PROVE InOnePlace(m)'
  <2>1. InOnePlace(m)
    BY <1>1 DEF PInv
  <2>2. CASE m \in plans
    <3>1. PICK g \in groups : \A h \in groups : m \in h <=> h = g
      BY <1>3, <1>4, <2>2, GroupedOnce DEF groups
    <3>2. At(m, "grouping", i, {})
      BY <1>3, <1>6, <2>2 DEF At
    <3>3. Only(m, "grouping", i, {}) /\ PassedAt(m, "grouping", i, {})
      BY <2>1, <3>2, OnlyThere
    <3>4. At(m, "waiting", i, g)'
      BY <1>7, <3>1 DEF At
    <3>5. Only(m, "waiting", i, g)'
      BY <1>1, <1>7, <1>8, <1>9, <3>1, <3>3 DEF Only
    <3>6. PassedAt(m, "waiting", i, g)'
      BY <1>1, <3>3 DEF PassedAt
    <3> QED BY <3>4, <3>5, <3>6, OnlyHere
  <2>3. CASE m \notin plans
    <3>1. \A h \in groups : m \notin h
      BY <1>3, <1>4, <2>3, GroupedOnce DEF groups
    <3>2. \A p, k, x : At(m, p, k, x)' <=> At(m, p, k, x)
      BY <1>1, <1>2, <1>3, <1>6, <1>7, <1>8, <1>9, <2>3, <3>1 DEF At
    <3>3. \A t \in SlotIds : At(m, "checking", t, {}) => slots'[t].level = slots[t].level
      BY <1>2, <1>8 DEF At
    <3> QED BY <1>1, <2>1, <3>2, <3>3, Stays
  <2> QED BY <2>2, <2>3
<1> QED BY <1>10, <1>11 DEF PInv

\* A group that waited goes to a slot.
LEMMA AskCheckPInv ==
  ASSUME TInv, PInv, NEW i \in Levels, NEW s \in SlotIds, AskCheck(i, s)
  PROVE  PInv'
<1>1. over = "no" /\ UNCHANGED <<over, works, running, verdict, passed>>
  BY DEF AskCheck
<1>2. PICK group \in level[i].waiting :
        /\ slots' = [slots EXCEPT ![s] = Job(i, "check", group)]
        /\ level' = [level EXCEPT ![i].waiting = @ \ {group}]
  BY DEF AskCheck
<1>3. slots \in [SlotIds -> Jobs] /\ slots[s].state = "free" /\ slots[s].asks = "none"
  BY DEF AskCheck, TInv, TypeOK, SlotsRight
<1>4. /\ slots'[s].asks = "check" /\ slots'[s].plans = group /\ slots'[s].level = i
      /\ slots'[s].state = "busy"
      /\ \A t \in SlotIds : t # s => slots'[t] = slots[t]
  BY <1>2, <1>3 DEF Job
<1>5. /\ level'[i].at = level[i].at /\ level'[i].plans = level[i].plans
      /\ level'[i].waiting = level[i].waiting \ {group} /\ level'[i].checked = level[i].checked
      /\ \A j \in Levels : j # i => level'[j] = level[j]
  BY <1>2 DEF TInv, TypeOK
<1>6. level[i].at = "streaming"
  <2>1. AsksRight(i)
    BY <1>1 DEF PInv
  <2> QED BY <1>2, <2>1 DEF AsksRight
<1>7. ASSUME NEW j \in Levels PROVE AsksRight(j)'
  <2>1. AsksRight(j)
    BY <1>1 DEF PInv
  <2>2. CASE j = i
    <3>1. JobsOf(i)' = JobsOf(i) \cup {s}
      BY <1>3, <1>4 DEF JobsOf
    <3>2. \A t \in JobsOf(i)' : slots'[t].asks = "check"
      BY <1>3, <1>4, <1>6, <2>1, <2>2, <3>1 DEF AsksRight, JobsOf
    <3> QED BY <1>5, <1>6, <2>2, <3>2 DEF AsksRight
  <2>3. CASE j # i
    <3>1. JobsOf(j)' = JobsOf(j)
      BY <1>3, <1>4, <2>3 DEF JobsOf
    <3>2. \A t \in JobsOf(j) : slots'[t] = slots[t]
      BY <1>3, <1>4 DEF JobsOf
    <3> QED BY <1>5, <2>1, <2>3, <3>1, <3>2 DEF AsksRight
  <2> QED BY <2>2, <2>3
<1>8. ASSUME NEW m \in Mutants PROVE InOnePlace(m)'
  <2>1. InOnePlace(m)
    BY <1>1 DEF PInv
  <2>2. CASE m \in group
    <3>1. At(m, "waiting", i, group)
      BY <1>2, <2>2 DEF At
    <3>2. Only(m, "waiting", i, group) /\ PassedAt(m, "waiting", i, group)
      BY <2>1, <3>1, OnlyThere
    <3>3. At(m, "checking", s, {})'
      BY <1>4, <2>2 DEF At
    <3>4. Only(m, "checking", s, {})'
      BY <1>1, <1>4, <1>5, <2>2, <3>2 DEF Only
    <3>5. PassedAt(m, "checking", s, {})'
      BY <1>1, <1>4, <3>2 DEF PassedAt
    <3> QED BY <3>3, <3>4, <3>5, OnlyHere
  <2>3. CASE m \notin group
    <3>1. \A p, k, x : At(m, p, k, x)' <=> At(m, p, k, x)
      BY <1>1, <1>3, <1>4, <1>5, <2>3 DEF At
    <3>2. \A t \in SlotIds : At(m, "checking", t, {}) => slots'[t].level = slots[t].level
      BY <1>3, <1>4 DEF At
    <3> QED BY <1>1, <2>1, <3>1, <3>2, Stays
  <2> QED BY <2>2, <2>3
<1> QED BY <1>7, <1>8 DEF PInv

\* The mutants of a group that was checked are in its result.
LEMMA AnswerCheckPInv ==
  ASSUME TInv, PInv, NEW s \in SlotIds, AnswerCheck(s)
  PROVE  PInv'
<1>1. over = "no" /\ UNCHANGED <<over, works, running, verdict>>
  BY DEF AnswerCheck
<1>2. slots' = [slots EXCEPT ![s] = Slot("free")] /\ slots[s].asks = "check"
  BY DEF AnswerCheck
<1>3. PICK i \in Levels, group \in SUBSET Mutants : i = slots[s].level /\ group = slots[s].plans
  BY <1>2 DEF TInv, TypeOK, SlotsRight, Jobs
<1>4. PICK answer \in CheckAnswers(group) :
        /\ level' = [level EXCEPT ![i].checked = @ \cup {Split(answer)}]
        /\ passed' = [m \in Mutants |-> IF m \in Split(answer).passed THEN passed[m] + 1
                                        ELSE passed[m]]
  BY <1>3 DEF AnswerCheck
<1>5. PICK result \in Results : result = Split(answer)
  BY SplitType
<1>6. /\ \A m \in group : /\ m \in result.passed <=> answer[m] = "passed"
                          /\ m \in result.failed <=> answer[m] = "compileError"
                          /\ m \in result.ignored <=> answer[m] = "ignored"
                          /\ answer[m] \in {"passed", "compileError", "ignored"}
      /\ result.passed \subseteq group
      /\ result.failed \subseteq group
      /\ result.ignored \subseteq group
  BY <1>5, SplitType
<1>7. slots \in [SlotIds -> Jobs] /\ s \in JobsOf(i)
  BY <1>2, <1>3 DEF TInv, TypeOK, SlotsRight, JobsOf
<1>8. /\ slots'[s].asks = "none" /\ slots'[s].state = "free"
      /\ \A t \in SlotIds : t # s => slots'[t] = slots[t]
  BY <1>2, <1>7 DEF Slot
<1>9. /\ level'[i].at = level[i].at /\ level'[i].plans = level[i].plans
      /\ level'[i].waiting = level[i].waiting
      /\ level'[i].checked = level[i].checked \cup {result}
      /\ \A j \in Levels : j # i => level'[j] = level[j]
  BY <1>4, <1>5 DEF TInv, TypeOK
<1>10. level[i].at = "streaming"
  <2>1. AsksRight(i)
    BY <1>1 DEF PInv
  <2> QED BY <1>2, <1>7, <2>1 DEF AsksRight, TInv, TypeOK
<1>11. ASSUME NEW j \in Levels PROVE AsksRight(j)'
  <2>1. AsksRight(j)
    BY <1>1 DEF PInv
  <2>2. JobsOf(j)' = JobsOf(j) \ {s}
    BY <1>7, <1>8 DEF JobsOf
  <2>3. \A t \in JobsOf(j)' : slots'[t] = slots[t] /\ t \in JobsOf(j)
    BY <1>8, <2>2 DEF JobsOf
  <2>4. CASE j = i
    BY <1>9, <1>10, <2>1, <2>3, <2>4 DEF AsksRight
  <2>5. CASE j # i
    <3>1. JobsOf(j)' = JobsOf(j)
      BY <1>3, <2>2, <2>5 DEF JobsOf
    <3> QED BY <1>9, <2>1, <2>3, <2>5, <3>1 DEF AsksRight
  <2> QED BY <2>4, <2>5
<1>12. ASSUME NEW m \in Mutants PROVE InOnePlace(m)'
  <2>1. InOnePlace(m)
    BY <1>1 DEF PInv
  <2>2. CASE m \in group
    <3>1. At(m, "checking", s, {})
      BY <1>2, <1>3, <2>2 DEF At
    <3>2. Only(m, "checking", s, {}) /\ passed[m] = i - 1
      BY <1>3, <2>1, <3>1, OnlyThere DEF PassedAt
    <3>3. passed'[m] = IF m \in result.passed THEN i ELSE i - 1
      BY <1>4, <1>5, <3>2 DEF Levels
    <3> DEFINE place == IF m \in result.passed THEN "passed"
                        ELSE IF m \in result.failed THEN "failed" ELSE "ignored"
    <3>4. At(m, place, i, result)'
      BY <1>6, <1>9, <2>2 DEF At
    <3>5. Only(m, place, i, result)'
      BY <1>1, <1>6, <1>8, <1>9, <2>2, <3>2 DEF Only
    <3>6. PassedAt(m, place, i, result)'
      BY <3>3 DEF PassedAt
    <3> HIDE DEF place
    <3> QED BY <3>4, <3>5, <3>6, OnlyHere
  <2>3. CASE m \notin group
    <3>1. m \notin result.passed /\ m \notin result.failed /\ m \notin result.ignored
      BY <1>6, <2>3
    <3>2. \A p, k, x : At(m, p, k, x)' <=> At(m, p, k, x)
      BY <1>1, <1>2, <1>3, <1>8, <1>9, <2>3, <3>1 DEF At
    <3>3. \A t \in SlotIds : At(m, "checking", t, {}) => slots'[t].level = slots[t].level
      BY <1>3, <1>8, <2>3 DEF At
    <3>4. passed'[m] = passed[m]
      BY <1>4, <1>5, <3>1
    <3> QED BY <2>1, <3>2, <3>3, <3>4, Stays
  <2> QED BY <2>2, <2>3
<1> QED BY <1>11, <1>12 DEF PInv

\* The mutants of a result that is taken come out, or go to the next checker,
\* whose stream was at its end.
LEMMA TakePInv ==
  ASSUME TInv, PInv, NEW i \in Levels, Take(i)
  PROVE  PInv'
<1>1. over = "no" /\ UNCHANGED <<over, slots, running, verdict, passed>> /\ works = {}
      /\ level[i].at = "streaming" /\ Drained(i)
  BY DEF Take
<1>2. PICK result \in level[i].checked :
        /\ works' = Refused(result)
                      \cup (IF i = Checkers THEN Elements(result.passed, "ran") ELSE {})
        /\ level' = [j \in Levels |->
             CASE j = i -> [level[i] EXCEPT !.checked = @ \ {result}]
               [] j = i + 1 -> Opened(result.passed)
               [] OTHER -> level[j]]
  BY DEF Take
<1>3. result \in Results /\ result \in level[i].checked
  BY DEF TInv, TypeOK
<1>4. /\ level'[i].at = "streaming" /\ level'[i].plans = level[i].plans
      /\ level'[i].waiting = level[i].waiting /\ level'[i].checked = level[i].checked \ {result}
  <2>1. i # i + 1
    BY DEF Levels
  <2>2. level'[i] = [level[i] EXCEPT !.checked = @ \ {result}]
    BY <1>2, <2>1
  <2>3. level[i] \in [at : {"idle", "grouping", "streaming"}, plans : SUBSET Mutants,
                      waiting : SUBSET SUBSET Mutants, checked : SUBSET Results]
    BY DEF TInv, TypeOK
  <2> QED BY <1>1, <2>2, <2>3
<1>5. i + 1 \in Levels =>
        /\ level'[i + 1].at = "grouping" /\ level'[i + 1].plans = result.passed
        /\ level'[i + 1].waiting = {} /\ level'[i + 1].checked = {}
  <2>1. i + 1 # i
    BY DEF Levels
  <2>2. i + 1 \in Levels => level'[i + 1] = Opened(result.passed)
    BY <1>2, <2>1
  <2> QED BY <2>2 DEF Opened, Idle
<1>6. \A j \in Levels : j # i /\ j # i + 1 => level'[j] = level[j]
  BY <1>2
<1>7. i + 1 \in Levels =>
        /\ level[i + 1].at = "idle" /\ JobsOf(i + 1) = {}
        /\ level[i + 1].waiting = {} /\ level[i + 1].checked = {}
  <2> SUFFICES ASSUME i + 1 \in Levels
               PROVE  /\ level[i + 1].at = "idle" /\ JobsOf(i + 1) = {}
                      /\ level[i + 1].waiting = {} /\ level[i + 1].checked = {}
    OBVIOUS
  <2>1. level[i + 1].at = "idle"
    BY <1>1, CheckerPoolAssumption DEF Drained, Levels
  <2>2. AsksRight(i + 1)
    BY <1>1 DEF PInv
  <2> QED BY <2>1, <2>2 DEF AsksRight
<1>8. i + 1 \in Levels <=> i # Checkers
  BY CheckerPoolAssumption DEF Levels
<1>9. ASSUME NEW j \in Levels PROVE AsksRight(j)'
  <2>1. AsksRight(j)
    BY <1>1 DEF PInv
  <2>2. JobsOf(j)' = JobsOf(j)
    BY <1>1 DEF JobsOf
  <2>3. CASE j = i
    BY <1>1, <1>4, <2>1, <2>2, <2>3 DEF AsksRight
  <2>4. CASE j = i + 1
    BY <1>1, <1>5, <1>7, <2>2, <2>4 DEF AsksRight
  <2>5. CASE j # i /\ j # i + 1
    BY <1>1, <1>6, <2>1, <2>2, <2>5 DEF AsksRight
  <2> QED BY <2>3, <2>4, <2>5
<1>10. ASSUME NEW w PROVE w \in works' <=>
         \/ w \in Elements(result.ignored, "ignored")
         \/ w \in Elements(result.failed, "compileError")
         \/ i = Checkers /\ w \in Elements(result.passed, "ran")
  BY <1>2 DEF Refused
<1>11. ASSUME NEW m \in Mutants PROVE InOnePlace(m)'
  <2>1. InOnePlace(m)
    BY <1>1 DEF PInv
  <2>2. CASE m \in result.ignored \/ m \in result.failed
    <3> DEFINE status == IF m \in result.ignored THEN "ignored" ELSE "compileError"
               element == [mutant |-> m, as |-> status]
               place == IF m \in result.ignored THEN "ignored" ELSE "failed"
    <3>1. At(m, place, i, result)
      BY <1>3, <2>2 DEF At
    <3>2. Only(m, place, i, result) /\ PassedAt(m, place, i, result)
      BY <2>1, <3>1, OnlyThere
    <3>3. passed[m] = i - 1
      BY <3>2 DEF PassedAt
    <3>4. element \in works' /\ \A w \in works' : w.mutant = m => w = element
      BY <1>3, <1>10, <2>2, <3>2 DEF Elements, Only
    <3>5. At(m, "works", 0, element)'
      BY <3>4 DEF At
    <3>6. Only(m, "works", 0, element)'
      <4>1. m \notin result.passed
        BY <1>3, <3>2 DEF Only
      <4> QED BY <1>1, <1>4, <1>5, <1>6, <3>2, <3>4, <4>1 DEF Only
    <3>7. PassedAt(m, "works", 0, element)'
      BY <1>1, <3>3, CheckerPoolAssumption DEF PassedAt, Levels
    <3> HIDE DEF element
    <3> QED BY <3>5, <3>6, <3>7, OnlyHere
  <2>3. CASE m \in result.passed
    <3>1. At(m, "passed", i, result)
      BY <1>3, <2>3 DEF At
    <3>2. Only(m, "passed", i, result) /\ passed[m] = i
      BY <2>1, <3>1, OnlyThere DEF PassedAt
    <3>3. m \notin result.ignored /\ m \notin result.failed
      BY <1>3, <3>2 DEF Only
    <3>4. CASE i = Checkers
      <4> DEFINE element == [mutant |-> m, as |-> "ran"]
      <4>1. element \in works' /\ \A w \in works' : w.mutant = m => w = element
        BY <1>10, <2>3, <3>3, <3>4 DEF Elements
      <4>2. At(m, "works", 0, element)'
        BY <4>1 DEF At
      <4>3. Only(m, "works", 0, element)'
        BY <1>1, <1>4, <1>6, <1>8, <3>2, <3>4, <4>1 DEF Only
      <4>4. PassedAt(m, "works", 0, element)'
        BY <1>1, <3>2, <3>4 DEF PassedAt
      <4> HIDE DEF element
      <4> QED BY <4>2, <4>3, <4>4, OnlyHere
    <3>5. CASE i # Checkers
      <4>1. \A w \in works' : w.mutant # m
        BY <1>10, <3>3, <3>5 DEF Elements
      <4>2. i + 1 \in Levels
        BY <1>8, <3>5
      <4>3. At(m, "grouping", i + 1, {})'
        BY <1>5, <2>3, <4>2 DEF At
      <4>4. Only(m, "grouping", i + 1, {})'
        BY <1>1, <1>4, <1>5, <1>6, <3>2, <4>1, <4>2 DEF Only
      <4>5. PassedAt(m, "grouping", i + 1, {})'
        BY <1>1, <3>2 DEF PassedAt, Levels
      <4> QED BY <4>3, <4>4, <4>5, OnlyHere
    <3> QED BY <3>4, <3>5
  <2>4. CASE m \notin result.ignored \cup result.failed \cup result.passed
    <3>1. \A w \in works' : w.mutant # m
      BY <1>10, <2>4 DEF Elements
    <3>2. \A p, k, x : At(m, p, k, x)' <=> At(m, p, k, x)
      BY <1>1, <1>3, <1>4, <1>5, <1>6, <1>7, <2>4, <3>1 DEF At
    <3>3. \A t \in SlotIds : At(m, "checking", t, {}) => slots'[t].level = slots[t].level
      BY <1>1
    <3> QED BY <1>1, <2>1, <3>2, <3>3, Stays
  <2> QED BY <2>2, <2>3, <2>4
<1> QED BY <1>9, <1>11 DEF PInv

\* A stream that ends leaves nobody behind.
LEMMA EndLevelPInv ==
  ASSUME TInv, PInv, NEW i \in Levels, EndLevel(i)
  PROVE  PInv'
<1>1. over = "no" /\ UNCHANGED <<over, slots, works, running, verdict, passed>>
      /\ level[i].at = "streaming" /\ JobsOf(i) = {}
      /\ level[i].waiting = {} /\ level[i].checked = {}
  BY DEF EndLevel
<1>2. level'[i] = Idle /\ \A j \in Levels : j # i => level'[j] = level[j]
  BY DEF EndLevel, TInv, TypeOK
<1>3. ASSUME NEW j \in Levels PROVE AsksRight(j)'
  <2>1. AsksRight(j) /\ JobsOf(j)' = JobsOf(j)
    BY <1>1 DEF PInv, JobsOf
  <2>2. CASE j = i
    BY <1>1, <1>2, <2>1, <2>2 DEF AsksRight, Idle
  <2>3. CASE j # i
    BY <1>1, <1>2, <2>1, <2>3 DEF AsksRight
  <2> QED BY <2>2, <2>3
<1>4. ASSUME NEW m \in Mutants PROVE InOnePlace(m)'
  <2>1. \A p, k, x : At(m, p, k, x)' <=> At(m, p, k, x)
    BY <1>1, <1>2 DEF At, Idle
  <2> QED BY <1>1, <2>1, Stays DEF PInv
<1> QED BY <1>3, <1>4 DEF PInv

\* What only concerns the elements that came out leaves the checkers alone.
LEMMA CheckersKept ==
  ASSUME PInv, over = "no", UNCHANGED <<over, slots, level>>
  PROVE  \A j \in Levels : AsksRight(j)'
BY DEF PInv, AsksRight, JobsOf

LEMMA StartWorkPInv == ASSUME TInv, PInv, StartWork PROVE PInv'
<1>1. over = "no" /\ UNCHANGED <<over, slots, level, verdict, passed>>
  BY DEF StartWork
<1>2. PICK w \in works : works' = works \ {w} /\ running' = running \cup {w}
  BY DEF StartWork
<1>3. ASSUME NEW m \in Mutants PROVE InOnePlace(m)'
  <2>1. InOnePlace(m)
    BY <1>1 DEF PInv
  <2>2. CASE w.mutant = m
    <3>1. At(m, "works", 0, w)
      BY <2>2 DEF At
    <3>2. Only(m, "works", 0, w) /\ PassedAt(m, "works", 0, w)
      BY <2>1, <3>1, OnlyThere
    <3>3. At(m, "running", 0, w)'
      BY <1>2, <2>2 DEF At
    <3>4. Only(m, "running", 0, w)'
      BY <1>1, <1>2, <2>2, <3>2 DEF Only
    <3>5. PassedAt(m, "running", 0, w)'
      BY <1>1, <3>2 DEF PassedAt
    <3> QED BY <3>3, <3>4, <3>5, OnlyHere
  <2>3. CASE w.mutant # m
    <3>1. \A p, k, x : At(m, p, k, x)' <=> At(m, p, k, x)
      BY <1>1, <1>2, <2>3 DEF At
    <3> QED BY <1>1, <2>1, <3>1, Stays
  <2> QED BY <2>2, <2>3
<1> QED BY <1>1, <1>3, CheckersKept DEF PInv

LEMMA FinishWorkPInv == ASSUME TInv, PInv, FinishWork PROVE PInv'
<1>1. over = "no" /\ UNCHANGED <<over, slots, level, works, passed>>
  BY DEF FinishWork
<1>2. PICK w \in running : /\ running' = running \ {w}
                           /\ verdict' = [verdict EXCEPT ![w.mutant] = w.as]
  BY DEF FinishWork
<1>3. w \in Works
  BY DEF TInv, TypeOK
<1>4. ASSUME NEW m \in Mutants PROVE InOnePlace(m)'
  <2>1. InOnePlace(m)
    BY <1>1 DEF PInv
  <2>2. CASE w.mutant = m
    <3>1. At(m, "running", 0, w)
      BY <2>2 DEF At
    <3>2. Only(m, "running", 0, w)
      BY <2>1, <3>1, OnlyThere
    <3>3. verdict'[m] # "none"
      BY <1>2, <1>3, <2>2 DEF Works, TInv, TypeOK
    <3>4. At(m, "settled", 0, {})'
      BY <3>3 DEF At
    <3>5. Only(m, "settled", 0, {})'
      BY <1>1, <1>2, <2>2, <3>2 DEF Only
    <3>6. PassedAt(m, "settled", 0, {})'
      BY DEF PassedAt
    <3> QED BY <3>4, <3>5, <3>6, OnlyHere
  <2>3. CASE w.mutant # m
    <3>1. verdict'[m] = verdict[m]
      BY <1>2, <2>3 DEF TInv, TypeOK
    <3>2. \A p, k, x : At(m, p, k, x)' <=> At(m, p, k, x)
      BY <1>1, <1>2, <2>3, <3>1 DEF At
    <3> QED BY <1>1, <2>1, <3>2, Stays
  <2> QED BY <2>2, <2>3
<1> QED BY <1>1, <1>4, CheckersKept DEF PInv

\* A slot that comes up, or does not.
LEMMA BootPInv == ASSUME TInv, PInv, NEW s \in SlotIds, Boot(s) PROVE PInv'
<1>1. over = "no" /\ UNCHANGED <<over, level, works, running, verdict, passed>>
  BY DEF Boot
<1>2. /\ slots[s].state = "booting" /\ slots[s].asks = "none"
      /\ slots'[s].asks = "none" /\ slots'[s].state # "busy"
      /\ \A t \in SlotIds : t # s => slots'[t] = slots[t]
  BY DEF Boot, Slot, TInv, TypeOK, SlotsRight
<1>3. ASSUME NEW j \in Levels PROVE AsksRight(j)'
  <2>1. AsksRight(j)
    BY <1>1 DEF PInv
  <2>2. JobsOf(j)' = JobsOf(j)
    BY <1>2 DEF JobsOf
  <2>3. \A t \in JobsOf(j) : slots'[t] = slots[t]
    BY <1>2 DEF JobsOf
  <2> QED BY <1>1, <2>1, <2>2, <2>3 DEF AsksRight
<1>4. ASSUME NEW m \in Mutants PROVE InOnePlace(m)'
  <2>1. \A p, k, x : At(m, p, k, x)' <=> At(m, p, k, x)
    BY <1>1, <1>2 DEF At
  <2>2. \A t \in SlotIds : At(m, "checking", t, {}) => slots'[t].level = slots[t].level
    BY <1>2 DEF At
  <2> QED BY <1>1, <2>1, <2>2, Stays DEF PInv
<1> QED BY <1>3, <1>4 DEF PInv

LEMMA NextPInv == ASSUME Overlap = FALSE PROVE TInv /\ PInv /\ [Next]_vars => PInv'
<1> SUFFICES ASSUME TInv, PInv, [Next]_vars PROVE PInv'
  OBVIOUS
<1>1. CASE UNCHANGED vars
  <2>1. CASE over = "no"
    <3>1. \A m \in Mutants : InOnePlace(m)'
      <4> SUFFICES ASSUME NEW m \in Mutants PROVE InOnePlace(m)'
        OBVIOUS
      <4>1. \A p, k, x : At(m, p, k, x)' <=> At(m, p, k, x)
        BY <1>1 DEF vars, At
      <4> QED BY <1>1, <2>1, <4>1, Stays DEF PInv, vars
    <3> QED BY <1>1, <2>1, <3>1, CheckersKept DEF PInv, vars
  <2>2. CASE over # "no"
    BY <1>1, <2>2 DEF PInv, vars
  <2> QED BY <2>1, <2>2
<1>2. ASSUME NEW s \in SlotIds, UseFails(s) \/ Refuse(s) \/ Crash(s) PROVE PInv'
  BY <1>2 DEF UseFails, Refuse, Crash, PInv
<1>3. CASE EndStream \/ FailWork
  BY <1>3 DEF EndStream, FailWork, PInv
<1> QED BY <1>1, <1>2, <1>3, BootPInv, AskGroupsPInv, AnswerGroupsPInv, AskCheckPInv,
           AnswerCheckPInv, TakePInv, EndLevelPInv, StartWorkPInv, FinishWorkPInv
        DEF Next, CheckStep, WorkStep

-----------------------------------------------------------------------------
(* The refinement.                                                         *)

\* An answer lets some mutants pass one checker more.
LEMMA AnswerPasses ==
  ASSUME TInv, PInv, NEW s \in SlotIds, AnswerCheck(s)
  PROVE  Chain!Pass
<1>1. over = "no" /\ UNCHANGED <<verdict, over>> /\ slots[s].asks = "check"
  BY DEF AnswerCheck
<1>2. slots[s].plans \in SUBSET Mutants /\ slots[s].level \in Levels
  BY <1>1 DEF TInv, TypeOK, SlotsRight, Jobs
<1>3. PICK answer \in CheckAnswers(slots[s].plans) :
        passed' = [m \in Mutants |-> IF m \in Split(answer).passed THEN passed[m] + 1
                                    ELSE passed[m]]
  BY DEF AnswerCheck
<1>4. Split(answer).passed \subseteq slots[s].plans
  BY <1>2, SplitType
<1>5. ASSUME NEW m \in Split(answer).passed PROVE verdict[m] = "none" /\ passed[m] < Checkers
  <2>1. m \in Mutants /\ At(m, "checking", s, {})
    BY <1>1, <1>2, <1>4 DEF At
  <2>2. Only(m, "checking", s, {}) /\ PassedAt(m, "checking", s, {})
    BY <1>1, <2>1, OnlyThere DEF PInv
  <2> QED BY <1>2, <2>2, CheckerPoolAssumption DEF Only, PassedAt, Levels
<1> QED BY <1>1, <1>2, <1>3, <1>4, <1>5 DEF Chain!Pass

\* What is settled is settled as the checkers have it.
LEMMA WorkSettles ==
  ASSUME TInv, PInv, FinishWork
  PROVE  \E m \in Mutants : Chain!Settle(m)
<1>1. over = "no" /\ UNCHANGED <<passed, over>>
  BY DEF FinishWork
<1>2. PICK w \in running : verdict' = [verdict EXCEPT ![w.mutant] = w.as]
  BY DEF FinishWork
<1>3. w \in Works
  BY DEF TInv, TypeOK
<1>4. At(w.mutant, "running", 0, w) /\ w.mutant \in Mutants
  BY <1>3 DEF At, Works
<1>5. Only(w.mutant, "running", 0, w) /\ PassedAt(w.mutant, "running", 0, w)
  BY <1>1, <1>4, OnlyThere DEF PInv
<1>6. verdict[w.mutant] = "none" /\ (w.as = "ran" <=> passed[w.mutant] = Checkers)
  BY <1>5 DEF Only, PassedAt
<1>7. Chain!Settle(w.mutant)
  BY <1>1, <1>2, <1>3, <1>6 DEF Chain!Settle, Works
<1> QED BY <1>4, <1>7

\* When nothing is left to do every mutant is settled.
LEMMA StreamFinishes ==
  ASSUME TInv, PInv, EndStream
  PROVE  Chain!Finish
<1>1. over = "no" /\ over' = "done" /\ UNCHANGED <<passed, verdict>>
      /\ works = {} /\ running = {} /\ \A i \in Levels : level[i].at = "idle"
  BY DEF EndStream
<1>2. ASSUME NEW m \in Mutants, verdict[m] = "none" PROVE FALSE
  <2>1. PICK p, i, x : At(m, p, i, x)
    BY <1>1 DEF PInv, InOnePlace
  <2>2. \A j \in Levels : level[j].waiting = {} /\ level[j].checked = {} /\ JobsOf(j) = {}
    BY <1>1 DEF PInv, AsksRight
  <2>3. \A s \in SlotIds : slots[s].asks # "check"
    BY <2>2 DEF TInv, SlotsRight, JobsOf
  <2> QED BY <1>1, <1>2, <2>1, <2>2, <2>3 DEF At
<1> QED BY <1>1, <1>2 DEF Chain!Finish

LEMMA NextChain ==
  TInv /\ PInv /\ [Next]_vars => [Chain!Next]_(Chain!vars)
<1> SUFFICES ASSUME TInv, PInv, [Next]_vars PROVE [Chain!Next]_(Chain!vars)
  OBVIOUS
<1>1. ASSUME NEW s \in SlotIds, UseFails(s) \/ Refuse(s) \/ Crash(s) PROVE Chain!Fail
  BY <1>1 DEF UseFails, Refuse, Crash, Chain!Fail
<1>2. CASE FailWork
  BY <1>2 DEF FailWork, Chain!Next, Chain!Fail
<1>3. ASSUME NEW s \in SlotIds, Boot(s) \/ AnswerGroups(s) PROVE UNCHANGED Chain!vars
  BY <1>3 DEF Boot, AnswerGroups, Chain!vars
<1>4. ASSUME NEW i \in Levels, NEW s \in SlotIds, AskGroups(i, s) \/ AskCheck(i, s)
      PROVE  UNCHANGED Chain!vars
  BY <1>4 DEF AskGroups, AskCheck, Chain!vars
<1>5. ASSUME NEW i \in Levels, Take(i) \/ EndLevel(i) PROVE UNCHANGED Chain!vars
  BY <1>5 DEF Take, EndLevel, Chain!vars
<1>6. CASE StartWork \/ UNCHANGED vars
  BY <1>6 DEF StartWork, vars, Chain!vars
<1> QED BY <1>1, <1>2, <1>3, <1>4, <1>5, <1>6, AnswerPasses, WorkSettles, StreamFinishes
        DEF Next, CheckStep, WorkStep, Chain!Next

\* The pool, its concurrent groups and the streams between its checkers keep what
\* a chain of checkers promises: each mutant is put to them in turn, is run once
\* all have passed it, keeps the verdict of the first that did not, is settled
\* once, and the stream ends only when all are (checkedPlans, runCheckedPlans).
THEOREM Implements == ASSUME Overlap = FALSE PROVE Spec => KeepsChain
<1>1. Init => Chain!Init
  BY DEF Init, Chain!Init
<1> QED BY <1>1, InitTInv, NextTInv, InitPInv, NextPInv, NextChain, PTL
        DEF Spec, KeepsChain, Chain!Spec
=============================================================================
