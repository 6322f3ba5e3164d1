--------------------------- MODULE MutantRunsProofs ---------------------------
(***************************************************************************)
(* The runs of mutants on pooled workers, for any number of mutants, workers *)
(* and retries: who holds which worker, and what state it is in.             *)
(***************************************************************************)
EXTENDS MutantRuns, FiniteSetTheorems, TLAPS

\* The phases in which a mutant's current attempt has a worker.
Attempting == {"ready", "asked", "running", "answered", "settling"}

\* The worker of an attempt is sound until the attempt has been judged.
RunnerRight(m) ==
  /\ phase[m] \notin Attempting => runner[m] = None
  /\ phase[m] \in Attempting =>
       /\ runner[m] \in live /\ owner[runner[m]] = m
       /\ phase[m] # "settling" => runner[m] \notin invalidated
       /\ phase[m] \in {"ready", "asked", "running"} => runner[m] \notin missed
       /\ phase[m] \in {"ready", "asked"} => executing[runner[m]] = None
       /\ phase[m] = "running" => executing[runner[m]] \in {None, m}
       /\ phase[m] = "answered" =>
            /\ answer[m] # None
            /\ runner[m] \in missed <=> CoveringTestMissing(m)
            /\ answer[m] # "wallClock" => executing[runner[m]] = None
       /\ phase[m] = "settling" /\ runner[m] \notin invalidated =>
            executing[runner[m]] = None /\ runner[m] \notin missed

\* A mutant in its second attempt holds the worker of the first, and no mutant
\* holds any other.
HoldsRight(m) ==
  /\ phase[m] \in {"queued", "done"} => attempt[m] = 0
  /\ attempt[m] = 0 => \A w \in Workers : owner[w] = m => w = runner[m]
  /\ attempt[m] = 1 =>
       \E v \in missed \cap invalidated :
         /\ v # runner[m] /\ owner[v] = m
         /\ \A w \in Workers : owner[w] = m => w = v \/ w = runner[m]

VerdictRight(m) ==
  phase[m] = "settling" /\ m \in Covered =>
    /\ verdict[m] = "Tested" => answer[m] = "tested"
    /\ verdict[m] = "NoCoveringTest" => attempt[m] = 1 /\ runner[m] \in missed \cap invalidated

MutantInv(m) == RunnerRight(m) /\ HoldsRight(m) /\ VerdictRight(m)

\* A worker nobody holds may be given to anyone.
WorkerInv(w) ==
  /\ owner[w] = None => w \notin invalidated /\ w \notin missed /\ executing[w] = None
  /\ w \notin live =>
       /\ owner[w] = None /\ w \notin stale
       /\ known[w] = "pristine" /\ environment[w] = "empty"

IInv ==
  TypeOK /\ (\A m \in Mutants : MutantInv(m)) /\ (\A w \in Workers : WorkerInv(w))

-----------------------------------------------------------------------------
(* The types.                                                              *)

LEMMA NoneApart == None \notin Mutants /\ None \notin Workers
BY RunsAssumption

LEMMA InitType == Init => TypeOK
<1> SUFFICES ASSUME Init PROVE TypeOK
  OBVIOUS
<1>1. /\ phase \in [Mutants -> Phases] /\ attempt \in [Mutants -> 0 .. 1]
      /\ tries \in [Mutants -> 0 .. MaxRetries] /\ reload \in [Mutants -> BOOLEAN]
  BY RunsAssumption DEF Init, Phases
<1>2. /\ runner \in [Mutants -> Workers \cup {None}]
      /\ answer \in [Mutants -> Answers \cup {None}]
      /\ verdict \in [Mutants -> Verdicts \cup {None}]
  BY DEF Init
<1>3. /\ owner \in [Workers -> Mutants \cup {None}]
      /\ executing \in [Workers -> Mutants \cup {None}]
      /\ known \in [Workers -> EnvironmentStates]
      /\ environment \in [Workers -> Environments]
  BY DEF Init, EnvironmentStates, Environments
<1>4. /\ runs \in [Workers -> Nat] /\ served \in [Workers -> Nat]
      /\ cutOff \in [Workers -> SUBSET Mutants] /\ gone \subseteq live
  BY DEF Init
<1> QED BY <1>1, <1>2, <1>3, <1>4 DEF Init, TypeOK

LEMMA DiscardType ==
  ASSUME TypeOK, NEW ended \in SUBSET Workers, Discard(ended)
  PROVE  /\ live' \subseteq Workers /\ invalidated' \subseteq live'
         /\ known' \in [Workers -> EnvironmentStates]
         /\ environment' \in [Workers -> Environments]
         /\ executing' \in [Workers -> Mutants \cup {None}]
         /\ cutOff' \in [Workers -> SUBSET Mutants] /\ gone' \subseteq live'
         /\ runs' \in [Workers -> Nat] /\ served' \in [Workers -> Nat]
         /\ missed' \subseteq Workers /\ stale' \subseteq Workers
BY DEF TypeOK, Discard, EnvironmentStates, Environments

LEMMA NextType == ASSUME IInv, [Next]_vars PROVE TypeOK'
<1> USE DEF IInv
<1>1. CASE UNCHANGED vars
  BY <1>1 DEF vars, fiber_vars, pool_vars, worker_vars, TypeOK
<1>2. ASSUME NEW m \in Mutants, Begin(m) PROVE TypeOK'
  BY <1>2 DEF Begin, pool_vars, worker_vars, TypeOK, Phases
<1>3. ASSUME NEW m \in Mutants, NEW w \in Workers, Acquire(m, w) PROVE TypeOK'
  BY <1>3 DEF Acquire, worker_vars, TypeOK, Phases
<1>4. ASSUME NEW m \in Mutants, BootFails(m) PROVE TypeOK'
  BY <1>4 DEF BootFails, fiber_vars, pool_vars, worker_vars, TypeOK
<1>5. ASSUME NEW w \in Workers, Expire(w) PROVE TypeOK'
  <2>1. Discard({w}) /\ UNCHANGED <<fiber_vars, owner, failed>>
    BY <1>5 DEF Expire
  <2> QED BY <2>1, DiscardType DEF fiber_vars, TypeOK
<1>6. ASSUME NEW m \in Mutants, Release(m) PROVE TypeOK'
  <2>1. Discard(HeldBy(m) \cap invalidated)
    BY <1>6 DEF Release
  <2>2. HeldBy(m) \cap invalidated \in SUBSET Workers
    BY DEF HeldBy
  <2>3. /\ phase' \in [Mutants -> Phases] /\ attempt' \in [Mutants -> 0 .. 1]
        /\ tries' \in [Mutants -> 0 .. MaxRetries] /\ reload' \in [Mutants -> BOOLEAN]
        /\ runner' \in [Mutants -> Workers \cup {None}]
        /\ answer' \in [Mutants -> Answers \cup {None}]
    BY <1>6, RunsAssumption DEF Release, TypeOK, Phases
  <2>4. owner' \in [Workers -> Mutants \cup {None}] /\ UNCHANGED <<verdict, failed>>
    BY <1>6 DEF Release, TypeOK
  <2> QED BY <2>1, <2>2, <2>3, <2>4, DiscardType DEF TypeOK
<1>7. ASSUME NEW m \in Mutants, Ask(m) PROVE TypeOK'
  <2>1. runner[m] \in Workers
    BY <1>7 DEF Ask, MutantInv, RunnerRight, Attempting, TypeOK
  <2>2. runs' \in [Workers -> Nat] /\ served' \in [Workers -> Nat]
    BY <1>7, <2>1 DEF Ask, CountRun, TypeOK
  <2>3. ReloadNeeded(m, known[runner[m]]) \in BOOLEAN
    BY RunsAssumption DEF ReloadNeeded
  <2> QED BY <1>7, <2>2, <2>3 DEF Ask, pool_vars, TypeOK, Phases
<1>8. ASSUME NEW m \in Mutants, RunStarts(m) PROVE TypeOK'
  BY <1>8 DEF RunStarts, pool_vars, TypeOK, Phases, Environments
<1>9. ASSUME NEW m \in Mutants, NEW given \in Answers, RunAnswers(m, given) PROVE TypeOK'
  <2>1. runner[m] \in Workers
    BY <1>9 DEF RunAnswers, MutantInv, RunnerRight, Attempting, TypeOK
  <2> QED BY <1>9, <2>1 DEF RunAnswers, NextState, pool_vars, TypeOK, Phases, EnvironmentStates
<1>10. ASSUME NEW m \in Mutants, DeadlinePasses(m) PROVE TypeOK'
  BY <1>10 DEF DeadlinePasses, NextState, pool_vars, TypeOK, Phases, EnvironmentStates, Answers
<1>11. ASSUME NEW m \in Mutants, TryFails(m) \/ ConnectionLost(m) PROVE TypeOK'
  <2>1. FailTry(m) /\ executing' = [executing EXCEPT ![runner[m]] = None]
    BY <1>11 DEF TryFails, ConnectionLost
  <2>2. runner[m] \in Workers
    BY <2>1 DEF FailTry, MutantInv, RunnerRight, Attempting, TypeOK
  <2>3. /\ tries' \in [Mutants -> 0 .. MaxRetries]
        /\ answer' \in [Mutants -> Answers \cup {None}] /\ phase' \in [Mutants -> Phases]
    BY <2>1, RunsAssumption DEF FailTry, TypeOK, Phases, Answers
  <2>4. cutOff' \in [Workers -> SUBSET Mutants]
    BY <1>11, <2>2 DEF TryFails, ConnectionLost, TypeOK
  <2> QED BY <2>1, <2>2, <2>3, <2>4 DEF FailTry, pool_vars, TypeOK
<1>12. ASSUME NEW m \in Mutants, SettleAnswer(m) PROVE TypeOK'
  <2>1. answer[m] \in {"tested", "missed", "error"}
    BY <1>12 DEF SettleAnswer, MutantInv, RunnerRight, Attempting, TypeOK, Answers
  <2> QED BY <1>12, <2>1 DEF SettleAnswer, Settle, VerdictOf, pool_vars, worker_vars, TypeOK,
             Phases, Verdicts
<1>13. ASSUME NEW m \in Mutants, RecycleAndSettle(m) \/ RetryAttempt(m) \/ GiveUp(m)
       PROVE  TypeOK'
  <2>1. runner[m] \in live
    BY <1>13 DEF RecycleAndSettle, RetryAttempt, GiveUp, MutantInv, RunnerRight, Attempting
  <2>2. CASE RecycleAndSettle(m)
    BY <2>1, <2>2 DEF RecycleAndSettle, Settle, VerdictOf, worker_vars, TypeOK, Phases, Verdicts
  <2>3. CASE RetryAttempt(m)
    BY <2>1, <2>3, RunsAssumption DEF RetryAttempt, worker_vars, TypeOK, Phases
  <2>4. CASE GiveUp(m)
    BY <2>1, <2>4 DEF GiveUp, Settle, worker_vars, TypeOK, Phases, Verdicts
  <2> QED BY <1>13, <2>2, <2>3, <2>4
<1>14. ASSUME NEW w \in Workers, WorkerExits(w) PROVE TypeOK'
  BY <1>14 DEF WorkerExits, fiber_vars, pool_vars, TypeOK
<1>15. ASSUME NEW w \in Workers, NEW m \in Mutants, CutOffEnds(w, m) PROVE TypeOK'
  BY <1>15 DEF CutOffEnds, fiber_vars, pool_vars, TypeOK
<1> QED BY <1>1, <1>2, <1>3, <1>4, <1>5, <1>6, <1>7, <1>8, <1>9, <1>10, <1>11, <1>12, <1>13,
           <1>14, <1>15
        DEF Next, FiberStep, WorkerStep

-----------------------------------------------------------------------------
(* The invariant.                                                          *)

LEMMA InitIInv == Init => IInv
<1> SUFFICES ASSUME Init PROVE IInv
  OBVIOUS
<1>1. ASSUME NEW m \in Mutants PROVE MutantInv(m)
  BY NoneApart DEF Init, MutantInv, RunnerRight, HoldsRight, VerdictRight, Attempting
<1>2. ASSUME NEW w \in Workers PROVE WorkerInv(w)
  BY DEF Init, WorkerInv
<1> QED BY <1>1, <1>2, InitType DEF IInv

\* A step that changes neither a mutant's fiber nor its workers.
LEMMA Bystander ==
  ASSUME TypeOK, NEW n \in Mutants, MutantInv(n),
         phase'[n] = phase[n], attempt'[n] = attempt[n], runner'[n] = runner[n],
         answer'[n] = answer[n], verdict'[n] = verdict[n],
         \A v \in Workers : owner'[v] = n <=> owner[v] = n,
         \A v \in Workers : owner[v] = n =>
           /\ v \in live' <=> v \in live
           /\ v \in invalidated' <=> v \in invalidated
           /\ v \in missed' <=> v \in missed
           /\ executing'[v] = executing[v]
  PROVE  MutantInv(n)'
<1>1. phase[n] \in Attempting => runner[n] \in Workers /\ owner[runner[n]] = n
  BY DEF MutantInv, RunnerRight, TypeOK
<1>2. RunnerRight(n)'
  BY <1>1 DEF MutantInv, RunnerRight, CoveringTestMissing
<1>3. HoldsRight(n)'
  <2>1. phase'[n] \in {"queued", "done"} => attempt'[n] = 0
    BY DEF MutantInv, HoldsRight
  <2>2. attempt'[n] = 0 => \A w \in Workers : owner'[w] = n => w = runner'[n]
    BY DEF MutantInv, HoldsRight
  <2>3. ASSUME attempt'[n] = 1
        PROVE  \E v \in missed' \cap invalidated' :
                 /\ v # runner'[n] /\ owner'[v] = n
                 /\ \A w \in Workers : owner'[w] = n => w = v \/ w = runner'[n]
    <3>1. PICK v \in missed \cap invalidated :
            /\ v # runner[n] /\ owner[v] = n
            /\ \A w \in Workers : owner[w] = n => w = v \/ w = runner[n]
      BY <2>3 DEF MutantInv, HoldsRight
    <3>2. v \in Workers
      BY <3>1 DEF TypeOK
    <3> QED BY <3>1, <3>2
  <2> QED BY <2>1, <2>2, <2>3 DEF HoldsRight
<1>4. VerdictRight(n)'
  BY <1>1 DEF MutantInv, VerdictRight, Attempting
<1> QED BY <1>2, <1>3, <1>4 DEF MutantInv

LEMMA BeginIInv ==
  ASSUME IInv, NEW m \in Mutants, Begin(m)
  PROVE  (\A n \in Mutants : MutantInv(n)') /\ (\A w \in Workers : WorkerInv(w)')
<1>1. phase[m] = "queued" /\ phase' = [phase EXCEPT ![m] = "acquiring"]
      /\ UNCHANGED <<attempt, runner, answer, verdict, live, owner, invalidated, known,
                     environment, executing, missed, stale>>
  BY DEF Begin, pool_vars, worker_vars
<1>2. MutantInv(m)'
  BY <1>1 DEF IInv, MutantInv, RunnerRight, HoldsRight, VerdictRight, Attempting, TypeOK
<1>3. ASSUME NEW n \in Mutants, n # m PROVE MutantInv(n)'
  BY <1>1, <1>3, Bystander DEF IInv, TypeOK
<1>4. ASSUME NEW w \in Workers PROVE WorkerInv(w)'
  BY <1>1 DEF IInv, WorkerInv
<1> QED BY <1>2, <1>3, <1>4

LEMMA AcquireIInv ==
  ASSUME IInv, NEW m \in Mutants, NEW w \in Workers, Acquire(m, w)
  PROVE  (\A n \in Mutants : MutantInv(n)') /\ (\A v \in Workers : WorkerInv(v)')
<1>1. /\ phase[m] = "acquiring" /\ phase' = [phase EXCEPT ![m] = "ready"]
      /\ live' = live \cup {w} /\ owner' = [owner EXCEPT ![w] = m]
      /\ runner' = [runner EXCEPT ![m] = w]
      /\ UNCHANGED <<attempt, answer, verdict, invalidated, known, environment, executing,
                     missed, stale>>
  BY DEF Acquire, worker_vars
<1>2. owner[w] = None /\ w \notin invalidated /\ w \notin missed /\ executing[w] = None
  BY DEF Acquire, Available, IInv, WorkerInv
<1>3. /\ phase'[m] = "ready" /\ runner'[m] = w /\ owner'[w] = m /\ w \in live'
      /\ runner[m] = None
      /\ \A v \in Workers : v # w => owner'[v] = owner[v]
  BY <1>1 DEF IInv, MutantInv, RunnerRight, Attempting, TypeOK
<1>4. RunnerRight(m)' /\ VerdictRight(m)'
  BY <1>1, <1>2, <1>3 DEF RunnerRight, VerdictRight, Attempting
<1>5. HoldsRight(m)'
  <2>1. HoldsRight(m)
    BY DEF IInv, MutantInv
  <2>2. CASE attempt[m] = 0
    BY <1>1, <1>3, <2>1, <2>2, NoneApart DEF HoldsRight
  <2>3. CASE attempt[m] = 1
    <3>1. PICK v \in missed \cap invalidated :
            /\ owner[v] = m /\ \A u \in Workers : owner[u] = m => u = v \/ u = runner[m]
      BY <2>1, <2>3 DEF HoldsRight
    <3>2. v # w /\ v \in Workers
      BY <1>2, <3>1 DEF IInv, TypeOK
    <3>3. \A u \in Workers : owner'[u] = m => u = v \/ u = w
      BY <1>3, <3>1, NoneApart
    <3> QED BY <1>1, <1>3, <2>3, <3>1, <3>2, <3>3 DEF HoldsRight
  <2> QED BY <2>2, <2>3 DEF IInv, TypeOK
<1>6. ASSUME NEW n \in Mutants, n # m PROVE MutantInv(n)'
  <2>1. owner[w] # n
    BY <1>2, NoneApart
  <2> QED BY <1>1, <1>3, <1>6, <2>1, Bystander DEF IInv, TypeOK
<1>7. ASSUME NEW v \in Workers PROVE WorkerInv(v)'
  BY <1>1, <1>2, <1>3, NoneApart DEF IInv, WorkerInv
<1> QED BY <1>4, <1>5, <1>6, <1>7 DEF MutantInv

\* A mutant that moves on with its worker, in its current attempt: nobody else is
\* concerned.
LEMMA Moves ==
  ASSUME IInv, NEW m \in Mutants, NEW w \in live, w = runner[m], owner[w] = m,
         UNCHANGED <<attempt, runner, live, owner>>,
         \A n \in Mutants : n # m =>
           phase'[n] = phase[n] /\ answer'[n] = answer[n] /\ verdict'[n] = verdict[n],
         phase[m] \in Attempting, phase'[m] \in Attempting,
         \A v \in Workers : v # w =>
           /\ v \in invalidated' <=> v \in invalidated
           /\ v \in missed' <=> v \in missed
           /\ v \in stale' <=> v \in stale
           /\ executing'[v] = executing[v]
           /\ known'[v] = known[v] /\ environment'[v] = environment[v]
  PROVE  /\ HoldsRight(m)'
         /\ \A n \in Mutants : n # m => MutantInv(n)'
         /\ \A v \in Workers : WorkerInv(v)'
<1>1. w \in Workers
  BY DEF IInv, TypeOK
<1>2. HoldsRight(m)'
  <2>1. HoldsRight(m)
    BY DEF IInv, MutantInv
  <2>2. CASE attempt[m] = 0
    BY <2>1, <2>2 DEF HoldsRight, Attempting
  <2>3. CASE attempt[m] = 1
    <3>1. PICK v \in missed \cap invalidated :
            /\ v # runner[m] /\ owner[v] = m
            /\ \A u \in Workers : owner[u] = m => u = v \/ u = runner[m]
      BY <2>1, <2>3 DEF HoldsRight
    <3>2. v \in Workers
      BY <3>1 DEF IInv, TypeOK
    <3> QED BY <2>3, <3>1, <3>2 DEF HoldsRight, Attempting
  <2> QED BY <2>2, <2>3 DEF IInv, TypeOK
<1>3. ASSUME NEW n \in Mutants, n # m PROVE MutantInv(n)'
  <2>1. \A v \in Workers : owner[v] = n => v # w
    BY <1>3
  <2> QED BY <1>3, <2>1, Bystander DEF IInv
<1>4. ASSUME NEW v \in Workers PROVE WorkerInv(v)'
  <2>1. CASE v = w
    BY <2>1, NoneApart DEF WorkerInv
  <2>2. CASE v # w
    BY <2>2 DEF IInv, WorkerInv
  <2> QED BY <2>1, <2>2
<1> QED BY <1>2, <1>3, <1>4

\* What every step of an attempt starts from.
LEMMA OwnWorker ==
  ASSUME IInv, NEW m \in Mutants, phase[m] \in Attempting
  PROVE  \E w \in live : w = runner[m] /\ w \in Workers /\ owner[w] = m
BY DEF IInv, MutantInv, RunnerRight, TypeOK

LEMMA AskIInv ==
  ASSUME IInv, NEW m \in Mutants, Ask(m)
  PROVE  (\A n \in Mutants : MutantInv(n)') /\ (\A v \in Workers : WorkerInv(v)')
<1>1. /\ phase[m] = "ready" /\ phase' = [phase EXCEPT ![m] = "asked"]
      /\ UNCHANGED <<attempt, runner, answer, verdict, live, owner, invalidated, known,
                     environment, executing, missed, stale>>
  BY DEF Ask, pool_vars
<1>2. PICK w \in live : w = runner[m] /\ w \in Workers /\ owner[w] = m
  BY <1>1, OwnWorker DEF Attempting
<1>3. phase'[m] = "asked"
  BY <1>1 DEF IInv, TypeOK
<1>4. RunnerRight(m)' /\ VerdictRight(m)'
  BY <1>1, <1>3 DEF IInv, MutantInv, RunnerRight, VerdictRight, Attempting
<1>5. HoldsRight(m)' /\ (\A n \in Mutants : n # m => MutantInv(n)')
      /\ \A v \in Workers : WorkerInv(v)'
  BY <1>1, <1>2, <1>3, Moves DEF Attempting
<1> QED BY <1>4, <1>5 DEF MutantInv

LEMMA RunStartsIInv ==
  ASSUME IInv, NEW m \in Mutants, RunStarts(m)
  PROVE  (\A n \in Mutants : MutantInv(n)') /\ (\A v \in Workers : WorkerInv(v)')
<1>1. /\ phase[m] = "asked" /\ phase' = [phase EXCEPT ![m] = "running"]
      /\ executing' = [executing EXCEPT ![runner[m]] = m]
      /\ UNCHANGED <<attempt, runner, answer, verdict, live, owner, invalidated, known,
                     missed, stale>>
  BY DEF RunStarts, pool_vars
<1>2. PICK w \in live : w = runner[m] /\ w \in Workers /\ owner[w] = m
  BY <1>1, OwnWorker DEF Attempting
<1>3. /\ phase'[m] = "running" /\ executing'[w] = m
      /\ \A v \in Workers : v # w =>
           executing'[v] = executing[v] /\ environment'[v] = environment[v]
  BY <1>1, <1>2 DEF RunStarts, IInv, TypeOK
<1>4. RunnerRight(m)' /\ VerdictRight(m)'
  BY <1>1, <1>2, <1>3 DEF IInv, MutantInv, RunnerRight, VerdictRight, Attempting
<1>5. HoldsRight(m)' /\ (\A n \in Mutants : n # m => MutantInv(n)')
      /\ \A v \in Workers : WorkerInv(v)'
  BY <1>1, <1>2, <1>3, Moves DEF Attempting
<1> QED BY <1>4, <1>5 DEF MutantInv

LEMMA RunAnswersIInv ==
  ASSUME IInv, NEW m \in Mutants, NEW given \in Answers, RunAnswers(m, given)
  PROVE  (\A n \in Mutants : MutantInv(n)') /\ (\A v \in Workers : WorkerInv(v)')
<1>1. /\ phase[m] = "running" /\ phase' = [phase EXCEPT ![m] = "answered"]
      /\ given # "wallClock" /\ answer' = [answer EXCEPT ![m] = given]
      /\ executing' = [executing EXCEPT ![runner[m]] = None]
      /\ known' = [known EXCEPT ![runner[m]] = NextState(m)]
      /\ missed' = IF given = "missed" /\ m \in Covered THEN missed \cup {runner[m]} ELSE missed
      /\ stale' = stale \/ stale' = stale \ {runner[m]}
      /\ UNCHANGED <<attempt, runner, verdict, live, owner, invalidated, environment>>
  BY DEF RunAnswers, pool_vars
<1>2. PICK w \in live : w = runner[m] /\ w \in Workers /\ owner[w] = m
  BY <1>1, OwnWorker DEF Attempting
<1>3. /\ phase'[m] = "answered" /\ answer'[m] = given /\ executing'[w] = None
      /\ \A v \in Workers : v # w => executing'[v] = executing[v] /\ known'[v] = known[v]
      /\ \A n \in Mutants : n # m => phase'[n] = phase[n] /\ answer'[n] = answer[n]
  BY <1>1, <1>2 DEF IInv, TypeOK
<1>4. w \notin missed /\ w \notin invalidated
  BY <1>1, <1>2 DEF IInv, MutantInv, RunnerRight, Attempting
<1>5. w \in missed' <=> CoveringTestMissing(m)'
  BY <1>1, <1>2, <1>3, <1>4 DEF CoveringTestMissing
<1>6. RunnerRight(m)' /\ VerdictRight(m)'
  BY <1>1, <1>2, <1>3, <1>4, <1>5 DEF RunnerRight, VerdictRight, Attempting, Answers, None
<1>7. HoldsRight(m)' /\ (\A n \in Mutants : n # m => MutantInv(n)')
      /\ \A v \in Workers : WorkerInv(v)'
  BY <1>1, <1>2, <1>3, Moves DEF Attempting
<1> QED BY <1>6, <1>7 DEF MutantInv

LEMMA DeadlinePassesIInv ==
  ASSUME IInv, NEW m \in Mutants, DeadlinePasses(m)
  PROVE  (\A n \in Mutants : MutantInv(n)') /\ (\A v \in Workers : WorkerInv(v)')
<1>1. /\ phase[m] \in {"asked", "running"} /\ phase' = [phase EXCEPT ![m] = "answered"]
      /\ answer' = [answer EXCEPT ![m] = "wallClock"]
      /\ known' = [known EXCEPT ![runner[m]] = NextState(m)]
      /\ UNCHANGED <<attempt, runner, verdict, live, owner, invalidated, environment,
                     executing, missed, stale>>
  BY DEF DeadlinePasses, pool_vars
<1>2. PICK w \in live : w = runner[m] /\ w \in Workers /\ owner[w] = m
  BY <1>1, OwnWorker DEF Attempting
<1>3. /\ phase'[m] = "answered" /\ answer'[m] = "wallClock"
      /\ \A v \in Workers : v # w => known'[v] = known[v]
      /\ \A n \in Mutants : n # m => phase'[n] = phase[n] /\ answer'[n] = answer[n]
  BY <1>1, <1>2 DEF IInv, TypeOK
<1>4. w \notin missed /\ w \notin invalidated
  BY <1>1, <1>2 DEF IInv, MutantInv, RunnerRight, Attempting
<1>5. RunnerRight(m)' /\ VerdictRight(m)'
  BY <1>1, <1>2, <1>3, <1>4 DEF RunnerRight, VerdictRight, Attempting, CoveringTestMissing, None
<1>6. HoldsRight(m)' /\ (\A n \in Mutants : n # m => MutantInv(n)')
      /\ \A v \in Workers : WorkerInv(v)'
  BY <1>1, <1>2, <1>3, Moves DEF Attempting
<1> QED BY <1>5, <1>6 DEF MutantInv

LEMMA FailsIInv ==
  ASSUME IInv, NEW m \in Mutants, TryFails(m) \/ ConnectionLost(m)
  PROVE  (\A n \in Mutants : MutantInv(n)') /\ (\A v \in Workers : WorkerInv(v)')
<1>1. /\ phase[m] \in {"ready", "asked", "running"}
      /\ \/ phase' = [phase EXCEPT ![m] = "ready"] /\ UNCHANGED answer
         \/ /\ answer' = [answer EXCEPT ![m] = "error"]
            /\ phase' = [phase EXCEPT ![m] = "answered"]
      /\ executing' = [executing EXCEPT ![runner[m]] = None]
      /\ stale' = IF phase[m] = "running" THEN stale \cup {runner[m]} ELSE stale
      /\ UNCHANGED <<attempt, runner, verdict, live, owner, invalidated, known, environment,
                     missed>>
  BY DEF TryFails, ConnectionLost, FailTry, pool_vars
<1>2. PICK w \in live : w = runner[m] /\ w \in Workers /\ owner[w] = m
  BY <1>1, OwnWorker DEF Attempting
<1>3. /\ \/ phase'[m] = "ready" /\ UNCHANGED answer
         \/ phase'[m] = "answered" /\ answer'[m] = "error"
      /\ executing'[w] = None
      /\ \A v \in Workers : v # w => executing'[v] = executing[v]
      /\ \A n \in Mutants : n # m => phase'[n] = phase[n] /\ answer'[n] = answer[n]
  BY <1>1, <1>2 DEF IInv, TypeOK
<1>4. w \notin missed /\ w \notin invalidated
  BY <1>1, <1>2 DEF IInv, MutantInv, RunnerRight, Attempting
<1>5. RunnerRight(m)' /\ VerdictRight(m)'
  BY <1>1, <1>2, <1>3, <1>4 DEF RunnerRight, VerdictRight, Attempting, CoveringTestMissing, None
<1>6. HoldsRight(m)' /\ (\A n \in Mutants : n # m => MutantInv(n)')
      /\ \A v \in Workers : WorkerInv(v)'
  BY <1>1, <1>2, <1>3, Moves DEF Attempting
<1> QED BY <1>5, <1>6 DEF MutantInv

LEMMA SettlesIInv ==
  ASSUME IInv, NEW m \in Mutants, SettleAnswer(m) \/ RecycleAndSettle(m) \/ GiveUp(m)
  PROVE  (\A n \in Mutants : MutantInv(n)') /\ (\A v \in Workers : WorkerInv(v)')
<1>1. /\ phase[m] = "answered" /\ phase' = [phase EXCEPT ![m] = "settling"]
      /\ UNCHANGED <<attempt, runner, answer, live, owner, known, environment, executing,
                     missed, stale>>
      /\ invalidated' = invalidated \/ invalidated' = invalidated \cup {runner[m]}
  BY DEF SettleAnswer, RecycleAndSettle, GiveUp, Settle, pool_vars, worker_vars
<1>2. PICK w \in live : w = runner[m] /\ w \in Workers /\ owner[w] = m
  BY <1>1, OwnWorker DEF Attempting
<1>3. phase'[m] = "settling" /\ w = runner'[m]
      /\ \A n \in Mutants : n # m => phase'[n] = phase[n] /\ verdict'[n] = verdict[n]
  BY <1>1, <1>2 DEF SettleAnswer, RecycleAndSettle, GiveUp, Settle, IInv, TypeOK
<1>4. /\ w \notin invalidated /\ (w \in missed <=> CoveringTestMissing(m))
      /\ answer[m] # None /\ (answer[m] # "wallClock" => executing[w] = None)
  BY <1>1, <1>2 DEF IInv, MutantInv, RunnerRight, Attempting
<1>5. w \in invalidated' \/ (executing'[w] = None /\ w \notin missed')
  BY <1>1, <1>2, <1>4 DEF SettleAnswer, RecycleAndSettle, GiveUp
<1>6. RunnerRight(m)'
  BY <1>1, <1>2, <1>3, <1>5 DEF RunnerRight, Attempting
<1>7. VerdictRight(m)'
  <2>1. CASE SettleAnswer(m)
    <3>1. /\ verdict'[m] = VerdictOf(answer[m]) /\ ~CoveringTestMissing(m)
          /\ answer[m] \in {"tested", "missed", "error"}
      BY <2>1, <1>4 DEF SettleAnswer, Settle, IInv, TypeOK, Answers
    <3> QED BY <1>1, <1>3, <3>1 DEF VerdictRight, VerdictOf, CoveringTestMissing
  <2>2. CASE RecycleAndSettle(m)
    <3>1. verdict'[m] = "Timeout"
      BY <2>2 DEF RecycleAndSettle, Settle, VerdictOf, IInv, TypeOK
    <3> QED BY <1>3, <3>1 DEF VerdictRight
  <2>3. CASE GiveUp(m)
    <3>1. /\ verdict'[m] = "NoCoveringTest" /\ attempt[m] = 1 /\ CoveringTestMissing(m)
          /\ invalidated' = invalidated \cup {runner[m]}
      BY <2>3 DEF GiveUp, Settle, IInv, TypeOK
    <3>2. w \in missed' \cap invalidated' /\ attempt'[m] = 1
      BY <1>1, <1>2, <1>4, <3>1
    <3> QED BY <1>3, <3>1, <3>2 DEF VerdictRight
  <2> QED BY <2>1, <2>2, <2>3
<1>8. HoldsRight(m)' /\ (\A n \in Mutants : n # m => MutantInv(n)')
      /\ \A v \in Workers : WorkerInv(v)'
  <2>1. \A v \in Workers : v # w => (v \in invalidated' <=> v \in invalidated)
    BY <1>1, <1>2
  <2> QED BY <1>1, <1>2, <1>3, <2>1, Moves DEF Attempting
<1> QED BY <1>6, <1>7, <1>8 DEF MutantInv

LEMMA RetryIInv ==
  ASSUME IInv, NEW m \in Mutants, RetryAttempt(m)
  PROVE  (\A n \in Mutants : MutantInv(n)') /\ (\A v \in Workers : WorkerInv(v)')
<1>1. /\ phase[m] = "answered" /\ CoveringTestMissing(m) /\ attempt[m] = 0
      /\ invalidated' = invalidated \cup {runner[m]}
      /\ attempt' = [attempt EXCEPT ![m] = 1] /\ runner' = [runner EXCEPT ![m] = None]
      /\ phase' = [phase EXCEPT ![m] = "acquiring"]
      /\ UNCHANGED <<answer, verdict, live, owner, known, environment, executing, missed,
                     stale>>
  BY DEF RetryAttempt, worker_vars
<1>2. PICK w \in live : w = runner[m] /\ w \in Workers /\ owner[w] = m
  BY <1>1, OwnWorker DEF Attempting
<1>3. /\ phase'[m] = "acquiring" /\ attempt'[m] = 1 /\ runner'[m] = None
      /\ \A n \in Mutants : n # m =>
           phase'[n] = phase[n] /\ attempt'[n] = attempt[n] /\ runner'[n] = runner[n]
  BY <1>1, <1>2 DEF IInv, TypeOK
<1>4. w \in missed /\ w # None
  BY <1>1, <1>2, NoneApart DEF IInv, MutantInv, RunnerRight, Attempting
<1>5. RunnerRight(m)' /\ VerdictRight(m)'
  BY <1>3 DEF RunnerRight, VerdictRight, Attempting
<1>6. HoldsRight(m)'
  <2>1. \A u \in Workers : owner[u] = m => u = w
    BY <1>1, <1>2 DEF IInv, MutantInv, HoldsRight
  <2>2. w \in missed' \cap invalidated' /\ w # runner'[m] /\ owner'[w] = m
    BY <1>1, <1>2, <1>3, <1>4
  <2> QED BY <1>1, <1>3, <2>1, <2>2 DEF HoldsRight
<1>7. ASSUME NEW n \in Mutants, n # m PROVE MutantInv(n)'
  <2>1. \A v \in Workers : owner[v] = n => (v \in invalidated' <=> v \in invalidated)
    BY <1>1, <1>2, <1>7
  <2> QED BY <1>1, <1>3, <1>7, <2>1, Bystander DEF IInv
<1>8. ASSUME NEW v \in Workers PROVE WorkerInv(v)'
  <2>1. v \in invalidated' => v \in invalidated \/ v = w
    BY <1>1, <1>2
  <2> QED BY <1>1, <1>2, <2>1, NoneApart DEF IInv, WorkerInv
<1> QED BY <1>5, <1>6, <1>7, <1>8 DEF MutantInv

LEMMA ReleaseIInv ==
  ASSUME IInv, NEW m \in Mutants, Release(m)
  PROVE  (\A n \in Mutants : MutantInv(n)') /\ (\A v \in Workers : WorkerInv(v)')
<1>1. /\ phase[m] = "settling" /\ phase'[m] = "done" /\ attempt'[m] = 0 /\ runner'[m] = None
      /\ \A n \in Mutants : n # m =>
           /\ phase'[n] = phase[n] /\ attempt'[n] = attempt[n] /\ runner'[n] = runner[n]
           /\ answer'[n] = answer[n]
      /\ verdict' = verdict
  BY DEF Release, IInv, TypeOK
<1>2. /\ owner' = [v \in Workers |-> IF owner[v] = m THEN None ELSE owner[v]]
      /\ Discard(HeldBy(m) \cap invalidated)
  BY DEF Release
<1>3. ASSUME NEW v \in Workers, owner[v] # m
      PROVE  /\ owner'[v] = owner[v] /\ executing'[v] = executing[v]
             /\ known'[v] = known[v] /\ environment'[v] = environment[v]
             /\ v \in live' <=> v \in live
             /\ v \in invalidated' <=> v \in invalidated
             /\ v \in missed' <=> v \in missed
             /\ v \in stale' <=> v \in stale
  BY <1>2, <1>3 DEF Discard, HeldBy
<1>4. ASSUME NEW v \in Workers, owner[v] = m
      PROVE  owner'[v] = None
  BY <1>2, <1>4
<1>5. MutantInv(m)'
  <2>1. \A v \in Workers : owner'[v] # m
    BY <1>3, <1>4, NoneApart
  <2> QED BY <1>1, <2>1 DEF MutantInv, RunnerRight, HoldsRight, VerdictRight, Attempting
<1>6. ASSUME NEW n \in Mutants, n # m PROVE MutantInv(n)'
  <2>1. \A v \in Workers : owner'[v] = n <=> owner[v] = n
    BY <1>3, <1>4, <1>6, NoneApart
  <2>2. \A v \in Workers : owner[v] = n =>
          /\ v \in live' <=> v \in live
          /\ v \in invalidated' <=> v \in invalidated
          /\ v \in missed' <=> v \in missed
          /\ executing'[v] = executing[v]
    BY <1>3, <1>6
  <2> QED BY <1>1, <1>6, <2>1, <2>2, Bystander DEF IInv
<1>7. ASSUME NEW v \in Workers PROVE WorkerInv(v)'
  <2>1. WorkerInv(v)
    BY DEF IInv
  <2>2. CASE owner[v] # m
    BY <1>3, <2>1, <2>2 DEF WorkerInv
  <2>3. CASE owner[v] = m /\ v \in invalidated
    BY <1>2, <2>1, <2>3, NoneApart DEF WorkerInv, Discard, HeldBy
  <2>4. CASE owner[v] = m /\ v \notin invalidated
    <3>1. v = runner[m]
      <4>1. HoldsRight(m)
        BY DEF IInv, MutantInv
      <4>2. CASE attempt[m] = 0
        BY <2>4, <4>1, <4>2 DEF HoldsRight
      <4>3. CASE attempt[m] = 1
        BY <2>4, <4>1, <4>3 DEF HoldsRight
      <4> QED BY <4>2, <4>3 DEF IInv, TypeOK
    <3>2. executing[v] = None /\ v \notin missed
      BY <1>1, <2>4, <3>1 DEF IInv, MutantInv, RunnerRight, Attempting
    <3>3. v \in live
      BY <2>1, <2>4, NoneApart DEF WorkerInv
    <3> QED BY <1>2, <1>4, <2>4, <3>2, <3>3 DEF WorkerInv, Discard, HeldBy
  <2> QED BY <2>2, <2>3, <2>4
<1> QED BY <1>5, <1>6, <1>7

LEMMA ExpireIInv ==
  ASSUME IInv, NEW w \in Workers, Expire(w)
  PROVE  (\A n \in Mutants : MutantInv(n)') /\ (\A v \in Workers : WorkerInv(v)')
<1>1. /\ Discard({w}) /\ owner[w] = None
      /\ UNCHANGED <<phase, attempt, runner, answer, verdict, owner>>
  BY DEF Expire, Available, fiber_vars
<1>2. ASSUME NEW v \in Workers, v # w
      PROVE  /\ executing'[v] = executing[v]
             /\ known'[v] = known[v] /\ environment'[v] = environment[v]
             /\ v \in live' <=> v \in live
             /\ v \in invalidated' <=> v \in invalidated
             /\ v \in missed' <=> v \in missed
             /\ v \in stale' <=> v \in stale
  BY <1>1, <1>2 DEF Discard
<1>3. ASSUME NEW n \in Mutants PROVE MutantInv(n)'
  <2>1. \A v \in Workers : owner[v] = n => v # w
    BY <1>1, NoneApart
  <2>2. \A v \in Workers : owner[v] = n =>
          /\ v \in live' <=> v \in live
          /\ v \in invalidated' <=> v \in invalidated
          /\ v \in missed' <=> v \in missed
          /\ executing'[v] = executing[v]
    BY <1>2, <2>1
  <2> QED BY <1>1, <2>2, Bystander DEF IInv
<1>4. ASSUME NEW v \in Workers PROVE WorkerInv(v)'
  <2>1. WorkerInv(v)
    BY DEF IInv
  <2>2. CASE v # w
    BY <1>1, <1>2, <2>1, <2>2 DEF WorkerInv
  <2>3. CASE v = w
    BY <1>1, <2>3 DEF WorkerInv, Discard
  <2> QED BY <2>2, <2>3
<1> QED BY <1>3, <1>4

LEMMA UnchangedIInv ==
  ASSUME IInv, UNCHANGED <<fiber_vars, pool_vars, worker_vars>>
  PROVE  (\A n \in Mutants : MutantInv(n)') /\ (\A v \in Workers : WorkerInv(v)')
<1>1. UNCHANGED <<phase, attempt, runner, answer, verdict, live, owner, invalidated, known,
                  environment, executing, missed, stale>>
  BY DEF fiber_vars, pool_vars, worker_vars
<1>2. \A n \in Mutants : MutantInv(n)'
  BY <1>1, Bystander DEF IInv
<1>3. \A v \in Workers : WorkerInv(v)'
  BY <1>1 DEF IInv, WorkerInv
<1> QED BY <1>2, <1>3

\* A step by which workers at most end what they are executing.
LEMMA QuietIInv ==
  ASSUME IInv, UNCHANGED <<fiber_vars, pool_vars, known, environment, missed, stale>>,
         \A v \in Workers : executing'[v] \in {executing[v], None}
  PROVE  (\A n \in Mutants : MutantInv(n)') /\ (\A v \in Workers : WorkerInv(v)')
<1>1. UNCHANGED <<phase, attempt, runner, answer, verdict, live, owner, invalidated>>
  BY DEF fiber_vars, pool_vars
<1>2. ASSUME NEW n \in Mutants PROVE MutantInv(n)'
  <2>1. MutantInv(n) /\ (phase[n] \in Attempting => runner[n] \in Workers)
    BY DEF IInv, MutantInv, RunnerRight, TypeOK
  <2>2. RunnerRight(n)'
    BY <1>1, <2>1 DEF MutantInv, RunnerRight, Attempting, CoveringTestMissing
  <2>3. HoldsRight(n)' /\ VerdictRight(n)'
    BY <1>1, <2>1 DEF MutantInv, HoldsRight, VerdictRight
  <2> QED BY <2>2, <2>3 DEF MutantInv
<1>3. ASSUME NEW v \in Workers PROVE WorkerInv(v)'
  BY <1>1 DEF IInv, WorkerInv
<1> QED BY <1>2, <1>3

LEMMA ExitsIInv ==
  ASSUME IInv, NEW w \in Workers,
         WorkerExits(w) \/ \E m \in Mutants : CutOffEnds(w, m)
  PROVE  (\A n \in Mutants : MutantInv(n)') /\ (\A v \in Workers : WorkerInv(v)')
<1>1. UNCHANGED <<fiber_vars, pool_vars, known, environment, missed, stale>>
  BY DEF WorkerExits, CutOffEnds
<1>2. \A v \in Workers : executing'[v] \in {executing[v], None}
  BY DEF WorkerExits, CutOffEnds, IInv, TypeOK
<1> QED BY <1>1, <1>2, QuietIInv

LEMMA NextIInv == IInv /\ [Next]_vars => IInv'
<1> SUFFICES ASSUME IInv, [Next]_vars
             PROVE  (\A n \in Mutants : MutantInv(n)') /\ (\A v \in Workers : WorkerInv(v)')
  BY NextType DEF IInv
<1>1. ASSUME NEW m \in Mutants, FiberStep(m)
      PROVE  (\A n \in Mutants : MutantInv(n)') /\ (\A v \in Workers : WorkerInv(v)')
  BY <1>1, BeginIInv, AcquireIInv, DeadlinePassesIInv, SettlesIInv, RetryIInv, ReleaseIInv
     DEF FiberStep
<1>2. ASSUME NEW m \in Mutants, WorkerStep(m)
      PROVE  (\A n \in Mutants : MutantInv(n)') /\ (\A v \in Workers : WorkerInv(v)')
  <2>1. CASE BootFails(m)
    BY <2>1, UnchangedIInv DEF BootFails
  <2> QED BY <1>2, <2>1, AskIInv, RunStartsIInv, RunAnswersIInv, FailsIInv DEF WorkerStep
<1>3. CASE UNCHANGED vars
  BY <1>3, UnchangedIInv DEF vars
<1> QED BY <1>1, <1>2, <1>3, ExpireIInv, ExitsIInv DEF Next

LEMMA Inductive == Spec => []IInv
BY InitIInv, NextIInv, PTL DEF Spec

-----------------------------------------------------------------------------
(* What is loaded in a worker, and what withEnvironmentReload takes it for. *)

Matches(w) ==
  /\ known[w] = "pristine" => environment[w] = "empty"
  /\ known[w] = "loaded" => environment[w] \in {"empty", "clean"}

\* The run on the worker has begun, and its state is set when the run is judged.
Unsettled(w) ==
  /\ owner[w] \in Mutants
  /\ runner[owner[w]] = w
  /\ \/ phase[owner[w]] = "running"
     \/ phase[owner[w]] = "answered" /\ answer[owner[w]] = "wallClock"

KnownRight(w) == w \in stale \cup invalidated \/ Matches(w) \/ Unsettled(w)

LoadedRight(m) ==
  /\ phase[m] = "asked" => reload[m] = ReloadNeeded(m, known[runner[m]])
  /\ phase[m] = "running" /\ m \notin Static /\ (reload[m] \/ runner[m] \notin stale) =>
       environment[runner[m]] = "clean"

EInv == (\A w \in Workers : KnownRight(w)) /\ (\A m \in Mutants : LoadedRight(m))

LEMMA StillKnown ==
  ASSUME NEW w, KnownRight(w), UNCHANGED <<owner[w], known[w], environment[w]>>,
         w \in stale' <=> w \in stale, w \in invalidated' <=> w \in invalidated,
         owner[w] \in Mutants /\ runner[owner[w]] = w =>
           /\ phase'[owner[w]] = phase[owner[w]] /\ answer'[owner[w]] = answer[owner[w]]
           /\ runner'[owner[w]] = runner[owner[w]]
  PROVE  KnownRight(w)'
<1>1. Matches(w) => Matches(w)'
  BY DEF Matches
<1>2. Unsettled(w) => Unsettled(w)'
  BY DEF Unsettled
<1> QED BY <1>1, <1>2 DEF KnownRight

LEMMA StillLoaded ==
  ASSUME NEW n, LoadedRight(n), UNCHANGED <<phase[n], reload[n], runner[n]>>,
         phase[n] \in {"asked", "running"} =>
           /\ UNCHANGED <<known[runner[n]], environment[runner[n]]>>
           /\ runner[n] \in stale' <=> runner[n] \in stale
  PROVE  LoadedRight(n)'
BY DEF LoadedRight, ReloadNeeded

\* A step of one mutant on a worker that is its own or nobody's: the others are
\* not concerned.
LEMMA OthersKnown ==
  ASSUME IInv, EInv, NEW m \in Mutants, NEW w \in Workers, owner[w] \in {None, m},
         \A v \in Workers : v # w => runner[m] # v,
         \A n \in Mutants : n # m =>
           /\ phase'[n] = phase[n] /\ answer'[n] = answer[n]
           /\ reload'[n] = reload[n] /\ runner'[n] = runner[n],
         \A v \in Workers : v # w =>
           /\ owner'[v] = owner[v]
           /\ known'[v] = known[v] /\ environment'[v] = environment[v]
           /\ v \in stale' <=> v \in stale
           /\ v \in invalidated' <=> v \in invalidated
  PROVE  /\ \A v \in Workers : v # w => KnownRight(v)'
         /\ \A n \in Mutants : n # m => LoadedRight(n)'
<1>1. ASSUME NEW v \in Workers, v # w PROVE KnownRight(v)'
  BY <1>1, StillKnown DEF EInv
<1>2. ASSUME NEW n \in Mutants, n # m PROVE LoadedRight(n)'
  <2>1. phase[n] \in {"asked", "running"} => runner[n] \in Workers /\ runner[n] # w
    BY <1>2, OwnWorker, NoneApart DEF Attempting
  <2> QED BY <1>2, <2>1, StillLoaded DEF EInv
<1> QED BY <1>1, <1>2

LEMMA InitEInv == Init => EInv
BY DEF Init, EInv, KnownRight, Matches, LoadedRight

LEMMA FiberEInv ==
  ASSUME IInv, EInv, NEW m \in Mutants,
         Begin(m) \/ DeadlinePasses(m) \/ SettleAnswer(m) \/ RecycleAndSettle(m)
         \/ RetryAttempt(m) \/ GiveUp(m) \/ \E w \in Workers : Acquire(m, w)
  PROVE  EInv'
<1>1. CASE Begin(m)
  <2>1. /\ phase[m] = "queued" /\ phase' = [phase EXCEPT ![m] = "acquiring"]
        /\ UNCHANGED <<runner, reload, answer, owner, invalidated, known, environment, stale>>
    BY <1>1 DEF Begin, pool_vars, worker_vars
  <2>2. runner[m] \notin Workers /\ phase'[m] = "acquiring"
    BY <2>1, NoneApart DEF IInv, MutantInv, RunnerRight, Attempting, TypeOK
  <2>3. ASSUME NEW w \in Workers PROVE KnownRight(w)'
    <3>1. owner[w] \in Mutants /\ runner[owner[w]] = w => phase'[owner[w]] = phase[owner[w]]
      BY <2>1, <2>2 DEF IInv, TypeOK
    <3> QED BY <2>1, <3>1, StillKnown DEF EInv
  <2>4. ASSUME NEW n \in Mutants, n # m PROVE LoadedRight(n)'
    <3>1. phase'[n] = phase[n]
      BY <2>1, <2>4 DEF IInv, TypeOK
    <3> QED BY <2>1, <3>1, StillLoaded DEF EInv
  <2> QED BY <2>2, <2>3, <2>4 DEF EInv, LoadedRight
<1>2. ASSUME NEW w \in Workers, Acquire(m, w) PROVE EInv'
  <2>1. /\ phase[m] = "acquiring" /\ phase' = [phase EXCEPT ![m] = "ready"]
        /\ owner[w] = None /\ owner' = [owner EXCEPT ![w] = m]
        /\ runner' = [runner EXCEPT ![m] = w]
        /\ UNCHANGED <<reload, answer, invalidated, known, environment, stale>>
    BY <1>2 DEF Acquire, Available, IInv, WorkerInv, worker_vars
  <2>2. runner[m] \notin Workers /\ phase'[m] = "ready"
    BY <2>1, NoneApart DEF IInv, MutantInv, RunnerRight, Attempting, TypeOK
  <2>3. /\ \A v \in Workers : v # w => KnownRight(v)'
        /\ \A n \in Mutants : n # m => LoadedRight(n)'
    <3>1. /\ \A n \in Mutants : n # m => phase'[n] = phase[n] /\ runner'[n] = runner[n]
          /\ \A v \in Workers : v # w => owner'[v] = owner[v]
      BY <2>1 DEF IInv, TypeOK
    <3> QED BY <2>1, <2>2, <3>1, OthersKnown
  <2>4. KnownRight(w)'
    <3>1. w \in stale \cup invalidated \/ Matches(w)
      BY <2>1, NoneApart DEF EInv, KnownRight, Unsettled
    <3> QED BY <2>1, <3>1 DEF KnownRight, Matches
  <2> QED BY <2>2, <2>3, <2>4 DEF EInv, LoadedRight
<1>3. CASE DeadlinePasses(m) \/ SettleAnswer(m) \/ RecycleAndSettle(m) \/ RetryAttempt(m)
           \/ GiveUp(m)
  <2>1. /\ phase[m] \in {"asked", "running", "answered"}
        /\ UNCHANGED <<reload, owner, environment, stale>>
    BY <1>3 DEF DeadlinePasses, SettleAnswer, RecycleAndSettle, RetryAttempt, GiveUp, pool_vars,
       worker_vars
  <2>2. PICK w \in live : w = runner[m] /\ w \in Workers /\ owner[w] = m
    BY <2>1, OwnWorker DEF Attempting
  <2>3. /\ phase'[m] \in {"answered", "settling", "acquiring"}
        /\ \A n \in Mutants : n # m =>
             phase'[n] = phase[n] /\ answer'[n] = answer[n] /\ runner'[n] = runner[n]
        /\ \A v \in Workers : v # w =>
             known'[v] = known[v] /\ (v \in invalidated' <=> v \in invalidated)
    BY <1>3, <2>2 DEF DeadlinePasses, SettleAnswer, RecycleAndSettle, RetryAttempt, GiveUp,
       Settle, pool_vars, worker_vars, IInv, TypeOK
  <2>4. /\ \A v \in Workers : v # w => KnownRight(v)'
        /\ \A n \in Mutants : n # m => LoadedRight(n)'
    BY <2>1, <2>2, <2>3, OthersKnown
  <2>5. KnownRight(w)'
    <3>1. CASE DeadlinePasses(m)
      <4>1. phase'[m] = "answered" /\ answer'[m] = "wallClock" /\ owner'[w] = m /\ runner'[m] = w
        BY <2>2, <3>1 DEF DeadlinePasses, pool_vars, IInv, TypeOK
      <4> QED BY <4>1 DEF KnownRight, Unsettled
    <3>2. CASE SettleAnswer(m)
      <4>1. w \in stale \cup invalidated \/ Matches(w)
        BY <2>2, <3>2 DEF SettleAnswer, EInv, KnownRight, Unsettled
      <4> QED BY <3>2, <4>1 DEF SettleAnswer, pool_vars, worker_vars, KnownRight, Matches
    <3>3. CASE RecycleAndSettle(m) \/ RetryAttempt(m) \/ GiveUp(m)
      BY <2>2, <3>3 DEF RecycleAndSettle, RetryAttempt, GiveUp, KnownRight
    <3> QED BY <1>3, <3>1, <3>2, <3>3
  <2> QED BY <2>3, <2>4, <2>5 DEF EInv, LoadedRight
<1> QED BY <1>1, <1>2, <1>3

LEMMA WorkerEInv ==
  ASSUME IInv, EInv, CanReload = TRUE, NEW m \in Mutants,
         Ask(m) \/ RunStarts(m) \/ TryFails(m) \/ ConnectionLost(m)
         \/ \E given \in Answers : RunAnswers(m, given)
  PROVE  EInv'
<1>1. /\ phase[m] \in {"ready", "asked", "running"} /\ UNCHANGED <<runner, owner, invalidated>>
  BY DEF Ask, RunStarts, TryFails, ConnectionLost, FailTry, RunAnswers, pool_vars
<1>2. PICK w \in live : w = runner[m] /\ w \in Workers /\ owner[w] = m
  BY <1>1, OwnWorker DEF Attempting
<1>3. w \notin invalidated
  BY <1>1, <1>2 DEF IInv, MutantInv, RunnerRight, Attempting
<1>4. /\ \A v \in Workers : v # w => KnownRight(v)'
      /\ \A n \in Mutants : n # m => LoadedRight(n)'
  <2>1. /\ \A n \in Mutants : n # m =>
             phase'[n] = phase[n] /\ answer'[n] = answer[n] /\ reload'[n] = reload[n]
        /\ \A v \in Workers : v # w =>
             /\ known'[v] = known[v] /\ environment'[v] = environment[v]
             /\ v \in stale' <=> v \in stale
    BY <1>2 DEF Ask, RunStarts, TryFails, ConnectionLost, FailTry, RunAnswers, pool_vars, IInv,
                TypeOK
  <2> QED BY <1>1, <1>2, <2>1, OthersKnown
<1>5. KnownRight(w) /\ LoadedRight(m)
  BY <1>2 DEF EInv
<1>6. CASE Ask(m)
  <2>1. /\ phase[m] = "ready" /\ phase'[m] = "asked"
        /\ reload'[m] = ReloadNeeded(m, known[w])
        /\ UNCHANGED <<known, environment, stale>>
    BY <1>2, <1>6 DEF Ask, IInv, TypeOK
  <2>2. KnownRight(w)'
    BY <1>1, <1>2, <1>5, <2>1 DEF KnownRight, Matches, Unsettled
  <2>3. LoadedRight(m)'
    BY <1>1, <1>2, <2>1 DEF LoadedRight, ReloadNeeded
  <2> QED BY <1>4, <2>2, <2>3 DEF EInv
<1>7. CASE RunStarts(m)
  <2>1. /\ phase[m] = "asked" /\ phase'[m] = "running"
        /\ environment'[w] = IF m \in Static \/ (environment[w] = "static" /\ ~reload[m])
                               THEN "static" ELSE "clean"
        /\ UNCHANGED <<reload, known, stale>>
    BY <1>2, <1>7 DEF RunStarts, pool_vars, IInv, TypeOK
  <2>2. KnownRight(w)'
    BY <1>1, <1>2, <2>1 DEF KnownRight, Unsettled
  <2>3. ASSUME m \notin Static, ~reload[m], w \notin stale
        PROVE  environment[w] # "static"
    <3>1. known[w] # "loaded-static-mutant"
      BY <1>2, <1>5, <2>1, <2>3 DEF LoadedRight, ReloadNeeded
    <3>2. Matches(w)
      BY <1>2, <1>3, <1>5, <2>1, <2>3 DEF KnownRight, Unsettled
    <3>3. known[w] \in {"pristine", "loaded"}
      BY <1>2, <3>1 DEF IInv, TypeOK, EnvironmentStates
    <3> QED BY <3>2, <3>3 DEF Matches
  <2>4. LoadedRight(m)'
    BY <1>1, <1>2, <2>1, <2>3 DEF LoadedRight
  <2> QED BY <1>4, <2>2, <2>4 DEF EInv
<1>8. ASSUME NEW given \in Answers, RunAnswers(m, given) PROVE EInv'
  <2>1. /\ phase[m] = "running" /\ phase'[m] = "answered" /\ known'[w] = NextState(m)
        /\ stale' = stale \/ (stale' = stale \ {w} /\ reload[m])
        /\ UNCHANGED <<reload, environment>>
    BY <1>2, <1>8 DEF RunAnswers, pool_vars, IInv, TypeOK
  <2>2. KnownRight(w)'
    <3>1. CASE m \in Static
      BY <2>1, <3>1 DEF KnownRight, Matches, NextState
    <3>2. CASE m \notin Static /\ (reload[m] \/ w \notin stale)
      <4>1. environment'[w] = "clean" /\ known'[w] = "loaded"
        BY <1>2, <1>5, <2>1, <3>2 DEF LoadedRight, NextState
      <4> QED BY <4>1 DEF KnownRight, Matches
    <3>3. CASE ~reload[m] /\ w \in stale
      BY <2>1, <3>3 DEF KnownRight
    <3> QED BY <3>1, <3>2, <3>3
  <2>3. LoadedRight(m)'
    BY <2>1 DEF LoadedRight
  <2> QED BY <1>4, <2>2, <2>3 DEF EInv
<1>9. CASE TryFails(m) \/ ConnectionLost(m)
  <2>1. /\ phase'[m] \in {"ready", "answered"} /\ UNCHANGED <<known, environment>>
        /\ stale' = IF phase[m] = "running" THEN stale \cup {w} ELSE stale
    BY <1>2, <1>9 DEF TryFails, ConnectionLost, FailTry, IInv, TypeOK
  <2>2. KnownRight(w)'
    <3>1. CASE phase[m] = "running"
      BY <2>1, <3>1 DEF KnownRight
    <3>2. CASE phase[m] # "running"
      <4>1. w \in stale \/ Matches(w)
        BY <1>1, <1>2, <1>3, <1>5, <3>2 DEF KnownRight, Unsettled
      <4> QED BY <2>1, <4>1, <3>2 DEF KnownRight, Matches
    <3> QED BY <3>1, <3>2
  <2>3. LoadedRight(m)'
    BY <2>1 DEF LoadedRight
  <2> QED BY <1>4, <2>2, <2>3 DEF EInv
<1> QED BY <1>6, <1>7, <1>8, <1>9

LEMMA ReleaseEInv == ASSUME IInv, EInv, NEW m \in Mutants, Release(m) PROVE EInv'
<1>1. /\ phase[m] = "settling" /\ phase'[m] = "done"
      /\ \A n \in Mutants : n # m =>
           /\ phase'[n] = phase[n] /\ runner'[n] = runner[n]
           /\ answer'[n] = answer[n] /\ reload'[n] = reload[n]
  BY DEF Release, IInv, TypeOK
<1>2. /\ owner' = [v \in Workers |-> IF owner[v] = m THEN None ELSE owner[v]]
      /\ Discard(HeldBy(m) \cap invalidated)
  BY DEF Release
<1>3. ASSUME NEW w \in Workers, w \notin invalidated \/ owner[w] # m
      PROVE  /\ known'[w] = known[w] /\ environment'[w] = environment[w]
             /\ w \in stale' <=> w \in stale
             /\ w \in invalidated' <=> w \in invalidated
  BY <1>2, <1>3 DEF Discard, HeldBy
<1>4. ASSUME NEW w \in Workers PROVE KnownRight(w)'
  <2>1. CASE owner[w] # m
    BY <1>1, <1>2, <1>3, <2>1, StillKnown DEF EInv
  <2>2. CASE owner[w] = m /\ w \in invalidated
    BY <1>2, <2>2 DEF Discard, HeldBy, KnownRight, Matches
  <2>3. CASE owner[w] = m /\ w \notin invalidated
    <3>1. w \in stale \/ Matches(w)
      BY <1>1, <2>3 DEF EInv, KnownRight, Unsettled
    <3> QED BY <1>3, <2>3, <3>1 DEF KnownRight, Matches
  <2> QED BY <2>1, <2>2, <2>3
<1>5. ASSUME NEW n \in Mutants, n # m PROVE LoadedRight(n)'
  <2>1. phase[n] \in {"asked", "running"} => runner[n] \in Workers /\ owner[runner[n]] # m
    BY <1>5, OwnWorker DEF Attempting
  <2> QED BY <1>1, <1>3, <1>5, <2>1, StillLoaded DEF EInv
<1> QED BY <1>1, <1>4, <1>5 DEF EInv, LoadedRight

LEMMA ExpireEInv == ASSUME IInv, EInv, NEW w \in Workers, Expire(w) PROVE EInv'
<1>1. /\ Discard({w}) /\ owner[w] = None
      /\ UNCHANGED <<phase, runner, answer, reload, owner>>
  BY DEF Expire, Available, fiber_vars
<1>2. ASSUME NEW v \in Workers, v # w
      PROVE  /\ known'[v] = known[v] /\ environment'[v] = environment[v]
             /\ v \in stale' <=> v \in stale
             /\ v \in invalidated' <=> v \in invalidated
  BY <1>1, <1>2 DEF Discard
<1>3. ASSUME NEW v \in Workers PROVE KnownRight(v)'
  <2>1. CASE v # w
    BY <1>1, <1>2, <2>1, StillKnown DEF EInv
  <2>2. CASE v = w
    BY <1>1, <2>2 DEF Discard, KnownRight, Matches
  <2> QED BY <2>1, <2>2
<1>4. ASSUME NEW n \in Mutants PROVE LoadedRight(n)'
  <2>1. phase[n] \in {"asked", "running"} => runner[n] \in Workers /\ runner[n] # w
    BY <1>1, OwnWorker, NoneApart DEF Attempting
  <2> QED BY <1>1, <1>2, <2>1, StillLoaded DEF EInv
<1> QED BY <1>3, <1>4 DEF EInv

LEMMA NextEInv == ASSUME CanReload = TRUE, IInv, EInv, [Next]_vars PROVE EInv'
<1>1. ASSUME UNCHANGED <<fiber_vars, pool_vars, worker_vars>> PROVE EInv'
  <2>1. UNCHANGED <<phase, runner, answer, reload, owner, invalidated, known, environment, stale>>
    BY <1>1 DEF fiber_vars, pool_vars, worker_vars
  <2> QED BY <2>1, StillKnown, StillLoaded DEF EInv
<1>2. ASSUME NEW m \in Mutants, WorkerStep(m) PROVE EInv'
  BY <1>1, <1>2, WorkerEInv DEF WorkerStep, BootFails
<1>3. ASSUME NEW m \in Mutants, FiberStep(m) PROVE EInv'
  BY <1>3, FiberEInv, ReleaseEInv DEF FiberStep
<1>4. ASSUME NEW w \in Workers, WorkerExits(w) \/ \E m \in Mutants : CutOffEnds(w, m)
      PROVE  EInv'
  <2>1. UNCHANGED <<phase, runner, answer, reload, owner, invalidated, known, environment, stale>>
    BY <1>4 DEF WorkerExits, CutOffEnds, fiber_vars, pool_vars
  <2> QED BY <2>1, StillKnown, StillLoaded DEF EInv
<1> QED BY <1>1, <1>2, <1>3, <1>4, ExpireEInv DEF Next, vars

-----------------------------------------------------------------------------
(* Runs that were cut off with a connection.                               *)

\* A worker that is not condemned goes on only with a run of the mutant that
\* holds it, or of one that was settled otherwise than by a deadline or a miss.
CutOffRight(w) ==
  w \notin invalidated => \A n \in cutOff[w] :
    owner[w] = n \/ (phase[n] = "done" /\ verdict[n] \in {"Tested", "RuntimeError"})

\* A mutant that condemns its worker settles as timed out or as not covered.
SettledRight(m) ==
  phase[m] = "settling" /\ runner[m] \notin invalidated =>
    verdict[m] \in {"Tested", "RuntimeError"}

CInv == (\A w \in Workers : CutOffRight(w)) /\ (\A m \in Mutants : SettledRight(m))

LEMMA InitCInv == Init => CInv
BY DEF Init, CInv, CutOffRight, SettledRight

\* What is done stays as it was settled, whoever steps.
LEMMA DoneStays ==
  ASSUME IInv, [Next]_vars, NEW n \in Mutants, phase[n] = "done"
  PROVE  phase'[n] = "done" /\ verdict'[n] = verdict[n]
<1>1. ASSUME NEW m \in Mutants, FiberStep(m) PROVE phase'[n] = "done" /\ verdict'[n] = verdict[n]
  BY <1>1 DEF FiberStep, Begin, Acquire, DeadlinePasses, SettleAnswer, RecycleAndSettle,
              RetryAttempt, GiveUp, Release, Settle, IInv, TypeOK
<1>2. ASSUME NEW m \in Mutants, WorkerStep(m) PROVE phase'[n] = "done" /\ verdict'[n] = verdict[n]
  BY <1>2 DEF WorkerStep, Ask, RunStarts, RunAnswers, TryFails, ConnectionLost, FailTry,
              BootFails, fiber_vars, IInv, TypeOK
<1> QED BY <1>1, <1>2
        DEF Next, vars, fiber_vars, Expire, WorkerExits, CutOffEnds

\* A worker that comes by no cut-off run, and is not taken from a mutant.
LEMMA CutOffStays ==
  ASSUME IInv, CInv, [Next]_vars, NEW w \in Workers,
         cutOff'[w] \subseteq cutOff[w], w \in invalidated => w \in invalidated',
         owner'[w] = owner[w] \/ owner[w] = None
  PROVE  CutOffRight(w)'
<1> SUFFICES ASSUME w \notin invalidated', NEW n \in cutOff'[w], owner'[w] # n
             PROVE  phase'[n] = "done" /\ verdict'[n] \in {"Tested", "RuntimeError"}
  BY DEF CutOffRight
<1>1. n \in cutOff[w] /\ n \in Mutants
  BY DEF IInv, TypeOK
<1>2. owner[w] # n
  BY <1>1, NoneApart
<1>3. phase[n] = "done" /\ verdict[n] \in {"Tested", "RuntimeError"}
  BY <1>1, <1>2 DEF CInv, CutOffRight
<1> QED BY <1>1, <1>3, DoneStays

LEMMA SettledStays ==
  ASSUME NEW m, SettledRight(m), UNCHANGED <<phase[m], runner[m], verdict[m]>>,
         runner[m] \in invalidated => runner[m] \in invalidated'
  PROVE  SettledRight(m)'
BY DEF SettledRight

LEMMA ReleaseCInv == ASSUME IInv, CInv, [Next]_vars, NEW m \in Mutants, Release(m) PROVE CInv'
<1>1. /\ phase[m] = "settling" /\ phase'[m] = "done"
      /\ \A n \in Mutants : n # m => phase'[n] = phase[n] /\ runner'[n] = runner[n]
      /\ verdict' = verdict
  BY DEF Release, IInv, TypeOK
<1>2. /\ owner' = [v \in Workers |-> IF owner[v] = m THEN None ELSE owner[v]]
      /\ Discard(HeldBy(m) \cap invalidated)
  BY DEF Release
<1>3. ASSUME NEW w \in Workers PROVE CutOffRight(w)'
  <2>1. CASE owner[w] # m
    <3>1. /\ cutOff'[w] = cutOff[w] /\ owner'[w] = owner[w]
          /\ w \in invalidated' <=> w \in invalidated
      BY <1>2, <2>1 DEF Discard, HeldBy
    <3> QED BY <3>1, CutOffStays
  <2>2. CASE owner[w] = m /\ w \in invalidated
    <3>1. cutOff'[w] = {}
      BY <1>2, <2>2 DEF Discard, HeldBy
    <3> QED BY <3>1 DEF CutOffRight
  <2>3. CASE owner[w] = m /\ w \notin invalidated
    <3>1. w = runner[m]
      <4>1. HoldsRight(m)
        BY DEF IInv, MutantInv
      <4>2. CASE attempt[m] = 0
        BY <2>3, <4>1, <4>2 DEF HoldsRight
      <4>3. CASE attempt[m] = 1
        BY <2>3, <4>1, <4>3 DEF HoldsRight
      <4> QED BY <4>2, <4>3 DEF IInv, TypeOK
    <3>2. verdict[m] \in {"Tested", "RuntimeError"}
      BY <1>1, <2>3, <3>1 DEF CInv, SettledRight
    <3>3. cutOff'[w] = cutOff[w] /\ cutOff[w] \subseteq Mutants
      BY <1>2, <2>3 DEF Discard, HeldBy, IInv, TypeOK
    <3>4. ASSUME NEW n \in cutOff[w]
          PROVE  phase'[n] = "done" /\ verdict'[n] \in {"Tested", "RuntimeError"}
      <4>1. CASE n = m
        BY <1>1, <3>2, <4>1
      <4>2. CASE n # m
        <5>1. phase[n] = "done" /\ verdict[n] \in {"Tested", "RuntimeError"}
          BY <2>3, <4>2 DEF CInv, CutOffRight
        <5> QED BY <3>3, <5>1, DoneStays
      <4> QED BY <4>1, <4>2
    <3> QED BY <3>3, <3>4 DEF CutOffRight
  <2> QED BY <2>1, <2>2, <2>3
<1>4. ASSUME NEW n \in Mutants, n # m PROVE SettledRight(n)'
  <2>1. phase[n] = "settling" => runner[n] \in Workers /\ owner[runner[n]] = n
    BY OwnWorker DEF Attempting
  <2>2. phase[n] = "settling" =>
          (runner[n] \in invalidated => runner[n] \in invalidated')
    BY <1>2, <1>4, <2>1 DEF Discard, HeldBy
  <2>3. SettledRight(n) /\ phase'[n] = phase[n] /\ runner'[n] = runner[n] /\ verdict'[n] = verdict[n]
    BY <1>1, <1>4 DEF CInv
  <2> QED BY <2>2, <2>3 DEF SettledRight
<1> QED BY <1>1, <1>3, <1>4 DEF CInv, SettledRight

LEMMA ExpireCInv == ASSUME IInv, CInv, [Next]_vars, NEW w \in Workers, Expire(w) PROVE CInv'
<1>1. Discard({w}) /\ owner[w] = None /\ UNCHANGED <<phase, runner, verdict, owner>>
  BY DEF Expire, Available, fiber_vars
<1>2. ASSUME NEW v \in Workers PROVE CutOffRight(v)'
  <2>1. CASE v = w
    BY <1>1, <2>1 DEF Discard, CutOffRight
  <2>2. CASE v # w
    <3>1. cutOff'[v] = cutOff[v] /\ (v \in invalidated => v \in invalidated')
      BY <1>1, <2>2 DEF Discard
    <3> QED BY <1>1, <3>1, CutOffStays
  <2> QED BY <2>1, <2>2
<1>3. ASSUME NEW n \in Mutants PROVE SettledRight(n)'
  <2>1. phase[n] = "settling" => runner[n] # w
    BY <1>1, OwnWorker, NoneApart DEF Attempting
  <2>2. phase[n] = "settling" =>
          (runner[n] \in invalidated => runner[n] \in invalidated')
    BY <1>1, <2>1 DEF Discard
  <2> QED BY <1>1, <2>2 DEF CInv, SettledRight
<1> QED BY <1>2, <1>3 DEF CInv

LEMMA FailsCInv ==
  ASSUME IInv, CInv, [Next]_vars, NEW m \in Mutants, TryFails(m) \/ ConnectionLost(m)
  PROVE  CInv'
<1>1. /\ phase[m] \in {"ready", "asked", "running"}
      /\ UNCHANGED <<runner, verdict, owner, invalidated>>
  BY DEF TryFails, ConnectionLost, FailTry, pool_vars
<1>2. PICK w \in live : w = runner[m] /\ w \in Workers /\ owner[w] = m
  BY <1>1, OwnWorker DEF Attempting
<1>3. executing[w] \in {None, m}
  BY <1>1, <1>2 DEF IInv, MutantInv, RunnerRight, Attempting
<1>4. ASSUME NEW v \in Workers PROVE CutOffRight(v)'
  <2>1. CASE v # w
    <3>1. cutOff'[v] = cutOff[v]
      BY <1>2, <2>1 DEF TryFails, ConnectionLost, IInv, TypeOK
    <3> QED BY <1>1, <3>1, CutOffStays
  <2>2. CASE v = w
    <3>1. cutOff'[w] \subseteq cutOff[w] \cup {m}
      BY <1>2, <1>3 DEF TryFails, ConnectionLost, IInv, TypeOK
    <3>2. ASSUME w \notin invalidated', NEW n \in cutOff'[w], owner'[w] # n
          PROVE  phase'[n] = "done" /\ verdict'[n] \in {"Tested", "RuntimeError"}
      <4>1. n \in cutOff[w] /\ n \in Mutants /\ owner[w] # n /\ w \notin invalidated
        BY <1>1, <1>2, <3>1, <3>2 DEF IInv, TypeOK
      <4>2. phase[n] = "done" /\ verdict[n] \in {"Tested", "RuntimeError"}
        BY <1>2, <4>1 DEF CInv, CutOffRight
      <4> QED BY <4>1, <4>2, DoneStays
    <3> QED BY <2>2, <3>2 DEF CutOffRight
  <2> QED BY <2>1, <2>2
<1>5. ASSUME NEW n \in Mutants PROVE SettledRight(n)'
  <2>1. CASE n = m
    <3>1. phase'[m] # "settling"
      BY DEF TryFails, ConnectionLost, FailTry, IInv, TypeOK
    <3> QED BY <2>1, <3>1 DEF SettledRight
  <2>2. CASE n # m
    <3>1. phase'[n] = phase[n]
      BY <2>2 DEF TryFails, ConnectionLost, FailTry, IInv, TypeOK
    <3> QED BY <1>1, <3>1, SettledStays DEF CInv
  <2> QED BY <2>1, <2>2
<1> QED BY <1>4, <1>5 DEF CInv

LEMMA SettlesCInv ==
  ASSUME IInv, CInv, [Next]_vars, NEW m \in Mutants,
         SettleAnswer(m) \/ RecycleAndSettle(m) \/ GiveUp(m)
  PROVE  CInv'
<1>1. /\ phase[m] = "answered" /\ UNCHANGED <<runner, owner, cutOff>>
      /\ invalidated \subseteq invalidated'
  BY DEF SettleAnswer, RecycleAndSettle, GiveUp, Settle, pool_vars, worker_vars
<1>2. ASSUME NEW v \in Workers PROVE CutOffRight(v)'
  BY <1>1, CutOffStays
<1>3. SettledRight(m)'
  <2>1. CASE SettleAnswer(m)
    <3>1. /\ verdict'[m] = VerdictOf(answer[m])
          /\ answer[m] \in {"tested", "missed", "error"}
      BY <1>1, <2>1 DEF SettleAnswer, Settle, IInv, MutantInv, RunnerRight, Attempting, TypeOK,
                        Answers
    <3> QED BY <3>1 DEF SettledRight, VerdictOf
  <2>2. CASE RecycleAndSettle(m) \/ GiveUp(m)
    BY <1>1, <2>2 DEF RecycleAndSettle, GiveUp, SettledRight
  <2> QED BY <2>1, <2>2
<1>4. ASSUME NEW n \in Mutants, n # m PROVE SettledRight(n)'
  <2>1. phase'[n] = phase[n] /\ verdict'[n] = verdict[n]
    BY <1>4 DEF SettleAnswer, RecycleAndSettle, GiveUp, Settle, IInv, TypeOK
  <2> QED BY <1>1, <2>1, SettledStays DEF CInv
<1> QED BY <1>2, <1>3, <1>4 DEF CInv

\* The other steps of a mutant neither settle it nor cut a run off.
LEMMA MovesCInv ==
  ASSUME IInv, CInv, [Next]_vars, NEW m \in Mutants,
         Begin(m) \/ (\E w \in Workers : Acquire(m, w)) \/ DeadlinePasses(m)
         \/ RetryAttempt(m) \/ Ask(m) \/ RunStarts(m)
         \/ \E given \in Answers : RunAnswers(m, given)
  PROVE  CInv'
<1>1. UNCHANGED <<cutOff, verdict>> /\ invalidated \subseteq invalidated'
  BY DEF Begin, Acquire, DeadlinePasses, RetryAttempt, Ask, RunStarts, RunAnswers, pool_vars,
         worker_vars
<1>2. /\ phase'[m] # "settling"
      /\ \A n \in Mutants : n # m => phase'[n] = phase[n] /\ runner'[n] = runner[n]
  BY DEF Begin, Acquire, DeadlinePasses, RetryAttempt, Ask, RunStarts, RunAnswers, IInv, TypeOK
<1>3. ASSUME NEW v \in Workers PROVE owner'[v] = owner[v] \/ owner[v] = None
  <2>1. ASSUME NEW w \in Workers, Acquire(m, w)
        PROVE  owner'[v] = owner[v] \/ owner[v] = None
    <3>1. owner[w] = None /\ owner' = [owner EXCEPT ![w] = m]
      BY <2>1 DEF Acquire, Available, IInv, WorkerInv
    <3> QED BY <3>1 DEF IInv, TypeOK
  <2> QED BY <2>1
          DEF Begin, DeadlinePasses, RetryAttempt, Ask, RunStarts, RunAnswers, pool_vars
<1>4. ASSUME NEW v \in Workers PROVE CutOffRight(v)'
  BY <1>1, <1>3, CutOffStays
<1>5. ASSUME NEW n \in Mutants, n # m PROVE SettledRight(n)'
  BY <1>1, <1>2, <1>5, SettledStays DEF CInv
<1> QED BY <1>2, <1>4, <1>5 DEF CInv, SettledRight

LEMMA NextCInv == ASSUME IInv, CInv, [Next]_vars PROVE CInv'
<1>1. ASSUME UNCHANGED <<fiber_vars, pool_vars>>, \A w \in Workers : cutOff'[w] \subseteq cutOff[w]
      PROVE  CInv'
  <2>1. UNCHANGED <<phase, runner, verdict, owner, invalidated>>
    BY <1>1 DEF fiber_vars, pool_vars
  <2> QED BY <1>1, <2>1, CutOffStays, SettledStays DEF CInv
<1>2. ASSUME NEW w \in Workers, WorkerExits(w) \/ \E m \in Mutants : CutOffEnds(w, m)
      PROVE  CInv'
  <2>1. UNCHANGED <<fiber_vars, pool_vars>> /\ \A v \in Workers : cutOff'[v] \subseteq cutOff[v]
    BY <1>2 DEF WorkerExits, CutOffEnds, IInv, TypeOK
  <2> QED BY <1>1, <2>1
<1>3. ASSUME UNCHANGED <<fiber_vars, pool_vars, worker_vars>> PROVE CInv'
  BY <1>1, <1>3 DEF worker_vars
<1>4. ASSUME NEW m \in Mutants, FiberStep(m) PROVE CInv'
  BY <1>4, MovesCInv, SettlesCInv, ReleaseCInv DEF FiberStep
<1>5. ASSUME NEW m \in Mutants, WorkerStep(m) PROVE CInv'
  BY <1>3, <1>5, MovesCInv, FailsCInv DEF WorkerStep, BootFails
<1> QED BY <1>2, <1>3, <1>4, <1>5, ExpireCInv DEF Next, vars

-----------------------------------------------------------------------------
(* The theorems.                                                           *)

LEMMA PairSize == ASSUME NEW a, NEW b, a # b PROVE Cardinality({a, b}) = 2
<1>1. IsFiniteSet({a}) /\ Cardinality({a}) = 1
  BY FS_Singleton
<1>2. Cardinality({a} \cup {b}) = IF b \in {a} THEN Cardinality({a}) ELSE Cardinality({a}) + 1
  BY <1>1, FS_AddElement
<1>3. b \notin {a} /\ {a} \cup {b} = {a, b}
  OBVIOUS
<1> QED BY <1>1, <1>2, <1>3

\* Every variable keeps its type.
THEOREM TypeCorrect == Spec => []TypeOK
<1>1. IInv => TypeOK
  BY DEF IInv
<1> QED BY <1>1, Inductive, PTL

\* A try is made on a live worker that its fiber holds alone, that the pool was not
\* told to discard and that executes no other run for its connection, whatever runs
\* hang, fail, lose their connection or miss their tests.  A run that was cut off
\* may go on there, but none of a mutant that timed out or was given up
\* (run/mutant-run.cell.ts, run/test-runner-pool.blueprint.ts).
THEOREM SoundWorkers == Spec => []TriesOnSoundWorker
<1>1. Init => IInv /\ CInv
  BY InitIInv, InitCInv
<1>2. (IInv /\ CInv) /\ [Next]_vars => (IInv /\ CInv)'
  BY NextIInv, NextCInv
<1>3. IInv /\ CInv => TriesOnSoundWorker
  <2> SUFFICES ASSUME IInv, CInv, NEW m \in Trying
               PROVE  /\ runner[m] \in live \ (invalidated \cup missed)
                      /\ owner[runner[m]] = m
                      /\ executing[runner[m]] \in {None, m}
                      /\ \A n \in Trying : runner[n] = runner[m] => n = m
                      /\ \A n \in cutOff[runner[m]] \ {m} :
                           verdict[n] \in {"Tested", "RuntimeError"}
    BY DEF TriesOnSoundWorker
  <2>1. /\ runner[m] \in live \ (invalidated \cup missed) /\ owner[runner[m]] = m
        /\ executing[runner[m]] \in {None, m}
        /\ \A n \in Trying : runner[n] = runner[m] => n = m
    BY DEF IInv, MutantInv, RunnerRight, Attempting, Trying
  <2>2. \A n \in cutOff[runner[m]] \ {m} : verdict[n] \in {"Tested", "RuntimeError"}
    BY <2>1 DEF CInv, CutOffRight, IInv, TypeOK
  <2> QED BY <2>1, <2>2
<1> QED BY <1>1, <1>2, <1>3, PTL DEF Spec

\* A mutant with covering tests is judged on their answer, and given up only when
\* two different workers ran other tests (interpretMutantRun).
THEOREM CoveringTests == Spec => []CoveringTestsRan
<1>1. IInv => CoveringTestsRan
  <2> SUFFICES ASSUME IInv, NEW m \in Covered, phase[m] = "settling",
                      verdict[m] = "NoCoveringTest"
               PROVE  Cardinality(HeldBy(m) \cap missed \cap invalidated) = 2
    BY RunsAssumption DEF CoveringTestsRan, IInv, MutantInv, VerdictRight
  <2>1. /\ m \in Mutants /\ attempt[m] = 1 /\ runner[m] \in missed \cap invalidated
        /\ owner[runner[m]] = m /\ runner[m] \in Workers
    BY RunsAssumption DEF IInv, MutantInv, VerdictRight, RunnerRight, Attempting, TypeOK
  <2>2. PICK v \in missed \cap invalidated :
          /\ v # runner[m] /\ owner[v] = m
          /\ \A w \in Workers : owner[w] = m => w = v \/ w = runner[m]
    BY <2>1 DEF IInv, MutantInv, HoldsRight
  <2>3. HeldBy(m) \cap missed \cap invalidated = {v, runner[m]}
    BY <2>1, <2>2 DEF HeldBy, IInv, TypeOK
  <2>4. Cardinality({v, runner[m]}) = 2
    BY <2>2, PairSize
  <2> QED BY <2>3, <2>4
<1> QED BY <1>1, Inductive, PTL

\* A fiber holds the worker of its attempt, with that of the first attempt while
\* the second runs, and none once its mutant is done (mutantRunCell's scope).
THEOREM Holds == Spec => []HeldWhileNeeded
<1>1. IInv => HeldWhileNeeded
  <2> SUFFICES ASSUME IInv, NEW m \in Mutants
               PROVE  Cardinality(HeldBy(m)) =
                        CASE phase[m] \in {"queued", "done"} -> 0
                          [] phase[m] = "acquiring" -> attempt[m]
                          [] OTHER -> attempt[m] + 1
    BY DEF HeldWhileNeeded
  <2>1. phase[m] \in {"queued", "done"} \/ phase[m] = "acquiring" \/ phase[m] \in Attempting
    BY DEF IInv, TypeOK, Phases, Attempting
  <2>2. /\ phase[m] \notin Attempting => runner[m] = None
        /\ phase[m] \in Attempting => runner[m] \in Workers /\ owner[runner[m]] = m
        /\ phase[m] \in {"queued", "done"} => attempt[m] = 0
    BY DEF IInv, MutantInv, RunnerRight, HoldsRight, TypeOK
  <2>3. CASE attempt[m] = 0
    <3>1. \A w \in Workers : owner[w] = m => w = runner[m]
      BY <2>3 DEF IInv, MutantInv, HoldsRight
    <3>2. CASE phase[m] \in Attempting
      <4>1. HeldBy(m) = {runner[m]}
        BY <2>2, <3>1, <3>2 DEF HeldBy
      <4>2. Cardinality(HeldBy(m)) = 1
        BY <4>1, FS_Singleton
      <4> QED BY <2>3, <3>2, <4>2 DEF Attempting
    <3>3. CASE phase[m] \notin Attempting
      <4>1. HeldBy(m) = {}
        BY <2>2, <3>1, <3>3, NoneApart DEF HeldBy
      <4>2. Cardinality(HeldBy(m)) = 0
        BY <4>1, FS_EmptySet
      <4> QED BY <2>1, <2>3, <3>3, <4>2
    <3> QED BY <3>2, <3>3
  <2>4. CASE attempt[m] = 1
    <3>1. PICK v \in Workers :
            /\ v # runner[m] /\ owner[v] = m
            /\ \A w \in Workers : owner[w] = m => w = v \/ w = runner[m]
      BY <2>4 DEF IInv, MutantInv, HoldsRight, TypeOK
    <3>2. CASE phase[m] \in Attempting
      <4>1. HeldBy(m) = {v, runner[m]}
        BY <2>2, <3>1, <3>2 DEF HeldBy
      <4>2. Cardinality(HeldBy(m)) = 2
        BY <3>1, <4>1, PairSize
      <4> QED BY <2>4, <3>2, <4>2 DEF Attempting
    <3>3. CASE phase[m] \notin Attempting
      <4>1. HeldBy(m) = {v}
        BY <2>2, <3>1, <3>3, NoneApart DEF HeldBy
      <4>2. Cardinality(HeldBy(m)) = 1
        BY <4>1, FS_Singleton
      <4> QED BY <2>1, <2>2, <2>4, <3>3, <4>2
    <3> QED BY <3>2, <3>3
  <2> QED BY <2>3, <2>4 DEF IInv, TypeOK
<1> QED BY <1>1, Inductive, PTL

\* Under a runner that can reload, a worker asked for a run without a reload holds
\* nothing the mutant could be misjudged on, unless an earlier try on it failed
\* after it had begun (pooled-test-runner.handle.ts).
THEOREM CleanRuns == ASSUME CanReload = TRUE PROVE Spec => []CleanEnvironment
<1>1. Init => IInv /\ EInv
  BY InitIInv, InitEInv
<1>2. (IInv /\ EInv) /\ [Next]_vars => (IInv /\ EInv)'
  BY NextIInv, NextEInv
<1>3. IInv /\ EInv => CleanEnvironment
  <2> SUFFICES ASSUME IInv, EInv, NEW m \in Mutants,
                      phase[m] = "asked", ~reload[m], runner[m] \notin stale
               PROVE  environment[runner[m]] \in (IF m \in Static THEN {"empty"}
                                                                  ELSE {"empty", "clean"})
    BY DEF CleanEnvironment
  <2>1. PICK w \in live : w = runner[m] /\ w \in Workers /\ owner[w] = m
    BY OwnWorker DEF Attempting
  <2>2. w \notin invalidated
    BY <2>1 DEF IInv, MutantInv, RunnerRight, Attempting
  <2>3. Matches(w)
    BY <2>1, <2>2 DEF EInv, KnownRight, Unsettled
  <2>4. ~ReloadNeeded(m, known[w])
    BY <2>1 DEF EInv, LoadedRight
  <2>5. known[w] \in EnvironmentStates
    BY <2>1 DEF IInv, TypeOK
  <2>6. CASE m \in Static
    BY <2>1, <2>3, <2>4, <2>6 DEF ReloadNeeded, Matches
  <2>7. CASE m \notin Static
    BY <2>1, <2>3, <2>4, <2>5, <2>7 DEF ReloadNeeded, Matches, EnvironmentStates
  <2> QED BY <2>6, <2>7
<1> QED BY <1>1, <1>2, <1>3, PTL DEF Spec
=============================================================================
