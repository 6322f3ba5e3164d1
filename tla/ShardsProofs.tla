----------------------------- MODULE ShardsProofs -----------------------------
(***************************************************************************)
(* Proofs about Shards, for every sequence of commands, every input and any  *)
(* number of failures, retries and plans.                                   *)
(***************************************************************************)
EXTENDS Shards, FiniteSetTheorems, TLAPS

-----------------------------------------------------------------------------
(* The invariant.                                                          *)

\* The plan is one of a command, and its shards share no mutant.
Disjoint ==
  \A k, l \in DOMAIN plan : \A p \in DOMAIN plan[k].projects \cap DOMAIN plan[l].projects :
    k # l => plan[k].projects[p] \cap plan[l].projects[p] = {}

PlanOK ==
  /\ Len(plan) \in Nat /\ DOMAIN plan = 1 .. Len(plan) /\ DOMAIN plan \subseteq Dirs
  /\ plan # <<>> => Len(plan) \in Dirs
  /\ Disjoint
  /\ \A k \in DOMAIN plan :
       IsFiniteSet(DOMAIN plan[k].projects) /\ DOMAIN plan[k].projects \subseteq Nat

\* The last run of project p in directory k was of the present plan, to its end.
Done(k, p) ==
  /\ stream[k][p] # None
  /\ stream[k][p].fresh => stream[k][p].ids = plan[k].projects[p]
  /\ part[k][p] = [inputs |-> inputs, rows |-> Rows(k, plan[k].projects[p])]

\* A child writes what it has settled, and is done with the mutants of its shard.
ChildOK(k, p) ==
  /\ proc[k].child.settled \subseteq proc[k].child.mutants
  /\ proc[k].child.stage \in {"running", "reported"} =>
       /\ proc[k].child.writing => stream[k][p] # None /\ stream[k][p].ids = proc[k].child.settled
       /\ ~proc[k].child.writing /\ stream[k][p] # None => ~stream[k][p].fresh
       /\ proc[k].planned => proc[k].child.mutants = plan[k].projects[p]
  /\ proc[k].child.stage = "reported" =>
       /\ proc[k].child.settled = proc[k].child.mutants
       /\ proc[k].planned => part[k][p] = [inputs |-> inputs, rows |-> Rows(k, plan[k].projects[p])]

\* A run of the present plan has the projects before it, and is done with the others.
ProcOK(k) ==
  /\ proc[k].planned =>
       /\ k \in DOMAIN plan /\ proc[k].count = Len(plan)
       /\ Range(proc[k].todo) \subseteq DOMAIN plan[k].projects
       /\ \A p \in DOMAIN plan[k].projects : p \in Range(proc[k].todo) \/ Done(k, p)
  /\ proc[k].child # None => proc[k].todo # <<>> /\ ChildOK(k, Head(proc[k].todo))

\* What was merged is there as it was.
IsMerge(m) ==
  /\ ~Refused(m.dirs) /\ m.report = MergedReport(m.dirs)
  /\ m.incremental =
       [p \in {q \in Projects : PartsOf(m.dirs, q) # <<>>} |-> Union(PartsOf(m.dirs, p))]

MergedOK ==
  merged # None =>
    /\ \A k \in Dirs : proc[k] = None
    /\ \A m \in {merged} : IsMerge(m)

IInv ==
  /\ TypeOK /\ PlanOK
  /\ \A k \in Dirs : proc[k] # None => ProcOK(k)
  /\ \A k \in completed : proc[k] = None /\ \A p \in DOMAIN plan[k].projects : Done(k, p)
  /\ MergedOK

\* The parts of the invariant, for the steps.
LEMMA Facts ==
  ASSUME IInv
  PROVE  /\ proc \in [Dirs -> Procs \cup {None}]
         /\ stream \in [Dirs -> [Projects -> Streams \cup {None}]]
         /\ part \in [Dirs -> [Projects -> Parts \cup {None}]]
         /\ cached \in [Projects -> Parts \cup {None}] /\ inputs \in Inputs
         /\ completed \subseteq DOMAIN plan /\ DOMAIN plan \subseteq Dirs
         /\ \A k \in DOMAIN plan : \A p \in DOMAIN plan[k].projects :
              p \in Projects /\ plan[k].projects[p] \subseteq Ids
         /\ \A k \in Dirs : proc[k] # None => ProcOK(k) /\ merged = None /\ k \notin completed
BY DEF IInv, TypeOK, PlanOK, MergedOK

\* A step of the run of one shard, which leaves the plan and the other shards alone.
LEMMA ShardStep ==
  ASSUME IInv, NEW k \in Dirs, proc[k] # None,
         UNCHANGED <<inputs, command, plan, cached, merged, plans, starts>>,
         proc' \in [Dirs -> Procs \cup {None}], lost' \in 0..MaxLost,
         stream' \in [Dirs -> [Projects -> Streams \cup {None}]],
         part' \in [Dirs -> [Projects -> Parts \cup {None}]],
         \A l \in Dirs \ {k} : proc'[l] = proc[l] /\ stream'[l] = stream[l] /\ part'[l] = part[l],
         proc'[k] # None => ProcOK(k)',
         \/ completed' = completed
         \/ /\ completed' = completed \cup {k} /\ proc'[k] = None /\ k \in DOMAIN plan
            /\ \A p \in DOMAIN plan[k].projects : Done(k, p)'
  PROVE  IInv'
<1>1. merged = None /\ k \notin completed
  BY Facts
<1>2. PlanOK'
  <2>1. PlanOK
    BY DEF IInv
  <2> QED BY <2>1 DEF PlanOK, Disjoint
<1>3. MergedOK'
  BY <1>1 DEF MergedOK
<1>4. \A l \in Dirs \ {k} : \A p : Done(l, p) => Done(l, p)'
  BY DEF Done, Rows
<1>5. ASSUME NEW l \in Dirs \ {k}, proc'[l] # None PROVE ProcOK(l)'
  <2>1. proc'[l] = proc[l] /\ stream'[l] = stream[l] /\ part'[l] = part[l] /\ ProcOK(l)
    BY <1>5 DEF IInv
  <2>2. \A p : ChildOK(l, p) => ChildOK(l, p)'
    BY <2>1 DEF ChildOK, Rows
  <2>3. (proc[l].child # None => proc[l].todo # <<>> /\ ChildOK(l, Head(proc[l].todo)))'
    BY <2>1, <2>2, Zenon DEF ProcOK
  <2>4. proc'[l].planned =>
          /\ l \in DOMAIN plan' /\ proc'[l].count = Len(plan')
          /\ Range(proc'[l].todo) \subseteq DOMAIN plan'[l].projects
          /\ \A p \in DOMAIN plan'[l].projects : p \in Range(proc'[l].todo) \/ Done(l, p)'
    BY <1>4, <2>1, Zenon DEF ProcOK
  <2> QED BY <2>3, <2>4 DEF ProcOK
<1>6. \A l \in Dirs : proc'[l] # None => ProcOK(l)'
  BY <1>5
<1>7. ASSUME NEW l \in completed'
      PROVE  proc'[l] = None /\ \A p \in DOMAIN plan'[l].projects : Done(l, p)'
  <2>1. CASE l = k
    BY <1>1, <1>7, <2>1
  <2>2. CASE l # k
    <3>1. l \in completed /\ l \in Dirs
      BY <1>7, <2>2, Facts
    <3>2. proc[l] = None /\ \A p \in DOMAIN plan[l].projects : Done(l, p)
      BY <3>1 DEF IInv
    <3> QED BY <1>4, <2>2, <3>1, <3>2
  <2> QED BY <2>1, <2>2
<1>8. TypeOK'
  <2>1. completed' \subseteq DOMAIN plan' /\ TypeOK
    BY Facts DEF IInv
  <2> QED BY <2>1 DEF TypeOK
<1> QED BY <1>2, <1>3, <1>6, <1>7, <1>8 DEF IInv

\* One run, one stream, one report is replaced.
LEMMA ProcSet ==
  ASSUME NEW f \in [Dirs -> Procs \cup {None}], NEW k \in Dirs, NEW x \in Procs \cup {None}
  PROVE  /\ [f EXCEPT ![k] = x] \in [Dirs -> Procs \cup {None}] /\ [f EXCEPT ![k] = x][k] = x
         /\ \A l \in Dirs \ {k} : [f EXCEPT ![k] = x][l] = f[l]
OBVIOUS

\* Setting one stream of one directory.
LEMMA StreamSet ==
  ASSUME NEW f \in [Dirs -> [Projects -> Streams \cup {None}]], NEW k \in Dirs, NEW p \in Projects,
         NEW x \in Streams \cup {None}
  PROVE  /\ [f EXCEPT ![k][p] = x] \in [Dirs -> [Projects -> Streams \cup {None}]]
         /\ [f EXCEPT ![k][p] = x][k][p] = x
         /\ \A q \in Projects \ {p} : [f EXCEPT ![k][p] = x][k][q] = f[k][q]
         /\ \A l \in Dirs \ {k} : [f EXCEPT ![k][p] = x][l] = f[l]
OBVIOUS

\* Setting one part of one directory.
LEMMA PartSet ==
  ASSUME NEW f \in [Dirs -> [Projects -> Parts \cup {None}]], NEW k \in Dirs, NEW p \in Projects,
         NEW x \in Parts \cup {None}
  PROVE  /\ [f EXCEPT ![k][p] = x] \in [Dirs -> [Projects -> Parts \cup {None}]]
         /\ [f EXCEPT ![k][p] = x][k][p] = x
         /\ \A q \in Projects \ {p} : [f EXCEPT ![k][p] = x][k][q] = f[k][q]
         /\ \A l \in Dirs \ {k} : [f EXCEPT ![k][p] = x][l] = f[l]
OBVIOUS

\* A run that gets another child.
LEMMA WithChild ==
  ASSUME NEW r \in Procs, NEW child \in Children \cup {None}
  PROVE  /\ [r EXCEPT !.child = child] \in Procs /\ [r EXCEPT !.child = child].child = child
         /\ [r EXCEPT !.child = child].todo = r.todo /\ [r EXCEPT !.child = child].count = r.count
         /\ [r EXCEPT !.child = child].planned = r.planned
BY DEF Procs

\* The project a run is at.
LEMMA AtProject ==
  ASSUME NEW r \in Procs, r.todo # <<>>
  PROVE  Head(r.todo) \in Projects /\ Head(r.todo) \in Range(r.todo)
<1>1. r.todo \in Seq(Projects)
  BY DEF Procs
<1>2. 1 \in DOMAIN r.todo /\ Head(r.todo) = r.todo[1]
  BY <1>1
<1> QED BY <1>1, <1>2 DEF Range

\* A child is started for the next project of the shard.
LEMMA SpawnOK ==
  ASSUME IInv, NEW k \in Dirs, Spawn(k)
  PROVE  IInv'
<1>1. PICK r : r = proc[k]
  OBVIOUS
<1>2. r \in Procs /\ r.todo # <<>> /\ r # None /\ ProcOK(k) /\ r.child = None
  BY <1>1, Facts DEF Spawn
<1>3. PICK p : p = Head(r.todo)
  OBVIOUS
<1>4. p \in Projects /\ p \in Range(r.todo)
  BY <1>2, <1>3, AtProject
<1>5. Spawned \in Children
  BY DEF Spawned, Children
<1>6. PICK run : run = [r EXCEPT !.child = Spawned]
  OBVIOUS
<1>7. /\ run \in Procs /\ run.child = Spawned /\ run.todo = r.todo /\ run.count = r.count
      /\ run.planned = r.planned
  BY <1>2, <1>5, <1>6, WithChild
<1>8. proc' = [proc EXCEPT ![k] = run]
  BY <1>1, <1>6 DEF Spawn
<1>9. proc' \in [Dirs -> Procs \cup {None}] /\ proc'[k] = run /\ \A l \in Dirs \ {k} : proc'[l] = proc[l]
  BY <1>7, <1>8, Facts, ProcSet
<1>10. PICK x : x = IF part[k][p] = None THEN cached[p] ELSE part[k][p]
  OBVIOUS
<1>11. x \in Parts \cup {None}
  BY <1>4, <1>10, Facts
<1>12. part' = [part EXCEPT ![k][p] = x]
  BY <1>1, <1>3, <1>10 DEF Spawn, Seed
<1>13. /\ part' \in [Dirs -> [Projects -> Parts \cup {None}]]
       /\ \A q \in Projects \ {p} : part'[k][q] = part[k][q]
       /\ \A l \in Dirs \ {k} : part'[l] = part[l]
  BY <1>4, <1>11, <1>12, Facts, PartSet
<1>14. UNCHANGED <<inputs, command, plan, completed, stream, cached, merged, plans, starts, lost>>
  BY DEF Spawn
<1>15. ProcOK(k)'
  <2>1. r.planned =>
          \A q \in DOMAIN plan[k].projects : q \in Range(r.todo) \/ Done(k, q)'
    <3> SUFFICES ASSUME r.planned, NEW q \in DOMAIN plan[k].projects, q \notin Range(r.todo)
                 PROVE  Done(k, q)'
      OBVIOUS
    <3>1. Done(k, q) /\ q # p /\ q \in Projects
      BY <1>1, <1>2, <1>4, Facts DEF ProcOK
    <3> QED BY <1>13, <1>14, <3>1 DEF Done, Rows
  <2>2. ChildOK(k, p)'
    BY <1>7, <1>9 DEF ChildOK, Spawned
  <2> QED BY <1>1, <1>2, <1>3, <1>7, <1>9, <1>14, <2>1, <2>2 DEF ProcOK
<1>16. lost' \in 0..MaxLost /\ stream' \in [Dirs -> [Projects -> Streams \cup {None}]]
  BY <1>14, Facts DEF IInv, TypeOK
<1> QED BY <1>1, <1>2, <1>9, <1>13, <1>14, <1>15, <1>16, ShardStep

\* The run of a step that has a child, and the project it is at.
LEMMA RunFacts ==
  ASSUME IInv, NEW k \in Dirs, proc[k] # None, proc[k].child # None
  PROVE  /\ proc[k] \in Procs /\ ProcOK(k) /\ proc[k].child \in Children
         /\ Head(proc[k].todo) \in Projects /\ Head(proc[k].todo) \in Range(proc[k].todo)
         /\ ChildOK(k, Head(proc[k].todo))
<1>1. proc[k] \in Procs /\ ProcOK(k)
  BY Facts
<1>2. proc[k].todo # <<>> /\ ChildOK(k, Head(proc[k].todo))
  BY <1>1 DEF ProcOK
<1>3. proc[k].child \in Children
  BY <1>1 DEF Procs
<1> QED BY <1>1, <1>2, <1>3, AtProject

\* Nothing changes for the projects the run is done with.
LEMMA OthersDone ==
  ASSUME IInv, NEW k \in Dirs, proc[k] # None, NEW p \in Range(proc[k].todo), UNCHANGED <<inputs, plan>>,
         \A q \in Projects \ {p} : stream'[k][q] = stream[k][q] /\ part'[k][q] = part[k][q]
  PROVE  proc[k].planned =>
           \A q \in DOMAIN plan[k].projects : q \in Range(proc[k].todo) \/ Done(k, q)'
<1> SUFFICES ASSUME proc[k].planned, NEW q \in DOMAIN plan[k].projects, q \notin Range(proc[k].todo)
             PROVE  Done(k, q)'
  OBVIOUS
<1>1. k \in DOMAIN plan /\ Done(k, q) /\ q # p
  BY Facts DEF ProcOK
<1>2. q \in Projects
  BY <1>1, Facts
<1> QED BY <1>1, <1>2 DEF Done, Rows

IsAt(k, p) == p = Head(proc[k].todo)

\* A step of a run gives it another child, at the project p.
Runs(k, p, child, x, y) ==
  /\ proc' = [proc EXCEPT ![k] = [proc[k] EXCEPT !.child = child]]
  /\ stream' = [stream EXCEPT ![k][p] = x] /\ part' = [part EXCEPT ![k][p] = y]
  /\ UNCHANGED <<inputs, command, plan, completed, cached, merged, plans, starts>>
  /\ lost' \in 0..MaxLost

\* What became of the child, its stream and its report.
Ran(k, p, planned, child, x, y) ==
  /\ proc'[k].child = child /\ proc'[k].planned = planned
  /\ stream'[k][p] = x /\ part'[k][p] = y /\ inputs' = inputs /\ plan' = plan

\* A step of the child of one project keeps the invariant when it keeps that of its project.
LEMMA ChildStep ==
  ASSUME IInv, NEW k \in Dirs, proc[k] # None, proc[k].child # None, NEW child \in Children,
         NEW p, IsAt(k, p), NEW x \in Streams \cup {None}, NEW y \in Parts \cup {None},
         Runs(k, p, child, x, y), Ran(k, p, proc[k].planned, child, x, y) => ChildOK(k, p)'
  PROVE  IInv'
<1>1. PICK r : r = proc[k] /\ p = Head(r.todo)
  BY DEF IsAt
<1>2. r \in Procs /\ ProcOK(k) /\ p \in Projects /\ p \in Range(r.todo) /\ r.todo # <<>>
  BY <1>1, RunFacts DEF ProcOK
<1>3. PICK run : run = [r EXCEPT !.child = child]
  OBVIOUS
<1>4. /\ run \in Procs /\ run.child = child /\ run.todo = r.todo /\ run.count = r.count
      /\ run.planned = r.planned
  BY <1>2, <1>3, WithChild
<1>5. /\ proc' = [proc EXCEPT ![k] = run]
      /\ stream' = [stream EXCEPT ![k][p] = x] /\ part' = [part EXCEPT ![k][p] = y]
      /\ UNCHANGED <<inputs, command, plan, completed, cached, merged, plans, starts>>
      /\ lost' \in 0..MaxLost
  BY <1>1, <1>3 DEF Runs
<1>6. proc' \in [Dirs -> Procs \cup {None}] /\ proc'[k] = run /\ \A l \in Dirs \ {k} : proc'[l] = proc[l]
  BY <1>4, <1>5, Facts, ProcSet
<1>7. /\ stream' \in [Dirs -> [Projects -> Streams \cup {None}]] /\ stream'[k][p] = x
      /\ \A q \in Projects \ {p} : stream'[k][q] = stream[k][q]
      /\ \A l \in Dirs \ {k} : stream'[l] = stream[l]
  BY <1>2, <1>5, Facts, StreamSet
<1>8. /\ part' \in [Dirs -> [Projects -> Parts \cup {None}]] /\ part'[k][p] = y
      /\ \A q \in Projects \ {p} : part'[k][q] = part[k][q]
      /\ \A l \in Dirs \ {k} : part'[l] = part[l]
  BY <1>2, <1>5, Facts, PartSet
<1>9. ProcOK(k)'
  <2>1. r.planned =>
          \A q \in DOMAIN plan[k].projects : q \in Range(r.todo) \/ Done(k, q)'
    <3>1. /\ p \in Range(proc[k].todo) /\ UNCHANGED <<inputs, plan>>
          /\ \A q \in Projects \ {p} : stream'[k][q] = stream[k][q] /\ part'[k][q] = part[k][q]
      BY <1>1, <1>2, <1>5, <1>7, <1>8
    <3>2. proc[k].planned =>
            \A q \in DOMAIN plan[k].projects : q \in Range(proc[k].todo) \/ Done(k, q)'
      BY <3>1, OthersDone
    <3> QED BY <1>1, <3>2
  <2>2. ChildOK(k, p)'
    <3>1. Ran(k, p, r.planned, child, x, y)
      BY <1>4, <1>5, <1>6, <1>7, <1>8 DEF Ran
    <3> QED BY <1>1, <3>1, Zenon
  <2> QED BY <1>1, <1>2, <1>4, <1>5, <1>6, <2>1, <2>2 DEF ProcOK
<1> QED BY <1>1, <1>2, <1>5, <1>6, <1>7, <1>8, <1>9, ShardStep

\* Setting a project to what it is changes nothing.
LEMMA SamePart ==
  ASSUME IInv, NEW k \in Dirs, NEW p
  PROVE  /\ part = [part EXCEPT ![k][p] = part[k][p]] /\ stream = [stream EXCEPT ![k][p] = stream[k][p]]
         /\ lost \in 0..MaxLost
BY Facts DEF IInv, TypeOK

\* A child truncates its stream.
LEMMA OpenOK ==
  ASSUME IInv, NEW k \in Dirs, Open(k)
  PROVE  IInv'
<1>1. proc[k] # None /\ proc[k].child # None
  BY DEF Open, At
<1>2. PICK r, p : r = proc[k] /\ p = Head(r.todo)
  OBVIOUS
<1>3. /\ r \in Procs /\ ProcOK(k) /\ p \in Projects /\ p \in Range(r.todo) /\ r.child \in Children
      /\ r.planned \in BOOLEAN
  BY <1>1, <1>2, RunFacts DEF Procs
<1>4. PICK known \in BOOLEAN : known = (Known(k, r.count) /\ p \in DOMAIN plan[k].projects)
  BY DEF Known
<1>5. PICK writing \in {TRUE, lost = MaxLost} :
           /\ stream' = [stream EXCEPT ![k][p] = IF writing THEN Truncated(k, p) ELSE Stale(k, p)]
           /\ proc' = [proc EXCEPT ![k].child =
                [stage |-> IF known THEN "running" ELSE "refused",
                 mutants |-> IF known THEN plan[k].projects[p] ELSE {},
                 settled |-> {}, writing |-> writing]]
           /\ lost' = IF writing THEN lost ELSE lost + 1
  BY <1>2, <1>4 DEF Open
<1>6. UNCHANGED <<inputs, command, plan, completed, part, cached, merged, plans, starts>>
  BY DEF Open
<1>7. PICK child :
        child = [stage |-> IF known THEN "running" ELSE "refused",
                 mutants |-> IF known THEN plan[k].projects[p] ELSE {}, settled |-> {}, writing |-> writing]
  OBVIOUS
<1>8. /\ child \in Children /\ child.settled = {} /\ child.writing = writing
      /\ child.stage = (IF known THEN "running" ELSE "refused")
      /\ child.mutants = (IF known THEN plan[k].projects[p] ELSE {})
  <2>1. known => plan[k].projects[p] \subseteq Ids
    BY <1>4, Facts DEF Known
  <2> QED BY <1>7, <2>1 DEF Children
<1>9. PICK x : x = IF writing THEN Truncated(k, p) ELSE Stale(k, p)
  OBVIOUS
<1>10. /\ x \in Streams \cup {None}
       /\ writing => x # None /\ x.ids = {}
       /\ ~writing /\ x # None => ~x.fresh
  <2>1. Truncated(k, p) \in Streams /\ Truncated(k, p).ids = {}
    BY <1>2, <1>3 DEF Truncated, Streams
  <2>2. stream[k][p] \in Streams \cup {None}
    BY <1>3, Facts
  <2>3. Stale(k, p) \in Streams \cup {None} /\ (Stale(k, p) # None => ~Stale(k, p).fresh)
    BY <2>2 DEF Stale, Streams
  <2> QED BY <1>9, <2>1, <2>3, NoneAssumption
<1>11. lost' \in 0..MaxLost
  <2>1. lost \in 0..MaxLost /\ MaxLost \in Nat /\ (~writing => lost # MaxLost)
    BY SamePart, ShardsAssumption
  <2>2. lost' = lost \/ (~writing /\ lost' = lost + 1)
    BY <1>5
  <2> QED BY <2>1, <2>2
<1>12. proc' = [proc EXCEPT ![k] = [proc[k] EXCEPT !.child = child]]
  BY <1>5, <1>7
<1>13. part' = [part EXCEPT ![k][p] = part[k][p]] /\ part[k][p] \in Parts \cup {None}
  BY <1>3, <1>6, SamePart, Facts
<1>14. stream' = [stream EXCEPT ![k][p] = x]
  BY <1>5, <1>9
<1>15. Runs(k, p, child, x, part[k][p])
  BY <1>6, <1>11, <1>12, <1>13, <1>14 DEF Runs
<1>16. ASSUME Ran(k, p, r.planned, child, x, part[k][p])
       PROVE  ChildOK(k, p)'
  <2>1. r.planned /\ p \in DOMAIN plan[k].projects => known
    BY <1>2, <1>3, <1>4 DEF ProcOK, Known
  <2>2. r.planned => known
    BY <1>2, <1>3, <2>1 DEF ProcOK
  <2> QED BY <1>8, <1>10, <1>16, <2>2 DEF ChildOK, Ran
<1>17. IsAt(k, p) /\ proc[k].planned = r.planned
  BY <1>2 DEF IsAt
<1> QED BY <1>1, <1>8, <1>10, <1>13, <1>15, <1>16, <1>17, ChildStep

\* A child streams a verdict.
LEMMA VerdictOK ==
  ASSUME IInv, NEW k \in Dirs, NEW id \in Ids, Verdict(k, id)
  PROVE  IInv'
<1>1. proc[k] # None /\ proc[k].child # None /\ proc[k].child.stage = "running"
  BY DEF Verdict, At
<1>2. PICK r, p, old : r = proc[k] /\ p = Head(r.todo) /\ old = r.child
  OBVIOUS
<1>3. /\ r \in Procs /\ p \in Projects /\ old \in Children /\ ChildOK(k, p)
      /\ old.writing \in BOOLEAN /\ old.stage = "running" /\ id \in old.mutants \ old.settled
  BY <1>1, <1>2, RunFacts DEF Children, Verdict
<1>4. PICK written \in {old.writing, old.writing /\ lost = MaxLost} :
        /\ stream' = [stream EXCEPT ![k][p] = IF written THEN Written(k, p, id) ELSE Stale(k, p)]
        /\ proc' = [proc EXCEPT ![k].child.settled = @ \cup {id}, ![k].child.writing = written]
        /\ lost' = IF old.writing /\ ~written THEN lost + 1 ELSE lost
  BY <1>2 DEF Verdict
<1>5. UNCHANGED <<inputs, command, plan, completed, part, cached, merged, plans, starts>>
  BY DEF Verdict
<1>6. PICK child : child = [old EXCEPT !.settled = @ \cup {id}, !.writing = written]
  OBVIOUS
<1>7. /\ child \in Children /\ child.settled = old.settled \cup {id} /\ child.writing = written
      /\ child.stage = "running" /\ child.mutants = old.mutants /\ written \in BOOLEAN
  BY <1>3, <1>4, <1>6 DEF Children
<1>8. proc' = [proc EXCEPT ![k] = [proc[k] EXCEPT !.child = child]]
  <2>1. proc' = [proc EXCEPT ![k] = [r EXCEPT !.child = child]]
    BY <1>1, <1>2, <1>3, <1>4, <1>6, Facts DEF Procs, Children
  <2> QED BY <1>2, <2>1
<1>9. PICK x : x = IF written THEN Written(k, p, id) ELSE Stale(k, p)
  OBVIOUS
<1>10. stream' = [stream EXCEPT ![k][p] = x]
  BY <1>4, <1>9
<1>11. /\ x \in Streams \cup {None}
       /\ written => x # None /\ x.ids = old.settled \cup {id}
       /\ ~written /\ x # None => ~x.fresh
  <2>1. stream[k][p] \in Streams \cup {None}
    BY <1>3, Facts
  <2>2. Stale(k, p) \in Streams \cup {None} /\ (Stale(k, p) # None => ~Stale(k, p).fresh)
    BY <2>1 DEF Stale, Streams
  <2>3. written => stream[k][p] \in Streams /\ stream[k][p].ids = old.settled
    BY <1>2, <1>3, <1>4, <2>1 DEF ChildOK
  <2>4. written => x \in Streams /\ x.ids = old.settled \cup {id}
    BY <1>9, <2>3 DEF Streams, Written
  <2> QED BY <1>9, <2>2, <2>4, NoneAssumption
<1>12. lost' \in 0..MaxLost
  <2>1. lost \in 0..MaxLost /\ MaxLost \in Nat /\ (old.writing /\ ~written => lost # MaxLost)
    BY <1>3, <1>4, SamePart, ShardsAssumption
  <2>2. lost' = lost \/ (old.writing /\ ~written /\ lost' = lost + 1)
    BY <1>4
  <2> QED BY <2>1, <2>2
<1>13. part' = [part EXCEPT ![k][p] = part[k][p]] /\ part[k][p] \in Parts \cup {None}
  BY <1>3, <1>5, SamePart, Facts
<1>14. Runs(k, p, child, x, part[k][p])
  BY <1>5, <1>8, <1>10, <1>12, <1>13 DEF Runs
<1>15. ASSUME Ran(k, p, r.planned, child, x, part[k][p])
       PROVE  ChildOK(k, p)'
  <2>1. old.settled \subseteq old.mutants /\ (r.planned => old.mutants = plan[k].projects[p])
    BY <1>2, <1>3 DEF ChildOK
  <2> QED BY <1>3, <1>7, <1>11, <1>15, <2>1 DEF ChildOK, Ran
<1>16. IsAt(k, p) /\ proc[k].planned = r.planned
  BY <1>2 DEF IsAt
<1> QED BY <1>1, <1>7, <1>11, <1>13, <1>14, <1>15, <1>16, ChildStep

\* What a report of a restricted run is.
LEMMA RowsAreRows ==
  ASSUME IInv, NEW k, NEW settled \in SUBSET Ids
  PROVE  [inputs |-> inputs, rows |-> Rows(k, settled)] \in Parts
<1>1. inputs \in Inputs
  BY Facts
<1> QED BY <1>1 DEF Parts, Rows

\* A child writes a part with what it has so far.
LEMMA CheckpointOK ==
  ASSUME IInv, NEW k \in Dirs, Checkpoint(k)
  PROVE  IInv'
<1>1. proc[k] # None /\ proc[k].child # None /\ proc[k].child.stage = "running"
  BY DEF Checkpoint, At
<1>2. PICK r, p, old : r = proc[k] /\ p = Head(r.todo) /\ old = r.child
  OBVIOUS
<1>3. /\ r \in Procs /\ p \in Projects /\ old \in Children /\ ChildOK(k, p) /\ old.stage = "running"
      /\ old.settled \in SUBSET Ids
  BY <1>1, <1>2, RunFacts DEF Children
<1>4. PICK y : y = [inputs |-> inputs, rows |-> Rows(k, old.settled)]
  OBVIOUS
<1>5. y \in Parts
  BY <1>3, <1>4, RowsAreRows
<1>6. part' = [part EXCEPT ![k][p] = y]
  BY <1>2, <1>4 DEF Checkpoint
<1>7. UNCHANGED <<inputs, command, plan, proc, completed, stream, cached, merged, plans, starts, lost>>
  BY DEF Checkpoint
<1>8. proc' = [proc EXCEPT ![k] = [proc[k] EXCEPT !.child = old]]
  <2>1. [r EXCEPT !.child = old] = r
    BY <1>2, <1>3 DEF Procs
  <2>2. proc' = [proc EXCEPT ![k] = r]
    BY <1>2, <1>7, Facts
  <2> QED BY <1>2, <2>1, <2>2
<1>9. stream' = [stream EXCEPT ![k][p] = stream[k][p]] /\ stream[k][p] \in Streams \cup {None} /\ lost' \in 0..MaxLost
  BY <1>3, <1>7, SamePart, Facts
<1>10. Runs(k, p, old, stream[k][p], y)
  BY <1>6, <1>7, <1>8, <1>9 DEF Runs
<1>11. ASSUME Ran(k, p, r.planned, old, stream[k][p], y)
       PROVE  ChildOK(k, p)'
  BY <1>2, <1>3, <1>11 DEF ChildOK, Ran
<1>12. IsAt(k, p) /\ proc[k].planned = r.planned
  BY <1>2 DEF IsAt
<1> QED BY <1>1, <1>3, <1>5, <1>9, <1>10, <1>11, <1>12, ChildStep

\* A child writes its whole part.
LEMMA ReportOK ==
  ASSUME IInv, NEW k \in Dirs, Report(k)
  PROVE  IInv'
<1>1. proc[k] # None /\ proc[k].child # None /\ proc[k].child.stage = "running"
  BY DEF Report, At
<1>2. PICK r, p, old : r = proc[k] /\ p = Head(r.todo) /\ old = r.child
  OBVIOUS
<1>3. /\ r \in Procs /\ p \in Projects /\ old \in Children /\ ChildOK(k, p) /\ old.stage = "running"
      /\ old.settled \in SUBSET Ids /\ old.settled = old.mutants
  BY <1>1, <1>2, RunFacts DEF Children, Report
<1>4. PICK y : y = [inputs |-> inputs, rows |-> Rows(k, old.settled)]
  OBVIOUS
<1>5. y \in Parts
  BY <1>3, <1>4, RowsAreRows
<1>6. part' = [part EXCEPT ![k][p] = y]
  BY <1>2, <1>4 DEF Report
<1>7. UNCHANGED <<inputs, command, plan, completed, stream, cached, merged, plans, starts, lost>>
  BY DEF Report
<1>8. PICK child : child = [old EXCEPT !.stage = "reported"]
  OBVIOUS
<1>9. /\ child \in Children /\ child.settled = old.settled /\ child.mutants = old.mutants
      /\ child.writing = old.writing /\ child.stage = "reported"
  BY <1>3, <1>8 DEF Children
<1>10. proc' = [proc EXCEPT ![k] = [proc[k] EXCEPT !.child = child]]
  <2>1. proc' = [proc EXCEPT ![k] = [r EXCEPT !.child = child]]
    BY <1>1, <1>2, <1>3, <1>8, Facts DEF Procs, Children, Report
  <2> QED BY <1>2, <2>1
<1>11. stream' = [stream EXCEPT ![k][p] = stream[k][p]] /\ stream[k][p] \in Streams \cup {None} /\ lost' \in 0..MaxLost
  BY <1>3, <1>7, SamePart, Facts
<1>12. Runs(k, p, child, stream[k][p], y)
  BY <1>6, <1>7, <1>10, <1>11 DEF Runs
<1>13. ASSUME Ran(k, p, r.planned, child, stream[k][p], y)
       PROVE  ChildOK(k, p)'
  <2>1. r.planned => old.settled = plan[k].projects[p]
    BY <1>2, <1>3 DEF ChildOK
  <2>2. r.planned => part'[k][p] = [inputs |-> inputs', rows |-> Rows(k, plan[k].projects[p])']
    BY <1>4, <1>13, <2>1 DEF Ran, Rows
  <2> QED BY <1>2, <1>3, <1>9, <1>13, <2>2 DEF ChildOK, Ran
<1>14. IsAt(k, p) /\ proc[k].planned = r.planned
  BY <1>2 DEF IsAt
<1> QED BY <1>1, <1>5, <1>9, <1>11, <1>12, <1>13, <1>14, ChildStep

\* A run goes on to its next project.
LEMMA WithoutChild ==
  ASSUME NEW r \in Procs, r.todo # <<>>
  PROVE  LET run == [r EXCEPT !.child = None, !.todo = Tail(@)]
         IN  /\ run \in Procs /\ run.child = None /\ run.count = r.count /\ run.planned = r.planned
             /\ Range(run.todo) \subseteq Range(r.todo)
             /\ \A p \in Range(r.todo) : p = Head(r.todo) \/ p \in Range(run.todo)
<1>1. PICK s \in Seq(Projects) : s = r.todo /\ s # <<>>
  BY DEF Procs
<1>2. Tail(s) \in Seq(Projects) /\ Range(Tail(s)) \subseteq Range(s)
  BY <1>1 DEF Range
<1>3. ASSUME NEW p \in Range(s), p # Head(s) PROVE p \in Range(Tail(s))
  <2>1. PICK i \in DOMAIN s : s[i] = p
    BY DEF Range
  <2>2. i # 1 /\ i \in 1 .. Len(s)
    BY <1>1, <1>3, <2>1
  <2>3. i - 1 \in DOMAIN Tail(s) /\ Tail(s)[i - 1] = s[i]
    BY <1>1, <2>2
  <2> QED BY <2>1, <2>3 DEF Range
<1> QED BY <1>1, <1>2, <1>3 DEF Procs

\* A child that has ended well lets its shard go on.
LEMMA ChildCompletesOK ==
  ASSUME IInv, NEW k \in Dirs, ChildCompletes(k)
  PROVE  IInv'
<1>1. proc[k] # None /\ proc[k].child # None /\ proc[k].child.stage = "reported"
  BY DEF ChildCompletes, At
<1>2. PICK r, p : r = proc[k] /\ p = Head(r.todo)
  OBVIOUS
<1>3. /\ r \in Procs /\ p \in Projects /\ r.todo # <<>> /\ ProcOK(k) /\ ChildOK(k, p)
      /\ r.child \in Children /\ r.child.writing \in BOOLEAN /\ stream[k][p] # None
  BY <1>1, <1>2, RunFacts DEF Children, ChildCompletes, ProcOK
<1>4. PICK run : run = [r EXCEPT !.child = None, !.todo = Tail(@)]
  OBVIOUS
<1>5. /\ run \in Procs /\ run.child = None /\ run.count = r.count /\ run.planned = r.planned
      /\ Range(run.todo) \subseteq Range(r.todo)
      /\ \A q \in Range(r.todo) : q = p \/ q \in Range(run.todo)
  BY <1>2, <1>3, <1>4, WithoutChild
<1>6. proc' = [proc EXCEPT ![k] = run]
  BY <1>1, <1>2, <1>3, <1>4, Facts DEF ChildCompletes, Procs
<1>7. proc' \in [Dirs -> Procs \cup {None}] /\ proc'[k] = run /\ \A l \in Dirs \ {k} : proc'[l] = proc[l]
  BY <1>5, <1>6, Facts, ProcSet
<1>8. UNCHANGED <<inputs, command, plan, completed, stream, part, cached, merged, plans, starts, lost>>
  BY DEF ChildCompletes
<1>9. r.planned => Done(k, p)
  <2>1. /\ r.child.settled = r.child.mutants /\ r.child.stage = "reported"
        /\ r.planned => r.child.mutants = plan[k].projects[p]
        /\ r.planned => part[k][p] = [inputs |-> inputs, rows |-> Rows(k, plan[k].projects[p])]
    BY <1>1, <1>2, <1>3 DEF ChildOK
  <2>2. stream[k][p].fresh => stream[k][p].ids = r.child.settled
    BY <1>2, <1>3, <2>1 DEF ChildOK
  <2> QED BY <1>3, <2>1, <2>2 DEF Done
<1>10. \A q : Done(k, q) => Done(k, q)'
  BY <1>8 DEF Done, Rows
<1>11. ProcOK(k)'
  BY <1>2, <1>3, <1>5, <1>7, <1>8, <1>9, <1>10 DEF ProcOK
<1>12. /\ lost' \in 0..MaxLost /\ stream' \in [Dirs -> [Projects -> Streams \cup {None}]]
       /\ part' \in [Dirs -> [Projects -> Parts \cup {None}]]
  BY <1>8, Facts, SamePart
<1> QED BY <1>1, <1>7, <1>8, <1>11, <1>12, ShardStep

\* The run of a shard comes to its end, or fails.
LEMMA EndsOK ==
  ASSUME IInv, NEW k \in Dirs, ShardFails(k) \/ ShardEnds(k)
  PROVE  IInv'
<1>1. /\ proc[k] # None /\ proc' = [proc EXCEPT ![k] = None]
      /\ UNCHANGED <<inputs, command, plan, stream, part, cached, merged, plans, starts, lost>>
  BY DEF ShardFails, ShardEnds
<1>2. proc' \in [Dirs -> Procs \cup {None}] /\ proc'[k] = None /\ \A l \in Dirs \ {k} : proc'[l] = proc[l]
  BY <1>1, Facts, ProcSet
<1>3. completed' = completed \/ (completed' = completed \cup {k} /\ proc[k].planned /\ proc[k].todo = <<>>)
  BY DEF ShardFails, ShardEnds
<1>4. proc[k].planned /\ proc[k].todo = <<>> =>
        k \in DOMAIN plan /\ \A p \in DOMAIN plan[k].projects : Done(k, p)
  <2>1. ProcOK(k) /\ Range(<<>>) = {}
    BY <1>1, Facts DEF Range
  <2> QED BY <2>1 DEF ProcOK
<1>5. \A q : Done(k, q) => Done(k, q)'
  BY <1>1 DEF Done, Rows
<1>6. /\ lost' \in 0..MaxLost /\ stream' \in [Dirs -> [Projects -> Streams \cup {None}]]
      /\ part' \in [Dirs -> [Projects -> Parts \cup {None}]]
  BY <1>1, Facts, SamePart
<1>7. \/ completed' = completed
      \/ /\ completed' = completed \cup {k} /\ proc'[k] = None /\ k \in DOMAIN plan
         /\ \A p \in DOMAIN plan[k].projects : Done(k, p)'
  BY <1>2, <1>3, <1>4, <1>5
<1> QED BY <1>1, <1>2, <1>6, <1>7, ShardStep

-----------------------------------------------------------------------------
(* Orders.                                                                  *)

\* Each element has, before it, as many as its place says.
TotalOrder(S, before) ==
  /\ before \in [S -> SUBSET S]
  /\ \A x \in S : x \notin before[x]
  /\ \A x, y \in S : x # y => x \in before[y] \/ y \in before[x]
  /\ \A x, y \in S : x \in before[y] => before[x] \subseteq before[y]

\* In a total order the number of those before tells all apart.
LEMMA Ranks ==
  ASSUME NEW S, IsFiniteSet(S), NEW before, TotalOrder(S, before)
  PROVE  LET rank == [x \in S |-> Cardinality(before[x]) + 1]
         IN  /\ Cardinality(S) \in Nat /\ rank \in Injection(S, 1 .. Cardinality(S))
             /\ rank \in Surjection(S, 1 .. Cardinality(S))
<1>1. Cardinality(S) \in Nat
  BY FS_CardinalityType
<1>2. \A x \in S : IsFiniteSet(before[x]) /\ Cardinality(before[x]) \in Nat
  BY FS_CardinalityType, FS_Subset DEF TotalOrder
<1>3. ASSUME NEW x \in S PROVE Cardinality(before[x]) < Cardinality(S)
  <2>1. before[x] \in SUBSET S /\ before[x] # S
    BY DEF TotalOrder
  <2> QED BY <1>1, <1>2, <2>1, FS_Subset
<1>4. ASSUME NEW x \in S, NEW y \in S, x \in before[y]
      PROVE  Cardinality(before[x]) < Cardinality(before[y])
  <2>1. before[x] \in SUBSET before[y] /\ before[x] # before[y]
    BY <1>4 DEF TotalOrder
  <2> QED BY <1>2, <2>1, FS_Subset
<1> DEFINE rank == [x \in S |-> Cardinality(before[x]) + 1]
<1>5. rank \in [S -> 1 .. Cardinality(S)]
  BY <1>1, <1>2, <1>3
<1>6. ASSUME NEW x \in S, NEW y \in S, x # y PROVE rank[x] # rank[y]
  <2>1. x \in before[y] \/ y \in before[x]
    BY <1>6 DEF TotalOrder
  <2> QED BY <1>2, <1>4, <2>1
<1> HIDE DEF rank
<1>7. rank \in Injection(S, 1 .. Cardinality(S))
  BY <1>5, <1>6 DEF Injection, IsInjective
<1>8. IsFiniteSet(1 .. Cardinality(S)) /\ Cardinality(1 .. Cardinality(S)) = Cardinality(S)
  BY <1>1, FS_Interval
<1>9. rank \in Surjection(S, 1 .. Cardinality(S))
  BY <1>7, <1>8, FS_Injection
<1> QED BY <1>1, <1>7, <1>9 DEF rank

\* Ordered lists every element of the set once.
LEMMA OrderedOK ==
  ASSUME NEW S, IsFiniteSet(S), NEW before, TotalOrder(S, before)
  PROVE  /\ Cardinality(S) \in Nat
         /\ Ordered(before) \in [1 .. Cardinality(S) -> S]
         /\ \A i, j \in 1 .. Cardinality(S) : i # j => Ordered(before)[i] # Ordered(before)[j]
         /\ \A x \in S : \E i \in 1 .. Cardinality(S) : Ordered(before)[i] = x
         /\ Ordered(before) \in Seq(S) /\ Len(Ordered(before)) = Cardinality(S)
         /\ Range(Ordered(before)) = S
<1> DEFINE n == Cardinality(S)
           rank == [x \in S |-> Cardinality(before[x]) + 1]
           Nth(i) == CHOOSE x \in S : Cardinality(before[x]) = i - 1
<1>1. n \in Nat /\ rank \in Injection(S, 1 .. n) /\ rank \in Surjection(S, 1 .. n)
  BY Ranks
<1>2. \A x \in S : rank[x] \in 1 .. n /\ rank[x] = Cardinality(before[x]) + 1 /\ Cardinality(before[x]) \in Nat
  <2>1. \A x \in S : rank[x] \in 1 .. n
    BY <1>1 DEF Injection
  <2>2. \A x \in S : Cardinality(before[x]) \in Nat
    BY FS_CardinalityType, FS_Subset DEF TotalOrder
  <2> QED BY <2>1, <2>2
<1>3. \A x, y \in S : x # y => rank[x] # rank[y]
  BY <1>1 DEF Injection, IsInjective
<1>4. ASSUME NEW i \in 1 .. n PROVE Nth(i) \in S /\ rank[Nth(i)] = i
  <2>1. \E x \in S : rank[x] = i
    BY <1>1 DEF Surjection
  <2>2. \E x \in S : Cardinality(before[x]) = i - 1
    BY <1>2, <2>1
  <2>3. Nth(i) \in S /\ Cardinality(before[Nth(i)]) = i - 1
    BY <2>2
  <2> HIDE DEF Nth
  <2>4. rank[Nth(i)] = (i - 1) + 1
    BY <2>3
  <2> QED BY <1>1, <2>3, <2>4
<1>5. Ordered(before) = [i \in 1 .. n |-> Nth(i)]
  BY DEF Ordered, TotalOrder
<1> HIDE DEF n, Nth, rank
<1>6. Ordered(before) \in [1 .. n -> S] /\ \A i \in 1 .. n : rank[Ordered(before)[i]] = i
  BY <1>4, <1>5
<1>7. \A i, j \in 1 .. n : i # j => Ordered(before)[i] # Ordered(before)[j]
  BY <1>6
<1>8. ASSUME NEW x \in S PROVE \E i \in 1 .. n : Ordered(before)[i] = x
  <2>1. rank[x] \in 1 .. n /\ Ordered(before)[rank[x]] \in S
    BY <1>2, <1>6
  <2>2. rank[Ordered(before)[rank[x]]] = rank[x]
    BY <1>6, <2>1
  <2> QED BY <1>3, <2>1, <2>2
<1>9. Ordered(before) \in Seq(S) /\ Len(Ordered(before)) = n
  BY <1>1, <1>6
<1>10. Range(Ordered(before)) = S
  BY <1>6, <1>8 DEF Range
<1> QED BY <1>1, <1>6, <1>7, <1>8, <1>9, <1>10 DEF n

\* Numbers in their order.
LEMMA InNumberOrderOK ==
  ASSUME NEW numbers \in SUBSET Nat, IsFiniteSet(numbers)
  PROVE  LET s == InNumberOrder(numbers)
         IN  /\ s \in Seq(numbers) /\ Range(s) = numbers /\ Len(s) = Cardinality(numbers)
             /\ DOMAIN s = 1 .. Len(s) /\ Len(s) \in Nat
             /\ \A x \in numbers : \E i \in DOMAIN s : s[i] = x
             /\ \A i, j \in DOMAIN s : i # j => s[i] # s[j]
<1> DEFINE before == [p \in numbers |-> {q \in numbers : q < p}]
<1>1. \A p \in numbers : p \in Nat /\ before[p] = {q \in numbers : q < p}
  OBVIOUS
<1>2. before \in [numbers -> SUBSET numbers]
  OBVIOUS
<1> HIDE DEF before
<1>3. \A p, q \in numbers : q \in before[p] <=> q < p
  BY <1>1
<1>4. \A p \in numbers : p \notin before[p]
  BY <1>1, <1>3
<1>5. \A p, q \in numbers : p # q => p \in before[q] \/ q \in before[p]
  BY <1>1, <1>3
<1>6. \A p, q \in numbers : p \in before[q] => before[p] \subseteq before[q]
  <2> SUFFICES ASSUME NEW p \in numbers, NEW q \in numbers, p \in before[q], NEW x \in before[p]
               PROVE  x \in before[q]
    OBVIOUS
  <2>1. x \in numbers /\ x < p /\ p < q /\ x \in Nat /\ p \in Nat /\ q \in Nat
    BY <1>1
  <2> QED BY <1>3, <2>1
<1>7. TotalOrder(numbers, before)
  BY <1>2, <1>4, <1>5, <1>6 DEF TotalOrder
<1>8. InNumberOrder(numbers) = Ordered(before)
  BY DEF InNumberOrder, before
<1> DEFINE s == Ordered(before)
<1>9. /\ Cardinality(numbers) \in Nat /\ s \in Seq(numbers) /\ Range(s) = numbers
      /\ Len(s) = Cardinality(numbers)
      /\ \A i, j \in 1 .. Cardinality(numbers) : i # j => s[i] # s[j]
      /\ \A x \in numbers : \E i \in 1 .. Cardinality(numbers) : s[i] = x
  BY <1>7, OrderedOK
<1> HIDE DEF s
<1>10. DOMAIN s = 1 .. Len(s)
  BY <1>9
<1>11. s = InNumberOrder(numbers)
  BY <1>8 DEF s
<1> QED BY <1>9, <1>10, <1>11

-----------------------------------------------------------------------------
(* Sums.                                                                    *)

\* A set of numbers that is not empty has a least element.
LEMMA LeastNumber ==
  ASSUME NEW S \in SUBSET Nat, S # {}
  PROVE  \E i \in S : \A j \in S : i <= j
<1>1. PICK i \in S : \A j \in S : <<j, i>> \notin OpToRel(<, Nat)
  BY NatLessThanWellFounded, WFMin
<1>2. \A j \in S : ~(j < i)
  BY <1>1 DEF OpToRel
<1> QED BY <1>2

\* An element and the others.
LEMMA OneLess ==
  ASSUME NEW s, IsFiniteSet(s), s # {}
  PROVE  /\ (CHOOSE x \in s : TRUE) \in s
         /\ Cardinality(s) \in Nat \ {0} /\ IsFiniteSet(s \ {CHOOSE x \in s : TRUE})
         /\ Cardinality(s \ {CHOOSE x \in s : TRUE}) = Cardinality(s) - 1
<1>1. PICK x : x = CHOOSE y \in s : TRUE
  OBVIOUS
<1>2. x \in s
  BY <1>1
<1> QED BY <1>1, <1>2, FS_RemoveElement, FS_CardinalityType, FS_EmptySet

UpTo(S, n) == {s \in SUBSET S : Cardinality(s) <= n}

\* g sums the values of f over the sets of up to n elements.
SumsUpTo(f, n, g) ==
  g = [s \in UpTo(DOMAIN f, n) |->
         IF s = {} THEN 0
         ELSE f[CHOOSE x \in s : TRUE] + g[s \ {CHOOSE x \in s : TRUE}]]

\* There is a function of partial sums up to every number.
LEMMA SumsExist ==
  ASSUME NEW f, IsFiniteSet(DOMAIN f)
  PROVE  \A n \in Nat : \E g : SumsUpTo(f, n, g)
<1> DEFINE Without == {n \in Nat : ~\E g : SumsUpTo(f, n, g)}
           First(s) == CHOOSE x \in s : TRUE
           S == DOMAIN f
<1>1. \A s \in SUBSET S : s # {} => First(s) \in s /\ IsFiniteSet(s) /\ Cardinality(s) \in Nat \ {0}
        /\ Cardinality(s \ {First(s)}) = Cardinality(s) - 1
  BY FS_Subset, OneLess
<1>2. SUFFICES ASSUME Without # {} PROVE FALSE
  OBVIOUS
<1>3. PICK n \in Without : \A m \in Without : n <= m
  BY <1>2, LeastNumber
<1> HIDE DEF First
<1>4. n # 0
  <2>1. ASSUME NEW s \in UpTo(S, 0), s # {} PROVE FALSE
    <3>1. s \in SUBSET S /\ Cardinality(s) <= 0
      BY DEF UpTo
    <3>2. Cardinality(s) \in Nat \ {0}
      BY <1>1, <2>1, <3>1
    <3> QED BY <3>1, <3>2
  <2>2. SumsUpTo(f, 0, [s \in UpTo(S, 0) |-> 0])
    BY <2>1 DEF SumsUpTo
  <2> QED BY <1>3, <2>2
<1>5. n - 1 \in Nat /\ ~(n <= n - 1)
  BY <1>4
<1>6. PICK g : SumsUpTo(f, n - 1, g)
  BY <1>3, <1>5
<1> DEFINE h == [s \in UpTo(S, n) |-> IF s = {} THEN 0 ELSE f[First(s)] + g[s \ {First(s)}]]
<1>7. \A s \in UpTo(S, n - 1) : s \in UpTo(S, n) /\ h[s] = g[s]
  <2>1. \A s \in UpTo(S, n - 1) : s \in UpTo(S, n)
    <3> SUFFICES ASSUME NEW s \in UpTo(S, n - 1) PROVE s \in UpTo(S, n)
      OBVIOUS
    <3>1. Cardinality(s) \in Nat /\ Cardinality(s) <= n - 1 /\ s \in SUBSET S
      BY FS_Subset, FS_CardinalityType DEF UpTo
    <3> QED BY <1>5, <3>1 DEF UpTo
  <2>2. \A s \in UpTo(S, n - 1) :
          g[s] = IF s = {} THEN 0 ELSE f[First(s)] + g[s \ {First(s)}]
    BY <1>6 DEF SumsUpTo, First
  <2> QED BY <2>1, <2>2
<1>8. \A s \in UpTo(S, n) : s # {} => s \ {First(s)} \in UpTo(S, n - 1)
  BY <1>1, <1>5 DEF UpTo
<1>9. \A s \in UpTo(S, n) : s # {} => h[s \ {First(s)}] = g[s \ {First(s)}]
  BY <1>7, <1>8
<1>10. SumsUpTo(f, n, h)
  <2>1. h = [s \in UpTo(S, n) |-> IF s = {} THEN 0 ELSE f[First(s)] + h[s \ {First(s)}]]
    BY <1>9
  <2> QED BY <2>1 DEF SumsUpTo, First
<1> QED BY <1>3, <1>10

SumsAll(f, g) ==
  g = [s \in SUBSET DOMAIN f |->
         IF s = {} THEN 0
         ELSE f[CHOOSE x \in s : TRUE] + g[s \ {CHOOSE x \in s : TRUE}]]

\* A sum is the last of its partial sums.
LEMMA SumIs ==
  ASSUME NEW S, IsFiniteSet(S), NEW f, DOMAIN f = S
  PROVE  \E g : SumsAll(f, g) /\ SumFunction(f) = g[S]
<1> DEFINE g == CHOOSE h : SumsAll(f, h)
<1>1. SumFunction(f) = g[S]
  BY DEF SumFunction, SumFunctionOnSet, FoldFunctionOnSet, MapThenFoldSet, SumsAll
<1>2. SumsAll(f, g)
  <2>1. Cardinality(S) \in Nat
    BY FS_CardinalityType
  <2>2. UpTo(S, Cardinality(S)) = SUBSET S
    BY FS_Subset DEF UpTo
  <2>3. PICK h : SumsUpTo(f, Cardinality(S), h)
    BY <2>1, SumsExist
  <2>4. SumsAll(f, h)
    BY <2>1, <2>2, <2>3 DEF SumsUpTo, SumsAll
  <2> QED BY <2>4
<1> QED BY <1>1, <1>2

\* The sum over a part is a partial sum of the whole.
LEMMA SumOfPart ==
  ASSUME NEW S, IsFiniteSet(S), NEW f, DOMAIN f = S, NEW g, SumsAll(f, g)
  PROVE  \A A \in SUBSET S : SumFunction(Restrict(f, A)) = g[A]
<1> DEFINE First(s) == CHOOSE x \in s : TRUE
<1>1. \A s \in SUBSET S : g[s] = IF s = {} THEN 0 ELSE f[First(s)] + g[s \ {First(s)}]
  BY DEF SumsAll
<1>2. \A s \in SUBSET S : s # {} => First(s) \in s /\ IsFiniteSet(s) /\ Cardinality(s) \in Nat \ {0}
        /\ Cardinality(s \ {First(s)}) = Cardinality(s) - 1
  BY FS_Subset, OneLess
<1> SUFFICES ASSUME NEW A \in SUBSET S PROVE SumFunction(Restrict(f, A)) = g[A]
  OBVIOUS
<1>3. IsFiniteSet(A)
  BY FS_Subset
<1>4. PICK e : e = Restrict(f, A)
  OBVIOUS
<1>5. DOMAIN e = A /\ \A x \in A : e[x] = f[x]
  BY <1>4 DEF Restrict
<1>6. PICK h : SumsAll(e, h) /\ SumFunction(e) = h[A]
  BY <1>3, <1>5, SumIs
<1>7. \A s \in SUBSET A : h[s] = IF s = {} THEN 0 ELSE e[First(s)] + h[s \ {First(s)}]
  BY <1>5, <1>6 DEF SumsAll
<1> DEFINE Wrong == {n \in Nat : \E s \in SUBSET A : Cardinality(s) = n /\ h[s] # g[s]}
<1> HIDE DEF First
<1>8. ASSUME Wrong # {} PROVE FALSE
  <2>1. PICK n \in Wrong : \A m \in Wrong : n <= m
    BY <1>8, LeastNumber
  <2>2. PICK s \in SUBSET A : Cardinality(s) = n /\ h[s] # g[s]
    BY <2>1
  <2>3. s \in SUBSET S
    OBVIOUS
  <2>4. s # {}
    <3>1. s = {} => h[s] = 0 /\ g[s] = 0
      BY <1>1, <1>7, <2>3
    <3> QED BY <2>2, <3>1
  <2>5. h[s] = e[First(s)] + h[s \ {First(s)}] /\ g[s] = f[First(s)] + g[s \ {First(s)}]
    BY <1>1, <1>7, <2>3, <2>4
  <2>6. First(s) \in A /\ n \in Nat \ {0} /\ Cardinality(s \ {First(s)}) = n - 1
    BY <1>2, <2>2, <2>3, <2>4
  <2>7. n - 1 \in Nat /\ n - 1 \notin Wrong /\ s \ {First(s)} \in SUBSET A
    BY <2>1, <2>6
  <2>8. h[s \ {First(s)}] = g[s \ {First(s)}]
    BY <2>6, <2>7
  <2> QED BY <1>5, <2>2, <2>5, <2>6, <2>8
<1>9. Cardinality(A) \in Nat
  BY <1>3, FS_CardinalityType
<1>10. h[A] = g[A]
  BY <1>8, <1>9
<1> QED BY <1>4, <1>6, <1>10

\* Any element may be added last.
LEMMA SumOfOthers ==
  ASSUME NEW S, IsFiniteSet(S), NEW f \in [S -> Nat], NEW g, SumsAll(f, g)
  PROVE  \A s \in SUBSET S : g[s] \in Nat /\ \A x \in s : g[s] = f[x] + g[s \ {x}]
<1> DEFINE First(s) == CHOOSE x \in s : TRUE
           Right(s) == g[s] \in Nat /\ \A x \in s : g[s] = f[x] + g[s \ {x}]
           Wrong == {n \in Nat : \E s \in SUBSET S : Cardinality(s) = n /\ ~Right(s)}
<1>1. \A s \in SUBSET S : g[s] = IF s = {} THEN 0 ELSE f[First(s)] + g[s \ {First(s)}]
  BY DEF SumsAll
<1>2. \A s \in SUBSET S : s # {} => First(s) \in s
  OBVIOUS
<1>3. \A s \in SUBSET S : IsFiniteSet(s) /\ Cardinality(s) \in Nat
        /\ \A x \in s : Cardinality(s) \in Nat \ {0} /\ Cardinality(s \ {x}) = Cardinality(s) - 1
  <2> SUFFICES ASSUME NEW s \in SUBSET S
               PROVE  IsFiniteSet(s) /\ Cardinality(s) \in Nat
                        /\ \A x \in s : Cardinality(s) \in Nat \ {0} /\ Cardinality(s \ {x}) = Cardinality(s) - 1
    OBVIOUS
  <2>1. IsFiniteSet(s) /\ Cardinality(s) \in Nat
    BY FS_Subset, FS_CardinalityType
  <2>2. ASSUME NEW x \in s PROVE Cardinality(s) \in Nat \ {0} /\ Cardinality(s \ {x}) = Cardinality(s) - 1
    BY <2>1, FS_RemoveElement, FS_EmptySet
  <2> QED BY <2>1, <2>2
<1> HIDE DEF First
<1>4. ASSUME Wrong # {} PROVE FALSE
  <2>1. PICK n \in Wrong : \A m \in Wrong : n <= m
    <3> HIDE DEF Right
    <3> QED BY <1>4, LeastNumber
  <2>2. PICK s \in SUBSET S : Cardinality(s) = n /\ ~Right(s)
    <3> HIDE DEF Right
    <3> QED BY <2>1
  <2>3. ASSUME NEW t \in SUBSET S, Cardinality(t) \in Nat, Cardinality(t) < n PROVE Right(t)
    <3> HIDE DEF Right
    <3>1. Cardinality(t) \notin Wrong
      BY <2>1, <2>3
    <3> QED BY <2>3, <3>1
  <2>4. s # {}
    BY <1>1, <2>2
  <2>5. PICK y : y = First(s)
    OBVIOUS
  <2>6. y \in s /\ g[s] = f[y] + g[s \ {y}]
    BY <1>1, <1>2, <2>4, <2>5
  <2>7. \A x \in s : Right(s \ {x})
    <3> SUFFICES ASSUME NEW x \in s PROVE Right(s \ {x})
      OBVIOUS
    <3>1. s \ {x} \in SUBSET S /\ Cardinality(s \ {x}) \in Nat /\ Cardinality(s \ {x}) < n
      BY <1>3, <2>2
    <3> HIDE DEF Right
    <3> QED BY <2>3, <3>1
  <2>8. \A x \in s : f[x] \in Nat /\ g[s \ {x}] \in Nat
    BY <2>7
  <2>9. ASSUME NEW x \in s, x # y PROVE g[s] = f[x] + g[s \ {x}]
    <3>1. g[s \ {y}] = f[x] + g[(s \ {y}) \ {x}] /\ g[s \ {x}] = f[y] + g[(s \ {x}) \ {y}]
      BY <2>6, <2>7, <2>9
    <3>2. (s \ {y}) \ {x} = (s \ {x}) \ {y} /\ s \ {x} \in SUBSET S
      OBVIOUS
    <3>3. g[(s \ {x}) \ {y}] \in Nat
      <4>1. (s \ {x}) \ {y} \in SUBSET S /\ Cardinality((s \ {x}) \ {y}) \in Nat
        BY <1>3
      <4>2. Cardinality((s \ {x}) \ {y}) < n
        <5>1. y \in s \ {x} /\ s \ {x} \in SUBSET S
          BY <2>6, <2>9
        <5>2. Cardinality((s \ {x}) \ {y}) = Cardinality(s \ {x}) - 1 /\ Cardinality(s \ {x}) \in Nat
          BY <1>3, <5>1
        <5>3. Cardinality(s \ {x}) = n - 1 /\ n \in Nat
          BY <1>3, <2>2
        <5> QED BY <5>2, <5>3
      <4> QED BY <2>3, <4>1, <4>2
    <3>4. PICK w, gx, gy, fx, fy :
            /\ w = g[(s \ {x}) \ {y}] /\ gx = g[s \ {x}] /\ gy = g[s \ {y}] /\ fx = f[x] /\ fy = f[y]
      OBVIOUS
    <3>5. w \in Nat /\ fx \in Nat /\ fy \in Nat
      BY <2>6, <2>8, <3>3, <3>4
    <3>6. gy = fx + w /\ gx = fy + w
      BY <3>1, <3>2, <3>4
    <3>7. fy + gy = fx + gx
      BY <3>5, <3>6
    <3>8. g[s] = fy + gy
      BY <2>6, <3>4
    <3> QED BY <3>4, <3>7, <3>8
  <2>10. \A x \in s : g[s] = f[x] + g[s \ {x}]
    <3> SUFFICES ASSUME NEW x \in s PROVE g[s] = f[x] + g[s \ {x}]
      OBVIOUS
    <3>1. CASE x = y
      BY <2>6, <3>1
    <3>2. CASE x # y
      BY <2>9, <3>2
    <3> QED BY <3>1, <3>2
  <2>11. g[s] \in Nat
    <3>1. PICK fy, gy : fy = f[y] /\ gy = g[s \ {y}]
      OBVIOUS
    <3>2. fy \in Nat /\ gy \in Nat /\ g[s] = fy + gy
      BY <2>6, <2>8, <3>1
    <3> QED BY <3>2
  <2> QED BY <2>2, <2>10, <2>11
<1>5. ASSUME NEW s \in SUBSET S PROVE Right(s)
  <2> HIDE DEF Right
  <2> QED BY <1>3, <1>4
<1> QED BY <1>5

\* The sum over two parts without a common element is that of the sums.
LEMMA SumOfBoth ==
  ASSUME NEW S, IsFiniteSet(S), NEW f \in [S -> Nat],
         NEW A \in SUBSET S, NEW B \in SUBSET S, A \cap B = {}
  PROVE  /\ SumFunction(Restrict(f, A \cup B)) = SumFunction(Restrict(f, A)) + SumFunction(Restrict(f, B))
         /\ SumFunction(Restrict(f, A)) \in Nat /\ SumFunction(Restrict(f, B)) \in Nat
<1>1. PICK g : SumsAll(f, g)
  BY SumIs
<1>2. \A s \in SUBSET S : SumFunction(Restrict(f, s)) = g[s]
  BY <1>1, SumOfPart
<1>3. \A s \in SUBSET S : g[s] \in Nat /\ \A x \in s : g[s] = f[x] + g[s \ {x}]
  BY <1>1, SumOfOthers
<1> DEFINE Wrong == {n \in Nat : \E s \in SUBSET B : Cardinality(s) = n /\ g[A \cup s] # g[A] + g[s]}
<1>4. ASSUME Wrong # {} PROVE FALSE
  <2>1. PICK n \in Wrong : \A m \in Wrong : n <= m
    BY <1>4, LeastNumber
  <2>2. PICK s \in SUBSET B : Cardinality(s) = n /\ g[A \cup s] # g[A] + g[s]
    BY <2>1
  <2>3. g[{}] = 0
    BY <1>1 DEF SumsAll
  <2>4. s # {}
    <3> SUFFICES ASSUME s = {} PROVE FALSE
      OBVIOUS
    <3>1. PICK t : t = A \cup s
      OBVIOUS
    <3>2. t = A
      BY <3>1
    <3>3. PICK a : a = g[A]
      OBVIOUS
    <3>4. a \in Nat
      BY <1>3, <3>3
    <3>5. g[A \cup s] = a /\ g[s] = 0
      BY <2>3, <3>1, <3>2, <3>3
    <3> QED BY <2>2, <3>3, <3>4, <3>5
  <2>5. PICK x : x \in s
    BY <2>4
  <2>6. Cardinality(s \ {x}) = n - 1 /\ n \in Nat \ {0}
    <3>1. IsFiniteSet(s)
      BY FS_Subset
    <3> QED BY <2>2, <2>5, <3>1, FS_RemoveElement, FS_EmptySet, FS_CardinalityType
  <2>7. n - 1 \in Nat /\ n - 1 \notin Wrong /\ s \ {x} \in SUBSET B
    <3>1. n - 1 \in Nat /\ ~(n <= n - 1)
      BY <2>6
    <3> HIDE DEF Wrong
    <3> QED BY <2>1, <3>1
  <2>8. g[A \cup (s \ {x})] = g[A] + g[s \ {x}]
    <3>1. PICK t : t = s \ {x}
      OBVIOUS
    <3>2. t \in SUBSET B /\ Cardinality(t) \in Nat /\ Cardinality(t) \notin Wrong
      BY <2>6, <2>7, <3>1
    <3>3. g[A \cup t] = g[A] + g[t]
      BY <3>2
    <3> QED BY <3>1, <3>3
  <2>9. (A \cup s) \ {x} = A \cup (s \ {x}) /\ x \in A \cup s /\ A \cup s \in SUBSET S /\ s \in SUBSET S
    BY <2>5
  <2>10. g[A \cup s] = f[x] + g[A \cup (s \ {x})] /\ g[s] = f[x] + g[s \ {x}]
    <3>1. g[A \cup s] = f[x] + g[(A \cup s) \ {x}]
      BY <1>3, <2>9
    <3> QED BY <1>3, <2>5, <2>9, <3>1
  <2>11. f[x] \in Nat /\ g[A] \in Nat /\ g[s \ {x}] \in Nat
    BY <1>3, <2>5
  <2> QED BY <2>2, <2>8, <2>10, <2>11
<1>5. Cardinality(B) \in Nat
  BY FS_Subset, FS_CardinalityType
<1>6. g[A \cup B] = g[A] + g[B]
  BY <1>4, <1>5
<1>7. A \cup B \in SUBSET S
  OBVIOUS
<1> QED BY <1>2, <1>3, <1>6, <1>7

\* A sum of numbers is a number.
LEMMA SumOK ==
  ASSUME NEW S, IsFiniteSet(S), NEW f \in [S -> Nat]
  PROVE  SumFunction(f) \in Nat
<1>1. PICK g : SumsAll(f, g) /\ SumFunction(f) = g[S]
  BY SumIs
<1>2. \A s \in SUBSET S : g[s] \in Nat
  BY <1>1, SumOfOthers
<1> QED BY <1>1, <1>2

\* The sum over nothing, and over one element.
LEMMA SumOfOne ==
  ASSUME NEW S, IsFiniteSet(S), NEW f \in [S -> Nat]
  PROVE  /\ SumFunction(Restrict(f, {})) = 0
         /\ \A x \in S : SumFunction(Restrict(f, {x})) = f[x]
<1>1. PICK g : SumsAll(f, g)
  BY SumIs
<1>2. \A s \in SUBSET S : SumFunction(Restrict(f, s)) = g[s]
  BY <1>1, SumOfPart
<1>3. g[{}] = 0
  BY <1>1 DEF SumsAll
<1>4. ASSUME NEW x \in S PROVE g[{x}] = f[x]
  <2>1. g[{x}] = f[x] + g[{x} \ {x}]
    <3>1. PICK s \in SUBSET S : s = {x}
      OBVIOUS
    <3>2. g[s] = f[x] + g[s \ {x}]
      BY <1>1, <3>1, SumOfOthers
    <3> QED BY <3>1, <3>2
  <2>2. {x} \ {x} = {}
    OBVIOUS
  <2>3. f[x] \in Nat
    OBVIOUS
  <2> QED BY <1>3, <2>1, <2>2, <2>3
<1> QED BY <1>2, <1>3, <1>4

\* The mutants of a command cost a number of seconds.
LEMMA CostOK ==
  ASSUME NEW mutants \in SUBSET Mutants, IsFiniteSet(mutants)
  PROVE  Cost(mutants) \in Nat
<1> DEFINE f == [m \in mutants |-> m.cost]
<1>1. f \in [mutants -> Nat]
  BY DEF Mutants
<1> HIDE DEF f
<1>2. SumFunction(f) \in Nat
  BY <1>1, SumOK
<1> QED BY <1>2 DEF Cost, f

-----------------------------------------------------------------------------
(* The number of shards.                                                    *)

\* The image of a finite set is finite.
LEMMA ImageFinite ==
  ASSUME NEW S, IsFiniteSet(S), NEW f, DOMAIN f = S
  PROVE  IsFiniteSet({f[x] : x \in S})
<1>1. PICK g : g = [x \in S |-> f[x]]
  OBVIOUS
<1>2. g \in Surjection(S, {f[x] : x \in S})
  BY <1>1 DEF Surjection
<1> QED BY <1>2, FS_Surjection

\* What an accepted command gives.
LEMMA CommandFacts ==
  ASSUME NEW c, CommandOK(c)
  PROVE  /\ c.target \in Nat \ {0} /\ c.max \in Nat
         /\ IsFiniteSet(c.mutants) /\ c.mutants \in SUBSET Mutants
         /\ \A S \in SUBSET c.mutants : IsFiniteSet(S) /\ Cost(S) \in Nat
         /\ \A m \in c.mutants : m \in Mutants /\ m.project \in Nat /\ m.project \in DOMAIN c.dry
              /\ c.dry[m.project] \in Nat /\ m.id \in Nat /\ m.dominators \in Seq(Nat) /\ m.cost \in Nat
         /\ \A S \in SUBSET c.mutants : IsFiniteSet({m.project : m \in S}) /\ {m.project : m \in S} \in SUBSET Nat
<1>1. /\ c.target \in Nat \ {0} /\ c.max \in Nat /\ IsFiniteSet(c.mutants) /\ c.mutants \in SUBSET Mutants
      /\ \A m \in c.mutants : m.project \in DOMAIN c.dry /\ c.dry[m.project] \in Nat
  BY DEF CommandOK
<1>2. \A m \in c.mutants :
        m \in Mutants /\ m.project \in Nat /\ m.id \in Nat /\ m.dominators \in Seq(Nat) /\ m.cost \in Nat
  BY <1>1 DEF Mutants
<1>3. ASSUME NEW S \in SUBSET c.mutants
      PROVE  /\ IsFiniteSet(S) /\ Cost(S) \in Nat
             /\ IsFiniteSet({m.project : m \in S}) /\ {m.project : m \in S} \in SUBSET Nat
  <2>1. IsFiniteSet(S) /\ S \in SUBSET Mutants
    BY <1>1, FS_Subset
  <2>2. PICK f : f = [m \in S |-> m.project]
    OBVIOUS
  <2>3. IsFiniteSet({f[m] : m \in S})
    BY <2>1, <2>2, ImageFinite
  <2>4. {f[m] : m \in S} = {m.project : m \in S}
    BY <2>2
  <2> QED BY <1>2, <2>1, <2>3, <2>4, CostOK
<1> QED BY <1>1, <1>2, <1>3

\* Mutants that are put together cost what they cost apart.
LEMMA CostOfBoth ==
  ASSUME NEW c, CommandOK(c), NEW A \in SUBSET c.mutants, NEW B \in SUBSET c.mutants, A \cap B = {}
  PROVE  Cost(A \cup B) = Cost(A) + Cost(B)
<1>1. PICK S, f : S = c.mutants /\ f = [m \in S |-> m.cost]
  OBVIOUS
<1>2. IsFiniteSet(S) /\ f \in [S -> Nat]
  BY <1>1, CommandFacts
<1>3. \A s \in SUBSET S : Restrict(f, s) = [m \in s |-> m.cost]
  BY <1>1 DEF Restrict
<1>4. \A s \in SUBSET S : Cost(s) = SumFunction(Restrict(f, s))
  BY <1>3 DEF Cost
<1>5. A \in SUBSET S /\ B \in SUBSET S /\ A \cup B \in SUBSET S
  BY <1>1
<1>6. SumFunction(Restrict(f, A \cup B)) = SumFunction(Restrict(f, A)) + SumFunction(Restrict(f, B))
  BY <1>2, <1>5, SumOfBoth
<1> QED BY <1>4, <1>5, <1>6

\* No mutant costs nothing.
LEMMA CostOfNone == Cost({}) = 0
<1>1. PICK S, f : S = {} /\ f = [m \in S |-> m.cost]
  OBVIOUS
<1>2. IsFiniteSet(S) /\ f \in [S -> Nat] /\ Restrict(f, {}) = f
  BY <1>1, FS_EmptySet DEF Restrict
<1>3. SumFunction(f) = 0
  BY <1>2, SumOfOne
<1> QED BY <1>1, <1>3 DEF Cost

\* A division rounded up is a number.
LEMMA CeilDivOK ==
  ASSUME NEW a \in Nat, NEW b \in Nat \ {0}
  PROVE  CeilDiv(a, b) \in Nat
BY DEF CeilDiv

\* The larger and the smaller of two numbers.
LEMMA LargerSmaller ==
  ASSUME NEW a \in Nat, NEW b \in Nat
  PROVE  /\ Larger(a, b) \in Nat /\ Larger(a, b) >= a /\ Larger(a, b) >= b
         /\ Smaller(a, b) \in {a, b} /\ Smaller(a, b) <= a /\ Smaller(a, b) <= b
BY DEF Larger, Smaller

\* A project that fits needs a shard at least.
LEMMA BinsNeededOK ==
  ASSUME NEW c, CommandOK(c), NEW p \in DependentProjects(c), Fits(c, p)
  PROVE  BinsNeeded(c, p) \in Nat \ {0}
<1>1. p \in DOMAIN c.dry /\ c.dry[p] \in Nat /\ c.target \in Nat /\ c.dry[p] < c.target
  BY CommandFacts DEF DependentProjects, Fits
<1>2. DependentOf(c, p) \in SUBSET c.mutants
  BY DEF DependentOf
<1>3. Cost(DependentOf(c, p)) \in Nat /\ c.target - c.dry[p] \in Nat \ {0}
  BY <1>1, <1>2, CommandFacts
<1>4. CeilDiv(Cost(DependentOf(c, p)), c.target - c.dry[p]) \in Nat
  BY <1>3, CeilDivOK
<1>5. PICK x \in Nat : x = CeilDiv(Cost(DependentOf(c, p)), c.target - c.dry[p])
  BY <1>4
<1>6. BinsNeeded(c, p) = Larger(1, x)
  BY <1>5 DEF BinsNeeded
<1>7. Larger(1, x) \in Nat \ {0}
  BY DEF Larger
<1> QED BY <1>6, <1>7

\* The projects with a dry run are finitely many.
LEMMA DependentProjectsOK ==
  ASSUME NEW c, CommandOK(c)
  PROVE  /\ DependentProjects(c) \in SUBSET Nat /\ IsFiniteSet(DependentProjects(c))
         /\ \A p \in DependentProjects(c) : c.dry[p] \in Nat
<1>1. {m \in c.mutants : m.dep} \in SUBSET c.mutants
  OBVIOUS
<1> QED BY <1>1, CommandFacts DEF DependentProjects

DryRuns(c, projects) == SumFunction([p \in projects |-> c.dry[p]])

\* What the dry runs of some projects take.
LEMMA DryRunsOK ==
  ASSUME NEW c, CommandOK(c), NEW A \in SUBSET DependentProjects(c), NEW B \in SUBSET DependentProjects(c)
  PROVE  /\ DryRuns(c, A) \in Nat /\ DryRuns(c, B) \in Nat
         /\ A \cap B = {} => DryRuns(c, A \cup B) = DryRuns(c, A) + DryRuns(c, B)
         /\ A \subseteq B => DryRuns(c, A) <= DryRuns(c, B)
         /\ DryRuns(c, {}) = 0
         /\ \A p \in DependentProjects(c) : DryRuns(c, {p}) = c.dry[p]
<1>1. PICK S, f : S = DependentProjects(c) /\ f = [p \in S |-> c.dry[p]]
  OBVIOUS
<1>2. IsFiniteSet(S) /\ f \in [S -> Nat]
  BY <1>1, DependentProjectsOK
<1>3. \A s \in SUBSET S : Restrict(f, s) = [p \in s |-> c.dry[p]]
  BY <1>1 DEF Restrict
<1>4. \A s \in SUBSET S : DryRuns(c, s) = SumFunction(Restrict(f, s))
  BY <1>3 DEF DryRuns
<1>5. A \in SUBSET S /\ B \in SUBSET S /\ A \cup B \in SUBSET S /\ B \ A \in SUBSET S
  BY <1>1
<1>6. DryRuns(c, A) \in Nat /\ DryRuns(c, B) \in Nat /\ DryRuns(c, B \ A) \in Nat
  <2>1. \A s \in SUBSET S : IsFiniteSet(s) /\ Restrict(f, s) \in [s -> Nat]
    BY <1>2, FS_Subset DEF Restrict
  <2>2. \A s \in SUBSET S : SumFunction(Restrict(f, s)) \in Nat
    BY <2>1, SumOK
  <2> QED BY <1>4, <1>5, <2>2
<1>7. A \cap B = {} => DryRuns(c, A \cup B) = DryRuns(c, A) + DryRuns(c, B)
  <2> SUFFICES ASSUME A \cap B = {} PROVE DryRuns(c, A \cup B) = DryRuns(c, A) + DryRuns(c, B)
    OBVIOUS
  <2>1. SumFunction(Restrict(f, A \cup B)) = SumFunction(Restrict(f, A)) + SumFunction(Restrict(f, B))
    BY <1>2, <1>5, SumOfBoth
  <2> QED BY <1>4, <1>5, <2>1
<1>8. A \subseteq B => DryRuns(c, A) <= DryRuns(c, B)
  <2> SUFFICES ASSUME A \subseteq B PROVE DryRuns(c, A) <= DryRuns(c, B)
    OBVIOUS
  <2>1. PICK C : C = B \ A
    OBVIOUS
  <2>2. A \cup C = B /\ A \cap C = {} /\ C \in SUBSET S
    BY <1>5, <2>1
  <2>3. SumFunction(Restrict(f, A \cup C)) = SumFunction(Restrict(f, A)) + SumFunction(Restrict(f, C))
    BY <1>2, <1>5, <2>2, SumOfBoth
  <2>4. DryRuns(c, B) = DryRuns(c, A) + DryRuns(c, C)
    BY <1>4, <1>5, <2>2, <2>3
  <2> QED BY <1>6, <2>1, <2>4
<1>9. /\ SumFunction(Restrict(f, {})) = 0
      /\ \A p \in S : SumFunction(Restrict(f, {p})) = f[p]
  BY <1>2, SumOfOne
<1>10. DryRuns(c, {}) = 0 /\ \A p \in S : DryRuns(c, {p}) = c.dry[p]
  BY <1>1, <1>4, <1>9
<1> QED BY <1>1, <1>6, <1>7, <1>8, <1>10

\* The planned load is a number.
LEMMA PlannedLoadOK ==
  ASSUME NEW c, CommandOK(c)
  PROVE  PlannedLoad(c) \in Nat
<1> DEFINE S == {q \in DependentProjects(c) : Fits(c, q)}
           f == [p \in S |-> BinsNeeded(c, p) * c.dry[p]]
<1>1. IsFiniteSet(S)
  BY DependentProjectsOK, FS_Subset
<1>2. ASSUME NEW p \in S PROVE BinsNeeded(c, p) * c.dry[p] \in Nat
  <2>1. BinsNeeded(c, p) \in Nat /\ c.dry[p] \in Nat
    BY BinsNeededOK, DependentProjectsOK
  <2> QED BY <2>1
<1>3. f \in [S -> Nat]
  BY <1>2
<1> HIDE DEF S, f
<1>4. SumFunction(f) \in Nat /\ Cost(c.mutants) \in Nat
  BY <1>1, <1>3, SumOK, CommandFacts
<1> QED BY <1>4 DEF PlannedLoad, S, f

\* There is a shard, and no more of them than the command allows.
LEMMA ShardCountOK ==
  ASSUME NEW c, CommandOK(c)
  PROVE  ShardCount(c) \in Nat \ {0} /\ (c.max > 0 => ShardCount(c) <= c.max)
<1> DEFINE needed == Larger(1, CeilDiv(PlannedLoad(c), c.target))
           capped == IF c.max = 0 THEN needed ELSE Larger(1, Smaller(c.max, needed))
           all == Larger(Cardinality(c.mutants), 1)
<1>1. c.target \in Nat \ {0} /\ c.max \in Nat /\ Cardinality(c.mutants) \in Nat /\ PlannedLoad(c) \in Nat
  BY CommandFacts, FS_CardinalityType, PlannedLoadOK
<1>2. CeilDiv(PlannedLoad(c), c.target) \in Nat
  BY <1>1, CeilDivOK
<1>3. needed \in Nat /\ needed >= 1
  BY <1>2, LargerSmaller
<1> HIDE DEF needed
<1>4. capped \in Nat /\ capped >= 1 /\ (c.max > 0 => capped <= c.max)
  BY <1>1, <1>3 DEF Larger, Smaller
<1>5. all \in Nat /\ all >= 1
  BY <1>1, LargerSmaller
<1> HIDE DEF capped, all
<1>6. Smaller(capped, all) \in Nat \ {0} /\ Smaller(capped, all) <= capped
  BY <1>4, <1>5 DEF Smaller
<1>7. ShardCount(c) = Smaller(capped, all)
  BY DEF ShardCount, needed, capped, all
<1> QED BY <1>1, <1>4, <1>6, <1>7

-----------------------------------------------------------------------------
(* The bins.                                                                *)

Bins      == [mutants : SUBSET Mutants, load : Nat]
Places(N) == Seq(1 .. N) \ {<<>>}

\* The least loaded shards are shards, and as many as were asked for.
LEMMA LeastLoadedIndicesOK ==
  ASSUME NEW N \in Nat \ {0}, NEW bins \in [1 .. N -> Bins], NEW n \in 1 .. N
  PROVE  LeastLoadedIndices(bins, n) \in Places(N)
<1> DEFINE before(i, j) == \/ bins[i].load < bins[j].load
                           \/ bins[i].load = bins[j].load /\ i < j
           those == [j \in DOMAIN bins |-> {i \in DOMAIN bins : before(i, j)}]
<1>1. \A i \in 1 .. N : bins[i].load \in Nat /\ i \in Nat
  BY DEF Bins
<1>2. DOMAIN bins = 1 .. N
  OBVIOUS
<1>3. /\ \A i \in 1 .. N : ~before(i, i)
      /\ \A i, j \in 1 .. N : i # j => before(i, j) \/ before(j, i)
      /\ \A i, j, k \in 1 .. N : before(i, j) /\ before(j, k) => before(i, k)
  BY <1>1
<1> HIDE DEF before
<1>4. those \in [1 .. N -> SUBSET (1 .. N)] /\ \A i, j \in 1 .. N : i \in those[j] <=> before(i, j)
  BY <1>2
<1> HIDE DEF those
<1>5. TotalOrder(1 .. N, those)
  <2>1. \A i, j \in 1 .. N : i \in those[j] => those[i] \subseteq those[j]
    BY <1>3, <1>4
  <2> QED BY <1>3, <1>4, <2>1 DEF TotalOrder
<1>6. IsFiniteSet(1 .. N) /\ Cardinality(1 .. N) = N
  BY FS_Interval
<1>7. Ordered(those) \in [1 .. N -> 1 .. N] /\ Ordered(those) \in Seq(1 .. N) /\ Len(Ordered(those)) = N
  BY <1>5, <1>6, OrderedOK
<1>8. PICK s \in Seq(1 .. N) : s = Ordered(those) /\ Len(s) = N
  BY <1>7
<1>9. SubSeq(s, 1, n) \in Seq(1 .. N) /\ Len(SubSeq(s, 1, n)) = n
  BY <1>8
<1>10. SubSeq(s, 1, n) # <<>>
  <2>1. Len(<<>>) = 0 /\ n # 0
    OBVIOUS
  <2> QED BY <1>9, <2>1
<1>11. LeastLoadedIndices(bins, n) = SubSeq(Ordered(those), 1, n)
  BY DEF LeastLoadedIndices, those, before
<1> QED BY <1>8, <1>9, <1>10, <1>11 DEF Places

\* The least loaded of some shards is one of them.
LEMMA LeastLoadedOfOK ==
  ASSUME NEW N \in Nat \ {0}, NEW bins \in [1 .. N -> Bins], NEW indices \in Places(N)
  PROVE  LeastLoadedOf(bins, indices) \in 1 .. N /\ LeastLoadedOf(bins, indices) \in Range(indices)
<1> DEFINE load(k) == bins[indices[k]].load
           Loads == {load(k) : k \in DOMAIN indices}
           Least == {k \in DOMAIN indices : \A l \in DOMAIN indices : load(k) <= load(l)}
<1>1. /\ indices \in Seq(1 .. N) /\ indices # <<>> /\ DOMAIN indices \in SUBSET Nat /\ 1 \in DOMAIN indices
      /\ \A k \in DOMAIN indices : indices[k] \in 1 .. N
  BY DEF Places
<1>2. \A k \in DOMAIN indices : load(k) \in Nat
  BY <1>1 DEF Bins
<1> HIDE DEF load
<1>3. Loads \in SUBSET Nat /\ Loads # {}
  BY <1>1, <1>2
<1>4. PICK least \in Loads : \A other \in Loads : least <= other
  BY <1>3, LeastNumber
<1>5. Least # {}
  BY <1>4
<1>6. Least \in SUBSET Nat
  BY <1>1
<1>7. PICK k \in Least : \A l \in Least : k <= l
  BY <1>5, <1>6, LeastNumber
<1> HIDE DEF Least
<1>8. Min(Least) \in Least
  BY <1>7 DEF Min
<1>9. Min(Least) \in DOMAIN indices
  BY <1>8 DEF Least
<1>10. LeastLoadedOf(bins, indices) = indices[Min(Least)]
  BY DEF LeastLoadedOf, Least, load
<1> QED BY <1>1, <1>9, <1>10 DEF Range

\* What the reservations leave: bins without mutants, and places for the projects.
ReservedOK(r, N) ==
  /\ r.bins \in [1 .. N -> Bins] /\ \A i \in 1 .. N : r.bins[i].mutants = {}
  /\ \A q \in DOMAIN r.indices : r.indices[q] \in Places(N)

\* A reservation keeps what is right about the shards.
LEMMA ReserveOK ==
  ASSUME NEW c, CommandOK(c), NEW N \in Nat \ {0}, NEW r, ReservedOK(r, N), NEW p \in DependentProjects(c)
  PROVE  ReservedOK(Reserve(c, r, p), N)
<1> DEFINE n == IF Fits(c, p) THEN Smaller(BinsNeeded(c, p), N) ELSE N
<1>1. r.bins \in [1 .. N -> Bins] /\ Len(r.bins) = N /\ DOMAIN r.bins = 1 .. N
  <2>1. r.bins \in [1 .. N -> Bins]
    BY DEF ReservedOK
  <2> QED BY <2>1
<1>2. n \in 1 .. N
  <2>1. Fits(c, p) => BinsNeeded(c, p) \in Nat \ {0}
    BY BinsNeededOK
  <2> QED BY <2>1 DEF Smaller
<1> HIDE DEF n
<1>3. PICK indices : indices = LeastLoadedIndices(r.bins, n)
  OBVIOUS
<1>4. indices \in Places(N)
  BY <1>1, <1>2, <1>3, LeastLoadedIndicesOK
<1>5. Reserve(c, r, p) =
        [bins |-> [i \in 1 .. N |-> IF i \in Range(indices) THEN [r.bins[i] EXCEPT !.load = @ + c.dry[p]]
                                                          ELSE r.bins[i]],
         indices |-> [q \in DOMAIN r.indices \cup {p} |-> IF q = p THEN indices ELSE r.indices[q]]]
  BY <1>1, <1>3, Zenon DEF Reserve, n
<1>6. c.dry[p] \in Nat
  BY DependentProjectsOK
<1>7. \A i \in 1 .. N : r.bins[i] \in Bins /\ r.bins[i].mutants = {}
  BY DEF ReservedOK
<1>8. \A b \in Bins : [b EXCEPT !.load = @ + c.dry[p]] \in Bins /\ [b EXCEPT !.load = @ + c.dry[p]].mutants = b.mutants
  BY <1>6 DEF Bins
<1> QED BY <1>4, <1>5, <1>7, <1>8 DEF ReservedOK

\* The projects whose dry run shard i is charged for.
ChargedTo(r, i) == {q \in DOMAIN r.indices : i \in Range(r.indices[q])}

\* The shards are charged for the dry runs of these projects, and for no others.
ChargedOK(c, r, N, projects) ==
  DOMAIN r.indices = projects /\ \A i \in 1 .. N : r.bins[i].load = DryRuns(c, ChargedTo(r, i))

\* A reservation charges its shards for one more project.
LEMMA ReserveCharges ==
  ASSUME NEW c, CommandOK(c), NEW N \in Nat \ {0}, NEW r, ReservedOK(r, N),
         NEW projects \in SUBSET DependentProjects(c), ChargedOK(c, r, N, projects),
         NEW p \in DependentProjects(c), p \notin projects
  PROVE  ChargedOK(c, Reserve(c, r, p), N, projects \cup {p})
<1>1. r.bins \in [1 .. N -> Bins] /\ DOMAIN r.bins = 1 .. N /\ DOMAIN r.indices = projects
  BY DEF ReservedOK, ChargedOK
<1> DEFINE n == IF Fits(c, p) THEN Smaller(BinsNeeded(c, p), Len(r.bins)) ELSE Len(r.bins)
<1>2. PICK indices : indices = LeastLoadedIndices(r.bins, n)
  OBVIOUS
<1>3. Reserve(c, r, p) =
        [bins |-> [i \in 1 .. N |-> IF i \in Range(indices) THEN [r.bins[i] EXCEPT !.load = @ + c.dry[p]]
                                                          ELSE r.bins[i]],
         indices |-> [q \in projects \cup {p} |-> IF q = p THEN indices ELSE r.indices[q]]]
  BY <1>1, <1>2, Zenon DEF Reserve, n
<1>4. PICK after, bins, places :
        /\ after = Reserve(c, r, p)
        /\ bins = [i \in 1 .. N |-> IF i \in Range(indices) THEN [r.bins[i] EXCEPT !.load = @ + c.dry[p]]
                                                           ELSE r.bins[i]]
        /\ places = [q \in projects \cup {p} |-> IF q = p THEN indices ELSE r.indices[q]]
  OBVIOUS
<1>5. after = [bins |-> bins, indices |-> places]
  BY <1>3, <1>4, Zenon
<1>6. /\ DOMAIN after.indices = projects \cup {p}
      /\ \A q \in projects : q # p => after.indices[q] = r.indices[q]
      /\ after.indices[p] = indices
      /\ \A i \in 1 .. N :
           after.bins[i] = IF i \in Range(indices) THEN [r.bins[i] EXCEPT !.load = @ + c.dry[p]] ELSE r.bins[i]
  BY <1>4, <1>5
<1>7. ASSUME NEW i \in 1 .. N
      PROVE  after.bins[i].load = DryRuns(c, ChargedTo(after, i))
  <2>1. PICK A : A = ChargedTo(r, i)
    OBVIOUS
  <2>2. A \in SUBSET projects /\ A \in SUBSET DependentProjects(c) /\ p \notin A
    BY <1>1, <2>1 DEF ChargedTo
  <2>3. r.bins[i].load = DryRuns(c, A) /\ r.bins[i] \in Bins
    BY <1>1, <2>1 DEF ChargedOK
  <2>4. CASE i \in Range(indices)
    <3>1. ChargedTo(after, i) = A \cup {p}
      BY <1>1, <1>6, <2>1, <2>4 DEF ChargedTo
    <3>2. after.bins[i].load = r.bins[i].load + c.dry[p]
      BY <1>6, <2>3, <2>4 DEF Bins
    <3>3. {p} \in SUBSET DependentProjects(c) /\ A \cap {p} = {}
      BY <2>2
    <3>4. DryRuns(c, A \cup {p}) = DryRuns(c, A) + DryRuns(c, {p}) /\ DryRuns(c, {p}) = c.dry[p]
      BY <2>2, <3>3, DryRunsOK
    <3> QED BY <2>3, <3>1, <3>2, <3>4
  <2>5. CASE i \notin Range(indices)
    <3>1. ChargedTo(after, i) = A
      BY <1>1, <1>6, <2>1, <2>2, <2>5 DEF ChargedTo
    <3>2. after.bins[i] = r.bins[i]
      BY <1>6, <2>5
    <3> QED BY <2>3, <3>1, <3>2
  <2> QED BY <2>4, <2>5
<1>8. ChargedOK(c, after, N, projects \cup {p})
  BY <1>6, <1>7 DEF ChargedOK
<1> QED BY <1>4, <1>8

\* The steps of the reservations.
Reserves(c, f, n) ==
  f = [i \in 0 .. n |->
         IF i = 0 THEN [bins |-> EmptyBins(ShardCount(c)), indices |-> [q \in {} |-> <<>>]]
                  ELSE Reserve(c, f[i - 1], InNumberOrder(DependentProjects(c))[i])]

\* Reserving makes one reservation after the other.
LEMMA ReservingSteps ==
  ASSUME NEW c, NEW L, L = Len(InNumberOrder(DependentProjects(c))), L \in Nat
  PROVE  Reserves(c, Reserving(c), L)
<1> DEFINE Without == {n \in Nat : ~\E f : Reserves(c, f, n)}
           First == [bins |-> EmptyBins(ShardCount(c)), indices |-> [q \in {} |-> <<>>]]
           Step(f, i) == Reserve(c, f, InNumberOrder(DependentProjects(c))[i])
<1>1. ASSUME Without # {} PROVE FALSE
  <2>1. PICK last \in Without : \A other \in Without : last <= other
    BY <1>1, LeastNumber
  <2> HIDE DEF First, Step
  <2>2. last # 0
    <3>1. Reserves(c, [n \in 0 .. 0 |-> First], 0)
      BY DEF Reserves, First, Step
    <3> QED BY <2>1, <3>1
  <2>3. last - 1 \in Nat /\ ~(last <= last - 1)
    BY <2>2
  <2>4. PICK g : Reserves(c, g, last - 1)
    BY <2>1, <2>3
  <2>5. g = [i \in 0 .. last - 1 |-> IF i = 0 THEN First ELSE Step(g[i - 1], i)]
    BY <2>4 DEF Reserves, First, Step
  <2> DEFINE h == [n \in 0 .. last |-> IF n = last THEN Step(g[last - 1], n) ELSE g[n]]
  <2>6. h = [i \in 0 .. last |-> IF i = 0 THEN First ELSE Step(h[i - 1], i)]
    BY <2>2, <2>5
  <2>7. Reserves(c, h, last)
    BY <2>6 DEF Reserves, First, Step
  <2> QED BY <2>1, <2>7
<1>2. \E f : Reserves(c, f, L)
  BY <1>1
<1>3. Reserving(c) = CHOOSE f : Reserves(c, f, L)
  BY DEF Reserving, Reserves
<1> QED BY <1>2, <1>3

\* Every dependent project has its shards in the end, which are charged
\* for its dry run.
LEMMA ReservedAreOK ==
  ASSUME NEW c, CommandOK(c)
  PROVE  ReservedOK(Reserved(c), ShardCount(c)) /\ ChargedOK(c, Reserved(c), ShardCount(c), DependentProjects(c))
<1> DEFINE N == ShardCount(c)
           s == InNumberOrder(DependentProjects(c))
           f == Reserving(c)
           First(n) == {s[i] : i \in 1 .. n}
           Right(n) == ReservedOK(f[n], N) /\ ChargedOK(c, f[n], N, First(n))
           Wrong == {n \in 0 .. Len(s) : ~Right(n)}
<1>1. N \in Nat \ {0} /\ s \in Seq(DependentProjects(c)) /\ Len(s) \in Nat
      /\ DOMAIN s = 1 .. Len(s) /\ Range(s) = DependentProjects(c)
      /\ \A i, j \in 1 .. Len(s) : i # j => s[i] # s[j]
  BY ShardCountOK, DependentProjectsOK, InNumberOrderOK
<1>2. Reserves(c, f, Len(s))
  BY <1>1, ReservingSteps
<1> HIDE DEF N, s, f
<1>3. \A n \in 0 .. Len(s) : f[n] = IF n = 0 THEN [bins |-> EmptyBins(N), indices |-> [q \in {} |-> <<>>]]
                                            ELSE Reserve(c, f[n - 1], s[n])
  BY <1>2 DEF Reserves, N, s
<1>4. ASSUME Wrong # {} PROVE FALSE
  <2>1. PICK n \in Wrong : \A m \in Wrong : n <= m
    <3>1. Wrong \in SUBSET Nat
      BY <1>1
    <3> HIDE DEF Wrong
    <3> QED BY <1>4, <3>1, LeastNumber
  <2>2. n # 0
    <3>1. PICK r : r = [bins |-> EmptyBins(N), indices |-> [q \in {} |-> <<>>]]
      OBVIOUS
    <3>2. ReservedOK(r, N)
      BY <3>1 DEF ReservedOK, EmptyBins, Bins
    <3>3. 0 \in 0 .. Len(s) /\ First(0) = {}
      BY <1>1
    <3>4. ChargedOK(c, r, N, {})
      <4>1. DryRuns(c, {}) = 0
        BY DryRunsOK
      <4>2. \A i \in 1 .. N : r.bins[i].load = 0 /\ ChargedTo(r, i) = {}
        BY <3>1 DEF ChargedTo, EmptyBins
      <4>3. DOMAIN r.indices = {}
        BY <3>1
      <4> QED BY <4>1, <4>2, <4>3 DEF ChargedOK
    <3>5. f[0] = r
      BY <1>3, <3>1, <3>3
    <3> HIDE DEF First
    <3> QED BY <2>1, <3>2, <3>3, <3>4, <3>5
  <2>3. n - 1 \in 0 .. Len(s) /\ ~(n <= n - 1) /\ n \in 1 .. Len(s) /\ n \in 0 .. Len(s)
    BY <1>1, <2>1, <2>2
  <2>4. Right(n - 1)
    <3> HIDE DEF Right
    <3> QED BY <2>1, <2>3
  <2>5. f[n] = Reserve(c, f[n - 1], s[n])
    BY <1>3, <2>2, <2>3
  <2>6. PICK r, p, projects : r = f[n - 1] /\ p = s[n] /\ projects = First(n - 1)
    OBVIOUS
  <2>7. p \in DependentProjects(c) /\ projects \in SUBSET DependentProjects(c) /\ p \notin projects
    <3>1. \A i \in 1 .. n - 1 : i \in 1 .. Len(s) /\ i # n
      BY <1>1, <2>3
    <3>2. \A i \in 1 .. Len(s) : s[i] \in DependentProjects(c)
      BY <1>1
    <3> QED BY <1>1, <2>3, <2>6, <3>1, <3>2
  <2>8. First(n) = projects \cup {p}
    <3>1. 1 .. n = (1 .. n - 1) \cup {n}
      BY <1>1, <2>3
    <3> QED BY <2>6, <3>1
  <2>9. ReservedOK(r, N) /\ ChargedOK(c, r, N, projects)
    <3> HIDE DEF First
    <3> QED BY <2>4, <2>6
  <2>10. ReservedOK(Reserve(c, r, p), N) /\ ChargedOK(c, Reserve(c, r, p), N, projects \cup {p})
    BY <1>1, <2>7, <2>9, ReserveOK, ReserveCharges
  <2>11. Right(n)
    <3> HIDE DEF First
    <3> QED BY <2>5, <2>6, <2>8, <2>10
  <2> HIDE DEF Right
  <2> QED BY <2>1, <2>11
<1>5. Reserved(c) = f[Len(s)] /\ Len(s) \in 0 .. Len(s)
  BY <1>1 DEF Reserved, f, s
<1>6. First(Len(s)) = DependentProjects(c)
  BY <1>1 DEF Range
<1> HIDE DEF First
<1> QED BY <1>4, <1>5, <1>6 DEF N

-----------------------------------------------------------------------------
(* The groups.                                                              *)

\* A placement key is a triple of numbers.
LEMMA KeyOK ==
  ASSUME NEW c, CommandOK(c), NEW m \in c.mutants
  PROVE  PlacementKey(c, m) \in Nat \X Nat \X Nat
<1>1. m.project \in Nat /\ m.id \in Nat /\ m.dominators \in Seq(Nat)
  BY CommandFacts
<1>2. m.dominators # <<>> => Head(m.dominators) \in Nat
  BY <1>1
<1> QED BY <1>1, <1>2 DEF PlacementKey

\* A group is the mutants of one placement key.
LEMMA GroupFacts ==
  ASSUME NEW c, CommandOK(c), NEW g \in GroupsOf(c)
  PROVE  /\ g.mutants = {m \in c.mutants : PlacementKey(c, m) = g.key} /\ g.mutants # {}
         /\ g.mutants \in SUBSET c.mutants
         /\ g = [key |-> g.key, mutants |-> g.mutants]
         /\ g.key[1] \in Nat /\ g.key[2] \in Nat /\ g.key[3] \in Nat /\ g.key = <<g.key[1], g.key[2], g.key[3]>>
         /\ ProjectOf(g) \in Nat /\ Cost(g.mutants) \in Nat
<1>1. PICK m \in c.mutants :
        g = [key |-> PlacementKey(c, m), mutants |-> {n \in c.mutants : PlacementKey(c, n) = PlacementKey(c, m)}]
  BY DEF GroupsOf
<1>2. g.key = PlacementKey(c, m) /\ g.mutants = {n \in c.mutants : PlacementKey(c, n) = g.key} /\ m \in g.mutants
      /\ g = [key |-> g.key, mutants |-> g.mutants]
  BY <1>1
<1>3. g.mutants \in SUBSET c.mutants
  BY <1>2
<1>4. g.key \in Nat \X Nat \X Nat
  BY <1>2, KeyOK
<1>5. g.key[1] \in Nat /\ g.key[2] \in Nat /\ g.key[3] \in Nat /\ g.key = <<g.key[1], g.key[2], g.key[3]>>
  BY <1>4
<1>6. PICK S : S = {n.project : n \in g.mutants}
  OBVIOUS
<1>7. S \in SUBSET Nat /\ S # {}
  BY <1>2, <1>3, <1>6, CommandFacts
<1>8. Min(S) \in Nat
  <2>1. \E i \in S : \A j \in S : i <= j
    BY <1>7, LeastNumber
  <2> QED BY <1>7, <2>1 DEF Min
<1>9. ProjectOf(g) \in Nat
  BY <1>6, <1>8 DEF ProjectOf
<1>10. Cost(g.mutants) \in Nat
  BY <1>3, CommandFacts
<1> QED BY <1>2, <1>3, <1>5, <1>9, <1>10

\* Groups of one key are one.
LEMMA SameGroup ==
  ASSUME NEW c, CommandOK(c), NEW g \in GroupsOf(c), NEW h \in GroupsOf(c)
  PROVE  g.key = h.key => g = h
<1>1. /\ g.mutants = {m \in c.mutants : PlacementKey(c, m) = g.key}
      /\ g = [key |-> g.key, mutants |-> g.mutants]
  BY GroupFacts, ZenonT(60)
<1>2. /\ h.mutants = {m \in c.mutants : PlacementKey(c, m) = h.key}
      /\ h = [key |-> h.key, mutants |-> h.mutants]
  BY GroupFacts, ZenonT(60)
<1>3. g.key = h.key => g.mutants = h.mutants
  BY <1>1, <1>2
<1> QED BY <1>1, <1>2, <1>3

\* The groups are finitely many.
LEMMA GroupsFinite ==
  ASSUME NEW c, CommandOK(c)
  PROVE  IsFiniteSet(GroupsOf(c))
<1>1. PICK f : f = [m \in c.mutants |->
         [key |-> PlacementKey(c, m), mutants |-> {n \in c.mutants : PlacementKey(c, n) = PlacementKey(c, m)}]]
  OBVIOUS
<1>2. IsFiniteSet({f[m] : m \in c.mutants})
  <2>1. PICK S : S = c.mutants
    OBVIOUS
  <2>2. IsFiniteSet(S) /\ DOMAIN f = S
    BY <1>1, <2>1, CommandFacts
  <2>3. IsFiniteSet({f[x] : x \in S})
    BY <2>2, ImageFinite
  <2> QED BY <2>1, <2>3
<1>3. GroupsOf(c) = {f[m] : m \in c.mutants}
  BY <1>1 DEF GroupsOf
<1> QED BY <1>2, <1>3

\* Every group is placed once, whatever the order.
LEMMA CostliestFirstOfOK ==
  ASSUME NEW c, CommandOK(c), NEW groups \in SUBSET GroupsOf(c)
  PROVE  LET s == CostliestFirstOf(groups)
         IN  /\ s \in Seq(groups) /\ Len(s) \in Nat /\ DOMAIN s = 1 .. Len(s)
             /\ \A g \in groups : \E i \in DOMAIN s : s[i] = g
             /\ \A i, j \in DOMAIN s : i # j => s[i] # s[j]
<1> DEFINE before == [h \in groups |-> {g \in groups : CostliestFirst(g, h)}]
           s == Ordered(before)
<1>1. \A g \in groups :
        /\ g.key[1] \in Nat /\ g.key[2] \in Nat /\ g.key[3] \in Nat /\ g.key = <<g.key[1], g.key[2], g.key[3]>>
        /\ ProjectOf(g) \in Nat /\ Cost(g.mutants) \in Nat
  BY GroupFacts
<1>2. ASSUME NEW g \in groups, NEW h \in groups, g # h
      PROVE  g.key[1] # h.key[1] \/ g.key[2] # h.key[2] \/ g.key[3] # h.key[3]
  <2>1. g.key # h.key
    BY <1>2, SameGroup
  <2> QED BY <1>1, <2>1
<1>3. before \in [groups -> SUBSET groups] /\ \A g, h \in groups : g \in before[h] <=> CostliestFirst(g, h)
  OBVIOUS
<1> HIDE DEF before
<1>4. \A g \in groups : ~CostliestFirst(g, g)
  BY <1>1 DEF CostliestFirst, KeyBefore
<1>5. \A g, h \in groups : g # h => CostliestFirst(g, h) \/ CostliestFirst(h, g)
  BY <1>1, <1>2 DEF CostliestFirst, KeyBefore
<1>6. \A g, h, i \in groups : CostliestFirst(g, h) /\ CostliestFirst(h, i) => CostliestFirst(g, i)
  BY <1>1 DEF CostliestFirst, KeyBefore
<1>7. TotalOrder(groups, before)
  <2>1. \A g, h \in groups : g \in before[h] => before[g] \subseteq before[h]
    BY <1>3, <1>6
  <2> QED BY <1>3, <1>4, <1>5, <2>1 DEF TotalOrder
<1>8. IsFiniteSet(groups)
  BY GroupsFinite, FS_Subset
<1>9. /\ Cardinality(groups) \in Nat /\ s \in Seq(groups) /\ Len(s) = Cardinality(groups)
      /\ \A i, j \in 1 .. Cardinality(groups) : i # j => s[i] # s[j]
      /\ \A x \in groups : \E i \in 1 .. Cardinality(groups) : s[i] = x
  BY <1>7, <1>8, OrderedOK
<1>10. s = CostliestFirstOf(groups)
  BY DEF CostliestFirstOf, before
<1> HIDE DEF s
<1>11. DOMAIN s = 1 .. Len(s)
  BY <1>9
<1> QED BY <1>9, <1>10, <1>11

-----------------------------------------------------------------------------
(* The placement.                                                           *)

\* The mutants with some of the keys are in the bins, each in one, those with the
\* same key in the same one.
PlacedOK(c, N, bins, keys) ==
  /\ bins \in [1 .. N -> Bins]
  /\ \A m \in c.mutants : PlacementKey(c, m) \in keys => \E i \in 1 .. N : m \in bins[i].mutants
  /\ \A i \in 1 .. N : \A m \in bins[i].mutants : m \in c.mutants /\ PlacementKey(c, m) \in keys
  /\ \A i, l \in 1 .. N : \A m \in bins[i].mutants, n \in bins[l].mutants :
       PlacementKey(c, m) = PlacementKey(c, n) => i = l

\* A group with its costs has come to one shard.
Added(N, bins, after, index, g) ==
  /\ after \in [1 .. N -> Bins]
  /\ \A i \in 1 .. N :
       /\ after[i].mutants = IF i = index THEN bins[i].mutants \cup g.mutants ELSE bins[i].mutants
       /\ after[i].load = IF i = index THEN bins[i].load + Cost(g.mutants) ELSE bins[i].load

\* Placing a group adds its mutants, and what they cost, to one shard.
LEMMA WithGroupInIs ==
  ASSUME NEW c, CommandOK(c), NEW N, NEW bins \in [1 .. N -> Bins], NEW g \in GroupsOf(c), NEW index \in 1 .. N
  PROVE  Added(N, bins, WithGroupIn(bins, index, g), index, g)
<1>1. Cost(g.mutants) \in Nat /\ g.mutants \in SUBSET Mutants
  BY GroupFacts, CommandFacts
<1>2. bins[index] \in Bins /\ bins[index].mutants \in SUBSET Mutants /\ bins[index].load \in Nat
  BY DEF Bins
<1>3. PICK bin : bin = [mutants |-> bins[index].mutants \cup g.mutants, load |-> bins[index].load + Cost(g.mutants)]
  OBVIOUS
<1>4. /\ bin \in Bins /\ bin.mutants = bins[index].mutants \cup g.mutants
      /\ bin.load = bins[index].load + Cost(g.mutants)
  BY <1>1, <1>2, <1>3 DEF Bins
<1>5. PICK after : after = WithGroupIn(bins, index, g)
  OBVIOUS
<1>6. after = [bins EXCEPT ![index] = bin]
  BY <1>3, <1>5 DEF WithGroupIn
<1>7. /\ after \in [1 .. N -> Bins]
      /\ \A i \in 1 .. N : after[i] = IF i = index THEN bin ELSE bins[i]
  BY <1>4, <1>6
<1>8. Added(N, bins, after, index, g)
  BY <1>4, <1>7 DEF Added
<1> QED BY <1>5, <1>8

\* Placing a group adds its mutants, and no other, to one shard.
LEMMA WithGroupInOK ==
  ASSUME NEW c, CommandOK(c), NEW N, NEW bins, NEW keys, PlacedOK(c, N, bins, keys),
         NEW g \in GroupsOf(c), g.key \notin keys, NEW index \in 1 .. N
  PROVE  PlacedOK(c, N, WithGroupIn(bins, index, g), keys \cup {g.key})
<1> DEFINE after == WithGroupIn(bins, index, g)
<1>1. g.mutants = {m \in c.mutants : PlacementKey(c, m) = g.key}
  BY GroupFacts
<1>2. bins \in [1 .. N -> Bins]
  BY DEF PlacedOK
<1>3. /\ after \in [1 .. N -> Bins]
      /\ \A i \in 1 .. N : after[i].mutants = IF i = index THEN bins[index].mutants \cup g.mutants ELSE bins[i].mutants
  <2>1. Added(N, bins, after, index, g)
    BY <1>2, WithGroupInIs
  <2> HIDE DEF after
  <2> QED BY <2>1 DEF Added
<1> HIDE DEF after
<1>4. ASSUME NEW m \in c.mutants, PlacementKey(c, m) \in keys \cup {g.key}
      PROVE  \E i \in 1 .. N : m \in after[i].mutants
  <2>1. CASE PlacementKey(c, m) \in keys
    BY <1>3, <2>1 DEF PlacedOK
  <2>2. CASE PlacementKey(c, m) = g.key
    BY <1>1, <1>3, <2>2
  <2> QED BY <1>4, <2>1, <2>2
<1>5. \A i \in 1 .. N : \A m \in bins[i].mutants : m \in c.mutants /\ PlacementKey(c, m) \in keys
  BY DEF PlacedOK
<1>6. ASSUME NEW i \in 1 .. N, NEW m \in after[i].mutants
       PROVE  m \in c.mutants /\ PlacementKey(c, m) \in keys \cup {g.key}
  BY <1>1, <1>3, <1>5
<1>7. ASSUME NEW i \in 1 .. N, NEW l \in 1 .. N, NEW m \in after[i].mutants, NEW n \in after[l].mutants,
              PlacementKey(c, m) = PlacementKey(c, n)
       PROVE  i = l
  <2>1. CASE PlacementKey(c, m) = g.key
    <3>1. i = index /\ l = index
      BY <1>3, <1>5, <1>7, <2>1
    <3> QED BY <3>1
  <2>2. CASE PlacementKey(c, m) # g.key
    <3>1. m \in bins[i].mutants /\ n \in bins[l].mutants
      BY <1>1, <1>3, <1>7, <2>2
    <3> QED BY <1>7, <3>1 DEF PlacedOK
  <2> QED BY <2>1, <2>2
<1>8. PlacedOK(c, N, after, keys \cup {g.key})
  BY <1>3, <1>4, <1>6, <1>7 DEF PlacedOK
<1> QED BY <1>8 DEF after

\* A shard costs what it is charged for and what its mutants cost, and those of a
\* group that needs a dry run are in a shard that is charged for it.
Priced(c, N, bins) ==
  /\ \A i \in 1 .. N : bins[i].load = Reserved(c).bins[i].load + Cost(bins[i].mutants)
  /\ \A i \in 1 .. N : \A m \in bins[i].mutants : \A g \in GroupsOf(c) :
       m \in g.mutants /\ Depends(g) => i \in Range(PlacesIn(Reserved(c), g))

\* A group placed where it may be keeps the prices right.
LEMMA WithGroupInPriced ==
  ASSUME NEW c, CommandOK(c), NEW N, ReservedOK(Reserved(c), N), NEW bins, NEW keys,
         PlacedOK(c, N, bins, keys), Priced(c, N, bins),
         NEW g \in GroupsOf(c), g.key \notin keys, NEW index \in 1 .. N,
         Depends(g) => index \in Range(PlacesIn(Reserved(c), g))
  PROVE  Priced(c, N, WithGroupIn(bins, index, g))
<1> DEFINE after == WithGroupIn(bins, index, g)
           base(i) == Reserved(c).bins[i].load
<1>1. g.mutants = {m \in c.mutants : PlacementKey(c, m) = g.key} /\ g.mutants \in SUBSET c.mutants
  BY GroupFacts
<1>2. /\ bins \in [1 .. N -> Bins]
      /\ \A i \in 1 .. N : \A m \in bins[i].mutants : m \in c.mutants /\ PlacementKey(c, m) \in keys
  BY DEF PlacedOK
<1>3. \A i \in 1 .. N :
        /\ after[i].mutants = IF i = index THEN bins[i].mutants \cup g.mutants ELSE bins[i].mutants
        /\ after[i].load = IF i = index THEN bins[i].load + Cost(g.mutants) ELSE bins[i].load
  <2>1. Added(N, bins, after, index, g)
    BY <1>2, WithGroupInIs
  <2> HIDE DEF after
  <2> QED BY <2>1 DEF Added
<1> HIDE DEF after
<1>4. \A i \in 1 .. N : base(i) \in Nat
  BY DEF ReservedOK, Bins
<1>5. \A i \in 1 .. N : bins[i].load = base(i) + Cost(bins[i].mutants)
  BY DEF Priced
<1> HIDE DEF base
<1>6. ASSUME NEW i \in 1 .. N PROVE after[i].load = base(i) + Cost(after[i].mutants)
  <2>1. CASE i # index
    BY <1>3, <1>5, <2>1
  <2>2. CASE i = index
    <3>1. PICK A, B : A = bins[i].mutants /\ B = g.mutants
      OBVIOUS
    <3>2. A \in SUBSET c.mutants /\ B \in SUBSET c.mutants /\ A \cap B = {}
      BY <1>1, <1>2, <3>1
    <3>3. Cost(A \cup B) = Cost(A) + Cost(B) /\ Cost(A) \in Nat /\ Cost(B) \in Nat
      BY <3>2, CostOfBoth, CommandFacts
    <3>4. after[i].mutants = A \cup B /\ after[i].load = (base(i) + Cost(A)) + Cost(B)
      BY <1>3, <1>5, <2>2, <3>1
    <3>5. base(i) \in Nat
      BY <1>4
    <3> QED BY <3>3, <3>4, <3>5
  <2> QED BY <2>1, <2>2
<1>7. ASSUME NEW i \in 1 .. N, NEW m \in after[i].mutants, NEW h \in GroupsOf(c), m \in h.mutants, Depends(h)
      PROVE  i \in Range(PlacesIn(Reserved(c), h))
  <2>1. CASE m \in bins[i].mutants
    BY <1>7, <2>1 DEF Priced
  <2>2. CASE m \notin bins[i].mutants
    <3>1. i = index /\ m \in g.mutants
      BY <1>3, <1>7, <2>2
    <3>2. h.mutants = {n \in c.mutants : PlacementKey(c, n) = h.key}
      BY GroupFacts
    <3>3. h = g
      BY <1>1, <1>7, <3>1, <3>2, SameGroup
    <3> QED BY <1>7, <3>1, <3>3
  <2> QED BY <2>1, <2>2
<1>8. Priced(c, N, after)
  BY <1>6, <1>7 DEF Priced, base
<1> QED BY <1>8 DEF after

\* The steps in which bins are filled.
Fills(f, n, bins, groups, places) ==
  f = [i \in 0 .. n |->
         IF i = 0 THEN bins
         ELSE WithGroupIn(f[i - 1], LeastLoadedOf(f[i - 1], places[groups[i]]), groups[i])]

\* Filling places one group after the other.
LEMMA FillingSteps ==
  ASSUME NEW bins, NEW groups, NEW places, Len(groups) \in Nat
  PROVE  Fills(Filling(bins, groups, places), Len(groups), bins, groups, places)
<1> DEFINE Without == {n \in Nat : ~\E f : Fills(f, n, bins, groups, places)}
           Step(f, i) == WithGroupIn(f, LeastLoadedOf(f, places[groups[i]]), groups[i])
<1>1. ASSUME Without # {} PROVE FALSE
  <2>1. PICK last \in Without : \A other \in Without : last <= other
    BY <1>1, LeastNumber
  <2> HIDE DEF Step
  <2>2. last # 0
    <3>1. Fills([n \in 0 .. 0 |-> bins], 0, bins, groups, places)
      BY DEF Fills, Step
    <3> QED BY <2>1, <3>1
  <2>3. last - 1 \in Nat /\ ~(last <= last - 1)
    BY <2>2
  <2>4. PICK g : Fills(g, last - 1, bins, groups, places)
    BY <2>1, <2>3
  <2>5. g = [i \in 0 .. last - 1 |-> IF i = 0 THEN bins ELSE Step(g[i - 1], i)]
    BY <2>4 DEF Fills, Step
  <2> DEFINE h == [n \in 0 .. last |-> IF n = last THEN Step(g[last - 1], n) ELSE g[n]]
  <2>6. h = [i \in 0 .. last |-> IF i = 0 THEN bins ELSE Step(h[i - 1], i)]
    BY <2>2, <2>5
  <2>7. Fills(h, last, bins, groups, places)
    BY <2>6 DEF Fills, Step
  <2> QED BY <2>1, <2>7
<1>2. \E f : Fills(f, Len(groups), bins, groups, places)
  BY <1>1
<1>3. Filling(bins, groups, places) = CHOOSE f : Fills(f, Len(groups), bins, groups, places)
  BY DEF Filling, Fills
<1> QED BY <1>2, <1>3

KeysOf(groups) == {g.key : g \in groups}

\* In the end every group is in a shard, one that is charged for it.
LEMMA FilledOK ==
  ASSUME NEW c, CommandOK(c), NEW N \in Nat \ {0}, ReservedOK(Reserved(c), N), NEW bins, NEW keys,
         PlacedOK(c, N, bins, keys), Priced(c, N, bins),
         NEW groups \in SUBSET GroupsOf(c), KeysOf(groups) \cap keys = {},
         NEW places \in [groups -> Places(N)],
         \A g \in groups : Depends(g) => places[g] = PlacesIn(Reserved(c), g)
  PROVE  LET filled == Filled(bins, CostliestFirstOf(groups), places)
         IN  PlacedOK(c, N, filled, keys \cup KeysOf(groups)) /\ Priced(c, N, filled)
<1> DEFINE s == CostliestFirstOf(groups)
           f == Filling(bins, s, places)
           Keys(n) == keys \cup {s[i].key : i \in 1 .. n}
           Right(n) == PlacedOK(c, N, f[n], Keys(n)) /\ Priced(c, N, f[n])
           Wrong == {n \in 0 .. Len(s) : ~Right(n)}
<1>1. /\ s \in Seq(groups) /\ Len(s) \in Nat /\ DOMAIN s = 1 .. Len(s)
      /\ \A g \in groups : \E i \in 1 .. Len(s) : s[i] = g
      /\ \A i, j \in 1 .. Len(s) : i # j => s[i] # s[j]
  BY CostliestFirstOfOK
<1> HIDE DEF s
<1>2. Fills(f, Len(s), bins, s, places)
  BY <1>1, FillingSteps
<1> HIDE DEF f
<1>3. \A n \in 0 .. Len(s) :
        f[n] = IF n = 0 THEN bins ELSE WithGroupIn(f[n - 1], LeastLoadedOf(f[n - 1], places[s[n]]), s[n])
  BY <1>2 DEF Fills
<1>4. \A i \in 1 .. Len(s) : s[i] \in groups /\ s[i] \in GroupsOf(c)
  BY <1>1
<1>5. \A i, j \in 1 .. Len(s) : i # j => s[i].key # s[j].key
  <2> SUFFICES ASSUME NEW i \in 1 .. Len(s), NEW j \in 1 .. Len(s), s[i].key = s[j].key
               PROVE  s[i] = s[j]
    BY <1>1
  <2>1. PICK g, h : g = s[i] /\ h = s[j]
    OBVIOUS
  <2>2. g \in GroupsOf(c) /\ h \in GroupsOf(c) /\ g.key = h.key
    BY <1>4, <2>1
  <2> QED BY <2>1, <2>2, SameGroup
<1>6. ASSUME Wrong # {} PROVE FALSE
  <2>1. PICK n \in Wrong : \A m \in Wrong : n <= m
    <3>1. Wrong \in SUBSET Nat
      BY <1>1
    <3> HIDE DEF Wrong
    <3> QED BY <1>6, <3>1, LeastNumber
  <2>2. n # 0
    <3>1. Keys(0) = keys /\ 0 \in 0 .. Len(s)
      BY <1>1
    <3>2. f[0] = bins
      BY <1>3, <3>1
    <3> HIDE DEF Keys
    <3> QED BY <2>1, <3>1, <3>2
  <2>3. n - 1 \in 0 .. Len(s) /\ ~(n <= n - 1) /\ n \in 1 .. Len(s) /\ n \in 0 .. Len(s)
    BY <1>1, <2>1, <2>2
  <2>4. PlacedOK(c, N, f[n - 1], Keys(n - 1)) /\ Priced(c, N, f[n - 1])
    <3>1. Right(n - 1)
      <4> HIDE DEF Right
      <4> QED BY <2>1, <2>3
    <3> HIDE DEF Keys
    <3> QED BY <3>1
  <2>5. PICK g, before, index : g = s[n] /\ before = f[n - 1] /\ index = LeastLoadedOf(before, places[g])
    OBVIOUS
  <2>6. g \in groups /\ g \in GroupsOf(c) /\ places[g] \in Places(N) /\ before \in [1 .. N -> Bins]
    BY <1>4, <2>3, <2>4, <2>5 DEF PlacedOK
  <2>7. index \in 1 .. N /\ index \in Range(places[g])
    BY <2>5, <2>6, LeastLoadedOfOK
  <2>8. g.key \notin Keys(n - 1)
    <3>1. g.key \notin keys
      BY <2>6 DEF KeysOf
    <3>2. \A i \in 1 .. n - 1 : i \in 1 .. Len(s) /\ i # n
      BY <1>1, <2>3
    <3> QED BY <1>5, <2>3, <2>5, <3>1, <3>2
  <2>9. Keys(n) = Keys(n - 1) \cup {g.key}
    <3>1. 1 .. n = (1 .. n - 1) \cup {n}
      BY <1>1, <2>3
    <3> QED BY <2>5, <3>1
  <2> HIDE DEF Keys
  <2>10. f[n] = WithGroupIn(before, index, g)
    BY <1>3, <2>2, <2>3, <2>5
  <2>11. PlacedOK(c, N, WithGroupIn(before, index, g), Keys(n - 1) \cup {g.key})
    BY <2>4, <2>5, <2>6, <2>7, <2>8, WithGroupInOK
  <2>12. Priced(c, N, WithGroupIn(before, index, g))
    <3>1. Depends(g) => index \in Range(PlacesIn(Reserved(c), g))
      BY <2>6, <2>7
    <3> QED BY <2>4, <2>5, <2>6, <2>7, <2>8, <3>1, WithGroupInPriced
  <2>13. Right(n)
    BY <2>9, <2>10, <2>11, <2>12
  <2> HIDE DEF Right
  <2> QED BY <2>1, <2>13
<1>7. Len(s) \in 0 .. Len(s)
  BY <1>1
<1>8. Keys(Len(s)) = keys \cup KeysOf(groups)
  BY <1>1 DEF KeysOf
<1> HIDE DEF Keys
<1>9. PlacedOK(c, N, f[Len(s)], keys \cup KeysOf(groups)) /\ Priced(c, N, f[Len(s)])
  BY <1>6, <1>7, <1>8
<1>10. Filled(bins, s, places) = f[Len(s)]
  BY DEF Filled, f
<1> QED BY <1>9, <1>10 DEF s

\* A project without a reservation may go to every shard.
LEMMA IndicesOfOK ==
  ASSUME NEW N \in Nat \ {0}
  PROVE  IndicesOf(N) \in Places(N)
<1>1. IndicesOf(N) \in Seq(1 .. N) /\ 1 \in DOMAIN IndicesOf(N)
  BY DEF IndicesOf
<1>2. DOMAIN <<>> = {}
  OBVIOUS
<1> QED BY <1>1, <1>2 DEF Places

\* Every mutant has a shard, that of the others with its key.
LEMMA AllPlaced ==
  ASSUME NEW c, CommandOK(c)
  PROVE  /\ PlacedOK(c, ShardCount(c), WithRest(c), {PlacementKey(c, m) : m \in c.mutants})
         /\ Priced(c, ShardCount(c), WithRest(c))
<1> DEFINE N == ShardCount(c)
           G1 == {g \in GroupsOf(c) : Depends(g)}
           G2 == {g \in GroupsOf(c) : ~Depends(g)}
           places1 == [g \in G1 |-> PlacesIn(Reserved(c), g)]
           bins1 == Filled(Reserved(c).bins, CostliestFirstOf(G1), places1)
           places2 == [g \in G2 |-> IndicesOf(Len(bins1))]
           bins2 == Filled(bins1, CostliestFirstOf(G2), places2)
<1>1. N \in Nat \ {0} /\ ReservedOK(Reserved(c), N)
  BY ShardCountOK, ReservedAreOK
<1> HIDE DEF N
<1>2. PlacedOK(c, N, Reserved(c).bins, {}) /\ Priced(c, N, Reserved(c).bins)
  <2>1. PlacedOK(c, N, Reserved(c).bins, {})
    BY <1>1 DEF PlacedOK, ReservedOK
  <2>2. Cost({}) = 0
    BY CostOfNone
  <2>3. PICK bins : bins = Reserved(c).bins
    OBVIOUS
  <2>4. \A i \in 1 .. N : bins[i].load \in Nat /\ bins[i].mutants = {}
    BY <1>1, <2>3 DEF ReservedOK, Bins
  <2>5. \A i \in 1 .. N : bins[i].load = bins[i].load + Cost(bins[i].mutants)
    <3> SUFFICES ASSUME NEW i \in 1 .. N PROVE bins[i].load = bins[i].load + Cost(bins[i].mutants)
      OBVIOUS
    <3>1. PICK load, mutants : load = bins[i].load /\ mutants = bins[i].mutants
      OBVIOUS
    <3>2. load \in Nat /\ mutants = {}
      BY <2>4, <3>1
    <3>3. Cost(mutants) = 0
      BY <2>2, <3>2
    <3> QED BY <3>1, <3>2, <3>3
  <2>6. Priced(c, N, bins)
    BY <2>3, <2>4, <2>5 DEF Priced
  <2> QED BY <2>1, <2>3, <2>6
<1>3. Len(Reserved(c).bins) = N
  <2>1. Reserved(c).bins \in [1 .. N -> Bins]
    BY <1>1 DEF ReservedOK
  <2> QED BY <1>1, <2>1
<1>4. G1 \in SUBSET GroupsOf(c) /\ G2 \in SUBSET GroupsOf(c)
  OBVIOUS
<1>5. \A g \in GroupsOf(c) : PlacesIn(Reserved(c), g) \in Places(N)
  BY <1>1, <1>3, IndicesOfOK DEF PlacesIn, ReservedOK
<1>6. places1 \in [G1 -> Places(N)] /\ \A g \in G1 : places1[g] = PlacesIn(Reserved(c), g)
  BY <1>5
<1>7. KeysOf(G1) \cap {} = {} /\ {} \cup KeysOf(G1) = KeysOf(G1)
  OBVIOUS
<1>8. KeysOf(G2) \cap KeysOf(G1) = {}
  BY SameGroup DEF KeysOf
<1>9. KeysOf(G1) \cup KeysOf(G2) = {PlacementKey(c, m) : m \in c.mutants}
  <2>1. KeysOf(G1) \cup KeysOf(G2) = KeysOf(GroupsOf(c))
    BY DEF KeysOf
  <2>2. KeysOf(GroupsOf(c)) \subseteq {PlacementKey(c, m) : m \in c.mutants}
    BY DEF KeysOf, GroupsOf
  <2>3. ASSUME NEW m \in c.mutants PROVE PlacementKey(c, m) \in KeysOf(GroupsOf(c))
    <3>1. PICK g : g = [key |-> PlacementKey(c, m),
                        mutants |-> {n \in c.mutants : PlacementKey(c, n) = PlacementKey(c, m)}]
      OBVIOUS
    <3>2. g \in GroupsOf(c) /\ g.key = PlacementKey(c, m)
      BY <3>1 DEF GroupsOf
    <3> QED BY <3>2 DEF KeysOf
  <2> QED BY <2>1, <2>2, <2>3
<1>10. WithDependents(c) = bins1
  BY DEF WithDependents
<1>11. WithRest(c) = bins2
  BY <1>10 DEF WithRest
<1>12. \A g \in G2 : ~Depends(g)
  OBVIOUS
<1> HIDE DEF G1, G2, places1, bins1
<1>13. PlacedOK(c, N, bins1, KeysOf(G1)) /\ Priced(c, N, bins1)
  <2>1. PlacedOK(c, N, bins1, {} \cup KeysOf(G1)) /\ Priced(c, N, bins1)
    <3>1. bins1 = Filled(Reserved(c).bins, CostliestFirstOf(G1), places1)
      BY DEF bins1
    <3>2. PICK bins, keys : bins = Reserved(c).bins /\ keys = {}
      OBVIOUS
    <3>3. PlacedOK(c, N, bins, keys) /\ Priced(c, N, bins) /\ KeysOf(G1) \cap keys = {}
      BY <1>2, <3>2
    <3>4. /\ PlacedOK(c, N, Filled(bins, CostliestFirstOf(G1), places1), keys \cup KeysOf(G1))
          /\ Priced(c, N, Filled(bins, CostliestFirstOf(G1), places1))
      BY <1>1, <1>4, <1>6, <3>3, FilledOK
    <3> QED BY <3>1, <3>2, <3>4
  <2> QED BY <1>7, <2>1
<1>14. places2 \in [G2 -> Places(N)]
  <2>1. bins1 \in [1 .. N -> Bins]
    BY <1>13 DEF PlacedOK
  <2>2. Len(bins1) = N
    BY <1>1, <2>1
  <2>3. IndicesOf(N) \in Places(N)
    BY <1>1, IndicesOfOK
  <2> QED BY <2>2, <2>3
<1> HIDE DEF places2
<1>15. PlacedOK(c, N, bins2, KeysOf(G1) \cup KeysOf(G2)) /\ Priced(c, N, bins2)
  BY <1>1, <1>4, <1>8, <1>13, <1>14, <1>12, FilledOK
<1> HIDE DEF bins2
<1>16. PlacedOK(c, N, WithRest(c), {PlacementKey(c, m) : m \in c.mutants}) /\ Priced(c, N, WithRest(c))
  BY <1>9, <1>11, <1>15, Zenon
<1> QED BY <1>16 DEF N

\* A shard has a mutant.
Holds(shard, m) == m.project \in DOMAIN shard.projects /\ m.id \in shard.projects[m.project]

\* What is planned of a command.
PlannedOK(c, shards) ==
  /\ Len(shards) = ShardCount(c) /\ DOMAIN shards = 1 .. ShardCount(c)
  /\ \A i \in DOMAIN shards :
       /\ IsFiniteSet(DOMAIN shards[i].projects)
       /\ DOMAIN shards[i].projects \subseteq {m.project : m \in c.mutants}
       /\ \A p \in DOMAIN shards[i].projects : shards[i].projects[p] \subseteq {m.id : m \in c.mutants}
  /\ \A k, l \in DOMAIN shards : \A p \in DOMAIN shards[k].projects \cap DOMAIN shards[l].projects :
       k # l => shards[k].projects[p] \cap shards[l].projects[p] = {}
  /\ \A m \in c.mutants : \E i \in DOMAIN shards :
       /\ {k \in DOMAIN shards : Holds(shards[k], m)} = {i}
       /\ m.dominators # <<>> /\ ~m.reused =>
            m.project \in DOMAIN shards[i].projects
              /\ {m.id, Head(m.dominators)} \subseteq shards[i].projects[m.project]

\* The planned shards hold every mutant of the command once.
LEMMA PlannedShardsOK ==
  ASSUME NEW c, CommandOK(c)
  PROVE  PlannedOK(c, PlannedShards(c))
<1> DEFINE N == ShardCount(c)
           Keys == {PlacementKey(c, m) : m \in c.mutants}
           shards == PlannedShards(c)
<1>1. PICK bins : bins = WithRest(c)
  OBVIOUS
<1>2. PlacedOK(c, N, bins, Keys)
  BY <1>1, AllPlaced
<1> HIDE DEF Keys
<1>3. bins \in [1 .. N -> Bins] /\ N \in Nat \ {0}
  BY <1>2, ShardCountOK DEF PlacedOK
<1> HIDE DEF N
<1>4. shards = [i \in 1 .. N |->
                  [predicted |-> bins[i].load,
                   projects |-> [p \in {m.project : m \in bins[i].mutants} |-> MutantsOf(bins[i].mutants, p)]]]
  BY <1>1, <1>3 DEF PlannedShards
<1> HIDE DEF shards
<1>5. Len(shards) = N /\ DOMAIN shards = 1 .. N
  BY <1>3, <1>4
<1>6. ASSUME NEW i \in 1 .. N
      PROVE  /\ DOMAIN shards[i].projects = {m.project : m \in bins[i].mutants}
             /\ \A p \in DOMAIN shards[i].projects :
                  \A id : id \in shards[i].projects[p] <=>
                            \E m \in bins[i].mutants : m.project = p /\ m.id = id
  BY <1>4 DEF MutantsOf
<1>7. /\ \A i \in 1 .. N : bins[i].mutants \in SUBSET c.mutants
      /\ \A m \in c.mutants : \E i \in 1 .. N : m \in bins[i].mutants
      /\ \A i, l \in 1 .. N : \A m \in bins[i].mutants, n \in bins[l].mutants :
           PlacementKey(c, m) = PlacementKey(c, n) => i = l
  BY <1>2 DEF PlacedOK, Keys
<1>8. \A m, n \in c.mutants : m.project = n.project /\ m.id = n.id => m = n
  BY DEF CommandOK
<1>9. ASSUME NEW i \in 1 .. N, NEW m \in c.mutants
      PROVE  Holds(shards[i], m) <=> m \in bins[i].mutants
  BY <1>6, <1>7, <1>8 DEF Holds
<1>10. ASSUME NEW i \in 1 .. N
       PROVE  /\ IsFiniteSet(DOMAIN shards[i].projects)
              /\ DOMAIN shards[i].projects \subseteq {m.project : m \in c.mutants}
              /\ \A p \in DOMAIN shards[i].projects : shards[i].projects[p] \subseteq {m.id : m \in c.mutants}
  <2>1. IsFiniteSet({m.project : m \in bins[i].mutants})
    <3>1. PICK S : S = bins[i].mutants
      OBVIOUS
    <3>2. S \in SUBSET c.mutants
      BY <1>7, <3>1
    <3>3. IsFiniteSet({m.project : m \in S})
      BY <3>2, CommandFacts
    <3> QED BY <3>1, <3>3
  <2>2. IsFiniteSet(DOMAIN shards[i].projects)
    BY <1>6, <2>1, Zenon
  <2>3. DOMAIN shards[i].projects \subseteq {m.project : m \in c.mutants}
    BY <1>6, <1>7
  <2>4. ASSUME NEW p \in DOMAIN shards[i].projects, NEW id \in shards[i].projects[p]
        PROVE  id \in {m.id : m \in c.mutants}
    BY <1>6, <1>7
  <2> QED BY <2>2, <2>3, <2>4
<1>11. ASSUME NEW k \in 1 .. N, NEW l \in 1 .. N, NEW p \in DOMAIN shards[k].projects,
              p \in DOMAIN shards[l].projects, k # l, NEW id \in shards[k].projects[p],
              id \in shards[l].projects[p]
       PROVE  FALSE
  <2>1. PICK m \in bins[k].mutants : m.project = p /\ m.id = id
    BY <1>6
  <2>2. PICK n \in bins[l].mutants : n.project = p /\ n.id = id
    BY <1>6, <1>11
  <2>3. m = n
    BY <1>7, <1>8, <2>1, <2>2
  <2> QED BY <1>7, <1>11, <2>1, <2>2, <2>3
<1>12. ASSUME NEW m \in c.mutants
       PROVE  \E i \in 1 .. N :
                /\ {k \in 1 .. N : Holds(shards[k], m)} = {i}
                /\ m.dominators # <<>> /\ ~m.reused =>
                     m.project \in DOMAIN shards[i].projects
                       /\ {m.id, Head(m.dominators)} \subseteq shards[i].projects[m.project]
  <2>1. PICK i \in 1 .. N : m \in bins[i].mutants
    BY <1>7
  <2>2. {k \in 1 .. N : Holds(shards[k], m)} = {i}
    BY <1>7, <1>9, <2>1
  <2>3. ASSUME m.dominators # <<>>, ~m.reused
        PROVE  /\ m.project \in DOMAIN shards[i].projects
               /\ {m.id, Head(m.dominators)} \subseteq shards[i].projects[m.project]
    <3>1. PICK d \in c.mutants : d.project = m.project /\ d.id = Head(m.dominators) /\ d.dominators = <<>>
      BY <2>3 DEF CommandOK
    <3>2. d.id \in DominatorIds(c, d.project)
      <4>1. m.dominators \in Seq(Nat)
        BY CommandFacts
      <4>2. d.id \in Range(m.dominators)
        BY <2>3, <3>1, <4>1 DEF Range
      <4> QED BY <2>3, <3>1, <4>2 DEF DominatorIds
    <3>3. PlacementKey(c, d) = <<1, 0, d.id>> /\ PlacementKey(c, m) = <<1, 0, d.id>>
      BY <2>3, <3>1, <3>2 DEF PlacementKey
    <3>4. d \in bins[i].mutants
      BY <1>7, <2>1, <3>3
    <3>5. Holds(shards[i], d) /\ Holds(shards[i], m)
      BY <1>9, <2>1, <3>4
    <3> QED BY <3>1, <3>5 DEF Holds
  <2> QED BY <2>2, <2>3
<1>13. PlannedOK(c, shards)
  BY <1>5, <1>10, <1>11, <1>12 DEF PlannedOK, N
<1> QED BY <1>13 DEF shards

-----------------------------------------------------------------------------
(* The invariant holds.                                                     *)

\* What the commands of the constants give.
LEMMA CommandsFacts ==
  ASSUME NEW c \in AllCommands
  PROVE  /\ CommandOK(c) /\ ShardCount(c) \in Nat \ {0} /\ ShardCount(c) \in Dirs
         /\ 1 .. ShardCount(c) \subseteq Dirs
         /\ {m.project : m \in c.mutants} \subseteq Projects /\ {m.id : m \in c.mutants} \subseteq Ids
<1>1. CommandOK(c)
  BY ShardsAssumption
<1>2. ShardCount(c) \in Nat \ {0}
  BY <1>1, ShardCountOK
<1>3. 1 .. ShardCount(c) \subseteq Dirs
  BY DEF Dirs
<1>4. ShardCount(c) \in Dirs
  BY <1>2, <1>3
<1>5. {m.project : m \in c.mutants} \subseteq Projects /\ {m.id : m \in c.mutants} \subseteq Ids
  <2>1. \A m \in c.mutants : m.project \in DOMAIN c.dry
    BY <1>1, CommandFacts
  <2> QED BY <2>1 DEF Projects, Ids
<1> QED BY <1>1, <1>2, <1>3, <1>4, <1>5

\* What the merge reads of the plan and the directories.
LEMMA SameMerge ==
  ASSUME UNCHANGED <<plan, stream, part>>, NEW m
  PROVE  IsMerge(m) <=> IsMerge(m)'
<1>1. \A dirs : Entries(dirs) = Entries(dirs)'
  BY DEF Entries
<1>2. \A dirs, i, p : Reported(dirs, i, p) = Reported(dirs, i, p)'
  BY DEF Reported
<1>3. \A dirs : Overlaps(dirs) <=> Overlaps(dirs)'
  BY <1>1, <1>2 DEF Overlaps
<1>4. \A dirs : Gaps(dirs) <=> Gaps(dirs)'
  BY <1>2 DEF Gaps
<1>5. \A dirs : Refused(dirs) <=> Refused(dirs)'
  BY <1>3, <1>4 DEF Refused
<1>6. \A dirs : MergedReport(dirs) = MergedReport(dirs)'
  BY <1>1, <1>2 DEF MergedReport
<1>7. \A dirs, p : PartsOf(dirs, p) = PartsOf(dirs, p)'
  BY <1>1 DEF PartsOf
<1> QED BY <1>5, <1>6, <1>7 DEF IsMerge

\* The run of a shard and what it leaves.
LEMMA SameRun ==
  ASSUME UNCHANGED <<inputs, plan, stream, part>>, NEW k
  PROVE  /\ \A p : Done(k, p) => Done(k, p)'
         /\ proc'[k] = proc[k] /\ ProcOK(k) => ProcOK(k)'
<1>1. \A p : Done(k, p) => Done(k, p)'
  BY DEF Done, Rows
<1>2. ASSUME proc'[k] = proc[k], ProcOK(k) PROVE ProcOK(k)'
  <2>1. \A p : ChildOK(k, p) => ChildOK(k, p)'
    BY <1>2 DEF ChildOK, Rows
  <2>2. (proc[k].child # None => proc[k].todo # <<>> /\ ChildOK(k, Head(proc[k].todo)))'
    BY <1>2, <2>1, Zenon DEF ProcOK
  <2>3. proc'[k].planned =>
          /\ k \in DOMAIN plan' /\ proc'[k].count = Len(plan')
          /\ Range(proc'[k].todo) \subseteq DOMAIN plan'[k].projects
          /\ \A p \in DOMAIN plan'[k].projects : p \in Range(proc'[k].todo) \/ Done(k, p)'
    BY <1>1, <1>2, Zenon DEF ProcOK
  <2> QED BY <2>2, <2>3 DEF ProcOK
<1> QED BY <1>1, <1>2

\* A plan is made.
LEMMA PlanShardsOK ==
  ASSUME IInv, plans < Len(Commands), NEW c \in Commands[plans + 1], PlanShards(c)
  PROVE  IInv'
<1>1. /\ command' = c /\ plans' = plans + 1
      /\ UNCHANGED <<inputs, plan, proc, completed, stream, part, cached, merged, starts, lost>>
  BY DEF PlanShards
<1>2. /\ TypeOK /\ PlanOK /\ MergedOK
      /\ \A k \in Dirs : proc[k] # None => ProcOK(k)
      /\ \A k \in completed : proc[k] = None /\ \A p \in DOMAIN plan[k].projects : Done(k, p)
  BY DEF IInv
<1>3. plans \in 0 .. Len(Commands) /\ Commands \in Seq(SUBSET AllCommands) /\ Len(Commands) \in Nat
  BY <1>2, ShardsAssumption DEF TypeOK
<1>4. c \in AllCommands /\ plans + 1 \in 0 .. Len(Commands)
  <2>1. plans + 1 \in DOMAIN Commands
    BY <1>3
  <2>2. Commands[plans + 1] \in SUBSET AllCommands
    BY <1>3, <2>1
  <2> QED BY <1>3, <2>1, <2>2
<1>5. TypeOK'
  BY <1>1, <1>2, <1>4 DEF TypeOK
<1>6. PlanOK'
  BY <1>1, <1>2 DEF PlanOK, Disjoint
<1>7. \A k \in Dirs : proc'[k] # None => ProcOK(k)'
  BY <1>1, <1>2, SameRun
<1>8. \A k \in completed' : proc'[k] = None /\ \A p \in DOMAIN plan'[k].projects : Done(k, p)'
  BY <1>1, <1>2, SameRun
<1>9. MergedOK'
  BY <1>1, <1>2, SameMerge DEF MergedOK
<1> QED BY <1>5, <1>6, <1>7, <1>8, <1>9 DEF IInv

\* A plan file is written.
LEMMA WritePlanOK ==
  ASSUME IInv, WritePlan
  PROVE  IInv'
<1>1. PICK c, shards : c = command /\ shards = PlannedShards(c)
  OBVIOUS
<1>2. c \in AllCommands
  BY <1>1 DEF WritePlan, IInv, TypeOK
<1>3. plan' = shards
  BY <1>1, <1>2 DEF WritePlan, Plans
<1>4. PlannedOK(c, shards)
  BY <1>1, <1>2, CommandsFacts, PlannedShardsOK
<1>5. /\ command' = None /\ inputs' \in Inputs /\ completed' = {} /\ merged' = None
      /\ UNCHANGED <<part, cached, plans, starts, lost>>
  BY DEF WritePlan
<1>7. /\ proc' \in [Dirs -> Procs \cup {None}]
      /\ \A k \in Dirs : proc'[k] # None =>
           /\ proc[k] # None /\ proc'[k].planned = FALSE /\ proc'[k].child = proc[k].child
           /\ proc'[k].todo = proc[k].todo
  <2>1. \A r \in Procs : LET run == [r EXCEPT !.planned = FALSE]
                         IN  run \in Procs /\ run.planned = FALSE /\ run.child = r.child /\ run.todo = r.todo
    BY DEF Procs
  <2>2. proc' = [k \in Dirs |-> IF proc[k] = None THEN None ELSE [proc[k] EXCEPT !.planned = FALSE]]
    BY DEF WritePlan
  <2> QED BY <2>1, <2>2, Facts
<1>8. /\ stream' \in [Dirs -> [Projects -> Streams \cup {None}]]
      /\ \A k \in Dirs : \A p \in Projects :
           /\ stream[k][p] # None => stream'[k][p] # None /\ stream'[k][p].ids = stream[k][p].ids
           /\ stream'[k][p] # None => ~stream'[k][p].fresh
  <2>1. \A x \in Streams : LET y == [x EXCEPT !.fresh = FALSE]
                           IN  y \in Streams /\ y.ids = x.ids /\ y.fresh = FALSE
    BY DEF Streams
  <2>2. \A k \in Dirs : \A p \in Projects : stream[k][p] \in Streams \cup {None}
    BY Facts
  <2>3. stream' = [k \in Dirs |-> [p \in Projects |->
          IF stream[k][p] = None THEN None ELSE [stream[k][p] EXCEPT !.fresh = FALSE]]]
    BY DEF WritePlan
  <2>4. \A k \in Dirs : \A p \in Projects :
          stream'[k][p] = IF stream[k][p] = None THEN None ELSE [stream[k][p] EXCEPT !.fresh = FALSE]
    BY <2>3
  <2> QED BY <2>1, <2>2, <2>3, <2>4, NoneAssumption
<1>9. PlanOK'
  <2>1. /\ Len(shards) \in Nat \ {0} /\ DOMAIN shards = 1 .. Len(shards) /\ DOMAIN shards \subseteq Dirs
        /\ Len(shards) \in Dirs
    BY <1>2, <1>4, CommandsFacts DEF PlannedOK
  <2>2. \A i \in DOMAIN shards : DOMAIN shards[i].projects \subseteq Nat
    <3>1. {m.project : m \in c.mutants} \subseteq Nat
      BY <1>2, CommandsFacts, CommandFacts
    <3> QED BY <1>4, <3>1 DEF PlannedOK
  <2> QED BY <1>3, <1>4, <2>1, <2>2 DEF PlanOK, Disjoint, PlannedOK
<1>10. TypeOK'
  <2>1. /\ \A i \in DOMAIN shards :
             /\ DOMAIN shards[i].projects \subseteq Projects
             /\ \A p \in DOMAIN shards[i].projects : shards[i].projects[p] \subseteq Ids
    BY <1>2, <1>4, CommandsFacts DEF PlannedOK
  <2>2. TypeOK
    BY DEF IInv
  <2> QED BY <1>3, <1>5, <1>7, <1>8, <2>1, <2>2 DEF TypeOK
<1>11. ASSUME NEW k \in Dirs, proc'[k] # None
       PROVE  ProcOK(k)'
  <2>1. /\ proc[k] # None /\ proc'[k].planned = FALSE /\ proc'[k].child = proc[k].child
        /\ proc'[k].todo = proc[k].todo
    BY <1>7, <1>11
  <2>2. CASE proc[k].child = None
    BY <2>1, <2>2 DEF ProcOK
  <2>3. CASE proc[k].child # None
    <3>1. PICK p : p = Head(proc[k].todo)
      OBVIOUS
    <3>2. p \in Projects /\ ChildOK(k, p) /\ proc[k].todo # <<>>
      BY <2>1, <2>3, <3>1, RunFacts DEF ProcOK
    <3>3. ChildOK(k, p)'
      BY <1>8, <2>1, <3>2 DEF ChildOK
    <3> QED BY <2>1, <2>3, <3>1, <3>2, <3>3 DEF ProcOK
  <2> QED BY <2>2, <2>3
<1>12. MergedOK'
  BY <1>5 DEF MergedOK
<1> QED BY <1>5, <1>9, <1>10, <1>11, <1>12 DEF IInv

\* A shard is started on what its plan file says.
LEMMA StartOK ==
  ASSUME IInv, NEW k \in Dirs, Start(k)
  PROVE  IInv'
<1>1. PICK todo : todo = InNumberOrder(DOMAIN plan[k].projects)
  OBVIOUS
<1>2. PICK run : run = [todo |-> todo, count |-> Len(plan), child |-> None, planned |-> TRUE]
  OBVIOUS
<1>3. /\ k \in DOMAIN plan /\ starts < MaxStarts /\ starts' = starts + 1
      /\ proc' = [proc EXCEPT ![k] = run] /\ completed' = completed \ {k} /\ merged' = None
      /\ UNCHANGED <<inputs, command, plan, stream, part, cached, plans, lost>>
  BY <1>1, <1>2 DEF Start
<1>4. /\ IsFiniteSet(DOMAIN plan[k].projects) /\ DOMAIN plan[k].projects \subseteq Projects
      /\ DOMAIN plan[k].projects \subseteq Nat /\ Len(plan) \in Dirs
  BY <1>3 DEF IInv, PlanOK, TypeOK
<1>5. todo \in Seq(Projects) /\ Range(todo) = DOMAIN plan[k].projects
  <2>2. PICK numbers \in SUBSET Nat : numbers = DOMAIN plan[k].projects /\ IsFiniteSet(numbers) /\ numbers \subseteq Projects
    BY <1>4
  <2>3. InNumberOrder(numbers) \in Seq(numbers) /\ Range(InNumberOrder(numbers)) = numbers
    BY <2>2, InNumberOrderOK
  <2>4. todo \in Seq(numbers)
    BY <1>1, <2>2, <2>3
  <2> QED BY <1>1, <2>2, <2>3, <2>4
<1>6. run \in Procs /\ run.todo = todo /\ run.count = Len(plan) /\ run.child = None /\ run.planned = TRUE
  BY <1>2, <1>4, <1>5 DEF Procs
<1>7. proc' \in [Dirs -> Procs \cup {None}] /\ proc'[k] = run /\ \A l \in Dirs \ {k} : proc'[l] = proc[l]
  BY <1>3, <1>6, Facts, ProcSet
<1>8. TypeOK'
  <2>1. TypeOK /\ MaxStarts \in Nat
    BY ShardsAssumption DEF IInv
  <2>2. starts' \in 0 .. MaxStarts
    BY <1>3, <2>1 DEF TypeOK
  <2> QED BY <1>3, <1>7, <2>1, <2>2 DEF TypeOK
<1>9. PlanOK'
  BY <1>3 DEF IInv, PlanOK, Disjoint
<1>10. ASSUME NEW l \in Dirs, proc'[l] # None
       PROVE  ProcOK(l)'
  <2>1. CASE l = k
    BY <1>3, <1>5, <1>6, <1>7, <2>1 DEF ProcOK
  <2>2. CASE l # k
    <3>1. proc'[l] = proc[l] /\ ProcOK(l)
      BY <1>7, <1>10, <2>2, Facts
    <3> QED BY <1>3, <3>1, SameRun
  <2> QED BY <2>1, <2>2
<1>11. ASSUME NEW l \in completed'
       PROVE  proc'[l] = None /\ \A p \in DOMAIN plan'[l].projects : Done(l, p)'
  <2>1. l \in completed /\ l # k /\ l \in Dirs
    BY <1>3, <1>11, Facts
  <2>2. proc[l] = None /\ \A p \in DOMAIN plan[l].projects : Done(l, p)
    BY <2>1 DEF IInv
  <2> QED BY <1>3, <1>7, <2>1, <2>2, SameRun
<1>12. MergedOK'
  BY <1>3 DEF MergedOK
<1> QED BY <1>8, <1>9, <1>10, <1>11, <1>12 DEF IInv

\* A merge reads what the shards have written.
LEMMA MergeOK ==
  ASSUME IInv, plan # <<>>, \A k \in Dirs : proc[k] = None, NEW dirs, Merge(dirs)
  PROVE  IInv'
<1>1. PICK m :
        m = [dirs |-> dirs, report |-> MergedReport(dirs),
             incremental |-> [p \in {q \in Projects : PartsOf(dirs, q) # <<>>} |-> Union(PartsOf(dirs, p))]]
  OBVIOUS
<1>2. /\ merged' = m /\ ~Refused(dirs)
      /\ UNCHANGED <<inputs, command, plan, proc, completed, stream, part, cached, plans, starts, lost>>
  BY <1>1 DEF Merge
<1>3. IsMerge(m)
  BY <1>1, <1>2 DEF IsMerge
<1>4. MergedOK'
  BY <1>2, <1>3, SameMerge DEF MergedOK
<1>5. TypeOK' /\ PlanOK'
  BY <1>2 DEF IInv, TypeOK, PlanOK, Disjoint
<1>6. \A k \in Dirs : proc'[k] # None => ProcOK(k)'
  BY <1>2
<1>7. \A k \in completed' : proc'[k] = None /\ \A p \in DOMAIN plan'[k].projects : Done(k, p)'
  <2>1. \A k \in completed : proc[k] = None /\ \A p \in DOMAIN plan[k].projects : Done(k, p)
    BY DEF IInv
  <2> QED BY <1>2, <2>1, SameRun
<1> QED BY <1>4, <1>5, <1>6, <1>7 DEF IInv

\* Nothing happens.
LEMMA StutterOK ==
  ASSUME IInv, UNCHANGED vars
  PROVE  IInv'
<1>1. UNCHANGED <<inputs, command, plan, proc, completed, stream, part, cached, merged, plans, starts, lost>>
  BY DEF vars
<1>2. TypeOK' /\ PlanOK'
  BY <1>1 DEF IInv, TypeOK, PlanOK, Disjoint
<1>3. MergedOK'
  BY <1>1, SameMerge DEF IInv, MergedOK
<1>4. \A k \in Dirs : proc'[k] # None => ProcOK(k)'
  BY <1>1, SameRun DEF IInv
<1>5. \A k \in completed' : proc'[k] = None /\ \A p \in DOMAIN plan'[k].projects : Done(k, p)'
  <2>1. \A k \in completed : proc[k] = None /\ \A p \in DOMAIN plan[k].projects : Done(k, p)
    BY DEF IInv
  <2> QED BY <1>1, <2>1, SameRun
<1> QED BY <1>2, <1>3, <1>4, <1>5 DEF IInv

\* There is no plan and no report.
LEMMA InitIInv == Init => IInv
<1> SUFFICES ASSUME Init PROVE IInv
  OBVIOUS
<1>1. TypeOK
  <2>1. \A i \in Inputs : [inputs |-> i, rows |-> [id \in Ids |-> i]] \in Parts
    BY DEF Parts
  <2>2. cached \in [Projects -> Parts \cup {None}]
    BY <2>1 DEF Init
  <2>3. /\ Len(Commands) \in Nat /\ MaxStarts \in Nat /\ MaxLost \in Nat
    BY ShardsAssumption
  <2>4. \A k : k \notin DOMAIN <<>>
    OBVIOUS
  <2> QED BY <2>2, <2>3, <2>4 DEF Init, TypeOK
<1>2. PlanOK
  BY DEF Init, PlanOK, Disjoint
<1>3. MergedOK
  BY DEF Init, MergedOK
<1>4. \A k \in Dirs : proc[k] = None
  BY DEF Init
<1>5. completed = {}
  BY DEF Init
<1> QED BY <1>1, <1>2, <1>3, <1>4, <1>5 DEF IInv

\* Every step keeps the invariant.
LEMMA NextIInv == IInv /\ [Next]_vars => IInv'
<1> SUFFICES ASSUME IInv, [Next]_vars PROVE IInv'
  OBVIOUS
<1>1. ASSUME plans < Len(Commands), NEW c \in Commands[plans + 1], PlanShards(c) PROVE IInv'
  BY <1>1, PlanShardsOK
<1>2. CASE WritePlan
  BY <1>2, WritePlanOK
<1>3. ASSUME NEW k \in Dirs, Start(k) PROVE IInv'
  BY <1>3, StartOK
<1>4. ASSUME NEW k \in Dirs, Spawn(k) PROVE IInv'
  BY <1>4, SpawnOK
<1>5. ASSUME NEW k \in Dirs, Open(k) PROVE IInv'
  BY <1>5, OpenOK
<1>6. ASSUME NEW k \in Dirs, Checkpoint(k) PROVE IInv'
  BY <1>6, CheckpointOK
<1>7. ASSUME NEW k \in Dirs, Report(k) PROVE IInv'
  BY <1>7, ReportOK
<1>8. ASSUME NEW k \in Dirs, ChildCompletes(k) PROVE IInv'
  BY <1>8, ChildCompletesOK
<1>9. ASSUME NEW k \in Dirs, ShardFails(k) \/ ShardEnds(k) PROVE IInv'
  BY <1>9, EndsOK
<1>10. ASSUME NEW k \in Dirs, NEW id \in Ids, Verdict(k, id) PROVE IInv'
  BY <1>10, VerdictOK
<1>11. ASSUME plan # <<>>, \A k \in Dirs : proc[k] = None, NEW dirs \in Directories, Merge(dirs) PROVE IInv'
  BY <1>11, MergeOK
<1>12. CASE UNCHANGED vars
  BY <1>12, StutterOK
<1> QED BY <1>1, <1>2, <1>3, <1>4, <1>5, <1>6, <1>7, <1>8, <1>9, <1>10, <1>11, <1>12 DEF Next

\* Every state is one of a plan that splits the mutants of its command, of runs
\* that have written what they settled, and of completed shards that are done.
THEOREM Inductive == Spec => []IInv
BY InitIInv, NextIInv, PTL DEF Spec

\* Every variable stays in its type.
THEOREM TypeCorrect == Spec => []TypeOK
<1>1. IInv => TypeOK
  BY DEF IInv
<1> QED BY <1>1, Inductive, PTL

-----------------------------------------------------------------------------
(* The properties.                                                          *)

\* The plan that is written has every mutant of the command in exactly one shard,
\* one that is run again with its first dominator, and no more shards than asked for.
LEMMA PlannedFacts ==
  ASSUME NEW c, CommandOK(c), NEW shards, PlannedOK(c, shards)
  PROVE  /\ c.max > 0 => Len(shards) <= c.max
         /\ \A m \in c.mutants :
              /\ Cardinality({k \in DOMAIN shards :
                    m.project \in DOMAIN shards[k].projects
                      /\ m.id \in shards[k].projects[m.project]}) = 1
              /\ m.dominators # <<>> /\ ~m.reused =>
                   \E k \in DOMAIN shards :
                     /\ m.project \in DOMAIN shards[k].projects
                     /\ {m.id, Head(m.dominators)} \subseteq shards[k].projects[m.project]
<1>1. c.max > 0 => Len(shards) <= c.max
  BY ShardCountOK DEF PlannedOK
<1>2. ASSUME NEW m \in c.mutants
      PROVE  /\ Cardinality({k \in DOMAIN shards :
                    m.project \in DOMAIN shards[k].projects
                      /\ m.id \in shards[k].projects[m.project]}) = 1
             /\ m.dominators # <<>> /\ ~m.reused =>
                   \E k \in DOMAIN shards :
                     /\ m.project \in DOMAIN shards[k].projects
                     /\ {m.id, Head(m.dominators)} \subseteq shards[k].projects[m.project]
  <2>1. PICK i \in DOMAIN shards :
          /\ {k \in DOMAIN shards : Holds(shards[k], m)} = {i}
          /\ m.dominators # <<>> /\ ~m.reused =>
               m.project \in DOMAIN shards[i].projects
                 /\ {m.id, Head(m.dominators)} \subseteq shards[i].projects[m.project]
    BY DEF PlannedOK
  <2>2. Cardinality({k \in DOMAIN shards : Holds(shards[k], m)}) = 1
    BY <2>1, FS_Singleton
  <2> QED BY <2>1, <2>2 DEF Holds
<1> QED BY <1>1, <1>2

\* Only WritePlan is done with a command.
LEMMA OnlyWritePlan ==
  ASSUME [Next]_vars, PlanWritten
  PROVE  WritePlan
<1>1. command # None /\ command' # command
  BY DEF PlanWritten
<1>2. ~UNCHANGED vars
  BY <1>1 DEF vars
<1>3. \A c : ~PlanShards(c)
  BY <1>1 DEF PlanShards
<1>4. \A k : ~Start(k) /\ ~Spawn(k) /\ ~Open(k) /\ ~Checkpoint(k) /\ ~Report(k)
  BY <1>1 DEF Start, Spawn, Open, Checkpoint, Report
<1>5. \A k : ~ChildCompletes(k) /\ ~ShardFails(k) /\ ~ShardEnds(k) /\ \A id : ~Verdict(k, id)
  BY <1>1 DEF ChildCompletes, ShardFails, ShardEnds, Verdict
<1>6. \A dirs : ~Merge(dirs)
  BY <1>1 DEF Merge
<1> QED BY <1>2, <1>3, <1>4, <1>5, <1>6 DEF Next

\* A plan has every mutant in exactly one shard, one that is subsumed and whose
\* verdict is not reused in the shard of its first dominator, and no more shards
\* than the command allows (plan-shards.workflow.ts).
THEOREM PlansAreWhole == Spec => PlannedOnce
<1>1. ASSUME IInv, [Next]_vars, PlanWritten
      PROVE  /\ command.max > 0 => Len(plan') <= command.max
             /\ \A m \in command.mutants :
                  /\ Cardinality({k \in DOMAIN plan' :
                        m.project \in DOMAIN plan'[k].projects
                          /\ m.id \in plan'[k].projects[m.project]}) = 1
                  /\ m.dominators # <<>> /\ ~m.reused =>
                       \E k \in DOMAIN plan' :
                         /\ m.project \in DOMAIN plan'[k].projects
                         /\ {m.id, Head(m.dominators)} \subseteq plan'[k].projects[m.project]
  <2>1. WritePlan
    BY <1>1, OnlyWritePlan
  <2>2. PICK c, shards : c = command /\ shards = PlannedShards(c)
    OBVIOUS
  <2>3. c \in AllCommands /\ plan' = shards
    BY <1>1, <2>1, <2>2 DEF WritePlan, Plans, IInv, TypeOK
  <2>4. CommandOK(c) /\ PlannedOK(c, shards)
    BY <2>2, <2>3, CommandsFacts, PlannedShardsOK
  <2> HIDE DEF PlannedOK
  <2> QED BY <2>2, <2>3, <2>4, PlannedFacts
<1> QED BY <1>1, Inductive, PTL DEF Spec, PlannedOnce

\* What a planned shard holds and is predicted to take is what its bin does.
LEMMA PlannedShardIs ==
  ASSUME NEW c, CommandOK(c), NEW k \in 1 .. ShardCount(c)
  PROVE  /\ PlannedShards(c)[k].predicted = WithRest(c)[k].load
         /\ HeldBy(PlannedShards(c)[k], c) = WithRest(c)[k].mutants
<1>1. PICK bins, mutants, shard : bins = WithRest(c) /\ mutants = bins[k].mutants /\ shard = PlannedShards(c)[k]
  OBVIOUS
<1>2. bins \in [1 .. ShardCount(c) -> Bins] /\ mutants \in SUBSET c.mutants
  BY <1>1, AllPlaced DEF PlacedOK
<1>3. shard = [predicted |-> bins[k].load,
               projects |-> [p \in {m.project : m \in mutants} |-> MutantsOf(mutants, p)]]
  BY <1>1, <1>2 DEF PlannedShards
<1>4. /\ DOMAIN shard.projects = {m.project : m \in mutants}
      /\ \A p \in DOMAIN shard.projects :
           \A id : id \in shard.projects[p] <=> \E m \in mutants : m.project = p /\ m.id = id
  BY <1>3 DEF MutantsOf
<1>5. \A m, n \in c.mutants : m.project = n.project /\ m.id = n.id => m = n
  BY DEF CommandOK
<1>6. HeldBy(shard, c) = mutants
  BY <1>2, <1>4, <1>5 DEF HeldBy
<1> QED BY <1>1, <1>3, <1>6

\* The mutants of a group that need an initial test run are of the project the
\* group counts as: no two projects have a dominator of the same id.
OfTheirProject(c) == \A g \in GroupsOf(c) : \A m \in g.mutants : m.dep => m.project = ProjectOf(g)

\* Every dry run a shard needs is among those it is charged for.
LEMMA NeededAreCharged ==
  ASSUME NEW c, CommandOK(c), OfTheirProject(c), NEW k \in 1 .. ShardCount(c),
         NEW m \in WithRest(c)[k].mutants, m.dep
  PROVE  m.project \in ChargedTo(Reserved(c), k)
<1>1. m \in c.mutants /\ DOMAIN Reserved(c).indices = DependentProjects(c)
  BY AllPlaced, ReservedAreOK DEF PlacedOK, ChargedOK
<1>2. PICK g : g = [key |-> PlacementKey(c, m), mutants |-> {n \in c.mutants : PlacementKey(c, n) = PlacementKey(c, m)}]
  OBVIOUS
<1>3. g \in GroupsOf(c) /\ m \in g.mutants
  BY <1>1, <1>2 DEF GroupsOf
<1>4. Depends(g) /\ ProjectOf(g) = m.project
  BY <1>3 DEF Depends, OfTheirProject
<1>5. k \in Range(PlacesIn(Reserved(c), g))
  <2>1. Priced(c, ShardCount(c), WithRest(c))
    BY AllPlaced
  <2> QED BY <1>3, <1>4, <2>1 DEF Priced
<1>6. m.project \in DependentProjects(c)
  BY <1>1 DEF DependentProjects
<1>7. PlacesIn(Reserved(c), g) = Reserved(c).indices[m.project]
  BY <1>1, <1>4, <1>6 DEF PlacesIn
<1> QED BY <1>1, <1>5, <1>6, <1>7 DEF ChargedTo

\* A planned shard is predicted to take no less than it needs.
LEMMA PlannedShardsPriced ==
  ASSUME NEW c, CommandOK(c), OfTheirProject(c), NEW k \in 1 .. ShardCount(c)
  PROVE  LET held == HeldBy(PlannedShards(c)[k], c)
         IN  PlannedShards(c)[k].predicted >=
               Cost(held) + DryRuns(c, {m.project : m \in {n \in held : n.dep}})
<1>1. PICK held, charged, needed :
        /\ held = WithRest(c)[k].mutants /\ charged = ChargedTo(Reserved(c), k)
        /\ needed = {m.project : m \in {n \in held : n.dep}}
  OBVIOUS
<1>2. /\ PlannedShards(c)[k].predicted = WithRest(c)[k].load
      /\ HeldBy(PlannedShards(c)[k], c) = held
  BY <1>1, PlannedShardIs
<1>3. WithRest(c)[k].load = DryRuns(c, charged) + Cost(held)
  <2>1. WithRest(c)[k].load = Reserved(c).bins[k].load + Cost(held)
    BY <1>1, AllPlaced DEF Priced
  <2>2. Reserved(c).bins[k].load = DryRuns(c, charged)
    BY <1>1, ReservedAreOK DEF ChargedOK
  <2> QED BY <2>1, <2>2
<1>4. charged \in SUBSET DependentProjects(c)
  BY <1>1, ReservedAreOK DEF ChargedTo, ChargedOK
<1>5. needed \subseteq charged
  BY <1>1, NeededAreCharged
<1>6. needed \in SUBSET DependentProjects(c)
  BY <1>4, <1>5
<1>7. DryRuns(c, needed) <= DryRuns(c, charged) /\ DryRuns(c, needed) \in Nat /\ DryRuns(c, charged) \in Nat
  BY <1>4, <1>5, <1>6, DryRunsOK
<1>8. Cost(held) \in Nat
  <2>1. held \in SUBSET c.mutants
    BY <1>1, AllPlaced DEF PlacedOK
  <2> QED BY <2>1, CommandFacts
<1>9. PlannedShards(c)[k].predicted >= Cost(held) + DryRuns(c, needed)
  BY <1>2, <1>3, <1>7, <1>8
<1> QED BY <1>1, <1>2, <1>9

\* What a shard of the plan is predicted to take covers its mutants and the initial
\* test run of every project with a mutant there that needs it, for commands in
\* which no group of mutants needs those of two projects (plan-shards.workflow.ts).
THEOREM DryRunsArePriced ==
  ASSUME \A c \in AllCommands : OfTheirProject(c)
  PROVE  Spec => DryRunsPriced
<1>1. ASSUME IInv, [Next]_vars, PlanWritten, NEW k \in DOMAIN plan'
      PROVE  LET held == HeldBy(plan'[k], command)
             IN  plan'[k].predicted >=
                   Cost(held) + SumFunction([p \in {m.project : m \in {n \in held : n.dep}} |->
                                               command.dry[p]])
  <2>1. WritePlan
    BY <1>1, OnlyWritePlan
  <2>2. PICK c, shards : c = command /\ shards = PlannedShards(c)
    OBVIOUS
  <2>3. c \in AllCommands /\ plan' = shards
    BY <1>1, <2>1, <2>2 DEF WritePlan, Plans, IInv, TypeOK
  <2>4. CommandOK(c) /\ DOMAIN shards = 1 .. ShardCount(c) /\ OfTheirProject(c)
    BY <2>2, <2>3, CommandsFacts, PlannedShardsOK DEF PlannedOK
  <2>5. LET held == HeldBy(shards[k], c)
        IN  shards[k].predicted >= Cost(held) + DryRuns(c, {m.project : m \in {n \in held : n.dep}})
    BY <1>1, <2>2, <2>3, <2>4, PlannedShardsPriced
  <2> QED BY <2>2, <2>3, <2>5 DEF DryRuns
<1>2. IInv /\ [Next]_vars =>
        (PlanWritten =>
           \A k \in DOMAIN plan' :
             LET held == HeldBy(plan'[k], command)
             IN  plan'[k].predicted >=
                   Cost(held) + SumFunction([p \in {m.project : m \in {n \in held : n.dep}} |->
                                               command.dry[p]]))
  BY <1>1
<1> QED BY <1>2, Inductive, PTL DEF Spec, DryRunsPriced

\* Every project of every shard is among the entries that are merged.
LEMMA EntriesAre ==
  ASSUME NEW dirs, NEW i \in DOMAIN dirs, NEW p \in DOMAIN plan[i].projects
  PROVE  \E e \in Entries(dirs) : e[1] = i /\ e[2] = p
<1>1. <<i, p>> \in {i} \X DOMAIN plan[i].projects
  OBVIOUS
<1>2. <<i, p>> \in Entries(dirs)
  BY <1>1 DEF Entries
<1> QED BY <1>2

\* Every row reported is in the merged report.
LEMMA RowMerged ==
  ASSUME NEW dirs, NEW e \in Entries(dirs), NEW id \in Reported(dirs, e[1], e[2])
  PROVE  [project |-> e[2], id |-> id, dir |-> dirs[e[1]]] \in MergedReport(dirs)
BY DEF MergedReport

\* A merge that is not refused has the verdicts of the shard of a mutant, and no others.
LEMMA MergeHasAll ==
  ASSUME NEW m, IsMerge(m), NEW k \in DOMAIN plan, NEW p \in DOMAIN plan[k].projects,
         NEW id \in plan[k].projects[p]
  PROVE  /\ k \in DOMAIN m.dirs
         /\ {r \in m.report : r.project = p /\ r.id = id} = {[project |-> p, id |-> id, dir |-> m.dirs[k]]}
<1>1. PICK dirs, report : dirs = m.dirs /\ report = m.report
  OBVIOUS
<1>2. ~Overlaps(dirs) /\ ~Gaps(dirs) /\ report = MergedReport(dirs)
  BY <1>1 DEF IsMerge, Refused
<1>3. k \in DOMAIN dirs /\ id \in Reported(dirs, k, p)
  BY <1>2 DEF Gaps
<1>4. PICK e \in Entries(dirs) : e[1] = k /\ e[2] = p
  BY <1>3, EntriesAre
<1>5. PICK row : row = [project |-> p, id |-> id, dir |-> dirs[k]]
  OBVIOUS
<1>6. row \in report /\ row.project = p /\ row.id = id
  <2>1. id \in Reported(dirs, e[1], e[2]) /\ row = [project |-> e[2], id |-> id, dir |-> dirs[e[1]]]
    BY <1>3, <1>4, <1>5
  <2>2. row \in MergedReport(dirs)
    BY <2>1, RowMerged
  <2> QED BY <1>2, <1>5, <2>2
<1>7. ASSUME NEW r \in report, r.project = p, r.id = id
      PROVE  r = row
  <2>0. PICK f \in Entries(dirs) :
          r \in {[project |-> f[2], id |-> other, dir |-> dirs[f[1]]] : other \in Reported(dirs, f[1], f[2])}
    BY <1>2 DEF MergedReport
  <2>1. PICK other \in Reported(dirs, f[1], f[2]) : r = [project |-> f[2], id |-> other, dir |-> dirs[f[1]]]
    BY <2>0
  <2>2. f[2] = p /\ other = id
    BY <1>7, <2>1
  <2>3. id \in Reported(dirs, e[1], e[2]) /\ id \in Reported(dirs, f[1], f[2])
    BY <1>3, <1>4, <2>1, <2>2
  <2>4. f[1] = k
    BY <1>2, <1>4, <2>2, <2>3 DEF Overlaps
  <2> QED BY <1>5, <2>1, <2>2, <2>4
<1> QED BY <1>1, <1>3, <1>5, <1>6, <1>7

\* A merge has one verdict of every planned mutant, that of the directory given for its shard.
THEOREM MergesAreWhole == Spec => []MergeWhole
<1>1. ASSUME IInv PROVE MergeWhole
  <2>1. ASSUME merged # None, NEW m, m = merged, NEW k \in DOMAIN plan, NEW p \in DOMAIN plan[k].projects,
               NEW id \in plan[k].projects[p]
        PROVE  /\ k \in DOMAIN m.dirs
               /\ {r \in m.report : r.project = p /\ r.id = id}
                    = {[project |-> p, id |-> id, dir |-> m.dirs[k]]}
    <3>1. IsMerge(m)
      BY <1>1, <2>1 DEF IInv, MergedOK
    <3> QED BY <3>1, MergeHasAll
  <2> QED BY <2>1 DEF MergeWhole
<1> QED BY <1>1, Inductive, PTL

\* What a completed shard has left.
LEMMA Completed ==
  ASSUME IInv, completed = DOMAIN plan, NEW k \in DOMAIN plan, NEW p \in DOMAIN plan[k].projects
  PROVE  /\ Done(k, p) /\ p \in Projects /\ plan[k].projects[p] \in SUBSET Ids /\ part[k][p] # None
         /\ part[k][p] = [inputs |-> inputs, rows |-> Rows(k, plan[k].projects[p])]
<1>1. Done(k, p)
  BY DEF IInv
<1>2. p \in Projects /\ plan[k].projects[p] \in SUBSET Ids
  BY Facts
<1>3. part[k][p] = [inputs |-> inputs, rows |-> Rows(k, plan[k].projects[p])]
  BY <1>1 DEF Done
<1>4. [inputs |-> inputs, rows |-> Rows(k, plan[k].projects[p])] \in Parts
  BY <1>2, RowsAreRows
<1>5. part[k][p] # None
  BY <1>3, <1>4, NoneAssumption
<1> QED BY <1>1, <1>2, <1>3, <1>5

\* When every shard has ended well, the merge refuses nothing and holds every mutant.
LEMMA ReadyFacts ==
  ASSUME IInv, AllFresh
  PROVE  /\ ~Refused(InOrder)
         /\ MergedReport(InOrder) =
              UNION {UNION {{[project |-> p, id |-> id, dir |-> k] : id \in plan[k].projects[p]}
                              : p \in DOMAIN plan[k].projects} : k \in DOMAIN plan}
<1>1. PICK dirs : dirs = InOrder
  OBVIOUS
<1>2. DOMAIN dirs = DOMAIN plan /\ \A k \in DOMAIN plan : dirs[k] = k
  BY <1>1 DEF InOrder
<1>3. Len(plan) \in Nat /\ DOMAIN plan = 1 .. Len(plan)
  BY DEF IInv, PlanOK
<1>4. Len(dirs) = Len(plan)
  <2>1. dirs = [k \in 1 .. Len(plan) |-> k]
    BY <1>1, <1>3 DEF InOrder
  <2> QED BY <1>3, <2>1
<1>5. ASSUME NEW k \in DOMAIN plan, NEW p \in DOMAIN plan[k].projects
      PROVE  Reported(dirs, k, p) = plan[k].projects[p]
  <2>1. Done(k, p)
    BY Completed DEF AllFresh
  <2> QED BY <1>2, <2>1 DEF AllFresh, Done, Reported
<1>6. \A e \in Entries(dirs) : e[1] \in DOMAIN plan /\ e[2] \in DOMAIN plan[e[1]].projects
  BY <1>2 DEF Entries
<1>7. ~Gaps(dirs)
  BY <1>2, <1>5 DEF Gaps
<1>8. ~Overlaps(dirs)
  <2>1. Disjoint
    BY DEF IInv, PlanOK
  <2> SUFFICES ASSUME NEW e \in Entries(dirs), NEW f \in Entries(dirs), e[1] # f[1], e[2] = f[2]
               PROVE  Reported(dirs, e[1], e[2]) \cap Reported(dirs, f[1], f[2]) = {}
    BY DEF Overlaps
  <2>2. PICK k, l, p : k = e[1] /\ l = f[1] /\ p = e[2]
    OBVIOUS
  <2>3. /\ k \in DOMAIN plan /\ l \in DOMAIN plan /\ p \in DOMAIN plan[k].projects
        /\ p \in DOMAIN plan[l].projects /\ k # l
    BY <1>6, <2>2
  <2>4. plan[k].projects[p] \cap plan[l].projects[p] = {}
    BY <2>1, <2>3 DEF Disjoint
  <2>5. Reported(dirs, k, p) \cap Reported(dirs, l, p) = {}
    BY <1>5, <2>3, <2>4
  <2> QED BY <2>2, <2>5
<1>9. ~Refused(dirs)
  BY <1>3, <1>4, <1>7, <1>8 DEF Refused
<1> DEFINE Planned == UNION {UNION {{[project |-> p, id |-> id, dir |-> k] : id \in plan[k].projects[p]}
                              : p \in DOMAIN plan[k].projects} : k \in DOMAIN plan}
<1>10. ASSUME NEW r \in MergedReport(dirs) PROVE r \in Planned
  <2>1. PICK e \in Entries(dirs) :
          r \in {[project |-> e[2], id |-> id, dir |-> dirs[e[1]]] : id \in Reported(dirs, e[1], e[2])}
    BY DEF MergedReport
  <2>2. PICK id \in Reported(dirs, e[1], e[2]) : r = [project |-> e[2], id |-> id, dir |-> dirs[e[1]]]
    BY <2>1
  <2>3. PICK k, p : k = e[1] /\ p = e[2]
    OBVIOUS
  <2>4. k \in DOMAIN plan /\ p \in DOMAIN plan[k].projects
    BY <1>6, <2>3
  <2>5. id \in plan[k].projects[p] /\ r = [project |-> p, id |-> id, dir |-> k]
    BY <1>2, <1>5, <2>2, <2>3, <2>4
  <2> QED BY <2>4, <2>5
<1>11. ASSUME NEW r \in Planned PROVE r \in MergedReport(dirs)
  <2>1. PICK k \in DOMAIN plan : \E p \in DOMAIN plan[k].projects : \E id \in plan[k].projects[p] :
          r = [project |-> p, id |-> id, dir |-> k]
    OBVIOUS
  <2>2. PICK p \in DOMAIN plan[k].projects : \E id \in plan[k].projects[p] :
          r = [project |-> p, id |-> id, dir |-> k]
    BY <2>1
  <2>3. PICK id \in plan[k].projects[p] : r = [project |-> p, id |-> id, dir |-> k]
    BY <2>2
  <2>4. PICK e \in Entries(dirs) : e[1] = k /\ e[2] = p
    BY <1>2, EntriesAre
  <2>5. id \in Reported(dirs, e[1], e[2]) /\ r = [project |-> e[2], id |-> id, dir |-> dirs[e[1]]]
    BY <1>2, <1>5, <2>3, <2>4
  <2> QED BY <2>4, <2>5, RowMerged
<1>12. MergedReport(dirs) = Planned
  BY <1>10, <1>11
<1> QED BY <1>1, <1>9, <1>12

\* The directories of completed shards with their streams merge.
THEOREM CompletedShardsMerge == Spec => []MergeReady
<1>1. IInv => MergeReady
  BY ReadyFacts DEF MergeReady
<1> QED BY <1>1, Inductive, PTL

\* The last of some positions is one of them.
LEMMA GreatestNumber ==
  ASSUME NEW n \in Nat, NEW S \in SUBSET (1 .. n), S # {}
  PROVE  Max(S) \in S
<1> DEFINE T == {n - i : i \in S}
<1>1. T \in SUBSET Nat /\ T # {}
  <2>1. \A i \in 1 .. n : n - i \in Nat
    OBVIOUS
  <2> QED BY <2>1
<1>2. PICK j \in T : \A k \in T : j <= k
  BY <1>1, LeastNumber
<1>3. PICK i \in S : j = n - i
  BY <1>2
<1>4. \A k \in S : k <= i
  BY <1>2, <1>3, SMTT(20)
<1>5. \E x \in S : \A y \in S : x >= y
  BY <1>3, <1>4
<1> QED BY <1>5 DEF Max

\* The union of reports of one checkout is one of it, with the rows of each.
LEMMA UnionFacts ==
  ASSUME NEW checkout \in Inputs, NEW parts, NEW n \in Nat \ {0}, DOMAIN parts = 1 .. n,
         \A i \in 1 .. n : parts[i].inputs = checkout /\ parts[i].rows \in [Ids -> {checkout, None}]
  PROVE  /\ Union(parts).inputs = checkout
         /\ \A id \in Ids : Union(parts).rows[id] \in {checkout, None}
         /\ \A id \in Ids : (\E i \in 1 .. n : parts[i].rows[id] = checkout) => Union(parts).rows[id] = checkout
<1>1. Head(parts) = parts[1] /\ 1 \in 1 .. n
  OBVIOUS
<1>2. Union(parts).inputs = checkout
  BY <1>1 DEF Union
<1>3. ASSUME NEW id \in Ids
      PROVE  /\ Union(parts).rows[id] \in {checkout, None}
             /\ (\E i \in 1 .. n : parts[i].rows[id] = checkout) => Union(parts).rows[id] = checkout
  <2> DEFINE having == {i \in 1 .. n : parts[i].rows[id] # None}
  <2>1. Union(parts).rows[id] = IF having = {} THEN None ELSE parts[Max(having)].rows[id]
    BY DEF Union
  <2>2. having \in SUBSET (1 .. n)
    OBVIOUS
  <2>3. \A i \in 1 .. n : parts[i].rows[id] \in {checkout, None}
    OBVIOUS
  <2>4. checkout # None
    BY ShardsAssumption
  <2>5. (\E i \in 1 .. n : parts[i].rows[id] = checkout) => having # {}
    BY <2>4
  <2>6. having # {} => Max(having) \in having
    <3> HIDE DEF having
    <3> QED BY <2>2, GreatestNumber
  <2>7. having # {} => parts[Max(having)].rows[id] = checkout
    BY <2>3, <2>6
  <2> HIDE DEF having
  <2> QED BY <2>1, <2>5, <2>7
<1> QED BY <1>2, <1>3

\* When every shard has completed, every project has parts, of one checkout, and each
\* of its mutants is in one.
LEMMA PartsOfCompleted ==
  ASSUME IInv, completed = DOMAIN plan, NEW dirs, dirs = InOrder, NEW k \in DOMAIN plan,
         NEW p \in DOMAIN plan[k].projects
  PROVE  \E n \in Nat \ {0} :
           /\ DOMAIN PartsOf(dirs, p) = 1 .. n /\ PartsOf(dirs, p) # <<>>
           /\ \A i \in 1 .. n : /\ PartsOf(dirs, p)[i].inputs = inputs
                               /\ PartsOf(dirs, p)[i].rows \in [Ids -> {inputs, None}]
           /\ \E i \in 1 .. n : \A id \in plan[k].projects[p] : PartsOf(dirs, p)[i].rows[id] = inputs
<1>1. DOMAIN dirs = DOMAIN plan /\ \A l \in DOMAIN plan : dirs[l] = l
  BY DEF InOrder
<1>2. Len(plan) \in Nat /\ DOMAIN plan = 1 .. Len(plan)
  BY DEF IInv, PlanOK
<1> DEFINE S == {i \in {e[1] : e \in {f \in Entries(dirs) : f[2] = p}} : part[dirs[i]][p] # None}
           given == InNumberOrder(S)
<1>3. \A e \in Entries(dirs) : e[1] \in DOMAIN plan /\ e[2] \in DOMAIN plan[e[1]].projects
  BY <1>1 DEF Entries
<1>4. k \in S
  <2>1. PICK e \in Entries(dirs) : e[1] = k /\ e[2] = p
    BY <1>1, EntriesAre
  <2>2. part[dirs[k]][p] # None
    BY <1>1, Completed
  <2> QED BY <2>1, <2>2
<1>5. \A i \in S : i \in DOMAIN plan /\ p \in DOMAIN plan[i].projects
  BY <1>3
<1> HIDE DEF S
<1>6. S \in SUBSET Nat /\ IsFiniteSet(S)
  <2>1. S \in SUBSET (1 .. Len(plan))
    BY <1>2, <1>5
  <2>2. PICK shards : shards = 1 .. Len(plan)
    OBVIOUS
  <2>3. IsFiniteSet(shards) /\ shards \in SUBSET Nat
    BY <1>2, <2>2, FS_Interval
  <2>4. S \in SUBSET shards
    BY <2>1, <2>2
  <2>5. IsFiniteSet(S)
    BY <2>3, <2>4, FS_Subset
  <2> QED BY <2>3, <2>4, <2>5
<1>7. /\ given \in Seq(S) /\ DOMAIN given = 1 .. Len(given) /\ Len(given) \in Nat
      /\ \A x \in S : \E i \in DOMAIN given : given[i] = x
  BY <1>6, InNumberOrderOK
<1>8. PartsOf(dirs, p) = [n \in DOMAIN given |-> part[dirs[given[n]]][p]]
  BY DEF PartsOf, S
<1> HIDE DEF given
<1>9. PICK n : n = Len(given)
  OBVIOUS
<1>10. PICK at \in 1 .. n : given[at] = k
  BY <1>4, <1>7, <1>9
<1>11. n \in Nat \ {0}
  BY <1>7, <1>9, <1>10
<1>12. PICK parts : parts = PartsOf(dirs, p)
  OBVIOUS
<1>13. DOMAIN parts = 1 .. n /\ parts # <<>>
  BY <1>7, <1>8, <1>9, <1>10, <1>12
<1>14. ASSUME NEW i \in 1 .. n
       PROVE  /\ given[i] \in DOMAIN plan /\ p \in DOMAIN plan[given[i]].projects
              /\ parts[i] = [inputs |-> inputs, rows |-> Rows(k, plan[given[i]].projects[p])]
  <2>1. PICK l : l = given[i]
    OBVIOUS
  <2>2. l \in DOMAIN plan /\ p \in DOMAIN plan[l].projects
    BY <1>5, <1>7, <1>9, <2>1
  <2>3. parts[i] = part[l][p]
    BY <1>1, <1>7, <1>8, <1>9, <1>12, <2>1, <2>2
  <2>4. part[l][p] = [inputs |-> inputs, rows |-> Rows(l, plan[l].projects[p])]
    BY <2>2, Completed
  <2> QED BY <2>1, <2>2, <2>3, <2>4 DEF Rows
<1>15. \A i \in 1 .. n : parts[i].inputs = inputs /\ parts[i].rows \in [Ids -> {inputs, None}]
  <2> SUFFICES ASSUME NEW i \in 1 .. n
               PROVE  parts[i].inputs = inputs /\ parts[i].rows \in [Ids -> {inputs, None}]
    OBVIOUS
  <2>1. parts[i] = [inputs |-> inputs, rows |-> Rows(k, plan[given[i]].projects[p])]
    BY <1>14
  <2>2. \A settled : Rows(k, settled) \in [Ids -> {inputs, None}]
    BY DEF Rows
  <2> QED BY <2>1, <2>2
<1>16. \A id \in plan[k].projects[p] : parts[at].rows[id] = inputs
  <2>1. parts[at].rows = Rows(k, plan[k].projects[p]) /\ plan[k].projects[p] \in SUBSET Ids
    <3>1. parts[at] = [inputs |-> inputs, rows |-> Rows(k, plan[given[at]].projects[p])]
      BY <1>14
    <3>2. parts[at].rows = Rows(k, plan[k].projects[p])
      BY <1>10, <3>1
    <3> QED BY <3>2, Facts
  <2> QED BY <2>1 DEF Rows
<1> QED BY <1>10, <1>11, <1>12, <1>13, <1>15, <1>16

\* The incremental report merged from completed shards is one of the plan's checkout.
THEOREM UnionsAreOfOneCheckout == Spec => []UnionOfOneCheckout
<1>1. ASSUME IInv PROVE UnionOfOneCheckout
  <2> SUFFICES ASSUME merged # None, completed = DOMAIN plan, merged.dirs = InOrder,
                      NEW k \in DOMAIN plan, NEW p \in DOMAIN plan[k].projects
               PROVE  LET union == merged.incremental[p]
                      IN  /\ union.inputs = inputs
                          /\ \A id \in Ids : union.rows[id] \in {inputs, None}
                          /\ \A id \in plan[k].projects[p] : union.rows[id] = inputs
    BY DEF UnionOfOneCheckout
  <2>1. PICK m, dirs, parts : m = merged /\ dirs = m.dirs /\ parts = PartsOf(dirs, p)
    OBVIOUS
  <2>2. IsMerge(m) /\ dirs = InOrder
    BY <1>1, <2>1 DEF IInv, MergedOK
  <2>3. PICK n \in Nat \ {0} :
           /\ DOMAIN parts = 1 .. n /\ parts # <<>>
           /\ \A i \in 1 .. n : parts[i].inputs = inputs /\ parts[i].rows \in [Ids -> {inputs, None}]
           /\ \E i \in 1 .. n : \A id \in plan[k].projects[p] : parts[i].rows[id] = inputs
    BY <1>1, <2>1, <2>2, PartsOfCompleted, SMTT(20)
  <2>4. p \in Projects /\ plan[k].projects[p] \subseteq Ids /\ inputs \in Inputs
    BY <1>1, Facts
  <2>5. m.incremental[p] = Union(parts)
    BY <2>1, <2>2, <2>3, <2>4 DEF IsMerge
  <2>6. /\ Union(parts).inputs = inputs
        /\ \A id \in Ids : Union(parts).rows[id] \in {inputs, None}
        /\ \A id \in Ids : (\E i \in 1 .. n : parts[i].rows[id] = inputs) => Union(parts).rows[id] = inputs
    BY <2>3, <2>4, UnionFacts
  <2> QED BY <2>1, <2>3, <2>4, <2>5, <2>6
<1> QED BY <1>1, Inductive, PTL
=============================================================================
