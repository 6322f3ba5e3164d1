---------------------------- MODULE ShardPlanning ----------------------------
(***************************************************************************)
(* How plan-shards.workflow.ts packs the mutants of several projects into    *)
(* shards.  A command is a record: target, the seconds a shard may take; max, *)
(* the most shards (0 for no limit); mutants, with their project, id, cost,    *)
(* the mutants of the same project that subsume them, whether they need the   *)
(* initial test run of their project and whether their verdict is reused; dry, *)
(* what that run costs.  Projects and ids are numbers, which keeps their      *)
(* order.                                                                   *)
(***************************************************************************)
EXTENDS Naturals, Sequences, FiniteSets, FiniteSetsExt, SequencesExt

CeilDiv(a, b) == (a + b - 1) \div b
Larger(a, b)  == IF a > b THEN a ELSE b
Smaller(a, b) == IF a < b THEN a ELSE b

Mutants ==
  [project : Nat, id : Nat, cost : Nat, dep : BOOLEAN, dominators : Seq(Nat), reused : BOOLEAN]

\* PlanShardsCommand: no two mutants share project and id.  What subsumes a mutant
\* is not subsumed: at its site the operator that replaces is a different one
\* (subsume-mutants.workflow.ts:17-22).
CommandOK(c) ==
  /\ c.target \in Nat \ {0} /\ c.max \in Nat
  /\ IsFiniteSet(c.mutants) /\ c.mutants \subseteq Mutants
  /\ \A m \in c.mutants : m.project \in DOMAIN c.dry /\ c.dry[m.project] \in Nat
  /\ \A m, n \in c.mutants : m.project = n.project /\ m.id = n.id => m = n
  /\ \A m \in c.mutants : m.dominators # <<>> /\ ~m.reused =>
       \E d \in c.mutants :
         d.project = m.project /\ d.id = Head(m.dominators) /\ d.dominators = <<>>

Cost(mutants) == SumFunction([m \in mutants |-> m.cost])

\* The domain of a function that gives each element those before it, in order.
Ordered(before) ==
  [i \in 1 .. Cardinality(DOMAIN before) |->
     CHOOSE x \in DOMAIN before : Cardinality(before[x]) = i - 1]

InNumberOrder(numbers) == Ordered([p \in numbers |-> {q \in numbers : q < p}])

-----------------------------------------------------------------------------
(* The number of shards. *)

DependentOf(c, p)    == {m \in c.mutants : m.project = p /\ m.dep}
DependentProjects(c) == {m.project : m \in {n \in c.mutants : n.dep}}

\* A project whose initial test run alone fills a shard needs every shard.
Fits(c, p)       == c.dry[p] < c.target
BinsNeeded(c, p) == Larger(1, CeilDiv(Cost(DependentOf(c, p)), c.target - c.dry[p]))

PlannedLoad(c) ==
  Cost(c.mutants)
    + SumFunction([p \in {q \in DependentProjects(c) : Fits(c, q)} |->
                     BinsNeeded(c, p) * c.dry[p]])

ShardCount(c) ==
  LET needed == Larger(1, CeilDiv(PlannedLoad(c), c.target))
      capped == IF c.max = 0 THEN needed ELSE Larger(1, Smaller(c.max, needed))
  IN  Smaller(capped, Larger(Cardinality(c.mutants), 1))

-----------------------------------------------------------------------------
(* The bins. *)

EmptyBins(count) == [i \in 1..count |-> [mutants |-> {}, load |-> 0]]

\* The n least loaded bins, those of lower index first.
LeastLoadedIndices(bins, n) ==
  LET before(i, j) == \/ bins[i].load < bins[j].load
                      \/ bins[i].load = bins[j].load /\ i < j
  IN  SubSeq(Ordered([j \in DOMAIN bins |-> {i \in DOMAIN bins : before(i, j)}]), 1, n)

\* The first of the least loaded among the bins of a sequence of indices.
LeastLoadedOf(bins, indices) ==
  indices[Min({k \in DOMAIN indices :
                 \A l \in DOMAIN indices : bins[indices[k]].load <= bins[indices[l]].load})]

IndicesOf(count) == [i \in 1..count |-> i]

\* Faulty: the shards a project may use are chosen, their load stays.
ReservedUnpriced(c, reserved, p) ==
  LET count   == Len(reserved.bins)
      n       == IF Fits(c, p) THEN Smaller(BinsNeeded(c, p), count) ELSE count
      indices == LeastLoadedIndices(reserved.bins, n)
  IN  [bins |-> reserved.bins,
       indices |-> [q \in DOMAIN reserved.indices \cup {p} |->
                      IF q = p THEN indices ELSE reserved.indices[q]]]

\* As many of the least loaded bins as the project needs are charged for its
\* initial test run.
Reserve(c, reserved, p) ==
  LET count   == Len(reserved.bins)
      n       == IF Fits(c, p) THEN Smaller(BinsNeeded(c, p), count) ELSE count
      indices == LeastLoadedIndices(reserved.bins, n)
  IN  [bins |-> [i \in DOMAIN reserved.bins |->
                   IF i \in Range(indices)
                   THEN [reserved.bins[i] EXCEPT !.load = @ + c.dry[p]]
                   ELSE reserved.bins[i]],
       indices |-> [q \in DOMAIN reserved.indices \cup {p} |->
                      IF q = p THEN indices ELSE reserved.indices[q]]]

\* The bins and the shards each project may use, after the first n projects.
Reserving(c) ==
  LET projects == InNumberOrder(DependentProjects(c))
      reserved[n \in 0 .. Len(projects)] ==
        IF n = 0 THEN [bins |-> EmptyBins(ShardCount(c)), indices |-> [q \in {} |-> <<>>]]
                 ELSE Reserve(c, reserved[n - 1], projects[n])
  IN  reserved

Reserved(c) == Reserving(c)[Len(InNumberOrder(DependentProjects(c)))]

-----------------------------------------------------------------------------
(* The mutants, in groups that stay together. *)

\* dominatorIdsOf looks at the mutants that are run again.
DominatorIds(c, p) ==
  UNION {Range(m.dominators) : m \in {n \in c.mutants : n.project = p /\ ~n.reused}}

\* Faulty: a mutant goes wherever there is room.
OwnKey(c, m) == <<0, m.project, m.id>>

\* A subsumed mutant goes with its first dominator, a dominator with the mutants
\* it subsumes first, any other mutant alone; the key of a dominator does not
\* name its project.
PlacementKey(c, m) ==
  IF m.dominators # <<>> THEN <<1, 0, Head(m.dominators)>>
  ELSE IF m.id \in DominatorIds(c, m.project) THEN <<1, 0, m.id>>
  ELSE <<0, m.project, m.id>>

GroupsOf(c) ==
  {[key |-> key, mutants |-> {m \in c.mutants : PlacementKey(c, m) = key}]
     : key \in {PlacementKey(c, m) : m \in c.mutants}}

ProjectOf(group) == Min({m.project : m \in group.mutants})
Depends(group)   == \E m \in group.mutants : m.dep

KeyBefore(k, l) ==
  \/ k[1] < l[1]
  \/ k[1] = l[1] /\ k[2] < l[2]
  \/ k[1] = l[1] /\ k[2] = l[2] /\ k[3] < l[3]

CostliestFirst(g, h) ==
  \/ Cost(g.mutants) > Cost(h.mutants)
  \/ /\ Cost(g.mutants) = Cost(h.mutants)
     /\ \/ ProjectOf(g) < ProjectOf(h)
        \/ ProjectOf(g) = ProjectOf(h) /\ KeyBefore(g.key, h.key)

WithGroupIn(bins, index, group) ==
  [bins EXCEPT ![index] = [mutants |-> @.mutants \cup group.mutants,
                           load |-> @.load + Cost(group.mutants)]]

CostliestFirstOf(groups) ==
  Ordered([h \in groups |-> {g \in groups : CostliestFirst(g, h)}])

\* The bins after each group, which goes to the least loaded of its places.
Filling(bins, groups, places) ==
  LET filled[n \in 0 .. Len(groups)] ==
        IF n = 0 THEN bins
        ELSE WithGroupIn(filled[n - 1], LeastLoadedOf(filled[n - 1], places[groups[n]]), groups[n])
  IN  filled

Filled(bins, groups, places) == Filling(bins, groups, places)[Len(groups)]

\* The shards charged for the initial test run of the first project of a group.
PlacesIn(reserved, group) ==
  IF ProjectOf(group) \in DOMAIN reserved.indices
  THEN reserved.indices[ProjectOf(group)]
  ELSE IndicesOf(Len(reserved.bins))

\* The groups that need an initial test run go, costliest first, to the shards
\* charged for it.
WithDependents(c) ==
  LET groups == {g \in GroupsOf(c) : Depends(g)}
  IN  Filled(Reserved(c).bins, CostliestFirstOf(groups), [g \in groups |-> PlacesIn(Reserved(c), g)])

\* Then the others fill up the least loaded shards.
WithRest(c) ==
  LET groups == {g \in GroupsOf(c) : ~Depends(g)}
      bins   == WithDependents(c)
  IN  Filled(bins, CostliestFirstOf(groups), [g \in groups |-> IndicesOf(Len(bins))])

MutantsOf(mutants, p) == {m.id : m \in {n \in mutants : n.project = p}}

\* Every shard: what it is predicted to take, and its mutants by project.
PlannedShards(c) ==
  LET bins == WithRest(c)
  IN  [i \in DOMAIN bins |->
         [predicted |-> bins[i].load,
          projects |-> [p \in {m.project : m \in bins[i].mutants} |->
                          MutantsOf(bins[i].mutants, p)]]]
=============================================================================
