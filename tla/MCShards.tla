------------------------------ MODULE MCShards ------------------------------
(* Shards: many commands are planned, and two plans of two shards are run.     *)
EXTENDS Shards

Mutant(p, id, cost, dep, dominators) ==
  [project |-> p, id |-> id, cost |-> cost, dep |-> dep, dominators |-> dominators,
   reused |-> FALSE]

Remembered(mutant, reused) ==
  [mutant EXCEPT !.reused = reused, !.cost = IF reused THEN 0 ELSE @]

(* The commands that are run: the mutants of one project split over the shards, *)
(* and two projects with a shard each.                                        *)
RunCommand(mutants) == [target |-> 4, max |-> 2, dry |-> <<1, 0>>, mutants |-> mutants]

MCRunCommands ==
  {RunCommand({Mutant(1, 1, 1, TRUE, <<>>), Mutant(1, 2, 3, FALSE, <<>>)}),
   RunCommand({Mutant(1, 1, 1, TRUE, <<>>), Mutant(1, 2, 1, FALSE, <<>>),
               Mutant(2, 1, 3, FALSE, <<>>)})}
MCRunPlans    == {PlannedShards(c) : c \in MCRunCommands}

(* The commands that are only planned: mutants of two projects, two of which a *)
(* third one may subsume, whose costs, needs and limits vary; the verdict of   *)
(* one of them may be reused.                                                *)
MCPlanOnly ==
  {[target |-> target, max |-> max, dry |-> <<dry, 1>>,
    mutants |-> {Mutant(1, 1, cost, dep[1], <<>>),
                 Remembered(Mutant(1, 2, 2, dep[2], dominators), reused),
                 Mutant(1, 3, 1, FALSE, IF reused THEN <<>> ELSE dominators),
                 Mutant(2, 3, 3, dep[3], <<>>), Mutant(2, 1, 1, FALSE, <<>>)}]
     : target \in {4, 6}, max \in {0, 2, 3}, dry \in {0, 1, 4}, cost \in {0, 3},
       dep \in [1..3 -> BOOLEAN], reused \in BOOLEAN, dominators \in {<<>>, <<1>>, <<1, 3>>}}

MCCommands == <<MCRunCommands \cup MCPlanOnly, MCRunCommands>>

(* Only the first project has a report, from before the first plan; every plan *)
(* is for other run inputs than the last.                                     *)
MCInit == Init /\ inputs = 1 /\ cached = <<[inputs |-> 1, rows |-> [id \in Ids |-> 1]], None>>
MCNext ==
  /\ Next
  /\ plan # <<>> => plan \in MCRunPlans
  /\ PlanWritten => inputs' # inputs
MCSpec == MCInit /\ [][MCNext]_vars
=============================================================================
