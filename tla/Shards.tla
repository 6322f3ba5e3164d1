------------------------------- MODULE Shards -------------------------------
(***************************************************************************)
(* A run split over shards: plan-request.cell.ts writes a plan, shard-run.ts *)
(* runs the projects of one shard one after the other, each in a child of    *)
(* its own that leaves a progress stream and an incremental report in the    *)
(* directory of the shard, and shard-merge.ts puts the directories together. *)
(*                                                                         *)
(* Commands fail, are killed and are started again over what they left; a    *)
(* plan is replaced while shards of the earlier one are still at work; the   *)
(* merge is given any directories in any order.                             *)
(***************************************************************************)
EXTENDS ShardPlanning

CONSTANTS Commands,   \* what may be planned first, what next, and so on; the
                      \* length of the sequence bounds the plans
          Inputs,     \* the lockfile and what else counts as a run input
          MaxStarts,  \* bound: shards started
          MaxLost,    \* bound: streams that cannot be opened or written
          None

AllCommands == UNION Range(Commands)

Projects == UNION {DOMAIN c.dry : c \in AllCommands}
Ids      == UNION {{m.id : m \in c.mutants} : c \in AllCommands}
Dirs     == UNION {1..ShardCount(c) : c \in AllCommands}

ASSUME ShardsAssumption ==
  /\ Commands # <<>> /\ Commands \in Seq(SUBSET AllCommands) /\ {} \notin Range(Commands)
  /\ \A c \in AllCommands : CommandOK(c)
  /\ Inputs # {} /\ None \notin Inputs
  /\ MaxStarts \in Nat /\ MaxLost \in Nat

VARIABLES
  inputs,   \* the run inputs, the same for the shards of one plan
  command,  \* what the planner works on, or None
  plan,     \* the plan file; empty before there is one
  proc,     \* the run of each shard, or None
  completed, \* the shards whose last run, under the present plan, succeeded
  stream,   \* the progress streams, by shard directory and project
  part,     \* the incremental reports there
  cached,   \* the incremental report in each project's own directory
  merged,   \* what the last merge wrote
  plans, starts, lost

vars == <<inputs, command, plan, proc, completed, stream, part, cached, merged, plans, starts, lost>>

\* fresh, not in the file: written by the last child of the directory, one that
\* ran under the present plan.
Streams == [ids : SUBSET Ids, fresh : BOOLEAN]

\* inputs is the header of the report, rows what each verdict was reached under.
Parts == [inputs : Inputs, rows : [Ids -> Inputs \cup {None}]]

Children ==
  [stage : {"spawned", "running", "reported", "refused"}, mutants : SUBSET Ids,
   settled : SUBSET Ids, writing : BOOLEAN]

\* planned, not in the process: the plan it has read is the present one.
Procs == [todo : Seq(Projects), count : Dirs, child : Children \cup {None}, planned : BOOLEAN]

ASSUME NoneAssumption ==
  None \notin Streams /\ None \notin Parts /\ None \notin Children /\ None \notin Procs

Spawned == [stage |-> "spawned", mutants |-> {}, settled |-> {}, writing |-> FALSE]

NoRows == [id \in Ids |-> None]

Init ==
  /\ inputs \in Inputs
  /\ command = None
  /\ plan = <<>>
  /\ proc = [k \in Dirs |-> None]
  /\ completed = {}
  /\ stream = [k \in Dirs |-> [p \in Projects |-> None]]
  /\ part = [k \in Dirs |-> [p \in Projects |-> None]]
  /\ cached \in [Projects -> {None} \cup {[inputs |-> i, rows |-> [id \in Ids |-> i]] : i \in Inputs}]
  /\ merged = None
  /\ plans = 0 /\ starts = 0 /\ lost = 0

-----------------------------------------------------------------------------
(* Planning. *)

PlanShards(c) ==
  /\ command = None
  /\ plans' = plans + 1
  /\ command' = c
  /\ UNCHANGED <<inputs, plan, proc, completed, stream, part, cached, merged, starts, lost>>

Plans == [c \in AllCommands |-> PlannedShards(c)]

\* The plan is for a checkout, whose run inputs need not be those of the last one.
WritePlan ==
  /\ command # None
  /\ command' = None
  /\ plan' = Plans[command]
  /\ inputs' \in Inputs
  /\ completed' = {}
  /\ stream' = [k \in Dirs |-> [p \in Projects |->
       IF stream[k][p] = None THEN None ELSE [stream[k][p] EXCEPT !.fresh = FALSE]]]
  /\ proc' = [k \in Dirs |->
       IF proc[k] = None THEN None ELSE [proc[k] EXCEPT !.planned = FALSE]]
  /\ merged' = None
  /\ UNCHANGED <<part, cached, plans, starts, lost>>

-----------------------------------------------------------------------------
(* One shard. *)

\* The plan has a shard k of count.
Known(k, count) == k \in DOMAIN plan /\ Len(plan) = count

Start(k) ==
  /\ proc[k] = None
  /\ k \in DOMAIN plan
  /\ starts < MaxStarts
  /\ starts' = starts + 1
  /\ proc' = [proc EXCEPT ![k] =
       [todo |-> InNumberOrder(DOMAIN plan[k].projects),
        count |-> Len(plan), child |-> None, planned |-> TRUE]]
  /\ completed' = completed \ {k}
  /\ merged' = None
  /\ UNCHANGED <<inputs, command, plan, stream, part, cached, plans, lost>>

\* A shard's directory without an incremental report gets a copy of the project's.
Seed(k, p) == part' = [part EXCEPT ![k][p] = IF @ = None THEN cached[p] ELSE @]

Spawn(k) ==
  /\ proc[k] # None /\ proc[k].child = None /\ proc[k].todo # <<>>
  /\ Seed(k, Head(proc[k].todo))
  /\ proc' = [proc EXCEPT ![k].child = Spawned]
  /\ UNCHANGED <<inputs, command, plan, completed, stream, cached, merged, plans, starts, lost>>

At(k, stage) == proc[k] # None /\ proc[k].child # None /\ proc[k].child.stage = stage

\* Faulty: the stream goes on after what an earlier child wrote.
TruncatedKeeping(k, p) ==
  IF stream[k][p] = None THEN [ids |-> {}, fresh |-> proc[k].planned]
                         ELSE [stream[k][p] EXCEPT !.fresh = proc[k].planned]

Truncated(k, p) == [ids |-> {}, fresh |-> proc[k].planned]

\* What a child whose stream cannot be written leaves of an earlier one.
Stale(k, p) ==
  IF stream[k][p] = None THEN None ELSE [stream[k][p] EXCEPT !.fresh = FALSE]

Written(k, p, id) == [stream[k][p] EXCEPT !.ids = @ \cup {id}]

\* The child empties its stream, when it can, and looks its shard up in the plan
\* file, which may have been replaced since the shard was started.
Open(k) ==
  LET p     == Head(proc[k].todo)
      known == Known(k, proc[k].count) /\ p \in DOMAIN plan[k].projects
  IN  /\ At(k, "spawned")
      /\ \E writing \in {TRUE, lost = MaxLost} :
           /\ stream' = [stream EXCEPT ![k][p] =
                IF writing THEN Truncated(k, p) ELSE Stale(k, p)]
           /\ proc' = [proc EXCEPT ![k].child =
                [stage |-> IF known THEN "running" ELSE "refused",
                 mutants |-> IF known THEN plan[k].projects[p] ELSE {},
                 settled |-> {}, writing |-> writing]]
           /\ lost' = IF writing THEN lost ELSE lost + 1
      /\ UNCHANGED <<inputs, command, plan, completed, part, cached, merged, plans, starts>>

\* A verdict is reached and written to the stream; once a write has failed,
\* nothing more is written.
Verdict(k, id) ==
  LET p == Head(proc[k].todo)
  IN  /\ At(k, "running")
      /\ id \in proc[k].child.mutants \ proc[k].child.settled
      /\ \E written \in {proc[k].child.writing, proc[k].child.writing /\ lost = MaxLost} :
           /\ stream' = [stream EXCEPT ![k][p] =
                IF written THEN Written(k, p, id) ELSE Stale(k, p)]
           /\ proc' = [proc EXCEPT ![k].child.settled = @ \cup {id},
                                   ![k].child.writing = written]
           /\ lost' = IF proc[k].child.writing /\ ~written THEN lost + 1 ELSE lost
      /\ UNCHANGED <<inputs, command, plan, completed, part, cached, merged, plans, starts>>

\* Faulty: the rows of the report the child has found are kept.
RowsKeeping(k, settled) ==
  [id \in Ids |-> IF id \in settled THEN inputs
                  ELSE IF part[k][Head(proc[k].todo)] = None THEN None
                  ELSE part[k][Head(proc[k].todo)].rows[id]]

\* The report of a restricted run is about its own mutants and no others.
Rows(k, settled) == [id \in Ids |-> IF id \in settled THEN inputs ELSE None]

Checkpoint(k) ==
  /\ At(k, "running")
  /\ part' = [part EXCEPT ![k][Head(proc[k].todo)] =
       [inputs |-> inputs, rows |-> Rows(k, proc[k].child.settled)]]
  /\ UNCHANGED <<inputs, command, plan, proc, completed, stream, cached, merged, plans, starts, lost>>

Report(k) ==
  /\ At(k, "running")
  /\ proc[k].child.settled = proc[k].child.mutants
  /\ part' = [part EXCEPT ![k][Head(proc[k].todo)] =
       [inputs |-> inputs, rows |-> Rows(k, proc[k].child.settled)]]
  /\ proc' = [proc EXCEPT ![k].child.stage = "reported"]
  /\ UNCHANGED <<inputs, command, plan, completed, stream, cached, merged, plans, starts, lost>>

\* The child exits with 0 or with the code of a score below the threshold, and
\* has left a stream.
ChildCompletes(k) ==
  /\ At(k, "reported")
  /\ stream[k][Head(proc[k].todo)] # None
  /\ proc' = [proc EXCEPT ![k].child = None, ![k].todo = Tail(@)]
  /\ UNCHANGED <<inputs, command, plan, completed, stream, part, cached, merged, plans, starts, lost>>

\* It exits with any other code, is killed, cannot be spawned or leaves no stream:
\* the shard fails, and its other projects are left alone.
ShardFails(k) ==
  /\ proc[k] # None /\ proc[k].todo # <<>>
  /\ proc' = [proc EXCEPT ![k] = None]
  /\ UNCHANGED <<inputs, command, plan, completed, stream, part, cached, merged, plans, starts, lost>>

ShardEnds(k) ==
  /\ proc[k] # None /\ proc[k].todo = <<>>
  /\ proc' = [proc EXCEPT ![k] = None]
  /\ completed' = IF proc[k].planned THEN completed \cup {k} ELSE completed
  /\ UNCHANGED <<inputs, command, plan, stream, part, cached, merged, plans, starts, lost>>

-----------------------------------------------------------------------------
(* The merge of a sequence of directories, taken for the shards in order. *)

Entries(dirs) == UNION {{i} \X DOMAIN plan[i].projects : i \in DOMAIN dirs}

\* reportFromStream: the verdicts of a stream, complete or not.
Reported(dirs, i, p) ==
  IF stream[dirs[i]][p] = None THEN {} ELSE stream[dirs[i]][p].ids

Overlaps(dirs) ==
  \E e, f \in Entries(dirs) :
    /\ e[1] # f[1] /\ e[2] = f[2]
    /\ Reported(dirs, e[1], e[2]) \cap Reported(dirs, f[1], f[2]) # {}

\* Faulty: a mutant may be reported by any shard of its project.
GapsAnywhere(dirs) ==
  \E k \in DOMAIN plan : \E p \in DOMAIN plan[k].projects :
    ~(plan[k].projects[p] \subseteq
        UNION {Reported(dirs, e[1], p) : e \in {f \in Entries(dirs) : f[2] = p}})

Gaps(dirs) ==
  \E k \in DOMAIN plan : \E p \in DOMAIN plan[k].projects :
    ~(plan[k].projects[p] \subseteq IF k \in DOMAIN dirs THEN Reported(dirs, k, p) ELSE {})

Refused(dirs) == Len(dirs) > Len(plan) \/ Overlaps(dirs) \/ Gaps(dirs)

MergedReport(dirs) ==
  UNION {{[project |-> e[2], id |-> id, dir |-> dirs[e[1]]] : id \in Reported(dirs, e[1], e[2])}
           : e \in Entries(dirs)}

\* The incremental reports of a project that there are.
PartsOf(dirs, p) ==
  LET given == InNumberOrder({i \in {e[1] : e \in {f \in Entries(dirs) : f[2] = p}} :
                                part[dirs[i]][p] # None})
  IN  [n \in DOMAIN given |-> part[dirs[given[n]]][p]]

\* The first report gives the header, the last one with a row of a mutant the row.
Union(parts) ==
  [inputs |-> Head(parts).inputs,
   rows |-> [id \in Ids |->
     LET having == {n \in DOMAIN parts : parts[n].rows[id] # None}
     IN  IF having = {} THEN None ELSE parts[Max(having)].rows[id]]]

\* What a merge may be given: directories of the plan's shards, in any order, some
\* of them twice or not at all, or one too many.
Directories == UNION {[1..n -> DOMAIN plan] : n \in 1..(Len(plan) + 1)}

Merge(dirs) ==
  /\ ~Refused(dirs)
  /\ merged' =
       [dirs |-> dirs, report |-> MergedReport(dirs),
        incremental |-> [p \in {q \in Projects : PartsOf(dirs, q) # <<>>} |->
                           Union(PartsOf(dirs, p))]]
  /\ UNCHANGED <<inputs, command, plan, proc, completed, stream, part, cached, plans, starts, lost>>

Next ==
  \/ plans < Len(Commands) /\ \E c \in Commands[plans + 1] : PlanShards(c)
  \/ WritePlan
  \/ \E k \in Dirs :
       \/ Start(k) \/ Spawn(k) \/ Open(k) \/ Checkpoint(k) \/ Report(k)
       \/ ChildCompletes(k) \/ ShardFails(k) \/ ShardEnds(k)
       \/ \E id \in Ids : Verdict(k, id)
  \/ /\ plan # <<>> /\ \A k \in Dirs : proc[k] = None
     /\ \E dirs \in Directories : Merge(dirs)

Spec == Init /\ [][Next]_vars

-----------------------------------------------------------------------------
(* The properties. *)

\* Every variable stays in its type.
TypeOK ==
  /\ inputs \in Inputs
  /\ command \in AllCommands \cup {None}
  /\ \A k \in DOMAIN plan :
       /\ DOMAIN plan[k].projects \subseteq Projects
       /\ \A p \in DOMAIN plan[k].projects : plan[k].projects[p] \subseteq Ids
  /\ proc \in [Dirs -> Procs \cup {None}]
  /\ completed \subseteq DOMAIN plan
  /\ stream \in [Dirs -> [Projects -> Streams \cup {None}]]
  /\ part \in [Dirs -> [Projects -> Parts \cup {None}]]
  /\ cached \in [Projects -> Parts \cup {None}]
  /\ plans \in 0..Len(Commands) /\ starts \in 0..MaxStarts /\ lost \in 0..MaxLost

PlanWritten == command # None /\ command' = None

\* A plan has every mutant in exactly one shard, a subsumed one in the shard of
\* its first dominator, whose outcome it depends on unless its own verdict is
\* reused, and no more shards than the command allows (CHANGELOG.md:30 and :77).
PlannedOnce ==
  [][PlanWritten =>
       /\ command.max > 0 => Len(plan') <= command.max
       /\ \A m \in command.mutants :
            /\ Cardinality({k \in DOMAIN plan' :
                  m.project \in DOMAIN plan'[k].projects
                    /\ m.id \in plan'[k].projects[m.project]}) = 1
            /\ m.dominators # <<>> /\ ~m.reused =>
                 \E k \in DOMAIN plan' :
                   /\ m.project \in DOMAIN plan'[k].projects
                   /\ {m.id, Head(m.dominators)} \subseteq plan'[k].projects[m.project]]_vars

HeldBy(shard, c) ==
  {m \in c.mutants : m.project \in DOMAIN shard.projects /\ m.id \in shard.projects[m.project]}

\* What a shard is predicted to take covers its mutants and the initial test run
\* of every project with a mutant there that needs it, so that a budget set by
\* the plan can be kept (CHANGELOG.md:44).
DryRunsPriced ==
  [][PlanWritten =>
       \A k \in DOMAIN plan' :
         LET held == HeldBy(plan'[k], command)
         IN  plan'[k].predicted >=
               Cost(held) + SumFunction([p \in {m.project : m \in {n \in held : n.dep}} |->
                                           command.dry[p]])]_vars

\* A merge that is not refused has one verdict of every planned mutant, that of
\* the directory given for its shard, whatever the directories, their order and
\* what earlier commands left in them.
MergeWhole ==
  merged # None =>
    \A k \in DOMAIN plan : \A p \in DOMAIN plan[k].projects : \A id \in plan[k].projects[p] :
      /\ k \in DOMAIN merged.dirs
      /\ {r \in merged.report : r.project = p /\ r.id = id}
           = {[project |-> p, id |-> id, dir |-> merged.dirs[k]]}

InOrder == [k \in DOMAIN plan |-> k]

AllFresh ==
  /\ plan # <<>>
  /\ completed = DOMAIN plan
  /\ \A k \in DOMAIN plan : \A p \in DOMAIN plan[k].projects : stream[k][p].fresh

\* Once every shard has run to its end, after whatever failures, retries and
\* earlier plans, the merge of their directories is not refused and has
\* the planned mutants, no others, all from the last runs.  Unless a stream
\* could not be written: the child still succeeds.
MergeReady ==
  AllFresh =>
    /\ ~Refused(InOrder)
    /\ MergedReport(InOrder) =
         UNION {UNION {{[project |-> p, id |-> id, dir |-> k] : id \in plan[k].projects[p]}
                         : p \in DOMAIN plan[k].projects} : k \in DOMAIN plan}

\* The incremental report merged from completed shards holds a verdict of every
\* planned mutant and none reached under other run inputs than its header says,
\* although the directories had been seeded with older reports.
UnionOfOneCheckout ==
  merged # None /\ completed = DOMAIN plan /\ merged.dirs = InOrder =>
    \A k \in DOMAIN plan : \A p \in DOMAIN plan[k].projects :
      LET union == merged.incremental[p]
      IN  /\ union.inputs = inputs
          /\ \A id \in Ids : union.rows[id] \in {inputs, None}
          /\ \A id \in plan[k].projects[p] : union.rows[id] = inputs
=============================================================================
