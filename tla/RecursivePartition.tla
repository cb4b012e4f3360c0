------------------------- MODULE RecursivePartition -------------------------
(***************************************************************************)
(* hierarchicalPartition from a tree of modules on: flattening or          *)
(* fine-tuning its lowest level, then recursivePartition, the graph of     *)
(* OpenMP tasks in which every module is partitioned by a sub-Infomap of   *)
(* its own, and the aggregation of what the tasks recorded.                *)
(*                                                                         *)
(* A module is the set of leaf nodes it was made for. A sub-Infomap is     *)
(* what it finds: it is seeded from the config seed, so that depends on    *)
(* the module only. Codelengths are integers, Eps is the improvement a     *)
(* partition must exceed.                                                  *)
(***************************************************************************)
EXTENDS Integers, FiniteSets, FiniteSetsExt, Functions

CONSTANTS Leaves,         \* leaf nodes, in the order of the tree
          Modules,        \* every module there can be
          FirstTree,      \* module -> its sub-modules in the tree to start from
          Findings,       \* what sub-Infomaps may find: functions from modules to sub-modules
          FineTuned,      \* the same for the run from a given partition
          LeafLength,     \* module -> its codelength with its leaves as children
          IndexLength,    \* codelength of a module over sub-modules of the first tree
          Gains,          \* what those save, in bits: functions from the modules searched
          Eps,            \* minimumCodelengthImprovement
          Bias(_),        \* prefLevelsBias of a level
          MinDegree,      \* minChildDegreeForPartitionTask
          Starts          \* [fast |-> fastHierarchicalSolution, deep |-> the input was a deep tree]

Root == Leaves

\* The modules that are worth a sub-Infomap.
Searched == {m \in Modules \ {Root} : Cardinality(m) > 2}

InTree(s) == {Root} \cup UNION {s[m] : m \in Modules}
LeafModules(s) == {m \in InTree(s) : s[m] = {}}

\* S shares out the leaves of m.
Shares(S, m) == UNION S = m /\ \A a, b \in S : a = b \/ a \cap b = {}

\* s is a tree: what has sub-modules is in it and has two or more, a module with
\* one being the same leaves; and two modules share no leaf or one is below the other.
IsTree(s) ==
  /\ \A m \in Modules : s[m] # {} => m \in InTree(s) /\ m \notin s[m] /\ Shares(s[m], m)
  /\ \A a, b \in InTree(s) :
       \/ a = b \/ a \cap b = {}
       \/ \E c \in s[a] : b \subseteq c
       \/ \E c \in s[b] : a \subseteq c

ASSUME RecursionAssumption ==
  /\ Leaves \subseteq Nat /\ IsFiniteSet(Leaves)
  /\ Modules \subseteq (SUBSET Leaves) \ {{}} /\ Root \in Modules
  /\ FirstTree \in [Modules -> SUBSET Modules] /\ IsTree(FirstTree) /\ FirstTree[Root] # {}
  /\ Findings \subseteq [Modules -> SUBSET Modules]
  /\ \A f \in Findings, m \in Searched : Shares(f[m], m)
  /\ FineTuned \in [Modules -> SUBSET Modules]
  /\ LeafLength \in [Modules -> Nat] /\ IndexLength \in Nat
  /\ Gains \subseteq [Modules -> Int] /\ Eps \in Nat /\ MinDegree \in Nat
  /\ Starts \subseteq [fast : 0..2, deep : BOOLEAN]

\* A tree that is fine-tuned is not ragged: where one sub-module is a leaf module all
\* are. (Of a ragged one hierarchicalPartition counts too few leaves, and writes past
\* the end of two vectors.)
ASSUME FineTuneAssumption ==
  [fast |-> 1, deep |-> TRUE] \in Starts =>
    \A m \in InTree(FirstTree) : FirstTree[m] \cap LeafModules(FirstTree) # {} =>
      /\ FirstTree[m] \subseteq LeafModules(FirstTree)
      /\ FineTuned[m] # {} /\ m \notin FineTuned[m] /\ Shares(FineTuned[m], m)

VARIABLES
  start,         \* how this run came here
  finds,         \* module -> what its sub-Infomap finds
  gain,          \* module -> bits that saves
  pc,            \* recursivePartition
  cancel,        \* *m_cancel
  sub,           \* module -> sub-modules it has as children
  leafParent,    \* leaf -> module it is a child of
  codelength,    \* module -> node.codelength
  instances,     \* modules with a live sub-Infomap
  toTune,        \* modules not yet fine-tuned
  queue,         \* partitionQueue: its modules
  startLevel,    \* and its level
  toSpawn,       \* modules of the queue no task was created for
  task,          \* module -> how far partitionModuleRecursively is
  level,         \* module -> its level argument
  todo,          \* module -> sub-modules it has not spawned yet
  record,        \* module -> its PartitionTaskRecord
  atLevel,       \* levelRecords
  consolidated,  \* sumConsolidatedCodelength
  limit,         \* hierarchicalCodelength
  stored         \* m_hierarchicalCodelength

world == <<start, finds, gain>>
tree == <<sub, leafParent>>
tasks == <<task, level, todo, record>>
sums == <<atLevel, consolidated, limit>>
vars == <<world, pc, cancel, tree, codelength, instances, toTune, queue, startLevel,
          toSpawn, tasks, sums, stored>>

-----------------------------------------------------------------------------
Total(f, S) == SumFunctionOnSet(f, S)

Above(s, m) == {p \in InTree(s) : m \subseteq p /\ m # p}
MaxDepth(s) == Max({Cardinality(Above(s, m)) : m \in LeafModules(s)})

\* The codelength the sub-Infomap of m reports, and its root's part of it.
SubCodelength(m) == LeafLength[m] - gain[m]
SubIndexCodelength(m) == SubCodelength(m) - Total(LeafLength, finds[m])

\* calcCodelength of module m with these children.
CalcCodelength(m, kids) ==
  CASE kids = {}                    -> LeafLength[m]
    [] kids # {} /\ kids = finds[m] -> SubIndexCodelength(m)
    [] OTHER                        -> IndexLength

\* calcCodelengthOnTree(root(), true): what it stores and what it returns.
OnTree(s) == [m \in Modules |-> IF m \in InTree(s) THEN CalcCodelength(m, s[m]) ELSE 0]
TreeLength(s) == Total(OnTree(s), Modules)

\* The leaf module each leaf of the first tree is in.
PartOf(parts, l) == CHOOSE s \in parts : l \in s

NoRecord == [index |-> 0, module |-> 0, leaf |-> 0, children |-> {}]

Init ==
  /\ start \in Starts
  /\ finds \in Findings
  /\ gain \in Gains
  /\ pc = "begin"
  /\ cancel = FALSE
  /\ sub = FirstTree
  /\ leafParent = [l \in Leaves |-> PartOf(LeafModules(FirstTree), l)]
  /\ codelength = OnTree(FirstTree)
  /\ instances = {}
  /\ toTune = {}
  /\ queue = {}
  /\ startLevel = 0
  /\ toSpawn = {}
  /\ task = [m \in Modules |-> "none"]
  /\ level = [m \in Modules |-> 0]
  /\ todo = [m \in Modules |-> {}]
  /\ record = [m \in Modules |-> NoRecord]
  /\ atLevel = {}
  /\ consolidated = 0
  /\ limit = 0
  /\ stored = TreeLength(FirstTree)

-----------------------------------------------------------------------------
(***************************************************************************)
(* hierarchicalPartition up to the recursion.                              *)
(***************************************************************************)
\* Without fast levels: removeSubModules, then the codelength of what is left.
RemoveSubModules ==
  /\ pc = "begin"
  /\ start.fast = 0
  /\ sub' = [m \in Modules |-> IF m = Root THEN sub[Root] ELSE {}]
  /\ leafParent' = [l \in Leaves |-> PartOf(sub[Root], l)]
  /\ codelength' = OnTree(sub')
  /\ stored' = TreeLength(sub')
  /\ pc' = "queue"
  /\ UNCHANGED <<world, cancel, instances, toTune, queue, startLevel, toSpawn, tasks, sums>>

\* With fast levels they stay; -F on a deep input tree fine-tunes the lowest.
KeepSubModules ==
  /\ pc = "begin"
  /\ start.fast > 0
  /\ IF start.fast = 1 /\ start.deep
       THEN /\ toTune' = {m \in InTree(sub) : sub[m] \cap LeafModules(sub) # {}}
            /\ pc' = "tune"
       ELSE pc' = "queue" /\ UNCHANGED toTune
  /\ UNCHANGED <<world, cancel, tree, codelength, instances, queue, startLevel, toSpawn,
                 tasks, sums, stored>>

\* The module's grandchildren become its children, a sub-Infomap starts from where
\* they were, and new leaf modules are made of what it finds.
FineTune(m) ==
  /\ pc = "tune"
  /\ m \in toTune
  /\ toTune' = toTune \ {m}
  /\ sub' = [sub EXCEPT ![m] = FineTuned[m]]
  /\ leafParent' = [l \in Leaves |-> IF l \in m THEN PartOf(FineTuned[m], l) ELSE leafParent[l]]
  /\ codelength' = [n \in Modules |->
                      IF n = m THEN CalcCodelength(m, FineTuned[m])
                      ELSE IF n \in sub[m] \cup FineTuned[m] THEN 0 ELSE codelength[n]]
  /\ UNCHANGED <<world, pc, cancel, instances, queue, startLevel, toSpawn, tasks, sums, stored>>

\* That sub-Infomap is interrupted.
FineTuneInterrupted(m) ==
  /\ pc = "tune"
  /\ m \in toTune
  /\ cancel
  /\ sub' = [sub EXCEPT ![m] = {}]
  /\ leafParent' = [l \in Leaves |-> IF l \in m THEN m ELSE leafParent[l]]
  /\ pc' = "interrupted"
  /\ UNCHANGED <<world, cancel, codelength, instances, toTune, queue, startLevel, toSpawn,
                 tasks, sums, stored>>

FineTuneDone ==
  /\ pc = "tune"
  /\ toTune = {}
  /\ pc' = "queue"
  /\ UNCHANGED <<world, cancel, tree, codelength, instances, toTune, queue, startLevel,
                 toSpawn, tasks, sums, stored>>

-----------------------------------------------------------------------------
(***************************************************************************)
(* recursivePartition: the queue and the root of the task graph.           *)
(***************************************************************************)
\* queueTopModules or queueLeafModules.
Queued == IF start.fast > 0 THEN LeafModules(sub) ELSE sub[Root]

\* The queue, and the codelength that is not in it.
FillQueue ==
  /\ pc = "queue"
  /\ queue' = Queued
  /\ startLevel' = IF start.fast > 0 THEN MaxDepth(sub) ELSE 1
  /\ limit' = IF start.fast > 0 THEN stored ELSE codelength[Root] + Total(codelength, queue')
  /\ consolidated' = limit' - Total(codelength, queue')
  /\ toSpawn' = queue'
  /\ pc' = "spawn"
  /\ UNCHANGED <<world, cancel, tree, codelength, instances, toTune, tasks, atLevel, stored>>

\* The largest first; all leaves have the same flow.
Largest(S) == {m \in S : \A n \in S : Cardinality(n) <= Cardinality(m)}

SpawnTop(m) ==
  /\ pc = "spawn"
  /\ ~cancel
  /\ m \in Largest(toSpawn)
  /\ toSpawn' = toSpawn \ {m}
  /\ task' = [task EXCEPT ![m] = "ready"]
  /\ level' = [level EXCEPT ![m] = startLevel]
  /\ UNCHANGED <<world, pc, cancel, tree, codelength, instances, toTune, queue, startLevel,
                 todo, record, sums, stored>>

StopSpawning ==
  /\ pc = "spawn"
  /\ toSpawn = {} \/ cancel
  /\ pc' = "join"
  /\ UNCHANGED <<world, cancel, tree, codelength, instances, toTune, queue, startLevel,
                 toSpawn, tasks, sums, stored>>

\* Mutation: no checkCancelled after the region.
AfterJoinUnchecked(flag) == "aggregate"

AfterJoin(flag) == IF flag THEN "interrupted" ELSE "aggregate"

\* taskwait and the barrier of the region, then checkCancelled.
Join ==
  /\ pc = "join"
  /\ \A m \in Modules : task[m] \in {"none", "done"}
  /\ pc' = AfterJoin(cancel)
  /\ atLevel' = queue
  /\ UNCHANGED <<world, cancel, tree, codelength, instances, toTune, queue, startLevel,
                 toSpawn, tasks, consolidated, limit, stored>>

\* One level of the aggregation; the children of its records are the next.
AggregateLevel ==
  /\ pc = "aggregate"
  /\ atLevel # {}
  /\ LET sum(part) == Total([m \in Modules |-> record[m][part]], atLevel) IN
       /\ consolidated' = consolidated + sum("index") + sum("leaf")
       /\ limit' = consolidated' + sum("module")
  /\ atLevel' = UNION {record[m].children : m \in atLevel}
  /\ UNCHANGED <<world, pc, cancel, tree, codelength, instances, toTune, queue, startLevel,
                 toSpawn, tasks, stored>>

Store ==
  /\ pc = "aggregate"
  /\ atLevel = {}
  /\ stored' = limit
  /\ pc' = "completed"
  /\ UNCHANGED <<world, cancel, tree, codelength, instances, toTune, queue, startLevel,
                 toSpawn, tasks, sums>>

-----------------------------------------------------------------------------
(***************************************************************************)
(* partitionModuleRecursively, for module m. Any number of tasks may be    *)
(* under way; a small sub-module runs inside the task that found it.       *)
(***************************************************************************)
\* Mutation: a module that keeps its leaves records nothing.
LeafRecordMissing(m) == NoRecord

LeafRecord(m) == [NoRecord EXCEPT !.leaf = LeafLength[m]]

\* The call returns, m keeps its leaves.
KeepLeaves(m) ==
  /\ record' = [record EXCEPT ![m] = LeafRecord(m)]
  /\ codelength' = [codelength EXCEPT ![m] = LeafLength[m]]
  /\ task' = [task EXCEPT ![m] = "done"]

\* calcCodelength, then the cancel flag and the size of m decide whether a
\* sub-Infomap is made.
Enter(m) ==
  /\ task[m] = "ready"
  /\ IF cancel \/ Cardinality(m) <= 2
       THEN KeepLeaves(m) /\ UNCHANGED instances
       ELSE /\ codelength' = [codelength EXCEPT ![m] = LeafLength[m]]
            /\ instances' = instances \cup {m}
            /\ task' = [task EXCEPT ![m] = "search"]
            /\ UNCHANGED record
  /\ UNCHANGED <<world, pc, cancel, tree, toTune, queue, startLevel, toSpawn, level, todo,
                 sums, stored>>

\* disposeInfomap in the handler of InterruptionError.
DisposedOnInterrupt(m) == instances \ {m}

Interrupted(m) ==
  /\ task[m] = "search"
  /\ cancel
  /\ instances' = DisposedOnInterrupt(m)
  /\ KeepLeaves(m)
  /\ UNCHANGED <<world, pc, cancel, tree, toTune, queue, startLevel, toSpawn, level, todo,
                 sums, stored>>

Trivial(m) == Cardinality(finds[m]) \in {1, Cardinality(m)}

\* The sub-partition is neither trivial nor too little of an improvement at this level.
Accepts(m, l) ==
  /\ ~Trivial(m)
  /\ SubCodelength(m) < LeafLength[m] - Eps + Bias(l + 1)

Reject(m) ==
  /\ task[m] = "search"
  /\ ~Accepts(m, level[m])
  /\ instances' = instances \ {m}
  /\ KeepLeaves(m)
  /\ UNCHANGED <<world, pc, cancel, tree, toTune, queue, startLevel, toSpawn, level, todo,
                 sums, stored>>

\* Mutation: clone leaf i is taken for the original leaf after it.
SubModuleOfNext(m, l) ==
  LET after == {k \in m : k > l} IN
    PartOf(finds[m], IF after = {} THEN l ELSE Min(after))

\* The new sub-module of an original leaf: that of the clone at its place.
SubModuleOf(m, l) == PartOf(finds[m], l)

\* subInfomap.root().codelength
SplitCodelength(m) == SubIndexCodelength(m)

SplitRecord(m) ==
  [index |-> SubIndexCodelength(m), module |-> SubCodelength(m) - SubIndexCodelength(m),
   leaf |-> 0, children |-> finds[m]]

\* The sub-partition becomes children of m, the sub-Infomap is freed.
Accept(m) ==
  /\ task[m] = "search"
  /\ Accepts(m, level[m])
  /\ sub' = [sub EXCEPT ![m] = finds[m]]
  /\ leafParent' = [l \in Leaves |-> IF l \in m THEN SubModuleOf(m, l) ELSE leafParent[l]]
  /\ codelength' = [n \in Modules |-> IF n = m THEN SplitCodelength(m)
                                      ELSE IF n \in finds[m] THEN LeafLength[n]
                                      ELSE codelength[n]]
  /\ record' = [record EXCEPT ![m] = SplitRecord(m)]
  /\ instances' = instances \ {m}
  /\ todo' = [todo EXCEPT ![m] = finds[m]]
  /\ task' = [task EXCEPT ![m] = "spawn"]
  /\ UNCHANGED <<world, pc, cancel, toTune, queue, startLevel, toSpawn, level, sums, stored>>

\* The call is not inside one that runs a small sub-module inline.
Returned(m) == \A n \in sub[m] : Cardinality(n) < MinDegree => task[n] \in {"none", "done"}

\* Mutation: a sub-module keeps the level of the module it was found in.
SameLevel(l) == l

SubLevel(l) == l + 1

Spawn(m) ==
  /\ task[m] = "spawn"
  /\ Returned(m)
  /\ ~cancel
  /\ \E n \in Largest(todo[m]) :
       /\ todo' = [todo EXCEPT ![m] = todo[m] \ {n}]
       /\ task' = [task EXCEPT ![n] = "ready"]
       /\ level' = [level EXCEPT ![n] = SubLevel(level[m])]
  /\ UNCHANGED <<world, pc, cancel, tree, codelength, instances, toTune, queue, startLevel,
                 toSpawn, record, sums, stored>>

\* Mutation: the call waits until all its sub-modules are done.
SpawnOverAll(m) == \A n \in sub[m] : task[n] = "done"

\* The loop ends, or is left when a cancel was requested.
SpawnOver(m) == todo[m] = {} \/ cancel

Leave(m) ==
  /\ task[m] = "spawn"
  /\ Returned(m)
  /\ SpawnOver(m)
  /\ task' = [task EXCEPT ![m] = "done"]
  /\ UNCHANGED <<world, pc, cancel, tree, codelength, instances, toTune, queue, startLevel,
                 toSpawn, level, todo, record, sums, stored>>

-----------------------------------------------------------------------------
Final == pc \in {"completed", "interrupted"}

\* Any thread, at any time.
RequestInterrupt ==
  /\ ~cancel /\ ~Final
  /\ cancel' = TRUE
  /\ UNCHANGED <<world, pc, tree, codelength, instances, toTune, queue, startLevel, toSpawn,
                 tasks, sums, stored>>

Owner ==
  \/ RemoveSubModules \/ KeepSubModules \/ FineTuneDone
  \/ \E m \in Modules : FineTune(m) \/ FineTuneInterrupted(m) \/ SpawnTop(m)
  \/ FillQueue \/ StopSpawning \/ Join \/ AggregateLevel \/ Store

Task(m) == Enter(m) \/ Interrupted(m) \/ Reject(m) \/ Accept(m) \/ Spawn(m) \/ Leave(m)

Next ==
  \/ Owner
  \/ \E m \in Modules : Task(m)
  \/ RequestInterrupt
  \/ Final /\ UNCHANGED vars

Spec == Init /\ [][Next]_vars

\* OpenMP runs every task it was given before the region ends.
FairSpec == Spec /\ WF_vars(Owner) /\ \A m \in Modules : WF_vars(Task(m))

-----------------------------------------------------------------------------
\* Types, of all but the codelengths; and a sub-Infomap lives only while its module's
\* task searches with it, so that none outlives the region or an interrupt.
TypeOK ==
  /\ pc \in {"begin", "tune", "queue", "spawn", "join", "aggregate", "completed",
             "interrupted"}
  /\ cancel \in BOOLEAN
  /\ sub \in [Modules -> SUBSET Modules] /\ leafParent \in [Leaves -> Modules]
  /\ instances \subseteq {m \in Modules : task[m] = "search"}
  /\ toTune \subseteq Modules
  /\ queue \subseteq Modules /\ startLevel \in Nat /\ toSpawn \subseteq queue
  /\ task \in [Modules -> {"none", "ready", "search", "spawn", "done"}]
  /\ level \in [Modules -> Nat] /\ todo \in [Modules -> SUBSET Modules]
  /\ \A m \in Modules : record[m].children \subseteq Modules
  /\ atLevel \subseteq Modules

(***************************************************************************)
(* The tree is whole in every state, also while tasks reparent leaves and  *)
(* in the state an interrupted run leaves behind: the sub-modules of a     *)
(* module share out its leaves, and the leaves below it are those it was   *)
(* made for.                                                               *)
(***************************************************************************)
TreeIsWhole ==
  TypeOK /\ \A m \in InTree(sub) :
    /\ {l \in Leaves : leafParent[l] = m} = IF sub[m] = {} THEN m ELSE {}
    /\ sub[m] # {} => Shares(sub[m], m)

(***************************************************************************)
(* `per-module results are independent of execution order': the completed  *)
(* tree below the queue is the one a level-by-level recursion builds,      *)
(* every module split where its own sub-partition is accepted at its depth *)
(* in the tree, whatever tasks ran inline and in whatever order.           *)
(***************************************************************************)
ResultIsReference ==
  pc = "completed" =>
    \A q \in queue : \A m \in InTree(sub) : m \subseteq q =>
      LET depth  == startLevel + Cardinality({p \in Above(sub, m) : p \subseteq q})
          splits == m \in Searched /\ Accepts(m, depth)
      IN  sub[m] = IF splits THEN finds[m] ELSE {}

TunedFirst == start = [fast |-> 1, deep |-> TRUE]

\* The codelength of the tree with everything below the modules of level `at' removed.
CutLength(at) ==
  LET below == {m \in InTree(sub) : \E n \in at : m \subseteq n}
  IN  Total(LeafLength, at) + Total(OnTree(sub), InTree(sub) \ below)

\* The types of the codelengths and of their parts.
CodelengthTypes ==
  /\ codelength \in [Modules -> Int]
  /\ record \in [Modules -> [index : Int, module : Int, leaf : Int, children : SUBSET Modules]]
  /\ {consolidated, limit, stored} \subseteq Int

(***************************************************************************)
(* `reproducing its codelengths exactly': after every level of the         *)
(* aggregation the limit is the codelength of the tree cut at the next     *)
(* level; in the end every module carries its own codelength, and the      *)
(* stored one is that of the whole tree. Fine-tuned trees are left out,    *)
(* see CodelengthIsTrees.                                                  *)
(***************************************************************************)
LevelsAddUp ==
  /\ CodelengthTypes
  /\ pc \in {"aggregate", "completed"} /\ ~TunedFirst =>
       /\ limit = CutLength(atLevel)
       /\ pc = "completed" => /\ stored = TreeLength(sub)
                              /\ codelength = OnTree(sub)

(***************************************************************************)
(* "the optimizer's tracked value, and a fresh recompute over the tree     *)
(* agree": the stored codelength of a completed run is the tree's.         *)
(***************************************************************************)
CodelengthIsTrees == pc = "completed" => stored = TreeLength(sub)

(***************************************************************************)
(* The region joins: no task waits for one that a cancel kept from being   *)
(* created, and inline calls return.                                       *)
(***************************************************************************)
RunEnds == <>Final

(***************************************************************************)
(* A cancel requested while tasks are created or run ends the run as       *)
(* interrupted, never with a half refined tree as its result.              *)
(***************************************************************************)
CancelEndsRun == cancel /\ pc \in {"begin", "tune", "queue", "spawn", "join"} ~> pc = "interrupted"
=============================================================================
