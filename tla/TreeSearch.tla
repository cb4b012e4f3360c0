----------------------------- MODULE TreeSearch -----------------------------
(***************************************************************************)
(* What the search of one instance does to its tree, over several trials   *)
(* and runs: initial partitions, aggregation, fine and coarse tuning,      *)
(* super-modules, the sub-modules of the recursion, hard partitions and    *)
(* the restore of the best trial. What an optimisation finds is any        *)
(* partition of the nodes it was given; whether the codelength improved is *)
(* a choice.                                                               *)
(***************************************************************************)
EXTENDS InfoTree

CONSTANTS NumLeaves,     \* nodes of the network
          LeafFlow,      \* their flow
          Found(_),      \* module indices an optimisation of n nodes may end with
          Starts,        \* [twoLevel, fast, given, priorOnly], see below
          TuneLimit,     \* tuneIterationLimit
          NumTrials,     \* m_numTrials
          MaxRuns        \* bound: runs of the instance

Ids0 == 1..NumLeaves

\* given.kind is none, soft, hard or tree; given.module and given.path tell the
\* partition, by leaf; priorOnly is regularizedPriorOnly. Fine-tuning a deep tree is
\* modelled in RecursivePartition.
ASSUME SearchAssumption ==
  /\ NumLeaves \in Nat \ {0} /\ NumTrials \in Nat \ {0}
  /\ \A n \in 1..NumLeaves : Found(n) \subseteq [1..n -> 0..n - 1]
  /\ \A s \in Starts : /\ s.twoLevel \in BOOLEAN /\ s.priorOnly \in BOOLEAN
                       /\ s.fast \in 0..2
                       /\ s.given.kind = "tree" => s.fast # 1

VARIABLES
  tree,          \* m_root, its nodes and the pool
  leafNodes,     \* m_leafNodes
  originals,     \* m_originalLeafNodes
  shape,         \* history: leaf -> leaf sets of the modules it was put in, top first
  former,        \* the shape before a coarse-tuning
  start, run, trial,
  tune,          \* m_tuneIterationIndex
  fine,          \* doFineTune
  coarseTuned,
  best,          \* result.bestTree, its trial and its shape
  pc             \* idle before a run and when an exception has left it, done after it

network == <<leafNodes, originals>>
loop == <<tune, fine, coarseTuned>>
vars == <<tree, network, shape, former, start, run, trial, loop, best, pc>>

-----------------------------------------------------------------------------
\* The sequence renumbered in the order of first occurrence.
InOrder(s) ==
  LET First(v) == Min({i \in DOMAIN s : s[i] = v}) IN
    [i \in DOMAIN s |-> Cardinality({s[j] : j \in 1..First(s[i]) - 1})]

IsPartition(f, n) == Cardinality(Range(f)) \in 2..n - 1

SetIndex(t, nodes, f) ==
  [t EXCEPT !.node = [c \in Nodes |->
     IF c \in Range(nodes) THEN [t.node[c] EXCEPT !.index = f[CHOOSE i \in DOMAIN nodes : nodes[i] = c]]
     ELSE t.node[c]]]

Index(t, nodes) == [i \in DOMAIN nodes |-> t.node[nodes[i]].index]

\* setActiveNetworkFromChildrenOfRoot, or FromLeafs while there are no modules.
Active(t) == IF HaveModules(t) THEN Children(t, Root) ELSE leafNodes

\* The leaf set of the module a leaf is put in with these nodes.
Grouped(t, nodes, f) ==
  [l \in Ids0 |-> LET i == CHOOSE i \in DOMAIN nodes : l \in Ids(t, nodes[i])
                  IN  UNION {Ids(t, nodes[j]) : j \in {k \in DOMAIN nodes : f[k] = f[i]}}]

OneLevel(groups) == [l \in Ids0 |-> <<groups[l]>>]

NonTrivialTopModules(t) ==
  IF NumTopModules(t) = 1 THEN 0
  ELSE Cardinality({c \in Range(Children(t, Root)) : t.node[c].degree > 1})

-----------------------------------------------------------------------------
\* Store current modular structure on the sub-modules
StoreModule(t) ==
  LET tops == Children(t, Root) IN
    [t EXCEPT !.node = [c \in Nodes |->
       IF t.node[c].parent \in Range(tops)
         THEN [t.node[c] EXCEPT !.index = (CHOOSE i \in DOMAIN tops : tops[i] = t.node[c].parent) - 1]
         ELSE t.node[c]]]

\* Mutation: a tree of one level of modules is not taken for one that has modules.
ReplaceDeeper(t, replaceExisting) == replaceExisting /\ NumLevels(t) > 2

ReplaceLevel(t, replaceExisting) == replaceExisting /\ NumLevels(t) > 1

\* consolidateModules: a new module for every index, between the active nodes and
\* their parents; replaced are those parents, or the active nodes themselves.
Consolidate(t, nodes, replaceExisting) ==
  LET level    == Depth(t, nodes[1])
      replace  == ReplaceLevel(t, replaceExisting)
      released == FoldLeft(LAMBDA s, c : ReleaseChildren(s, s.node[c].parent), t, nodes)
      Put(s, c) ==
        LET i      == s.tree.node[c].index
            isNew  == s.module[i] = Nil
            module == IF isNew THEN NewCell(s.tree) ELSE s.module[i]
            made   == IF isNew THEN AddChild(SetIndex(Alloc(s.tree, 0), <<module>>, <<i>>),
                                             s.tree.node[c].parent, module)
                      ELSE s.tree
        IN  [tree |-> AddChild(made, module, c), module |-> [s.module EXCEPT ![i] = module]]
      built    == FoldLeft(Put, [tree |-> released, module |-> [i \in 0..Len(nodes) - 1 |-> Nil]],
                           nodes).tree
  IN  CASE replace /\ level = 1 -> ReplaceEach(built, nodes)
        [] replace /\ level = 2 -> ReplaceChildrenWithGrandChildren(StoreModule(built), Root)
        [] OTHER                -> built

ModuleChildren(t, p) == {c \in Range(Children(t, p)) : ~IsLeaf(t, c)}

\* removeModules
RemoveModules(t) ==
  LET pass[k \in 0..Cardinality(Live(t))] ==
        IF k = 0 THEN t
        ELSE LET s == pass[k - 1] IN
               IF ModuleChildren(s, Root) = {} THEN s ELSE ReplaceChildrenWithGrandChildren(s, Root)
  IN  pass[Cardinality(Live(t))]

\* removeSubModules
RemoveSubModules(t) ==
  LET tops == Children(t, Root)
      pass[k \in 0..Cardinality(Live(t))] ==
        IF k = 0 THEN t
        ELSE LET s == pass[k - 1] IN
               IF \A m \in Range(tops) : ModuleChildren(s, m) = {} THEN s
               ELSE FoldLeft(ReplaceChildrenWithGrandChildren, s, tops)
  IN  pass[Cardinality(Live(t))]

\* initPartition(modules) of all leaf nodes
InitPartition(t, f) ==
  Consolidate(SetIndex(RemoveModules(t), leafNodes, f), leafNodes, FALSE)

-----------------------------------------------------------------------------
(***************************************************************************)
(* initTree, from [id, path] rows.                                         *)
(***************************************************************************)
MaxPath(rows) == Max({Len(r.path) : r \in Range(rows)})

\* A module would get both a leaf and a sub-module.
Mixed(rows) ==
  \E r, q \in Range(rows) : Len(q.path) > Len(r.path) /\ Front(r.path) = SubSeq(q.path, 1, Len(r.path) - 1)

Detached(t) ==
  LET Detach(s, c) ==
        LET p == s.node[c].parent
            r == IF p = Nil THEN s ELSE ReleaseChildren(s, p)
        IN  [r EXCEPT !.node[c] = [@ EXCEPT !.parent = Nil, !.next = Nil, !.previous = Nil]]
  IN  DeleteChildren(FoldLeft(Detach, t, leafNodes), Root)

AddModule(t, p) == AddChild(Alloc(t, 0), p, NewCell(t))

BuildTree(t, rows) ==
  LET prefixes == UNION {{SubSeq(r.path, 1, i) : i \in 1..Len(r.path) - 1} : r \in Range(rows)}
      Leaf(id) == CHOOSE c \in Range(leafNodes) : t.node[c].id = id
      Down(s, prefix) ==
        IF s.module[prefix] # Nil THEN [s EXCEPT !.at = s.module[prefix]]
        ELSE [tree |-> AddModule(s.tree, s.at), at |-> NewCell(s.tree),
              module |-> [s.module EXCEPT ![prefix] = NewCell(s.tree)]]
      Row(s, r) ==
        LET below == FoldLeft(Down, [s EXCEPT !.at = Root],
                              [i \in 1..Len(r.path) - 1 |-> SubSeq(r.path, 1, i)])
        IN  [below EXCEPT !.tree = AddChild(@, below.at, Leaf(r.id))]
      Orphan(s, c) == IF s.node[c].parent # Nil THEN s
                      ELSE AddChild(AddModule(s, Root), NewCell(s), c)
      built == FoldLeft(Row, [tree |-> t, at |-> Root, module |-> [x \in prefixes |-> Nil]], rows)
  IN  FoldLeft(Orphan, built.tree, leafNodes)

\* The cluster of each leaf node: the first number of its path, its own if it has none.
Clusters(t, rows) ==
  LET top(c) == LET mine == {r \in Range(rows) : r.id = t.node[c].id}
                IN  IF mine = {} THEN -c ELSE (CHOOSE r \in mine : TRUE).path[1]
  IN  InOrder([i \in DOMAIN leafNodes |-> top(leafNodes[i])])

InitTree(t, rows) ==
  CASE MaxPath(rows) <= 2 \/ start.twoLevel -> InitPartition(t, Clusters(t, rows))
    [] MaxPath(rows) > 2 /\ ~start.twoLevel ->
         IF Mixed(rows) THEN [t EXCEPT !.thrown = TRUE] ELSE BuildTree(Detached(t), rows)

\* The leaf sets the rows ask for.
ShapeOf(rows) ==
  [l \in Ids0 |->
     LET mine == {r \in Range(rows) : r.id = l}
         path == (CHOOSE r \in mine : TRUE).path
         number == IF start.twoLevel THEN 1 ELSE Len(path) - 1
     IN  IF mine = {} THEN <<{l}>>
         ELSE [i \in 1..number |-> {k \in Ids0 : \E r \in Range(rows) :
                                      r.id = k /\ Len(r.path) > i /\ SubSeq(r.path, 1, i) = SubSeq(path, 1, i)}]]

\* Leaf nodes in tree order, and the rows updateBestResult keeps of them.
LeavesBelow(t, c) ==
  LET leaves[d \in Nodes] ==
        IF IsLeaf(t, d) THEN <<d>>
        ELSE LET kids == Children(t, d) IN FlattenSeq([i \in DOMAIN kids |-> leaves[kids[i]]])
  IN  leaves[c]

Path(t, c) ==
  LET path[d \in Nodes] ==
        IF d = Root THEN <<>>
        ELSE LET p == t.node[d].parent
                 kids == Children(t, p)
             IN  Append(path[p], CHOOSE i \in DOMAIN kids : kids[i] = d)
  IN  path[c]

Rows(t) ==
  LET leaves == LeavesBelow(t, Root)
  IN  [i \in DOMAIN leaves |-> [id |-> t.node[leaves[i]].id, path |-> Path(t, leaves[i])]]

MaxDepth(t) == Max({Depth(t, c) : c \in Range(LeavesBelow(t, Root))})

-----------------------------------------------------------------------------
NoBest == [rows |-> <<>>, shape |-> <<>>, trial |-> -1]

Init ==
  /\ tree = EmptyTree
  /\ leafNodes = <<>> /\ originals = <<>>
  /\ shape = [l \in Ids0 |-> <<>>] /\ former = shape
  /\ start \in Starts
  /\ run = 0 /\ trial = 0
  /\ tune = 0 /\ fine = TRUE /\ coarseTuned = FALSE
  /\ best = NoBest
  /\ pc = "idle"

\* An exception leaves the run.
GoOn(t, next) == IF t.thrown THEN "idle" ELSE next

\* initNetwork(Network&)
InitNetwork ==
  /\ pc \in {"idle", "done"}
  /\ run < MaxRuns
  /\ start' \in Starts
  /\ LET old     == tree.node[Root].first # Nil \/ tree.node[Root].collapsedFirst # Nil
         cleared == IF old THEN DeleteChildren(tree, Root) ELSE tree
     IN  tree' = FoldLeft(LAMBDA t, l : AddChild(Alloc(t, l), Root, NewCell(t)),
                          [cleared EXCEPT !.thrown = FALSE], [i \in Ids0 |-> i])
  /\ leafNodes' = Children(tree', Root)
  /\ originals' = <<>>
  /\ shape' = [l \in Ids0 |-> <<>>]
  /\ run' = run + 1
  /\ trial' = 0
  /\ best' = NoBest
  /\ pc' = "trial"
  /\ UNCHANGED <<former, loop>>

\* The top modules become the nodes the search works on, their children are hidden.
Collapse(t) == FoldLeft(CollapseChildren, t, Children(t, Root))

\* removeModules and initTrialPartition, then partition or the deeper tree's way.
BeginTrial ==
  /\ pc = "trial"
  /\ LET t     == RemoveModules(tree)
         given == start.given
         named == InitPartition(t, given.module)
         deep  == ~start.twoLevel /\ MaxDepth(tree') > 2
     IN  /\ CASE given.kind = "none" ->
                   /\ tree' = t
                   /\ shape' = [l \in Ids0 |-> <<>>]
                   /\ UNCHANGED network
              [] given.kind = "soft" ->
                   /\ tree' = named
                   /\ shape' = OneLevel(Grouped(t, leafNodes, given.module))
                   /\ UNCHANGED network
              [] given.kind = "hard" ->
                   /\ tree' = Collapse(named)
                   /\ shape' = [l \in Ids0 |-> <<>>]
                   /\ originals' = leafNodes
                   /\ leafNodes' = Children(named, Root)
              [] given.kind = "tree" ->
                   /\ tree' = InitTree(t, given.rows)
                   /\ shape' = ShapeOf(given.rows)
                   /\ UNCHANGED network
         /\ pc' = GoOn(tree', IF deep THEN "levels" ELSE "top")
  /\ tune' = 0 /\ fine' = TRUE /\ coarseTuned' = FALSE
  /\ UNCHANGED <<former, start, run, trial, best>>

-----------------------------------------------------------------------------
(***************************************************************************)
(* findTopModulesRepeatedly                                                *)
(***************************************************************************)
AfterTop == IF tune = 0 THEN "tune" ELSE "eval"

Search == <<start, run, trial, best, network>>

\* One top module, or moves on the modules that gained nothing.
TopModulesFound ==
  /\ pc = "top"
  /\ NumTopModules(tree) <= 1 \/ HaveModules(tree)
  /\ pc' = AfterTop
  /\ UNCHANGED <<tree, shape, former, loop, Search>>

\* An optimisation of the active nodes, and their consolidation.
MergeActive ==
  /\ pc = "top"
  /\ NumTopModules(tree) > 1
  /\ LET nodes == Active(tree) IN
       \E f \in Found(Len(nodes)) :
         /\ HaveModules(tree) => Cardinality(Range(f)) < Len(nodes)
         /\ tree' = Consolidate(SetIndex(tree, nodes, f), nodes, HaveModules(tree))
         /\ shape' = OneLevel(Grouped(tree, nodes, f))
  /\ UNCHANGED <<pc, former, loop, Search>>

-----------------------------------------------------------------------------
(***************************************************************************)
(* partition: fine-tuning and coarse-tuning in turn.                       *)
(***************************************************************************)
Tuning == pc = "tune" /\ NumTopModules(tree) > 1 /\ tune + 1 # TuneLimit

TuneDone ==
  /\ pc = "tune"
  /\ NumTopModules(tree) <= 1 \/ tune + 1 = TuneLimit
  /\ pc' = "end"
  /\ UNCHANGED <<tree, shape, former, loop, Search>>

\* `numLevels != 2' is a logic error of both.
Checked(t) == [t EXCEPT !.thrown = NumLevels(t) # 2]

ParentIndex(t) == InOrder([i \in DOMAIN leafNodes |-> t.node[leafNodes[i]].parent])

FineTune ==
  /\ Tuning /\ fine
  /\ tune' = tune + 1
  /\ \/ /\ tree' = Checked(tree)
        /\ pc' = GoOn(tree', "eval")
        /\ UNCHANGED shape
     \/ \E f \in Found(Len(leafNodes)) \ {ParentIndex(tree)} :
          LET t    == SetIndex(Checked(tree), leafNodes, f)
              flat == ReplaceChildrenWithGrandChildren(t, Root)
          IN  /\ tree' = IF t.thrown THEN t ELSE Consolidate(flat, leafNodes, FALSE)
              /\ shape' = IF t.thrown THEN shape ELSE OneLevel(Grouped(tree, leafNodes, f))
              /\ pc' = GoOn(tree', "top")
  /\ UNCHANGED <<former, fine, coarseTuned, Search>>

\* The sub-modules that sub-Infomaps found, with the offset of the modules before.
Numbered(t, modules, found) ==
  FoldLeft(LAMBDA s, m :
             LET kids == Children(t, m)
                 own  == InOrder(Index(found, kids))
             IN  [tree |-> SetIndex(s.tree, kids, [i \in DOMAIN kids |-> own[i] + s.offset]),
                  offset |-> s.offset + Cardinality(Range(own))],
           [tree |-> t, offset |-> 0], modules).tree

\* The modules are partitioned apart (given here by one partition f of all leaves) and
\* consolidated; then the sub-modules are the active nodes, in their former modules.
CoarseTune ==
  /\ Tuning /\ ~fine
  /\ tune' = tune + 1
  /\ coarseTuned' = TRUE
  /\ \E f \in Found(Len(leafNodes)) :
       LET t    == Checked(tree)
           subs == Numbered(t, Children(t, Root), SetIndex(t, leafNodes, f))
           both == [i \in DOMAIN leafNodes |-> <<f[i], ParentIndex(tree)[i]>>]
       IN  /\ tree' = IF t.thrown THEN t ELSE Consolidate(subs, leafNodes, TRUE)
           /\ shape' = IF t.thrown THEN shape ELSE OneLevel(Grouped(tree, leafNodes, both))
           /\ pc' = GoOn(tree', "coarse")
  /\ former' = shape
  /\ UNCHANGED <<fine, Search>>

TuneSubModules ==
  /\ pc = "coarse"
  /\ LET nodes == Children(tree, Root)
         stays == InOrder(Index(tree, nodes))
     IN  \/ /\ tree' = Consolidate(tree, nodes, TRUE)
            /\ shape' = former
            /\ pc' = "eval"
         \/ \E f \in Found(Len(nodes)) \ {stays} :
              /\ tree' = Consolidate(SetIndex(tree, nodes, f), nodes, TRUE)
              /\ shape' = OneLevel(Grouped(tree, nodes, f))
              /\ pc' = "top"
  /\ UNCHANGED <<former, loop, Search>>

\* Is the codelength better? If not, and coarse-tuning has been tried, that is all.
Evaluate ==
  /\ pc = "eval"
  /\ \/ coarseTuned /\ pc' = "end" /\ UNCHANGED fine
     \/ pc' = "tune" /\ fine' = ~fine
  /\ UNCHANGED <<tree, shape, former, tune, coarseTuned, Search>>

\* A top module and its children get index i.
SetModuleIndex(t, m, i) ==
  LET nodes == <<m>> \o Children(t, m) IN SetIndex(t, nodes, [j \in DOMAIN nodes |-> i])

ConsolidatedIndex(t) ==
  LET tops == Children(t, Root)
  IN  FoldLeft(LAMBDA s, i : SetModuleIndex(s, tops[i], i - 1), t, [i \in DOMAIN tops |-> i])

\* All nodes are put in one module when that is better, which it cannot be where they
\* are in one already.
EndPartition ==
  /\ pc = "end"
  /\ \/ /\ tree' = ConsolidatedIndex(tree)
        /\ pc' = IF start.twoLevel \/ NumTopModules(tree) \in {1, Len(leafNodes)} THEN "finish"
                 ELSE "super"
        /\ UNCHANGED shape
     \/ /\ \/ NonTrivialTopModules(tree) > 0
           \/ start.priorOnly /\ NumTopModules(tree) > 1
        /\ tree' = ConsolidatedIndex(ReplaceChildrenWithOneNode(tree, Root))
        /\ shape' = [l \in Ids0 |-> <<Ids0>>]
        /\ pc' = GoOn(tree', "finish")
  /\ UNCHANGED <<former, loop, Search>>

-----------------------------------------------------------------------------
(***************************************************************************)
(* hierarchicalPartition: levels above and below.                          *)
(***************************************************************************)
FindSuperModules ==
  /\ pc = "super"
  /\ LET nodes == Children(tree, Root) IN
       \/ \E f \in Found(Len(nodes)) :
            LET groups == Grouped(tree, nodes, f) IN
              /\ IsPartition(f, Len(nodes))
              /\ tree' = Consolidate(SetIndex(tree, nodes, f), nodes, FALSE)
              /\ shape' = [l \in Ids0 |-> <<groups[l]>> \o shape[l]]
              /\ pc' = IF NonTrivialTopModules(tree') > 1 THEN "super" ELSE "levels"
       \/ pc' = "levels" /\ UNCHANGED <<tree, shape>>
  /\ UNCHANGED <<former, loop, Search>>

\* What is kept of the levels found, by fastHierarchicalSolution.
KeepLevels ==
  /\ pc = "levels"
  /\ IF start.fast = 0
       THEN /\ tree' = RemoveSubModules(tree)
            /\ shape' = [l \in Ids0 |-> <<shape[l][1]>>]
       ELSE UNCHANGED <<tree, shape>>
  /\ pc' = IF start.fast = 2 /\ start.given.kind # "tree" THEN "finish" ELSE "recurse"
  /\ UNCHANGED <<former, loop, Search>>

\* A task of the recursion materialises the sub-modules of leaf module m, taken
\* from the heap: the pool is not made for several threads.
Materialise(t, m, f) ==
  LET kids == Children(t, m)
      number == Cardinality(Range(f))
      new == FoldLeft(LAMBDA s, k : [tree |-> AllocOnHeap(s.tree),
                                     sub |-> Append(s.sub, NewOnHeap(s.tree))],
                      [tree |-> ReleaseChildren(t, m), sub |-> <<>>], [k \in 1..number |-> k])
      filled == FoldLeft(LAMBDA s, i : AddChild(s, new.sub[f[i] + 1], kids[i]), new.tree,
                         [i \in DOMAIN kids |-> i])
  IN  AddChildren(filled, m, new.sub)

PartitionModule ==
  /\ pc = "recurse"
  /\ \E m \in Live(tree) :
       LET kids == Children(tree, m) IN
         /\ Len(kids) > 2 /\ ModuleChildren(tree, m) = {}
         /\ \E f \in Found(Len(kids)) :
              LET groups == [l \in Ids(tree, m) |->
                               UNION {Ids(tree, kids[j]) : j \in {k \in DOMAIN kids :
                                 \E i \in DOMAIN kids : l \in Ids(tree, kids[i]) /\ f[k] = f[i]}}]
              IN  /\ IsPartition(f, Len(kids))
                  /\ tree' = Materialise(tree, m, f)
                  /\ shape' = [l \in Ids0 |-> IF l \in Ids(tree, m) THEN Append(shape[l], groups[l])
                                              ELSE shape[l]]
  /\ UNCHANGED <<pc, former, loop, Search>>

RecursionDone ==
  /\ pc = "recurse"
  /\ pc' = "finish"
  /\ UNCHANGED <<tree, shape, former, loop, Search>>

-----------------------------------------------------------------------------
\* The leaves are collected first, then each is expanded and replaced.
RestoredHard(t) ==
  FoldLeft(LAMBDA s, c : ReplaceWithChildren(ExpandChildren(s, c), c), t, LeavesBelow(t, Root))

\* restoreHardPartition, then finishTrial: a better trial is sorted and kept.
FinishTrial ==
  /\ pc = "finish"
  /\ LET hard == originals # <<>>
         t    == IF hard THEN RestoredHard(tree) ELSE tree
         kept == SortChildrenOnFlow(t, LeafFlow)
     IN  /\ IF hard THEN leafNodes' = originals /\ originals' = leafNodes
            ELSE UNCHANGED network
         /\ \/ /\ tree' = kept
               /\ best' = [rows |-> Rows(kept), shape |-> shape, trial |-> trial]
            \/ /\ trial > 0
               /\ tree' = t
               /\ UNCHANGED best
         /\ trial' = trial + 1
         /\ pc' = GoOn(tree', IF trial + 1 < NumTrials THEN "trial" ELSE "restore")
  /\ UNCHANGED <<shape, former, start, run, loop>>

\* Mutation: the top modules of the best trial are restored, not its levels.
RestoreTopModules ==
  /\ pc = "restore"
  /\ IF NumTrials > 1 /\ best.trial < NumTrials - 1
       THEN /\ tree' = InitPartition(tree, Clusters(tree, best.rows))
            /\ shape' = best.shape
       ELSE UNCHANGED <<tree, shape>>
  /\ pc' = "done"
  /\ UNCHANGED <<former, loop, Search>>

\* restoreBestResult; the run is over.
RestoreBest ==
  /\ pc = "restore"
  /\ IF NumTrials > 1 /\ best.trial < NumTrials - 1
       THEN /\ tree' = InitTree(tree, best.rows)
            /\ shape' = best.shape
       ELSE UNCHANGED <<tree, shape>>
  /\ pc' = GoOn(tree', "done")
  /\ UNCHANGED <<former, loop, Search>>

\* InterruptionError out of an optimisation or a sub-Infomap.
Interrupt ==
  /\ pc \in {"top", "tune", "coarse", "super", "recurse"}
  /\ pc' = "idle"
  /\ UNCHANGED <<tree, shape, former, loop, Search>>

Done == pc \in {"idle", "done"} /\ run = MaxRuns /\ UNCHANGED vars

Next ==
  \/ InitNetwork \/ BeginTrial
  \/ TopModulesFound \/ MergeActive
  \/ TuneDone \/ FineTune \/ CoarseTune \/ TuneSubModules \/ Evaluate \/ EndPartition
  \/ FindSuperModules \/ KeepLevels \/ PartitionModule \/ RecursionDone
  \/ FinishTrial \/ RestoreBest
  \/ Interrupt
  \/ Done

Spec == Init /\ [][Next]_vars

-----------------------------------------------------------------------------
\* Cells reached from the root by the pointers that own them.
Reached(t) ==
  LET reach[k \in 0..Cardinality(Live(t)) + 1] ==
        IF k = 0 THEN {Root}
        ELSE LET r == reach[k - 1] IN
               (r \cup UNION {{t.node[c].first, t.node[c].collapsedFirst, t.node[c].next} : c \in r})
                 \ {Nil}
  IN  reach[Cardinality(Live(t)) + 1]

NodeType ==
  LET Pointer == Cells \cup {Nil} IN
    [parent : Nodes \cup {Nil}, previous : Pointer, next : Pointer, first : Pointer,
     last : Pointer, collapsedFirst : Pointer, collapsedLast : Pointer,
     degree : 0..NumLeaves, index : 0..NumLeaves - 1, id : 0..NumLeaves]

(***************************************************************************)
(* Whatever was done to it, and wherever an interrupt left it, the tree is *)
(* a tree: its pointers agree, every degree counts the children, the nodes *)
(* in use are exactly those that the root owns, so none is leaked, freed   *)
(* twice or still linked after it was freed; the leaf nodes are of them.   *)
(***************************************************************************)
TreeIsSound ==
  /\ tree.node \in [Nodes -> NodeType]
  /\ Range(tree.free) \subseteq 1..tree.used /\ Cardinality(Range(tree.free)) = Len(tree.free)
  /\ Reached(tree) = {Root} \cup Live(tree)
  /\ Range(leafNodes) \subseteq Live(tree)
  /\ \A c \in Live(tree) :
       LET n == tree.node[c]
           p == tree.node[n.parent]
       IN  /\ n.parent # Nil
           /\ IF n.previous = Nil THEN c \in {p.first, p.collapsedFirst}
              ELSE tree.node[n.previous].next = c /\ tree.node[n.previous].parent = n.parent
           /\ n.next = Nil <=> c \in {p.last, p.collapsedLast}
  /\ \A p \in {Root} \cup Live(tree) :
       LET kids == {c \in Live(tree) : tree.node[c].parent = p}
       IN  tree.node[p].degree = IF tree.node[p].first = Nil THEN 0 ELSE Cardinality(kids)

\* The leaf sets of the modules above a leaf; the nodes of a hard partition are none.
Above(t, l) ==
  LET above[c \in Nodes] ==
        LET p == t.node[c].parent IN
          CASE p = Root -> <<>>
            [] p # Root /\ t.node[p].collapsedFirst = Nil -> Append(above[p], Ids(t, p))
            [] OTHER -> above[p]
  IN  above[CHOOSE c \in Live(t) : t.node[c].id = l]

(***************************************************************************)
(* The tree is the one that was found: after every re-arrangement the      *)
(* modules above each leaf hold the nodes the optimisations, the given     *)
(* partition or the best trial put together, no more and no fewer levels,  *)
(* in the end too, when the rows of the best trial have been restored. An  *)
(* interrupt may leave the tree between two of them (pc idle).             *)
(***************************************************************************)
TreeIsWhatWasFound == pc # "idle" => \A l \in Ids0 : Above(tree, l) = shape[l]

(***************************************************************************)
(* No run leaves with an error of its own making: "called but numLevels    *)
(* != 2", "called on a node that already has children", a node without     *)
(* grandchildren, or a best tree that mixes leaves and sub-modules.        *)
(***************************************************************************)
CallsAreLegal == ~tree.thrown
=============================================================================
