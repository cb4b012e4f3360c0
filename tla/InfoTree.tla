------------------------------ MODULE InfoTree ------------------------------
(***************************************************************************)
(* The tree of InfoNode as it lies in memory: parent, sibling and child    *)
(* pointers, the collapsed chain of a hard partition, and the pool nodes   *)
(* are taken from and freed to. Sub-modules made by the recursion are      *)
(* taken from the heap instead. A tree is a record; every method of        *)
(* InfoNode is an operator from trees to trees.                            *)
(***************************************************************************)
EXTENDS Integers, Sequences, SequencesExt, FiniteSets, FiniteSetsExt

CONSTANTS PoolSize,    \* cells the pool may come to use
          HeapSize     \* and the heap

ASSUME CellsAssumption == PoolSize \in Nat /\ HeapSize \in Nat

Root == 0              \* m_root, a member of the instance
Nil == -1
PoolCells == 1..PoolSize
HeapCells == PoolSize + 1..PoolSize + HeapSize
Cells == PoolCells \cup HeapCells
Nodes == {Root} \cup Cells

\* A node as constructed; id is the stateId of a leaf, 0 in a module.
Constructed ==
  [parent |-> Nil, previous |-> Nil, next |-> Nil, first |-> Nil, last |-> Nil,
   collapsedFirst |-> Nil, collapsedLast |-> Nil, degree |-> 0, index |-> 0, id |-> 0]

EmptyTree ==
  [node   |-> [c \in Nodes |-> Constructed],
   free   |-> <<>>,    \* the pool's free list
   used   |-> 0,       \* pool cells ever handed out
   heap   |-> {},      \* heap cells in use
   thrown |-> FALSE]   \* a std::logic_error was thrown

Live(t) == (1..t.used \ Range(t.free)) \cup t.heap

-----------------------------------------------------------------------------
\* The chain of siblings from c on, and the children of p in order.
ChainFrom(t, c) ==
  LET chain[d \in Cells \cup {Nil}] ==
        IF d = Nil THEN <<>> ELSE <<d>> \o chain[t.node[d].next]
  IN  chain[c]

Children(t, p) == ChainFrom(t, t.node[p].first)
Owned(t, p) == Children(t, p) \o ChainFrom(t, t.node[p].collapsedFirst)

IsLeaf(t, c) == t.node[c].first = Nil
HaveModules(t) == ~IsLeaf(t, Root) /\ ~IsLeaf(t, t.node[Root].first)
NumTopModules(t) == t.node[Root].degree

\* numLevels follows first children only.
NumLevels(t) ==
  LET below[c \in Nodes] == IF IsLeaf(t, c) THEN 0 ELSE 1 + below[t.node[c].first]
  IN  below[Root]

Depth(t, c) ==
  LET depth[d \in Nodes] == IF d = Root THEN 0 ELSE 1 + depth[t.node[d].parent]
  IN  depth[c]

\* All cells of the subtree of c in the order its destructor reaches them.
DestroyOrder(t, c) ==
  LET order[d \in Cells] ==
        LET kids == Owned(t, d)
        IN  Append(FlattenSeq([i \in DOMAIN kids |-> order[kids[i]]]), d)
  IN  order[c]

\* The ids of the leaves below c, those of a collapsed node included.
Ids(t, c) ==
  LET ids[d \in Nodes] ==
        LET kids == Owned(t, d)
        IN  IF kids = <<>> THEN {t.node[d].id} ELSE UNION {ids[k] : k \in Range(kids)}
  IN  ids[c]

-----------------------------------------------------------------------------
(***************************************************************************)
(* Allocation: the cell alloc hands out next, and the tree after that.     *)
(***************************************************************************)
NewCell(t) == IF t.free = <<>> THEN t.used + 1 ELSE Last(t.free)

Alloc(t, id) ==
  LET c == NewCell(t) IN
    [t EXCEPT !.node[c] = [Constructed EXCEPT !.id = id],
              !.free = IF @ = <<>> THEN @ ELSE Front(@),
              !.used = IF t.free = <<>> THEN @ + 1 ELSE @]

\* `new InfoNode', outside of the pool.
NewOnHeap(t) == Min(HeapCells \ t.heap)
AllocOnHeap(t) == [t EXCEPT !.heap = @ \cup {NewOnHeap(t)}]

\* Destructed cells go back where they came from, and hold nothing any more.
FreeAll(t, order) ==
  [t EXCEPT !.node = [c \in Nodes |-> IF c \in Range(order) THEN Constructed ELSE t.node[c]],
            !.free = @ \o SelectSeq(order, LAMBDA c : c \in PoolCells),
            !.heap = @ \ Range(order)]

\* ~InfoNode: the subtree is deleted and the siblings are joined.
DestroyNode(t, c) ==
  LET n     == t.node[c]
      after == IF n.next = Nil THEN t ELSE [t EXCEPT !.node[n.next].previous = n.previous]
      both  == IF n.previous = Nil THEN after
               ELSE [after EXCEPT !.node[n.previous].next = n.next]
      apart == IF n.parent = Nil THEN both
               ELSE [both EXCEPT !.node[n.parent].first = IF @ = c THEN n.next ELSE @,
                                 !.node[n.parent].last = IF @ = c THEN n.previous ELSE @]
  IN  FreeAll(apart, DestroyOrder(t, c))

\* Both chains of p are destroyed.
DeleteChildren(t, p) ==
  LET kids == Owned(t, p)
      gone == FreeAll(t, FlattenSeq([i \in DOMAIN kids |-> DestroyOrder(t, kids[i])]))
  IN  [gone EXCEPT !.node[p] = [@ EXCEPT !.first = Nil, !.last = Nil, !.collapsedFirst = Nil,
                                         !.collapsedLast = Nil, !.degree = 0]]

-----------------------------------------------------------------------------
AddChild(t, p, c) ==
  LET last    == t.node[p].last
      linked  == IF IsLeaf(t, p) THEN [t EXCEPT !.node[p].first = c]
                 ELSE [t EXCEPT !.node[last].next = c]
  IN  [linked EXCEPT !.node[c].previous = IF IsLeaf(t, p) THEN Nil ELSE last,
                     !.node[c].next = Nil,
                     !.node[c].parent = p,
                     !.node[p].last = c,
                     !.node[p].degree = @ + 1]

AddChildren(t, p, kids) == FoldLeft(LAMBDA s, c : AddChild(s, p, c), t, kids)

ReleaseChildren(t, p) ==
  [t EXCEPT !.node[p] = [@ EXCEPT !.first = Nil, !.last = Nil, !.degree = 0]]

\* Mutation: the module that goes is still counted.
DegreeWithModule(own, kids) == own + kids

\* -1 as this node is deleted
DegreeWithout(own, kids) == own + kids - 1

\* A module's children take its place among its siblings; it is deleted.
ReplaceWithChildren(t, c) ==
  LET n    == t.node[c]
      kids == Children(t, c)
      moved == [t EXCEPT !.node = [d \in Nodes |->
                 IF d \in Range(kids) THEN [t.node[d] EXCEPT !.parent = n.parent] ELSE t.node[d]]]
      ends == [moved EXCEPT !.node[n.parent].degree = DegreeWithout(@, Len(kids)),
                            !.node[n.first].previous = n.previous,
                            !.node[n.last].next = n.next]
      head == IF t.node[n.parent].first = c THEN [ends EXCEPT !.node[n.parent].first = n.first]
              ELSE [ends EXCEPT !.node[n.previous].next = n.first]
      tail == IF t.node[n.parent].last = c THEN [head EXCEPT !.node[n.parent].last = n.last]
              ELSE [head EXCEPT !.node[n.next].previous = n.last]
      loose == [tail EXCEPT !.node[c] = [@ EXCEPT !.first = Nil, !.last = Nil, !.next = Nil,
                                                  !.previous = Nil, !.parent = Nil]]
  IN  IF IsLeaf(t, c) \/ n.parent = Nil THEN t ELSE DestroyNode(loose, c)

ReplaceEach(t, nodes) == FoldLeft(ReplaceWithChildren, t, nodes)

ReplaceChildrenWithGrandChildren(t, p) == ReplaceEach(t, Children(t, p))

\* A new node between p and its grandchildren.
ReplaceChildrenWithOneNode(t, p) ==
  LET middle == NewCell(t)
      below  == AddChildren(Alloc(t, 0), middle, Children(t, p))
      single == AddChild(ReleaseChildren(below, p), p, middle)
      number == Cardinality({c \in Range(Children(t, p)) : ~IsLeaf(t, c)})
      result == ReplaceChildrenWithGrandChildren(single, middle)
  IN  CASE t.node[p].degree = 1 -> t
        [] t.node[p].degree # 1 /\ (IsLeaf(t, p) \/ IsLeaf(t, t.node[p].first)) ->
             [t EXCEPT !.thrown = TRUE]
        [] OTHER -> [result EXCEPT !.thrown = @ \/ number # t.node[p].degree]

CollapseChildren(t, c) ==
  ReleaseChildren([t EXCEPT !.node[c] = [@ EXCEPT !.collapsedFirst = t.node[c].first,
                                                  !.collapsedLast = t.node[c].last]], c)

ExpandChildren(t, c) ==
  LET n == t.node[c]
      own == [t EXCEPT !.node[c] = [@ EXCEPT !.first = n.collapsedFirst,
                                             !.last = n.collapsedLast,
                                             !.collapsedFirst = Nil, !.collapsedLast = Nil]]
  IN  CASE n.collapsedFirst = Nil -> t
        [] n.collapsedFirst # Nil /\ (n.first # Nil \/ n.last # Nil) ->
             [t EXCEPT !.thrown = TRUE]
        [] OTHER -> [own EXCEPT !.node[c].degree = Len(Children(own, c))]

\* sortChildrenOnFlow(true), the flow of a module being that of its leaves.
SortChildrenOnFlow(t, flow) ==
  LET Flow(c)   == MapThenSumSet(LAMBDA l : flow[l], Ids(t, c))
      parents   == SetToSeq({c \in {Root} \cup Live(t) : ~IsLeaf(t, c)})
      Sort(s, p) == AddChildren(ReleaseChildren(s, p), p,
                                SortSeq(Children(t, p), LAMBDA a, b : Flow(a) > Flow(b)))
  IN  FoldLeft(Sort, t, parents)
=============================================================================
