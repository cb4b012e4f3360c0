----------------------------- MODULE Partition ------------------------------
(***************************************************************************)
(* InfomapOptimizer's partition of the active network, and what it takes   *)
(* to move one node from one module to another.  A partition is the module *)
(* index of every node, the member count and the flow data of every        *)
(* module, and the stack m_emptyModules.                                   *)
(*                                                                         *)
(* The flow bookkeeping is kept in full, over integers: what a sweep adds  *)
(* and subtracts when a node moves must agree with the flow of the modules *)
(* the nodes are in.                                                       *)
(***************************************************************************)
EXTENDS Integers, Sequences, FiniteSets, Functions

CONSTANTS NumNodes,         \* size of the active network
          LinkFlow,         \* <<source, target>> -> edge.data.flow, 0 where no link
          Undirected,       \* isUndirectedClustering()
          Recorded,         \* recordedTeleportation
          TeleportFlow,     \* node -> data.teleportFlow
          TeleportWeight,   \* node -> data.teleportWeight
          NodeFlow,         \* node -> data.flow
          PhysicalNodes     \* node -> physNodeIndex of its physicalNodes; none
                            \* unless the objective is MemMapEquation

Nodes == 0..(NumNodes - 1)
Modules == Nodes     \* one module slot per node

ASSUME SizeAssumption == NumNodes \in Nat \ {0}

\* The flow of an undirected link is halved between its two directions; the unit
\* of flow is such that the halves are integers.
ASSUME NetworkAssumption ==
  /\ LinkFlow \in [Nodes \X Nodes -> Nat]
  /\ \A n \in Nodes : LinkFlow[<<n, n>>] = 0
  /\ TeleportFlow \in [Nodes -> Nat] /\ TeleportWeight \in [Nodes -> Nat]
  /\ NodeFlow \in [Nodes -> Nat]
  /\ PhysicalNodes \in [Nodes -> SUBSET Nat]
  /\ Undirected \in BOOLEAN /\ Recorded \in BOOLEAN
  /\ Undirected => \A l \in Nodes \X Nodes : LinkFlow[l] % 2 = 0

\* outEdges and inEdges of a node.
OutLinks(n) == {m \in Nodes : LinkFlow[<<n, m>>] > 0}
InLinks(n) == {m \in Nodes : LinkFlow[<<m, n>>] > 0}
Neighbours(n) == OutLinks(n) \cup InLinks(n)
Degree(n) == Cardinality(OutLinks(n)) + Cardinality(InLinks(n))

-----------------------------------------------------------------------------
(***************************************************************************)
(* Flow data: node.data and m_moduleFlowData.                              *)
(***************************************************************************)
FlowFrom(S, T) == SumFunctionOnSet(LinkFlow, S \X T)
TeleFlowOf(S) == SumFunctionOnSet(TeleportFlow, S)
TeleWeightOf(S) == SumFunctionOnSet(TeleportWeight, S)

\* The enter and exit flow of a set of nodes: for a single node what
\* initEnterExitFlow computes (or the flow calculation, where the flow is
\* regularised), for a module what the sweeps must arrive at.  Teleportation only
\* has targets with undirected flow if that is regularised.
EnterExit(S) ==
  LET rest == Nodes \ S
      out  == FlowFrom(S, rest)
      in   == FlowFrom(rest, S)
      half == (out + in) \div 2
  IN  [enter |-> (IF Undirected THEN half ELSE in)
                   + IF Recorded THEN TeleFlowOf(rest) * TeleWeightOf(S) ELSE 0,
       exit  |-> (IF Undirected THEN half ELSE out)
                   + IF Recorded THEN TeleFlowOf(S) * TeleWeightOf(rest) ELSE 0]

FlowData(S) ==
  [flow   |-> SumFunctionOnSet(NodeFlow, S),
   enter  |-> EnterExit(S).enter,
   exit   |-> EnterExit(S).exit,
   tele   |-> TeleFlowOf(S),
   weight |-> TeleWeightOf(S)]

NodeData == [n \in Nodes |-> FlowData({n})]

FlowAdd(a, b) == [k \in DOMAIN a |-> a[k] + b[k]]
FlowSub(a, b) == [k \in DOMAIN a |-> a[k] - b[k]]

\* deltaEnter + deltaExit between node n and the rest of module m in partition p:
\* its links to the module, and addTeleportationFlow.
Delta(p, n, m) ==
  LET others == {k \in Nodes \ {n} : p.index[k] = m}
      links  == FlowFrom({n}, others) + FlowFrom(others, {n})
      f      == IF p.index[n] = m THEN FlowSub(p.flows[m], NodeData[n]) ELSE p.flows[m]
      tele   == f.tele * TeleportWeight[n] + TeleportFlow[n] * f.weight
  IN  links + IF Recorded THEN tele ELSE 0

\* Mutation: the enter and exit flow take the deltas of the wrong module.
MoveFlowsSwapped(flows, n, oldM, newM, oldDelta, newDelta) ==
  LET left == FlowSub(flows[oldM], NodeData[n])
      into == FlowAdd(flows[newM], NodeData[n])
  IN  [flows EXCEPT
        ![oldM] = [left EXCEPT !.enter = @ + newDelta, !.exit = @ + newDelta],
        ![newM] = [into EXCEPT !.enter = @ - oldDelta, !.exit = @ - oldDelta]]

\* MapEquation::updateCodelengthOnMovingNode on m_moduleFlowData.
MoveFlows(flows, n, oldM, newM, oldDelta, newDelta) ==
  LET left == FlowSub(flows[oldM], NodeData[n])
      into == FlowAdd(flows[newM], NodeData[n])
  IN  [flows EXCEPT
        ![oldM] = [left EXCEPT !.enter = @ + oldDelta, !.exit = @ + oldDelta],
        ![newM] = [into EXCEPT !.enter = @ - newDelta, !.exit = @ - newDelta]]

-----------------------------------------------------------------------------
(***************************************************************************)
(* The partition.                                                          *)
(***************************************************************************)
Pop(stack) == SubSeq(stack, 1, Len(stack) - 1)

\* Mutation: a module that is joined stays on the stack.
MoveEmptyNoPop(p, oldM, newM) ==
  IF p.members[oldM] = 1 THEN Append(p.empty, oldM) ELSE p.empty

\* `Update empty module vector'.
MoveEmpty(p, oldM, newM) ==
  LET popped == IF p.members[newM] = 0 THEN Pop(p.empty) ELSE p.empty
  IN  IF p.members[oldM] = 1 THEN Append(popped, oldM) ELSE popped

MoveMembers(members, oldM, newM) ==
  [members EXCEPT ![oldM] = @ - 1, ![newM] = @ + 1]

\* One node moves to another module: moveNodeToPredefinedModule, and the same
\* steps inlined in tryMoveEachNodeIntoBestModule.
Move(p, n, newM) ==
  LET oldM == p.index[n]
  IN  [index   |-> [p.index EXCEPT ![n] = newM],
       members |-> MoveMembers(p.members, oldM, newM),
       empty   |-> MoveEmpty(p, oldM, newM),
       flows   |-> MoveFlows(p.flows, n, oldM, newM, Delta(p, n, oldM), Delta(p, n, newM))]

\* initPartition: one module for each node.
Singletons ==
  [index   |-> [n \in Nodes |-> n],
   members |-> [m \in Modules |-> 1],
   empty   |-> <<>>,
   flows   |-> NodeData]

\* Mutation: only the targets of its links are.
DirtiedForward(n) == OutLinks(n)

\* The nodes marked dirty when n has moved.
DirtiedBy(n) == OutLinks(n) \cup InLinks(n)

\* node.dirty of the neighbours is set.
MarkDirty(d, S) == [n \in Nodes |-> n \in S \/ d[n]]

\* Nodes that a sweep passes over: clean ones and, on the first loop, those that
\* other nodes have joined.
PassedOver(p, dirty, firstLoop, n) ==
  \/ ~dirty[n]
  \/ p.members[p.index[n]] > 1 /\ firstLoop

\* The nodes in m_physToModuleToMemNodes of a physical node of n.
PhysicallyTied(n) == {m \in Nodes : PhysicalNodes[m] \cap PhysicalNodes[n] # {}}

\* The modules considered for n: its own, those of its neighbours, those of
\* random nodes, the last empty module if n is not alone, and those that have a
\* physical node of n (addMemoryContributions).
Candidates(p, n, randomMoves) ==
  {p.index[n]}
    \cup {p.index[m] : m \in IF randomMoves THEN Nodes ELSE Neighbours(n) \cup PhysicallyTied(n)}
    \cup (IF p.members[p.index[n]] > 1 /\ p.empty # <<>>
            THEN {p.empty[Len(p.empty)]} ELSE {})

-----------------------------------------------------------------------------
Members(p, m) == {n \in Nodes : p.index[n] = m}
EmptyModules(p) == {m \in Modules : p.members[m] = 0}

\* The types of what is counted; what the flows are is said by Balanced.
CountTypes(p) ==
  /\ p.index \in [Nodes -> Modules]
  /\ p.members \in [Modules -> Nat]
  /\ p.empty \in Seq(Modules)

\* The member counts are those of the modules, and there are as many entries on
\* the stack as there are empty modules.
Counted(p) ==
  /\ \A m \in Modules : p.members[m] = Cardinality(Members(p, m))
  /\ Len(p.empty) = Cardinality(EmptyModules(p))

\* The modules' flow data are those of their nodes.
Balanced(p) == \A m \in Modules : p.flows[m] = FlowData(Members(p, m))
=============================================================================
