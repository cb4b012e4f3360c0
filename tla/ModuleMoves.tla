----------------------------- MODULE ModuleMoves ----------------------------
(***************************************************************************)
(* InfomapOptimizer with one thread: the partition is set up by            *)
(* initPartition, possibly followed by moveActiveNodesToPredefinedModules, *)
(* and then changed by the sweeps of optimizeActiveNetwork.                *)
(*                                                                         *)
(* The codelength is a function of the flow and is left abstract; which    *)
(* candidate module is best is therefore any one of the candidates, and a  *)
(* sweep may or may not have improved the codelength enough to go on.      *)
(*                                                                         *)
(* ParallelMoves builds on this module: there the sweeps are parallel.     *)
(***************************************************************************)
EXTENDS Partition

CONSTANTS Memory,           \* the objective is MemMapEquation
          RandomMoves,      \* numRandomMoves > 0
          GivenModules,     \* the predefined modules optimisation may start from
          CoreLoopLimit,    \* loopLimit; 0 is no limit
          MaxCodelength     \* bound: codelengths are 0..MaxCodelength

ASSUME OptimizerAssumption ==
  /\ Memory \in BOOLEAN /\ RandomMoves \in BOOLEAN
  /\ ~Memory => \A n \in Nodes : PhysicalNodes[n] = {}
  /\ GivenModules \subseteq [Nodes -> Modules]
  /\ CoreLoopLimit \in Nat /\ MaxCodelength \in Nat

VARIABLES
  part,        \* the partition
  dirty,       \* node -> node.dirty
  memAdded,    \* MemMapEquation::m_memoryContributionsAdded
  phase,       \* "start", "predefined", "poll", "sweep", "done"
  given,       \* the predefined modules, while nodes move there
  cursor,      \* the next node to move to its predefined module
  firstLoop,   \* isFirstLoop() && tuneIterationLimit != 1
  todo,        \* nodes the sweep has not come to
  moved,       \* numMoved of this sweep > 0, all that is read of it
  loops,       \* coreLoopCount
  codelength,  \* oldCodelength of optimizeActiveNetwork
  cancel,      \* *m_cancel
  applied,     \* history: how often the last move's memory terms were applied
  unsettled    \* history: nodes with a neighbour moved since they were evaluated

vars == <<part, dirty, memAdded, phase, given, cursor, firstLoop, todo, moved,
          loops, codelength, cancel, applied, unsettled>>

loopVars == <<given, cursor, firstLoop>>

Init ==
  /\ part = Singletons
  /\ dirty = [n \in Nodes |-> TRUE]
  /\ memAdded = FALSE
  /\ phase = "start"
  /\ given = [n \in Nodes |-> n]
  /\ cursor = 0
  /\ firstLoop \in BOOLEAN
  /\ todo = {}
  /\ moved = FALSE
  /\ loops = 0
  /\ codelength = MaxCodelength
  /\ cancel = FALSE
  /\ applied = 1
  /\ unsettled = Nodes

\* initPartition, as every optimisation of an active network begins; the modules
\* to start from, if any.
InitPartition ==
  /\ phase \in {"start", "done"}
  /\ part' = Singletons
  /\ dirty' = [n \in Nodes |-> TRUE]
  /\ memAdded' = FALSE
  /\ \/ /\ phase' = "poll"
        /\ given' = [n \in Nodes |-> n]
     \/ /\ phase' = "predefined"
        /\ given' \in GivenModules
  /\ cursor' = 0
  /\ firstLoop' \in BOOLEAN
  /\ todo' = {}
  /\ moved' = FALSE
  /\ loops' = 0
  /\ codelength' = MaxCodelength
  /\ unsettled' = Nodes
  /\ UNCHANGED <<cancel, applied>>

\* What updateCodelengthOnMovingNode applies for the physical nodes: what the
\* deltas carry, and its own contribution unless the flag says they carry it.
MemoryApplied(carried, flag) == (IF carried THEN 1 ELSE 0) + (IF flag THEN 0 ELSE 1)

\* One step of moveActiveNodesToPredefinedModules; its locals end with it.
PredefinedMove ==
  /\ phase = "predefined"
  /\ LET newM == given[cursor] IN
       IF part.index[cursor] = newM
         THEN UNCHANGED <<part, memAdded, applied, unsettled>>
         ELSE /\ part' = Move(part, cursor, newM)
              /\ applied' = MemoryApplied(FALSE, memAdded)
              /\ memAdded' = FALSE
              /\ unsettled' = unsettled \cup Neighbours(cursor)
  /\ IF cursor + 1 = NumNodes
       THEN phase' = "poll" /\ cursor' = 0 /\ given' = [n \in Nodes |-> n]
       ELSE cursor' = cursor + 1 /\ UNCHANGED <<phase, given>>
  /\ UNCHANGED <<dirty, firstLoop, todo, moved, loops, codelength, cancel>>

\* The top of optimizeActiveNetwork's loop: the cancel checkpoint, then a sweep
\* over a random enumeration of the nodes.
StartSweep ==
  /\ phase = "poll"
  /\ IF cancel
       THEN phase' = "done" /\ UNCHANGED <<todo, loops>>
       ELSE phase' = "sweep" /\ todo' = Nodes /\ loops' = loops + 1
  /\ moved' = FALSE
  /\ UNCHANGED <<part, dirty, memAdded, loopVars, codelength, cancel, applied, unsettled>>

Pass(n) ==
  /\ phase = "sweep"
  /\ n \in todo
  /\ PassedOver(part, dirty, firstLoop, n)
  /\ todo' = todo \ {n}
  /\ UNCHANGED <<part, dirty, memAdded, phase, loopVars, moved, loops, codelength,
                 cancel, applied, unsettled>>

\* addMemoryContributions of the evaluation raises the flag.
Stay(n) ==
  /\ phase = "sweep"
  /\ n \in todo
  /\ ~PassedOver(part, dirty, firstLoop, n)
  /\ todo' = todo \ {n}
  /\ dirty' = [dirty EXCEPT ![n] = FALSE]
  /\ memAdded' = Memory
  /\ unsettled' = unsettled \ {n}
  /\ UNCHANGED <<part, phase, loopVars, moved, loops, codelength, cancel, applied>>

\* The links of n into module m, counted per edge, and the node at the last one.
LinksInto(p, n, m) == {k \in OutLinks(n) : p.index[k] = m}
LinksFrom(p, n, m) == {k \in InLinks(n) : p.index[k] = m}

\* The lone node left behind in the old module, if n was linked to it once.
Dragged(p, n, oldM) ==
  IF /\ Cardinality(LinksInto(p, n, oldM)) + Cardinality(LinksFrom(p, n, oldM)) = 1
     /\ p.members[oldM] = 1
    THEN LinksInto(p, n, oldM) \cup LinksFrom(p, n, oldM)
    ELSE {}

\* Mutation: updateCodelengthOnMovingNode does not lower the flag.
MemAddedForever(flag) == flag

\* The flag after a move's updateCodelengthOnMovingNode.
MemAddedAfterMove(flag) == FALSE

\* `Make best possible move' and `Move single connected nodes to same module'.
MoveBest(n, newM) ==
  /\ phase = "sweep"
  /\ n \in todo
  /\ ~PassedOver(part, dirty, firstLoop, n)
  /\ todo' = todo \ {n}
  /\ newM \in Candidates(part, n, RandomMoves) \ {part.index[n]}
  /\ LET oldM    == part.index[n]
         after   == Move(part, n, newM)
         dragged == Dragged(after, n, oldM)
         flag    == MemAddedAfterMove(Memory)
     IN  IF dragged = {}
           THEN /\ part' = after
                /\ dirty' = MarkDirty(dirty, DirtiedBy(n))
                /\ unsettled' = (unsettled \ {n}) \cup Neighbours(n)
                /\ applied' = MemoryApplied(Memory, Memory)
                /\ memAdded' = flag
           ELSE \E d \in dragged :
                /\ part' = Move(after, d, newM)
                /\ dirty' = MarkDirty(dirty, DirtiedBy(n) \cup
                                             (IF Degree(d) > 1 THEN DirtiedBy(d) ELSE {}))
                /\ unsettled' = (unsettled \ {n}) \cup Neighbours(n) \cup Neighbours(d)
                /\ applied' = MemoryApplied(FALSE, flag)
                /\ memAdded' = FALSE
  /\ moved' = TRUE
  /\ UNCHANGED <<phase, loopVars, loops, codelength, cancel>>

\* Mutation: go on as long as nodes move.
EndSweepIfSettled ==
  /\ phase = "sweep"
  /\ todo = {}
  /\ phase' = IF moved THEN "poll" ELSE "done"
  /\ moved' = FALSE /\ loops' = 0
  /\ UNCHANGED <<part, dirty, memAdded, loopVars, todo, codelength, cancel, applied,
                 unsettled>>

\* The bottom of the loop: go on only after enough improvement.
LoopEnds(someMoved) ==
  \/ /\ someMoved /\ loops # CoreLoopLimit
     /\ codelength' \in 0..(codelength - 1)
     /\ phase' = "poll"
  \/ /\ phase' = "done"
     /\ UNCHANGED codelength

EndSweep ==
  /\ phase = "sweep"
  /\ todo = {}
  /\ LoopEnds(moved)
  /\ moved' = FALSE
  /\ UNCHANGED <<part, dirty, memAdded, loopVars, todo, loops, cancel, applied, unsettled>>

\* Any thread raises the cancel flag; the next run clears it.
RequestInterrupt ==
  /\ cancel' = ~cancel
  /\ cancel => phase \in {"start", "done"}
  /\ UNCHANGED <<part, dirty, memAdded, phase, loopVars, todo, moved, loops, codelength,
                 applied, unsettled>>

Sweep == \/ \E n \in Nodes : Pass(n) \/ Stay(n) \/ \E m \in Modules : MoveBest(n, m)
         \/ EndSweep

Next == InitPartition \/ PredefinedMove \/ StartSweep \/ Sweep \/ RequestInterrupt

Spec == Init /\ [][Next]_vars

\* The optimiser is one thread that keeps running once it has begun.
FairSpec == Spec /\ WF_vars(PredefinedMove \/ StartSweep \/ Sweep)

-----------------------------------------------------------------------------
DataTypes ==
  /\ CountTypes(part)
  /\ dirty \in [Nodes -> BOOLEAN]
  /\ memAdded \in BOOLEAN
  /\ given \in [Nodes -> Modules]
  /\ cursor \in Nodes
  /\ firstLoop \in BOOLEAN
  /\ todo \subseteq Nodes
  /\ moved \in BOOLEAN /\ loops \in Nat
  /\ codelength \in 0..MaxCodelength
  /\ cancel \in BOOLEAN
  /\ applied \in 0..2
  /\ unsettled \subseteq Nodes

TypeOK == DataTypes /\ phase \in {"start", "predefined", "poll", "sweep", "done"}

(***************************************************************************)
(* m_moduleMembers counts the nodes of every module, and m_emptyModules    *)
(* has as many entries as there are empty modules: numActiveModules() is   *)
(* the number of modules in use and pop_back never meets an empty vector.  *)
(***************************************************************************)
CountsExact == TypeOK /\ Counted(part)

(***************************************************************************)
(* The flow data accumulated move by move is the flow of the module's      *)
(* nodes, with the enter and exit flow across its boundary.                *)
(***************************************************************************)
FlowExact == Balanced(part)

(***************************************************************************)
(* The physical-node terms of a move enter the codelength exactly once,    *)
(* whether the deltas of the move carry them or not.                       *)
(***************************************************************************)
MemoryTermsOnce == Memory => applied = 1

(***************************************************************************)
(* A clean node has been evaluated since any node it is linked to moved.   *)
(* No more is meant: moves elsewhere change the flow of its own and other  *)
(* modules, and those of nodes that share a physical node with it change   *)
(* its memory terms, without a flag.                                       *)
(***************************************************************************)
CleanIsSettled == \A n \in unsettled : dirty[n]

(***************************************************************************)
(* An optimisation that has begun ends.                                    *)
(***************************************************************************)
OptimisationEnds == (phase = "poll") ~> (phase = "done")
=============================================================================
