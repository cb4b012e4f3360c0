---------------------------- MODULE ParallelMoves ---------------------------
(***************************************************************************)
(* InfomapOptimizer with inner parallelisation.  A partition is set up as  *)
(* in ModuleMoves, but optimizeActiveNetwork's sweeps are those of         *)
(* tryMoveEachNodeIntoBestModuleInParallel: the threads of an OpenMP       *)
(* region evaluate the nodes against the partition as it was when the      *)
(* sweep began and only note a proposal for each; any thread may raise the *)
(* cancel flag meanwhile, and the nodes not yet come to are then drained.  *)
(* After the barrier one thread commits the proposals in a random order.   *)
(* A proposal whose two modules are untouched is taken as it is; otherwise *)
(* its deltas are computed again and it may be rejected.                   *)
(***************************************************************************)
EXTENDS ModuleMoves

VARIABLES
  proposals,  \* node -> m_moveProposals
  touched,    \* modules with m_moduleTouchedSweep = parallelMoveSweep
  accepted    \* m_acceptedProposalIndices

sweepVars == <<proposals, touched, accepted>>
parallelVars == <<vars, sweepVars>>

NoProposal == [kind |-> "none"]
Settled == [kind |-> "clearDirty"]
NoProposals == [n \in Nodes |-> NoProposal]

\* Node n would best move to newM, as the partition is now.
Proposal(n, newM) ==
  [kind     |-> "move",
   oldM     |-> part.index[n],
   newM     |-> newM,
   wasEmpty |-> part.members[newM] = 0,
   oldDelta |-> Delta(part, n, part.index[n]),
   newDelta |-> Delta(part, n, newM)]

ParallelInit == Init /\ proposals = NoProposals /\ touched = {} /\ accepted = {}

\* The cancel checkpoint between sweeps, then the start of one.  With a memory
\* objective shouldUseInnerParallelization() is false.
StartParallelSweep ==
  /\ phase = "poll"
  /\ ~Memory
  /\ IF cancel
       THEN phase' = "done" /\ UNCHANGED <<todo, loops>>
       ELSE phase' = "propose" /\ todo' = Nodes /\ loops' = loops + 1
  /\ proposals' = NoProposals
  /\ touched' = {}
  /\ accepted' = {}
  /\ UNCHANGED <<part, dirty, memAdded, loopVars, moved, codelength, cancel, applied,
                 unsettled>>

Evaluate(n) ==
  /\ phase = "propose"
  /\ n \in todo
  /\ todo' = todo \ {n}
  /\ UNCHANGED <<part, dirty, memAdded, phase, loopVars, moved, loops, codelength,
                 cancel, applied, touched, accepted>>

\* The flag is up, or the node need not be evaluated.
Drain(n) ==
  /\ Evaluate(n)
  /\ cancel \/ PassedOver(part, dirty, firstLoop, n)
  /\ UNCHANGED <<proposals, unsettled>>

\* One iteration of the parallel loop.
Propose(n) ==
  /\ Evaluate(n)
  /\ ~cancel
  /\ ~PassedOver(part, dirty, firstLoop, n)
  /\ \E m \in Candidates(part, n, RandomMoves) :
       /\ proposals' = [proposals EXCEPT
                          ![n] = IF m = part.index[n] THEN Settled ELSE Proposal(n, m)]
       /\ unsettled' = IF m = part.index[n] THEN unsettled \ {n} ELSE unsettled

\* The barrier at the end of the region.
Barrier ==
  /\ phase = "propose"
  /\ todo = {}
  /\ phase' = "commit"
  /\ todo' = {n \in Nodes : proposals[n].kind = "move"}
  /\ UNCHANGED <<part, dirty, memAdded, loopVars, moved, loops, codelength, cancel,
                 applied, unsettled, sweepVars>>

\* Mutation: only the module the node moves to is looked at.
UntouchedTarget(prop) == prop.newM \notin touched

\* Neither module of the proposal has changed since the sweep began.
Untouched(prop) == prop.oldM \notin touched /\ prop.newM \notin touched

\* Mutation: a module that emptied meanwhile is a target like any other.
ValidIfTargetWas(prop) ==
  prop.wasEmpty => part.members[prop.oldM] > 1 /\ part.members[prop.newM] = 0

\* `validMove': an empty target is still empty and worth moving to, another one
\* is still in use.
ValidMove(prop) ==
  IF prop.wasEmpty THEN part.members[prop.oldM] > 1 /\ part.members[prop.newM] = 0
                   ELSE part.members[prop.newM] > 0

\* m_emptyModules is left alone until the end of the sweep.
Accept(n, oldM, newM, oldDelta, newDelta) ==
  /\ part' = [part EXCEPT
                !.index[n] = newM,
                !.members = MoveMembers(@, oldM, newM),
                !.flows = MoveFlows(@, n, oldM, newM, oldDelta, newDelta)]
  /\ touched' = touched \cup {oldM, newM}
  /\ accepted' = accepted \cup {n}
  /\ unsettled' = (unsettled \ {n}) \cup Neighbours(n)

\* One proposal of the commit loop.
Commit(n) ==
  /\ phase = "commit"
  /\ n \in todo
  /\ todo' = todo \ {n}
  /\ LET prop == proposals[n] IN
       \/ /\ Untouched(prop)
          /\ Accept(n, prop.oldM, prop.newM, prop.oldDelta, prop.newDelta)
       \/ /\ ~Untouched(prop)
          /\ part.index[n] = prop.oldM
          /\ ValidMove(prop)
          /\ Accept(n, prop.oldM, prop.newM, Delta(part, n, prop.oldM),
                    Delta(part, n, prop.newM))
       \/ /\ ~Untouched(prop)
          /\ UNCHANGED <<part, touched, accepted, unsettled>>
  /\ UNCHANGED <<dirty, memAdded, phase, loopVars, moved, loops, codelength, cancel,
                 applied, proposals>>

Cleared == {n \in Nodes : proposals[n].kind = "clearDirty"}

\* Mutation: the flags are set before the settled nodes are cleared.
DirtyMarkedFirst ==
  [n \in Nodes |-> MarkDirty(dirty, UNION {DirtiedBy(m) : m \in accepted})[n]
                     /\ n \notin Cleared]

\* The dirty flags after the commits.
DirtyAfter ==
  MarkDirty([n \in Nodes |-> dirty[n] /\ n \notin Cleared],
            UNION {DirtiedBy(n) : n \in accepted})

Ascending(S) ==
  CHOOSE s \in [1..Cardinality(S) -> S] :
    \A i, j \in 1..Cardinality(S) : i < j => s[i] < s[j]

\* Mutation: m_emptyModules is not cleared first.
RebuiltOnTop(p) == p.empty \o Ascending(EmptyModules(p))

\* m_emptyModules, rebuilt.
Rebuilt(p) == Ascending(EmptyModules(p))

\* The flags and m_emptyModules, then the bottom of the loop.  What the buffers of
\* the sweep hold now is never read: the next sweep begins by overwriting them.
FinishSweep ==
  /\ phase = "commit"
  /\ todo = {}
  /\ dirty' = DirtyAfter
  /\ part' = [part EXCEPT !.empty = Rebuilt(part)]
  /\ LoopEnds(accepted # {})
  /\ proposals' = NoProposals
  /\ touched' = {}
  /\ accepted' = {}
  /\ UNCHANGED <<memAdded, loopVars, todo, moved, loops, cancel, applied, unsettled>>

\* Steps taken as without inner parallelisation.
SharedStep ==
  /\ InitPartition \/ PredefinedMove \/ RequestInterrupt
  /\ UNCHANGED sweepVars

ParallelSweep ==
  \/ \E n \in Nodes : Drain(n) \/ Propose(n) \/ Commit(n)
  \/ Barrier \/ FinishSweep

ParallelNext == SharedStep \/ StartParallelSweep \/ ParallelSweep

ParallelSpec == ParallelInit /\ [][ParallelNext]_parallelVars

-----------------------------------------------------------------------------
Proposals ==
  {NoProposal, Settled}
    \cup [kind : {"move"}, oldM : Modules, newM : Modules, wasEmpty : BOOLEAN,
          oldDelta : Int, newDelta : Int]

ParallelTypeOK ==
  /\ DataTypes
  /\ phase \in {"start", "predefined", "poll", "propose", "commit", "done"}
  /\ \A n \in Nodes : proposals[n] \in Proposals
  /\ touched \subseteq Modules
  /\ accepted \subseteq Nodes

(***************************************************************************)
(* Committing proposals that were all made on the same old partition keeps *)
(* the flow of every module exact: deltas taken without a recheck are      *)
(* those of the partition they are applied to.                             *)
(***************************************************************************)
CommitsKeepFlow == ParallelTypeOK /\ FlowExact

(***************************************************************************)
(* Outside the commit loop the member counts are those of the modules and  *)
(* m_emptyModules has as many entries as there are empty ones; after a     *)
(* sweep it lists just those, also where the predefined moves, which pop   *)
(* the last entry whichever empty module is joined, had left others on it. *)
(***************************************************************************)
EmptyModulesExact ==
  /\ phase # "commit" => Counted(part)
  /\ phase \in {"poll", "done"} /\ loops > 0
       => {part.empty[k] : k \in 1..Len(part.empty)} = EmptyModules(part)

(***************************************************************************)
(* Between sweeps a clean node has been evaluated since any node it is     *)
(* linked to moved, although it was evaluated before those moves were      *)
(* committed, and also if the sweep was drained.                           *)
(***************************************************************************)
SettledBetweenSweeps == phase # "commit" => CleanIsSettled

(***************************************************************************)
(* Two nodes that each proposed to join the other do not swap modules: no  *)
(* commit carries a node that is alone into an empty module.               *)
(***************************************************************************)
NoLoneNodeRenamed ==
  [][phase = "commit" =>
       \A n \in Nodes :
         part'.index[n] # part.index[n] /\ part.members[part.index[n]] = 1
           => part.members[part'.index[n]] > 0]_parallelVars
=============================================================================
