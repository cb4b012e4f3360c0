# A TLA+ model of Infomap

Infomap finds the modules of a network by minimising the map equation. The program is a
greedy, randomised search that runs many independent trials and keeps the best. Most of
what can go wrong in it without a crash is bookkeeping: which trial is kept, which seed and
which flow a trial ran with, whether module counts and flows follow the nodes that move,
whether a stale index is taken for a fresh one, what is left on disk when a run is
interrupted, and what a web page believes of the workers it started. These modules model
that bookkeeping with its interleavings, failures and cancellations; floating-point
codelengths are abstract.

Paths below are relative to the repository root; `IB` is `src/core/InfomapBase.cpp`, `OPT`
is `src/core/InfomapOptimizer.h`.

## The system

| component | state it keeps | operations | what makes it correct | here |
|---|---|---|---|---|
| Run life cycle, trial loops (`RunSession` in IB) | base seed, config seed, codelengths, best result, the tree, the files | `run`, preflight, `runTrials`, `runTrialsUntilConverged`, `finishTrial`, `restoreBestResult`, `writeRunReports` | a completed run holds the first best of its trials, each reproducible from its seed; files are honest at every moment | `RunSession`, `BestOfTrials` |
| Parallel trials (IB 408-529) | worker instances, shared best result and error record | one OpenMP loop, three mutexes, a cancel flag | the result does not depend on the interleaving or on the number of workers | `ParallelTrials` |
| Cancellation | `m_cancel`, host callback | `requestInterrupt`, `pollInterrupt` | a cancelled run ends as interrupted, never as failed or completed by accident | in all of them |
| Serial sweeps (OPT 372-668) | node indices, `m_moduleMembers`, `m_emptyModules`, `m_moduleFlowData`, dirty flags | `initPartition`, predefined moves, `tryMoveEachNodeIntoBestModule`, core loop | counts, flow and flags exact after any sequence of moves | `Partition`, `ModuleMoves` |
| Inner-parallel sweep (OPT 680-1000) | the same, plus proposals and touched marks | propose in parallel, commit serially | as above, although proposals were made on an old partition | `ParallelMoves` |
| `VectorMap` | redirect vector, values, round offset | `startRound`, `add`, `operator[]` | nothing of an earlier round shows | `VectorMap`, `RoundMap` |
| Recursive partition (IB 2082-2204, 2994-3370) | a graph of OpenMP tasks, records, sub-instances | `hierarchicalPartition`, `recursivePartition`, `partitionModuleRecursively` | aggregated codelengths independent of task order; a cancel joins and leaves a whole tree | `RecursivePartition` |
| Infomap tree, `ObjectPool` | parent, child, sibling links, collapsed chain; free list | add, release, collapse, expand, replace, destroy | a tree at all times, no node leaked or reused while linked | `InfoTree` |
| Search over the tree (`partition`, tuning, super-modules, hard partitions) | leaf and original leaf nodes, active network, tune iteration | aggregate, fine-tune, coarse-tune, merge to one module, add levels, restore | the tree holds the modules that were found, in every level | `TreeSearch` |
| Output plan, `SafeOutFile` | planned paths, temporary file | plan, preflight, open, commit | no old file lost, no partial file, no temporary file left behind | `SafeOutFile`, `AtomicFile`; the plan in `RunSession` |
| `StateNetwork`, `Network` | nodes, link buffer, link map, compressed rows, statistics | add, remove, read, convert, clear | whichever way the links are stored, they are those that were added; the statistics follow; the rows are the links | `StateNetwork`, `WeightedGraph`; the multilayer expansion of `Network` not |
| Initial partitions | node paths, module ids | `initPartition`, `normalizeTreePaths` | every node in one module, the levels that were asked for | choice of source in `ParallelTrials`, the tree in `TreeSearch` |
| Thread configuration | environment | `ThreadConfig` | a positive budget | planned |
| JavaScript worker and hook | worker by id, timers, active runs, output buffer | run, terminate, events, unmount | one answer per run, an honest running flag, all of the output | `WebWorkers`, `UseInfomap` |
| Python shard merge | shard result files | merge | equals the single run | planned |

The components interact by calls on one thread, except for five kinds of concurrency: the
OpenMP loop over trials, the OpenMP loop over proposals, the OpenMP task graph of the
recursion, the output files that threads and sharded processes write to one directory, and
the messages between a page and its workers. The cancel flag is an atomic any thread may
set. Main and sub instances share nothing but that flag.

The map covers the parts of the C++ core that decide something. It is a small share of the
repository's lines: 114 thousand of the 140 thousand are the two generated SWIG wrappers,
which only convert arguments.

Not modelled and why: `FlowCalculator` and the plogp sums of the objectives are floating
point; the parsers and formatters are character-level and sequential; console, log, timing
and metadata are presentation; the bindings are generated.

## The modules

`TrialSelection` holds what the trial loops share: trial seeds with their widths
(`unsigned long` in the config, 32 bits in the engine), the comparisons with the `1e-10`
tolerance, the output path of a trial, and the reference definition `IsFirstMinimum`. A
codelength is an integer in a unit of which `Eps` is the tolerance.

`BestOfTrials` is the abstract specification: a run completes in one step with the
codelengths of its trials and the first minimum of them, or ends with nothing.

`ParallelTrials` models `runTrialsInParallel` and the restore. One action per step of a
worker between two synchronisation points: `BeginTrial` (seed, `initNetwork`,
`initTrialPartition`), `PollTrial`, `EndSearch`, `RecordTrial`, `WriteTrial` (output
mutex), `SelectTrial` (result mutex), `CatchTrial` (error mutex); then `Join` and
`Restore` of the owner; `RequestInterrupt` at any time. The search itself is its result: the
codelength `lengthOf[t]` if the trial ran with the input that is its own, any codelength
otherwise. `input` and `status` are history variables.

`RunSession` models `run(Network&)` on one instance that is used several times: entry,
preflight, flow, trial loop (fixed or `--converge`), restore, shard tree, results file. A
throw from anywhere leaves through `Throw`, which gives the config seed back as
`ScopedConfigSeed` does. A process may die anywhere: only `files` survive, so
`HeaderIsHonest` is an invariant of all states.

`Partition` holds the partition record and what a move does to it (`Move`), over integer
flows: link flow, recorded teleportation, member counts, the stack of empty modules. An
undirected link's flow is halved between its directions, so the unit of flow is one of which
every undirected link has an even number (`NetworkAssumption`). Teleportation is recorded with
undirected flow too where that is regularised.
`ModuleMoves` adds the serial optimiser: `InitPartition`, `PredefinedMove`, `StartSweep`,
`Pass`/`Stay`/`MoveBest` for one node of a sweep, `EndSweep`. Which candidate is best
depends on the codelength and is any of them; `EndSweep` goes on only after a strict
improvement, codelengths being `0..MaxCodelength`. `MoveBest` includes the lone neighbour
that is dragged along. `ParallelMoves` extends it with the other way to sweep, the inner-parallel
one of objectives without memory: `StartParallelSweep`, `Propose`/`Drain` for each node in any
order, the barrier, `Commit` of each proposal in any order (fast, after a recheck, or not at
all), `FinishSweep`. `Candidates` are the modules a node may go to: those of its neighbours, an
empty one, and, with memory, those that hold a state of one of its physical nodes
(`PhysicallyTied`). Of `numMoved` only whether it is 0 is kept (`moved`). The start, the predefined
moves, the cancel flag and the bottom of the core loop (`LoopEnds`) are those of `ModuleMoves`.

`VectorMap` models `utils/VectorMap.h` with `unsigned int` arithmetic modulo `Width`;
`RoundMap` is the map it promises.

`RecursivePartition` models `hierarchicalPartition` from a tree of modules on. A module is the
set of leaves it was made for; `sub` are its children in the tree and `leafParent` the
parent of a leaf. `RemoveSubModules`, `KeepSubModules` and `FineTune` are what
`fastHierarchicalSolution` asks for before the recursion; `FillQueue`, `SpawnTop`,
`StopSpawning`, `Join`, `AggregateLevel` and `Store` are `recursivePartition` on the owner
thread; `Enter`, `KeepLeaves`, `Reject`, `Accept`, `Interrupted`, `Spawn` and `Leave` are one
task, cut where another thread can see a difference. A module with fewer than
`MinDegree` children is partitioned inline by the task that meets it (`Returned`). A
sub-Infomap is what it finds: it is a new instance seeded from the configuration, so that
depends on the module alone (`finds`, `gain`). `RequestInterrupt` may come at any time.

`IsTree` says which trees a run may start from. As a module is a set of leaves, one with a single
sub-module would be that sub-module; such chains are not in the model. `FineTuneAssumption`
excludes ragged trees (a leaf module beside one that has sub-modules) where the lowest level is
fine-tuned: the code then writes past the end of two vectors (IB 2107), which is undefined.

`InfoTree` is the tree as it lies in memory. A tree is one record of nodes with their pointers,
the pool's free list (last freed, first out) and the heap cells that `new InfoNode` took;
every method of `InfoNode` and of the pool is an operator from trees to trees, with the same
pointer assignments as the code. `TreeSearch` is what one instance does to it:
`InitNetwork`, `BeginTrial` (`removeModules`, `initTrialPartition`), `MergeActive` and
`TopModulesFound` (`findTopModulesRepeatedly`), `FineTune`, `CoarseTune` and `TuneSubModules`
(the two halves of `coarseTune`), `Evaluate`, `EndPartition`, `FindSuperModules`,
`KeepLevels`, `PartitionModule` (the materialised sub-modules of a recursion task, one task at
a time, since tasks work on disjoint subtrees), `FinishTrial` (`restoreHardPartition`,
sorting, the rows of the best tree), `RestoreBest`, and `Interrupt` where the flag is polled.
`pc` is `"done"` after a run that restored its best tree and `"idle"` after an interrupted one, so
that the restored tree is compared with what the best trial found.
What an optimisation finds is any partition of the active nodes, and whether a codelength
is better is a choice. The history variable `shape` records for every leaf the leaf sets of
the modules it was put in; it is computed from the partitions found and never from the tree,
which is then compared with it.

`StateNetwork` models the links of a network under construction. In mode A (`useMap` false)
`AddLink` appends to `buffer`; whoever reads (`ReadLinks`: `forEachLink`, and `numLinks` too)
sorts and merges it into `rows`, and the next `AddLink` turns the rows back into arrivals
(`Definalized`). In mode B, that of the layers of a multilayer network and of every network
that had a link removed or was made directed, it adds to `linkMap`. `EnsureMapBuild` leads from
A to B. Positions in rows are positions in `rows.ids` and are only looked up there, as in the
code. `WeightedGraph` is the promise: a weight for every ordered pair of nodes. `WeightMaps` has
the operators on functions from links or nodes to weights that both use.

`SafeOutFile` models one writer in the steps a crash can separate: `Construct`, `WritePart`,
`FlushAndClose`, `Recheck`, `RemoveOld` (Windows), `Rename`, and `Fail` where `commit` or
whoever fills the file may throw. `Die` ends a process between any two. Writers of one
process share the counter of the temporary names, writers of all processes the disk.
`AtomicFile` is the promise: the file at a path is replaced as a whole, by a writer that may.

`WebWorkers` models the `Infomap` class of `interfaces/js` and the worker it starts: what the
page does (`CreateWorker`, the handlers `OnData`, `OnError`, `OnFinished`, `OnErrorEvent`, `Stop`,
`TimerFires`) and what the worker posts (`GetsMessage` and `PreRun` in either order,
`PrintLine`, `PostRun`, `Crash`, `Reject`). The browser is external: messages of a worker arrive
in order, terminating it discards those on the way but not the error event of an uncaught
exception. So is the engine's runtime: `src/mk/js.mk` leaves its instantiation asynchronous, so
`preRun` and, if the page's message was there first, the writing of its files and the engine
itself run in the continuation of a promise (`stage` is `"continued"`). An exception there rejects
the promise and raises no error event (`Reject`); one in the worker's script or its `onmessage`
does (`Crash`).
`UseInfomap` adds the React hook: `StartRun` and `FinishRun` around the handlers, and the output
lines on their way from `outputBuffer` to `output`. `arrived`, `answers` and `stopped` are
histories.

`MCNetworks` and the other `MC` modules give TLC its small networks, trees and partitions.

## The runs

| run | bounds | what it shows |
|---|---|---|
| `ParallelTrials` | 4 trials, 2 workers, 2 codelengths | result, error record and outcome are independent of the order in which workers arrive; the region implements `BestOfTrials`; no cancel is reported as a failure; under fairness the region ends |
| `RunSession` | four configurations, chosen by `MCRunSession`: a shard of 3 trials at offset 1 with per-trial files and one of 2 trials without, each run twice, with seeds that wrap at both widths; `--converge` with cap 5, floor 2, patience 2 and three codelengths of which two are within the relative tolerance; `--no-overwrite` with 1 trial, 2 runs and every combination of 3 old files | seeds reproduce, results and artifacts agree, also after failures and interrupts in the run before; the loop stops at the first plateau; old files survive and a refusal comes before any write |
| `ModuleMoves` | 4 nodes (a directed triangle with a pendant node, which is a state of the same physical node as one it is not linked to), recorded teleportation, memory objective, started from singletons or from a given partition | counts, flow, flags and memory terms after every step; the core loop ends |
| `ParallelMoves` | the same graph undirected, with regularised flow, started from singletons or from one of two given partitions, sweeps as long as they improve, cancel at any time | flow exact after every commit; counts, empty modules and dirty flags after every sweep; no lone node is only renamed |
| `VectorMap` | 3 indices, width 14, so that the offset starts again after two used rounds | the map is exact over any number of rounds |
| `RecursivePartition` | 9 leaves in two modules, splits up to three levels deep, sub-partitions that are trivial, rejected or accepted (four sets of gains), a bias on levels, a flattened, a fine-tuned and a kept tree, inline and spawned modules | whatever the order of tasks, the completed tree and its codelengths are those of a level-by-level recursion; an interrupted tree is whole; the region joins and a cancel ends the run |
| `TreeSearch` | 4 leaves, 2 trials, 2 runs, no, soft, hard or deep ragged initial partition, two-level or not, with links or only regularised flow, an interrupt between any two steps | the tree is sound and nothing leaks, also in the run after an interrupted one; it holds the modules that were found, in the end those of the best trial; no logic error is thrown |
| `StateNetwork` | 3 ids, weights 0 and 1, at most 8 for nodes times total weight, both modes | the links implement `WeightedGraph`; statistics and rows are those of the links |
| `SafeOutFile` | 4 writers in 2 processes, 3 of them on one path, files of two parts, both kinds of rename | the paths implement `AtomicFile`; no temporary file but a dead process's |
| `UseInfomap` | 2 runs, 2 lines of output, output cleared at a run or not | the running flag, the answers and the output fit the workers; every run ends and every worker is terminated, but for one that fails without a word in the promise that instantiates its engine, until the page stops it |

Two workers for four trials are enough for a worker to be reused and for later trials to
arrive before earlier ones; four nodes for a module of two, one joined, one emptied and a
pendant node dragged along; two sweeps for stale marks and flags of the first to matter in
the second; nine leaves for tasks that spawn tasks that spawn tasks next to one that works
inline; four leaves for top modules that can be merged, split and given super-modules; two
trials for a best tree that is restored, two runs for one that starts from what an interrupt
left; three ids for a node that comes between two others and so shifts the positions of one;
three writers of one path for two that race while a third may be refused; two runs of a page
for an answer to be taken for that of another run. Deadlock checking is off where the system
may stop: in `SafeOutFile` when every writer has ended, in `UseInfomap` when the component is unmounted and
its workers are gone.

Named bounds: `MaxRuns`, `MaxLines`, `MaxSize`, `MaxCodelength` and `MaxLength`, and in `TreeSearch`
`PoolSize` and `HeapSize`, which must be large enough for the trees of its leaves.
`TreeSearch.cfg` has a `VIEW`: two sound trees that differ only in the addresses of their
nodes have the same futures, as nothing reads an address but to follow or compare it. `Seen`
therefore shows what hangs under each node and keeps every address of a tree that is not
sound. Of the fifteen partitions of four nodes ten are offered (`SomePartitions`), two of
them with a module that is not a run of neighbours.

Two runs show a disagreement between code and documentation; each is a finding in
`PROJECT.json`.

- `ParallelTrialsDangling`: `m_sumDanglingFlow` is never reset (IB 2356), so the second trial
  of a worker runs on other flow than its seed names.
- `RecursivePartitionFineTuned`: after `-F` has fine-tuned a deep input tree the stored
  codelength counts the bottom modules twice, so the summary and the tree disagree. The built
  program does this on `examples/networks/ninetriangles.net` with its own tree as input.

The modules say of further ones where they are, in a condition of a property or in what
other constants would show:

- `RunSession`: under `--no-overwrite` a run with several trials fails half way on the canonical
  file it wrote itself (IB 1029 and 564, `SafeFile.h` 179), while `OutputPlan.h` 59-60 promises
  a refusal "before any work"; hence the one trial of that configuration. A shard with
  `--print-all-trials` writes trials numbered by its offset while the preflight plans 1..N
  (`OutputPlan.cpp` 346), and its best tree is not planned at all. Under `--no-overwrite` an old
  numbered tree is kept and referred to (`NumberedFilesAreTheirTrials` asks for `Overwrite`).
- `ParallelTrials`: workers do not get the multilayer initial partition (`Starts =
  {"multilayer"}`, IB 436); codelengths within `Eps` of one another make the tie rule depend on
  the order (`BestIsFirstMinimum` fails); with `PrintAllTrials` and no offset a worker, whose
  `numTrials` is 1, writes every trial to the canonical file.
- `ModuleMoves`, `ParallelMoves`: a clean node is skipped although its best module may have
  changed: the flag is set by moves of linked nodes only, not by moves that change the flow of the
  modules next to it, nor by those of nodes that share a physical node with it
  (`CleanIsSettled` says no more than the flag does). The predefined moves pop the last entry of `m_emptyModules`
  whichever empty module they join (OPT 448). After four nodes were given the modules 0, 0, 0, 1,
  the stack has one entry too few for module 2 and one for module 1, which is in use: its length is
  right (`CountsExact`) and its content is not, and the next node that would found a module of its
  own is offered a used one. A parallel sweep rebuilds the list (`EmptyModulesExact`).
- `StateNetwork`: rows that are finalised stand when a node is added by itself or a link is
  removed in map mode (`behind`, which `RowsAreTheLinks` excepts). In the built program
  `numLinks()` followed by `addNode` of a smaller id and `run()` silently gives other modules,
  and a removal after a run that followed a removal reads and writes beyond the rows, although
  `indexOfId` says "Every link endpoint is addNode'd before finalize" and `finalizeLinks` that
  "mutations after finalize go through definalize() / addLinkToMap()". Of what the module
  leaves out: `numAggregatedLinks` loses counts when read between additions, `outWeights()` of
  mode A stays as it was when links are added, `clear()` keeps `m_sumNodeWeight` and
  `m_higherOrderInputMethodCalled`.
- `SafeOutFile`: two processes with `--no-overwrite` may both pass the second look, and the
  second rename replaces the first's file; `AtomicFile` allows it and only protects files
  that were there at first. Names are unique on one host: two containers that share a
  directory, with equal process ids, would share temporary names.
- `UseInfomap`: when an engine aborts, its printed error and the error event of the exception
  are two answers of one run, and `finishRun` counts both; with another run active `running` is
  then false, although the package's README says the hook "keeps `running` set until the
  worker finishes or errors". A run stopped with a delay may also answer twice. A run that is
  stopped before it answers leaves its promise pending and `running` set. `RunningIsHonest`
  and `NothingAfterTheAnswer` name these cases. If the message is there before the engine is
  loaded and its files cannot be written (`FS.writeFile` into a directory that is not there, as
  for a file name with a `/`), the exception rejects the instantiating promise, which nobody
  looks at: `worker.onerror` is not called, `runAsync` stays pending and `running` set until the
  page stops the run. With the engine loaded first the same input is an error event. An engine
  that throws there without printing does the same. `EveryRunEnds` excepts just these runs
  (`Silent`); that a rejected promise raises no error event is the browser's documented behaviour.

Read but not modelled: the host callback is not polled inside the parallel region; the sweep
counter that seeds the inner-parallel candidate order is not reset between serial trials (OPT
690); an exception other than an interrupt leaves a recursion task and ends the process (IB
3224); fine-tuning counts the leaves of a ragged module wrongly (IB 2107).

## Fairness

`ParallelTrials` assumes each worker and the owner keep stepping while they can: OpenMP
runs all iterations of the loop and the implicit barrier waits for them; mutexes are held
for one action, so weak fairness per worker is enough. `RecursivePartition` assumes it of the
owner and of every task: OpenMP runs each task it was given before the region ends. `ModuleMoves` is
one thread that keeps running once called. `UseInfomap` assumes that an engine that has what
it needs comes to its end, that what was posted arrives and that timers fire. Nothing is
assumed of the environment: cancel and signal need not happen, no engine need crash, the
page need not start, stop or unmount anything. The other runs check no liveness.

## Proofs

`VectorMap_proofs` proves, for every capacity, every width that leaves room for one round
(`CapacityAssumption`: the smallest width for which `m_maxOffset` does not itself wrap) and
every type of values:

- `TypeCorrect`: the offset stays in `1..MaxOffset` and `size` within the capacity;
- `SlotsCorrect`: slots and indices of the round correspond one to one;
- `Refinement`: the representation implements `RoundMap`.

The inductive invariant is `IInv == TypeOK /\ SlotsMatchIndices`. `TypeOK` alone is not
inductive: `size' = size + 1` stays within the capacity only because the slots taken belong
to distinct other indices (`RoomForAnother`, by the pigeonhole principle), and a new round is
empty (`NewRoundIsEmpty`) only because every entry of `m_redirect` lies below
`offset + size`, which is what the first part of `SlotsMatchIndices` says. The steps are then
`NewIndexKeeps` and `WriteKeeps`; the refinement needs in addition what a step does to
`Content`, one lemma per kind of write.

`ParallelTrials_proofs` proves, for every number of trials and threads, every set of
codelengths and every interleaving:

- `TypeCorrect`: only the worker in whose stride a trial falls holds it or has recorded it;
- `BestCorrect` (assumes `Separated`: codelengths that differ do so by more than the
  tolerance): the shared best is the first minimum of the trials that came to the mutex;
- `CancelCorrect`: a cancelled region never leaves with an error;
- `FailureCorrect`: the reported failure is the lowest;
- `CompletedCorrect`, `Refinement` (assume `Separated` and `FreshInput`: no flow dangles and
  workers get the serial start, so that each trial runs with the input its seed names): a
  completed run has run every trial and restores the first minimum; the region implements
  `BestOfTrials`.

The inductive invariant is `ControlInv`, of named parts. `LoopInv` says where each worker is in
its stride and which trials it has left; it rests on the arithmetic of the stride (`OneRemainder`,
`StrideKeepsOwner`: the loop `w, w + n, w + 2n, ...` meets exactly the trials congruent to `w`),
so that no two workers ever write the same slot of `result.codelengths`. `LengthInv` says that
what is recorded is what the trial found, `ErrorInv` that the error record is the minimum of
the trials that threw and that the flag is up if any of them was cancelled, `OwnerInv` that
after the barrier every worker has left its loop. `CancelIsNoFailure` and
`CompletedIsWhole` are not inductive without them: what the owner reads at the barrier was
written by workers in any order before it. `InputInv` is proved on top of it, as a search
that polls is the only place where input and flow are related. The two conditions of
`FreshInput` are those that `ParallelTrialsDangling` and a multilayer network do not meet;
`TrialNamesOneRun`, which they imply at once, is therefore only checked where they fail.

`SafeOutFile_proofs` proves, for any writers, processes, paths and file sizes and either kind of
rename:

- `StrayCorrect`: every temporary file belongs to exactly one writer, which holds it or is dead;
- `Refinement`: the paths implement `AtomicFile`.

The inductive invariant says that a name in use was made with a count its process's counter
has passed, so a new name is new, that a writer which holds a file holds the one of its own
name, and that a writer past `FlushAndClose` holds a whole one. Without the last part
`Rename` could put half a file in place. Assumed is that two processes never have one id.

`RunSession_proofs` proves, for every set of configurations, every number of trials and runs,
all widths of which the engine's divides the config's, and an interrupt, a failure or a signal at
any step:

- `TypeCorrect`: types, and as many codelengths as trials that ended (`CountInv`);
- `SeedsCorrect`: trial `t` of any run has the engine seed of a standalone run. The proof is that
  a run always leaves through `Throw` or its end with the config seed it found, and that taking the
  remainder at the config's width and then at the engine's is taking it at the engine's
  (`RemainderOfRemainder`);
- `OldFilesCorrect` (assumes `OneTrial`: a configuration with `--no-overwrite` has one trial; with
  more a run is refused half way, see above);
- `NumbersCorrect`: the numbered files of a completed run hold the trials they are numbered for;
- `CompletedCorrect`, `HeaderCorrect` and `PlateauCorrect`, which assume `OneFlow` (no flow
  dangles; `ParallelTrialsDangling` shows what happens otherwise) and `SeparateLengths` (two
  codelengths are equal or differ by more than the tolerance, which is not transitive).

The inductive invariant of the last three is `RunInv`. `FoundInv` says that every trial found what
its seed finds, `BestInv` that the best record is the first minimum of the trials so far, as of
which step depending on `pc`, `TreeInv` which trial the tree is of, `CanonicalInv` what the
canonical file holds in the run that is on, and `HeaderInv` what it claims at any time. None is
inductive alone: `HeaderInv` is kept by `KeepBest` only because of what `TreeInv` and `BestInv`
say of the tree that is written. For the plateau, `PlateauInv` relates the counter `since` and
`bestBefore` to the least values of the prefixes of `codelengths` (`SinceIs`, `BestIn`), and the
lemmas `AppendKeepsBest` and `AppendKeepsPlateaus` say that one more trial changes none of the
earlier ones.

`Moves_proofs` proves, of `Partition`, `ModuleMoves` and `ParallelMoves` and for every network,
directed or not, with or without recorded teleportation, every set of predefined modules, every
order of nodes and commits and any number of sweeps:

- `CountsCorrect`, `MemoryCorrect`, `CleanCorrect` and `FlowCorrect` of the serial sweeps;
- `EmptyModulesCorrect`, `ParallelCleanCorrect`, `LoneNodeCorrect` and `ParallelFlowCorrect` of the
  parallel ones, on top of what is proved of the steps they share (`SetUpStep`).

The counts rest on what one move does to the cardinalities of two modules (`MembersMove`) and to
the stack (`MoveCounts`: a pop never meets an empty stack, because the joined module is one of
those it counts). `CountsExact` is inductive. `CleanIsSettled` of `ModuleMoves` is not: `DirtyInv`
adds that predefined moves, which mark nobody, happen while everybody is dirty, and
`LoneNeighbour` that a dragged node of degree one has no neighbour but the one that dragged it. In
the parallel sweep `FitInv` says of every proposal still to be committed that its node has not
moved and that, as long as its two modules are untouched, it does not carry a lone node to an
empty one; `WillBeDirty` says why a node with a committed neighbour will be dirty at the end of
the sweep although its own flag may be cleared there. That the list of empty modules exists in
ascending order (`AscendingLists`) is proved by ranks, without induction.

`FlowCorrect` compares what sweeps add and subtract with sums over the nodes of a module, which
are recursive functions on sets (`SumFunctionOnSet` of the community modules). Their first lemmas
say that such a function exists and is unique: `SumsExist`, as there is no least size of subsets
for which it fails, and `SumsAgree`, by induction over the subsets of one finite set, stated for a
set of subsets instead of a predicate (`SubsetInduction`). From them follow `SumWithout` (any
element may be taken out first), `SumUnion` and `SumIsEven`. `LinksAcross` and `Joining` then say
how the flow across a boundary changes when a node joins, `DeltaIsBetween` that `Delta` is that
change, and `MoveKeepsFlows` that one move with its own deltas keeps all flow data exact (leaving
a module is joining it read backwards); the evenness of undirected flow is where the halves are
taken apart. For the serial sweep that is the step. For the parallel one `FlowInv` adds `DeltaInv`: every proposal noted
in the parallel region carries the deltas of the partition as it is, and still does among the
commits while neither of its modules is touched (`DeltaStays`), which is the code's reason not to
recheck it.

`RecursivePartition_proofs` proves, for every set of leaves and modules, every first tree, whatever
the sub-Infomaps find and save, every `MinDegree`, every order in which tasks are created, run and
finish, and a cancel at any moment:

- `TreeCorrect`: the tree is whole in every state, also in the one a cancelled run leaves;
- `ResultCorrect`: the tree of a run that completes is that of a level-by-level recursion;
- `CodelengthCorrect`: after every level the limit is the codelength of the tree cut there, and
  the run stores the codelength of its tree, unless it was fine-tuned first (where
  `RecursivePartitionFineTuned` shows that it does not).

What is assumed is `RecursionAssumption` and `FineTuneAssumption`: the first tree is one, and what
a sub-Infomap finds shares out the leaves of its module.

`TreeIsWhole` is far from inductive. `TreeInv` adds that any two modules in the tree are disjoint
or one is below a sub-module of the other, and that every leaf is a child of the leaf module it is
in (`Homes`); `WorkInv` adds that what may still be split, or waits for its task, is a leaf module
of the tree, so a split never meets modules another task has put there, and `TuneInv` the same for
the modules to be fine-tuned. `RemoveSubModules` apart, every step that touches the tree is then
one replacement (`ReplacedTree`, `ReplacedHomes`). For `ResultIsReference`, `LevelInv` relates a
task's level to the number of modules between its own and the queue's (`Chain`), and `ResultInv`
says that a module whose task is past its search is split exactly as the reference splits it and
that no module below the queue has been forgotten (`Covered`), as long as no cancel is up before
the join (`Regular`). `LevelsAddUp` needs two things. `LengthInv`: what a task has recorded is what
its module contributes, and `codelength` is that of the tree. `SumInv`: the consolidated
codelength is the sum over the modules of the tree that are not below the current level (`Outside`),
and the limit adds the modules of that level as if they were leaf modules. `SplitAdds` keeps it
while tasks still split, since a split adds modules below the queue only; `AggregationAdds`
moves it one level down, where the records of a level telescope: the `index` or `leaf` part of a
record is what its module adds for itself, and the `module` part of a split one is the sum over its
sub-modules as leaf modules. The sum lemmas are stated again in this module and in
`StateNetwork_proofs`, whose constants are not those of `Partition`.
`CodelengthTypes` has integers and not naturals: an index codelength is a difference, and
nothing the model assumes of the gains keeps it positive.

`UseInfomap_proofs` proves, for any number of runs, whatever their workers print, answer, crash or
throw, whichever are stopped, and wherever the page clears the output or unmounts:

- `RunningCorrect`: the running flag is set only if a run has not called back, and whenever one has
  not, unless a run called back twice;
- `SilentAfterAnswer`: a run that has called back and was not stopped hands over nothing more, but
  for the one error event of a crash;
- `OutputCorrect`: output and buffer are what arrived, in order, and an answer leaves no line behind.

`CountInv` says that `activeRuns` never exceeds the number of runs that have not called back, and
equals it as long as no run called back twice: every call counts, whichever run it is of. That a run
the page has not stopped calls back once at most, but for a crash, is `AnsweredInv`. It needs
`LastInv` (a result is the last message of its worker, so none follows the one that ends it),
`AliveInv` (a worker of the page, or one whose timer is on, is alive, and a terminated one has no
messages) and `StartedInv` (nothing has been heard of a worker that was not made). The output is
`OutputInv`.

`StateNetwork_proofs` proves, for every finite set of ids, any natural weights and threshold, with
or without self-links, from either build mode and for every sequence of additions, reads, removals,
conversions and clears:

- `StatisticsCorrect`: what is counted and summed by hand is the number and the sums of the links,
  until they are released;
- `RowsCorrect`: rows that nothing came after are the links;
- `NetworkIsAGraph`: every call is a step of `WeightedGraph`, with `Content` for its weights, or a
  stutter.

Three lemmas say that no way of storing links loses any. `LinksReadBack`: rows made of links give
the same links back. It rests on `SortedLists` (in a strict order, to come after as many as are
before is to be listed in order), `IndexIs` (the lower bound of an id is its position) and
`RowOfLink` (the last offset that is not past a link is that of its source's row).
`ArrivalsReadBack`: links turned into arrivals again and merged are the same links. `MergedAppend`:
one more arrival adds its weight to that of its pair. With them each call has its effect on
`Content` in a lemma of its own (`AddLinkEffect`, `RemoveEffect`, `ConvertEffect` and so on), from
which both the refinement and the invariant follow. `StatisticsExact` is not inductive: `SourcesInv`
adds that in map mode every source of a link has an out-weight to subtract from, also after a
release, and `RowsInv` that standing rows were made of the nodes and links of now; `StatsInv` states
the sums over sets of pairs (`SumIn`), so that one lemma (`PlusSums`) serves the total, the
self-links and the out-weights of a source.

Model-checked only:

- liveness (fairness and ENABLED are out of the prover's reach): `RunEnds` (of two modules),
  `OptimisationEnds`, `CancelEndsRun`, `EveryRunEnds`;
- the pointer tree of `TreeSearch` (`TreeIsSound`, `TreeIsWhatWasFound`, `CallsAreLegal`): the leaf
  sets and chains are computed by recursion over the pointers of a heap that nearly every operator
  changes, and each such definition would need an induction of its own.

## Left out of the modelled parts

Codelengths are integers or choices. In `RecursivePartition` tasks end by an interrupt or
normally, and ragged trees are not fine-tuned. `TreeSearch` leaves out `onlySuperModules`,
`--skip-modular`'s fast super-modules, `noCoarseTune`, `assignToNeighbouringModule`,
`normalizeTreePaths`, `preferredNumberOfModules` and the edges of the tree's nodes; fine-tuning
of a deep given tree is in `RecursivePartition`. `Partition` leaves out consolidation of
links. `RunSession` takes the plan of output paths as one canonical file, numbered trial
files, a shard tree and a results file.

## Plan

Done: trials serial and parallel with their abstract specification, moves serial and
parallel, `VectorMap`, the recursion, the tree and the search over it, the links of a network,
output files, the page and its workers.

Modules to come, in this order: the multilayer expansion of `Network` over `StateNetwork`;
consolidation of links composed with `Partition`; `normalizeTreePaths` and
`assignToNeighbouringModule`; thread configuration and shard merge as pure operators against a
reference.

Theorems to come: `TreeIsSound` of `TreeSearch`, once its leaf sets are stated without recursion.
