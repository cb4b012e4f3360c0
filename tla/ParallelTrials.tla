--------------------------- MODULE ParallelTrials ---------------------------
(***************************************************************************)
(* InfomapBase::RunSession::runTrialsInParallel and the part of the run    *)
(* that consumes its result.  An OpenMP region of NumWorkers workers runs  *)
(* the trials: worker w takes the trials w, w + NumWorkers, ...  A worker  *)
(* is one InfomapBase reused for all of its trials; the workers share the  *)
(* best result, the error record (each under a mutex) and the cancel flag, *)
(* which any thread may raise at any time.  After the implicit barrier the *)
(* owner thread reads the flag, then the error record, and either throws   *)
(* or publishes and restores the best tree.                                *)
(*                                                                         *)
(* The search a trial performs is abstracted to its result: lengthOf[t] is *)
(* the codelength the trial with the seed of trial t finds on a freshly    *)
(* initialised network from the partition the run was given.  `input'      *)
(* records what each trial really ran with.                                *)
(***************************************************************************)
EXTENDS TrialSelection

CONSTANTS OmpThreads,     \* omp_get_max_threads()
          BaseSeed,       \* m_baseSeed
          DanglingFlow,   \* what one initNetwork adds to m_sumDanglingFlow
          Starts,         \* the initial partitions given to the run
          Overwrite,      \* not --no-overwrite
          NoFinalOutput,  \* --no-final-output
          Failures        \* whether a trial may throw an error of its own

StartSources == {"cluster_data", "multilayer", "initial", "paths"}

\* selectParallelTrialMode falls back to the serial loop for a single trial.
ASSUME ParallelAssumption ==
  /\ NumTrials > 1
  /\ OmpThreads \in Nat
  /\ BaseSeed \in Nat
  /\ DanglingFlow \in Nat
  /\ Starts \subseteq StartSources
  /\ Overwrite \in BOOLEAN
  /\ NoFinalOutput \in BOOLEAN
  /\ Failures \in BOOLEAN

VARIABLES
  lengthOf,     \* trial -> the codelength its seed finds
  cancel,       \* *m_cancel
  pc,           \* the owner thread: "region", "summary", "done"
  outcome,      \* "running", "completed", "interrupted", "failed", "output_error"
  wpc,          \* worker -> where it is in its loop
  wtrial,       \* worker -> trialIndex
  danglingSum,  \* worker -> m_sumDanglingFlow
  found,        \* worker -> trialCodelength
  lengths,      \* the local vector `codelengths'
  best,         \* Result, under bestResultMutex
  err,          \* hasError and firstErrorTrial, under errorMutex
  codelengths,  \* m_infomap.m_codelengths
  files,        \* path -> the trial whose result it holds, or NoFile
  tree,         \* the trial whose tree the main instance holds, or NoTree
  status,       \* history: trial -> what became of it
  input         \* history: trial -> what it ran with

vars == <<lengthOf, cancel, pc, outcome, wpc, wtrial, danglingSum,
          found, lengths, best, err, codelengths, files, tree, status, input>>

NoTree == -1
NoInput == [seed |-> -1, dangling |-> 0, start |-> "none"]

\* parallelTrialWorkers: the OpenMP threads, at least one, at most one per trial.
NumWorkers ==
  LET threads == IF OmpThreads < 1 THEN 1 ELSE OmpThreads
  IN  IF NumTrials < threads THEN NumTrials ELSE threads

Workers == 0..(NumWorkers - 1)

\* initTrialPartition: the first source present decides.
StartOf(starts) ==
  CASE "cluster_data" \in starts -> "cluster_data"
    [] "cluster_data" \notin starts /\ "multilayer" \in starts -> "multilayer"
    [] starts \cap {"cluster_data", "multilayer"} = {} /\ "initial" \in starts -> "initial"
    [] starts = {"paths"} -> "paths"
    [] OTHER -> "none"

\* A worker is built from the config (cluster data) and m_initialPartition; the
\* embedded paths come with the network.
WorkerStarts == Starts \ {"multilayer"}

\* What trial t runs with when it runs alone.
OwnInput(t) == [seed |-> TrialSeed(BaseSeed, t),
                dangling |-> DanglingFlow,
                start |-> StartOf(Starts)]

Init ==
  /\ lengthOf \in [Trials -> Codelengths]
  /\ cancel = FALSE
  /\ pc = "region"
  /\ outcome = "running"
  /\ wpc = [w \in Workers |-> "next"]
  /\ wtrial = [w \in Workers |-> w]
  /\ danglingSum = [w \in Workers |-> 0]
  /\ found = [w \in Workers |-> MaxLength]
  /\ lengths = [t \in Trials |-> MaxLength]
  /\ best = NoBest
  /\ err = [has |-> FALSE, trial |-> 0]
  /\ codelengths = <<>>
  /\ files = [p \in Paths |-> NoFile]
  /\ tree = NoTree
  /\ status = [t \in Trials |-> "waiting"]
  /\ input = [t \in Trials |-> NoInput]

Goto(w, label) == wpc' = [wpc EXCEPT ![w] = label]

Mark(t, s) == status' = [status EXCEPT ![t] = s]

\* Seed, initNetwork and initTrialPartition of the worker's next trial.  The
\* initial partition may be unusable, which throws.
BeginTrial(w) ==
  /\ wpc[w] = "next"
  /\ wtrial[w] < NumTrials
  /\ LET t == wtrial[w] IN
       /\ danglingSum' = [danglingSum EXCEPT ![w] = @ + DanglingFlow]
       /\ input' = [input EXCEPT ![t] = [seed |-> TrialSeed(BaseSeed, t),
                                         dangling |-> danglingSum[w] + DanglingFlow,
                                         start |-> StartOf(WorkerStarts)]]
       /\ \/ Mark(t, "running") /\ Goto(w, "poll")
          \/ Failures /\ Mark(t, "failed") /\ Goto(w, "catch")
  /\ UNCHANGED <<lengthOf, cancel, pc, outcome, wtrial, found, lengths,
                 best, err, codelengths, files, tree>>

\* The cancel checkpoints of the search: pollInterrupt on the worker, which has
\* no callback, so the flag only.
PollTrial(w) ==
  /\ wpc[w] = "poll"
  /\ IF cancel
       THEN Mark(wtrial[w], "interrupted") /\ Goto(w, "catch")
       ELSE Goto(w, "search") /\ UNCHANGED status
  /\ UNCHANGED <<lengthOf, cancel, pc, outcome, wtrial, danglingSum,
                 found, lengths, best, err, codelengths, files, tree, input>>

\* executeTrial: the search ends, sees the flag at a later checkpoint, or throws.
EndSearch(w) ==
  /\ wpc[w] = "search"
  /\ LET t == wtrial[w] IN
       \/ /\ \E c \in IF input[t] = OwnInput(t) THEN {lengthOf[t]} ELSE Codelengths :
               found' = [found EXCEPT ![w] = c]
          /\ Goto(w, "record")
          /\ UNCHANGED status
       \/ /\ cancel
          /\ Mark(t, "interrupted") /\ Goto(w, "catch")
          /\ UNCHANGED found
       \/ /\ Failures
          /\ Mark(t, "failed") /\ Goto(w, "catch")
          /\ UNCHANGED found
  /\ UNCHANGED <<lengthOf, cancel, pc, outcome, wtrial, danglingSum,
                 lengths, best, err, codelengths, files, tree, input>>

\* codelengths[trialIndex] = ..., recordTrial.
RecordTrial(w) ==
  /\ wpc[w] = "record"
  /\ lengths' = [lengths EXCEPT ![wtrial[w]] = found[w]]
  /\ Goto(w, IF PrintAllTrials /\ NumTrials > 1 THEN "output" ELSE "select")
  /\ UNCHANGED <<lengthOf, cancel, pc, outcome, wtrial, danglingSum,
                 found, best, err, codelengths, files, tree, status, input>>

\* SafeOutFile refuses an existing target under --no-overwrite.
CanWrite(path) == Overwrite \/ files[path] = NoFile

\* The trial's own output file, under outputMutex; writing it may fail.  The
\* worker's config has numTrials = 1.
WriteTrial(w) ==
  /\ wpc[w] = "output"
  /\ LET t    == wtrial[w]
         path == OutputPath(1, TrialOffset + t + 1)
     IN  \/ /\ CanWrite(path)
            /\ files' = [files EXCEPT ![path] = t]
            /\ Goto(w, "select")
            /\ UNCHANGED status
         \/ /\ Failures \/ ~CanWrite(path)
            /\ Mark(t, "failed") /\ Goto(w, "catch")
            /\ UNCHANGED files
  /\ UNCHANGED <<lengthOf, cancel, pc, outcome, wtrial, danglingSum,
                 found, lengths, best, err, codelengths, tree, input>>

\* Mutation: no tie rule.
SelectBestFirstCome(length, t) ==
  best' = IF IsBetter(length, best) THEN [index |-> t, length |-> length] ELSE best

\* The update of the shared best result.
SelectBest(length, t) ==
  best' = IF best.index >= NumTrials \/ IsBetter(length, best) \/ IsEarlierTie(length, t, best)
            THEN [index |-> t, length |-> length]
            ELSE best

\* The critical section of bestResultMutex, then `trialIndex += numWorkers'.
SelectTrial(w) ==
  /\ wpc[w] = "select"
  /\ SelectBest(found[w], wtrial[w])
  /\ Mark(wtrial[w], "selected")
  /\ wtrial' = [wtrial EXCEPT ![w] = @ + NumWorkers]
  /\ Goto(w, "next")
  /\ UNCHANGED <<lengthOf, cancel, pc, outcome, danglingSum, found,
                 lengths, err, codelengths, files, tree, input>>

\* Mutation: keep the first error that arrives.
RecordFirstError(t) ==
  err' = IF ~err.has THEN [has |-> TRUE, trial |-> t] ELSE err

\* Keep the error of the lowest trial index.
RecordError(t) ==
  err' = IF ~err.has \/ t < err.trial THEN [has |-> TRUE, trial |-> t] ELSE err

\* Mutation: the worker tries the trial again.
CatchAndRetry(w) ==
  /\ wpc[w] = "catch"
  /\ RecordError(wtrial[w])
  /\ Goto(w, "next")
  /\ UNCHANGED <<lengthOf, cancel, pc, outcome, wtrial, danglingSum, found,
                 lengths, best, codelengths, files, tree, status, input>>

\* The catch clauses under errorMutex; the worker goes on with its next trial.
CatchTrial(w) ==
  /\ wpc[w] = "catch"
  /\ RecordError(wtrial[w])
  /\ wtrial' = [wtrial EXCEPT ![w] = @ + NumWorkers]
  /\ Goto(w, "next")
  /\ UNCHANGED <<lengthOf, cancel, pc, outcome, danglingSum, found,
                 lengths, best, codelengths, files, tree, status, input>>

\* Mutation: the error record first.
AfterRegionErrorFirst == IF err.has THEN "failed" ELSE IF cancel THEN "interrupted" ELSE "running"

\* How the owner thread leaves the region: first the flag, then the error record.
AfterRegion == CASE cancel             -> "interrupted"
                 [] ~cancel /\ err.has -> "failed"
                 [] OTHER              -> "running"

\* The barrier at the end of the region, then the flag, the error record, and
\* the publication of the codelengths.
Join ==
  /\ pc = "region"
  /\ \A w \in Workers : wpc[w] = "next" /\ wtrial[w] >= NumTrials
  /\ outcome' = AfterRegion
  /\ IF AfterRegion = "running"
       THEN codelengths' = [k \in 1..NumTrials |-> lengths[k - 1]] /\ pc' = "summary"
       ELSE pc' = "done" /\ UNCHANGED codelengths
  /\ UNCHANGED <<lengthOf, cancel, wpc, wtrial, danglingSum, found,
                 lengths, best, err, files, tree, status, input>>

\* Mutation: restore only if the last trial was not the best, as the serial loop does.
RestoredSerially == IF best.index < NumTrials - 1 THEN best.index ELSE tree

\* The tree after `bestTreeNeedsRestore || bestTrialIndex < m_trialsRun - 1': a
\* parallel run always needs the restore.
RestoredTree == best.index

\* restoreBestResult: bestTreeNeedsRestore holds and more than one trial ran, so
\* the best tree is rebuilt and the canonical result written.
Restore ==
  /\ pc = "summary"
  /\ tree' = RestoredTree
  /\ IF NoFinalOutput \/ CanWrite(Canonical)
       THEN outcome' = "completed"
       ELSE outcome' = "output_error"
  /\ files' = IF ~NoFinalOutput /\ CanWrite(Canonical)
                THEN [files EXCEPT ![Canonical] = best.index]
                ELSE files
  /\ pc' = "done"
  /\ UNCHANGED <<lengthOf, cancel, wpc, wtrial, danglingSum, found,
                 lengths, best, err, codelengths, status, input>>

\* requestInterrupt, from any thread or signal handler.
RequestInterrupt ==
  /\ pc # "done"
  /\ ~cancel
  /\ cancel' = TRUE
  /\ UNCHANGED <<lengthOf, pc, outcome, wpc, wtrial, danglingSum, found,
                 lengths, best, err, codelengths, files, tree, status, input>>

\* Nothing is left to do: the run has returned or thrown.
Finished == pc = "done" /\ UNCHANGED vars

WorkerStep(w) ==
  \/ BeginTrial(w) \/ PollTrial(w) \/ EndSearch(w) \/ RecordTrial(w)
  \/ WriteTrial(w) \/ SelectTrial(w) \/ CatchTrial(w)

Next ==
  \/ \E w \in Workers : WorkerStep(w)
  \/ Join \/ Restore
  \/ RequestInterrupt
  \/ Finished

Spec == Init /\ [][Next]_vars

\* OpenMP runs every iteration of the worker loop to its end, and the owner
\* thread goes on after the barrier.
Fairness == /\ \A w \in Workers : WF_vars(WorkerStep(w))
            /\ WF_vars(Join \/ Restore)

FairSpec == Spec /\ Fairness

-----------------------------------------------------------------------------
TypeOK ==
  /\ lengthOf \in [Trials -> Codelengths]
  /\ cancel \in BOOLEAN
  /\ pc \in {"region", "summary", "done"}
  /\ outcome \in {"running", "completed", "interrupted", "failed", "output_error"}
  /\ wpc \in [Workers -> {"next", "poll", "search", "record", "output", "select", "catch"}]
  /\ wtrial \in [Workers -> Nat]
  /\ danglingSum \in [Workers -> Nat]
  /\ found \in [Workers -> Codelengths \cup {MaxLength}]
  /\ lengths \in [Trials -> Codelengths \cup {MaxLength}]
  /\ best \in [index : Trials, length : Codelengths \cup {MaxLength}]
  /\ err \in [has : BOOLEAN, trial : Trials]
  /\ codelengths \in {<<>>} \cup [1..NumTrials -> Codelengths \cup {MaxLength}]
  /\ files \in [Paths -> Trials \cup {NoFile}]
  /\ tree \in Trials \cup {NoTree}
  /\ status \in [Trials -> {"waiting", "running", "selected", "failed", "interrupted"}]
  /\ input \in [Trials -> [seed : Int, dangling : Nat, start : StartSources \cup {"none"}]]

Selected == {t \in Trials : status[t] = "selected"}
Unwound == {t \in Trials : status[t] \in {"failed", "interrupted"}}

(***************************************************************************)
(* Whatever order the workers reach the mutex in, the shared best result   *)
(* is that of the trial a serial loop over the same trials would have      *)
(* kept: the lowest codelength and, of equal ones, the lowest index.       *)
(***************************************************************************)
BestIsFirstMinimum ==
  /\ Selected = {} => best = NoBest
  /\ Selected # {} => /\ IsFirstMinimum(lengths, Selected, best.index)
                      /\ best.length = lengths[best.index]

(***************************************************************************)
(* A completed run publishes the codelength of every trial at the trial's  *)
(* own index, keeps the first minimum of all of them and holds its tree,   *)
(* in memory and in the canonical output: no trial was skipped, lost to a  *)
(* failure, or still running at the join.                                  *)
(***************************************************************************)
CompletedIsWhole ==
  outcome = "completed" =>
    /\ Selected = Trials
    /\ codelengths = [k \in 1..NumTrials |-> lengthOf[k - 1]]
    /\ IsFirstMinimum(lengthOf, Trials, tree)
    /\ best.index = tree
    /\ NoFinalOutput \/ files[Canonical] = tree

(***************************************************************************)
(* A trial that unwound because of the cancel flag was caught by the same  *)
(* handler as an error, yet the run neither reports a failure nor a result *)
(* made of the remaining trials: it ends as interrupted.                   *)
(***************************************************************************)
CancelIsNoFailure ==
  (\E t \in Trials : status[t] = "interrupted") => outcome \in {"running", "interrupted"}

(***************************************************************************)
(* The reported failure names the lowest trial index that threw, although  *)
(* the workers reach the error record in any order, and every trial still  *)
(* got its turn.                                                           *)
(***************************************************************************)
FailureIsLowest ==
  outcome = "failed" =>
    /\ Unwound # {}
    /\ err.trial \in Unwound
    /\ \A t \in Unwound : err.trial <= t
    /\ \A t \in Trials : status[t] \in {"selected", "failed"}

(***************************************************************************)
(* "the trial with seed s" names one run: a trial of a reused worker runs  *)
(* with the seed, the flow and the initial partition it would have had as  *)
(* the only trial of a fresh instance. Where flow dangles it does not:     *)
(* m_sumDanglingFlow keeps what the networks before left in it.            *)
(***************************************************************************)
TrialNamesOneRun ==
  \A t \in Trials : status[t] # "waiting" => input[t] = OwnInput(t)

(***************************************************************************)
(* `Write each trial to separate output files': a completed run with       *)
(* --print-all-trials has left every trial's result in its own file.       *)
(***************************************************************************)
SeparateTrialFiles ==
  outcome = "completed" /\ PrintAllTrials =>
    \A t \in Trials : files[TrialOffset + t + 1] = t

(***************************************************************************)
(* Every run ends: a worker whose trial throws still comes to the barrier. *)
(***************************************************************************)
RunEnds == <>(pc = "done")

(***************************************************************************)
(* The region implements the promise of BestOfTrials: what a caller sees   *)
(* is nothing until the run ends, then either nothing or the whole result. *)
(* A failure to write the final output is one of the ways a run fails.     *)
(***************************************************************************)
Promise == INSTANCE BestOfTrials WITH
  MayStopEarly <- FALSE,
  outcome <- IF outcome = "output_error" THEN "failed" ELSE outcome,
  codelengths <- IF outcome = "completed" THEN codelengths ELSE <<>>,
  kept <- IF outcome = "completed" THEN tree ELSE -1

ImplementsBestOfTrials == Promise!Spec
=============================================================================
