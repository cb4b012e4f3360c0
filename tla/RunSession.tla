----------------------------- MODULE RunSession -----------------------------
(***************************************************************************)
(* InfomapBase::run(Network&) with the serial trial loops of RunSession:   *)
(* the entry of the run, the output preflight, the flow calculation, the   *)
(* fixed-count and the --converge loop, the choice of the best trial, the  *)
(* restore of the best tree and the reports, on one instance that is run   *)
(* up to MaxRuns times.  Another thread may raise the cancel flag and the  *)
(* host's interrupt callback may start to return true at any time; a run   *)
(* that throws leaves by unwinding, which gives the config seed back.      *)
(*                                                                         *)
(* The process may die between any two steps.  Nothing is recovered then;  *)
(* what survives is `files', so properties of `files' are invariants of    *)
(* every state and not only of the last one.                               *)
(***************************************************************************)
EXTENDS Integers, Sequences

CONSTANTS Configs,       \* the configurations an instance may be made with
          Eps, MaxLength, ConfigWidth, EngineWidth,   \* see TrialSelection
          UserSeed,      \* the seed the user asked for
          MinTrials,     \* Config::convergeMinTrials
          Patience,      \* Config::convergePatience
          ToleranceUnit, \* 1 / Config::convergeTolerance
          DanglingFlow,  \* what one initNetwork adds to m_sumDanglingFlow
          NoFinalOutput  \* --no-final-output

VARIABLES
  config,      \* the options of the instance and what it works on
  lengthOf,    \* trial -> the codelength its seed finds
  cancel,      \* *m_cancel
  handler,     \* the host's callback would return true
  pc,          \* where the owner thread is; "idle" outside run()
  outcome,     \* how the last run ended, or "running"
  run,         \* runs begun on this instance
  trial,       \* i, the trial index of the loop
  configSeed,  \* Config::seedToRandomNumberGenerator
  baseSeed,    \* m_baseSeed
  danglingSum, \* m_sumDanglingFlow
  codelengths, \* m_codelengths
  best,        \* Result
  bestBefore,  \* bestBefore of runTrialsUntilConverged
  since,       \* trialsSinceImprovement
  trialsRun,   \* m_trialsRun
  tree,        \* the trial whose tree the instance holds, or NoTree
  files,       \* location -> Content
  engine,      \* history: trial -> the engine seed it ran with in this run
  wrote        \* history: this run has written a file

vars == <<config, lengthOf, cancel, handler, pc, outcome, run, trial, configSeed,
          baseSeed, danglingSum, codelengths, best, bestBefore, since,
          trialsRun, tree, files, engine, wrote>>

NumTrials == config.numTrials
TrialOffset == config.trialOffset
PrintAllTrials == config.printAllTrials
Converge == config.converge
Overwrite == config.overwrite           \* not --no-overwrite
TrialResults == config.trialResults     \* --trial-results is given
Codelengths == config.codelengths       \* what the trials can find
OldFiles == config.oldFiles             \* what may be there before the first run
Failures == config.failures             \* whether a step may throw by itself
MaxRuns == config.maxRuns               \* bound: how often the instance is run

INSTANCE TrialSelection

\* validateConvergeTrials and applyRuntimeOutputInteractions, for each of Configs.
ASSUME SessionAssumption ==
  /\ \A c \in Configs :
       /\ c.numTrials \in Nat \ {0} /\ c.trialOffset \in Nat
       /\ c.converge => c.trialOffset = 0 /\ ~c.trialResults
       /\ c.printAllTrials => c.numTrials > 1
       /\ c.maxRuns \in Nat \ {0}
       /\ c.codelengths \subseteq Int /\ \A x \in c.codelengths : x < MaxLength - Eps
  /\ Eps \in Nat \ {0} /\ MaxLength \in Int
  /\ EngineWidth \in Nat \ {0}
  /\ \E k \in 1..ConfigWidth : ConfigWidth = k * EngineWidth
  /\ UserSeed \in 0..(ConfigWidth - 1)
  /\ MinTrials \in Nat /\ Patience \in Nat \ {0} /\ ToleranceUnit \in Nat \ {0}
  /\ DanglingFlow \in Nat
  /\ NoFinalOutput \in BOOLEAN

Report == TrialOffset + NumTrials + 1   \* the --trial-results file

\* The run's output locations.
Locations == Paths \cup {Report}

\* What a file holds: the run and the trial that wrote it and the number of
\* trials its header reports.
Content(r, t, n) == [run |-> r, trial |-> t, ran |-> n]
NoContent == Content(0, NoFile, 0)
OldContent == Content(0, NoFile, 1)

NoTree == -1
NoEngineSeed == -1

Init ==
  /\ config \in Configs
  /\ lengthOf \in [Trials -> Codelengths]
  /\ cancel = FALSE
  /\ handler = FALSE
  /\ pc = "idle"
  /\ outcome = "none"
  /\ run = 0
  /\ trial = 0
  /\ configSeed = UserSeed
  /\ baseSeed = UserSeed
  /\ danglingSum = 0
  /\ codelengths = <<>>
  /\ best = NoBest
  /\ bestBefore = MaxLength
  /\ since = 0
  /\ trialsRun = NumTrials
  /\ tree = NoTree
  /\ files \in [Locations -> {NoContent, OldContent}]
  /\ \A p \in Locations \ OldFiles : files[p] = NoContent
  /\ engine = [t \in Trials |-> NoEngineSeed]
  /\ wrote = FALSE

loopVars == <<trial, codelengths, best, bestBefore, since, trialsRun>>
hostVars == <<config, lengthOf, handler, run>>

\* Mutation: the config seed is not given back when a trial throws.
ThrowKeepingTrialSeed(kind) ==
  /\ outcome' = kind
  /\ pc' = "idle"
  /\ UNCHANGED configSeed

\* An exception leaves run(): ~ScopedConfigSeed runs if the trial loop was entered.
Throw(kind) ==
  /\ outcome' = kind
  /\ pc' = "idle"
  /\ configSeed' = baseSeed

\* run(Network&): clear a leftover cancel; RunSession captures the base seed.
CallRun ==
  /\ pc = "idle"
  /\ run < MaxRuns
  /\ run' = run + 1
  /\ cancel' = FALSE
  /\ outcome' = "running"
  /\ pc' = "entry"
  /\ baseSeed' = configSeed
  /\ trialsRun' = NumTrials
  /\ engine' = [t \in Trials |-> NoEngineSeed]
  /\ wrote' = FALSE
  /\ UNCHANGED <<config, lengthOf, handler, trial, configSeed, danglingSum, codelengths,
                 best, bestBefore, since, tree, files>>

\* pollInterrupt on the owner thread: callback, then flag.
Aborts == handler \/ cancel

RaiseCancel == cancel' = (cancel \/ handler)

Entry ==
  /\ pc = "entry"
  /\ RaiseCancel
  /\ IF Aborts
       THEN Throw("interrupted")
       ELSE pc' = "preflight" /\ UNCHANGED <<outcome, configSeed>>
  /\ UNCHANGED <<hostVars, loopVars, baseSeed, danglingSum, tree, files, engine, wrote>>

\* Mutation: the results file is left out of the plan.
PlannedWithoutReport ==
  {Canonical}
    \cup (IF PrintAllTrials /\ NumTrials > 1
            THEN {OutputPath(NumTrials, n) : n \in 1..NumTrials} ELSE {})

\* planAllOutputPaths: the canonical result, the trials 1..numTrials with
\* --print-all-trials, and the report files.
PlannedPaths ==
  {Canonical}
    \cup (IF PrintAllTrials /\ NumTrials > 1
            THEN {OutputPath(NumTrials, n) : n \in 1..NumTrials} ELSE {})
    \cup (IF TrialResults THEN {Report} ELSE {})

Exists(path) == files[path] # NoContent

\* preflightOutputTargets.
Preflight ==
  /\ pc = "preflight"
  /\ IF ~Overwrite /\ \E p \in PlannedPaths \cap Locations : Exists(p)
       THEN Throw("exists")
       ELSE pc' = "flow" /\ UNCHANGED <<outcome, configSeed>>
  /\ UNCHANGED <<cancel, hostVars, loopVars, baseSeed, danglingSum, tree, files,
                 engine, wrote>>

\* calculateFlowAndInitNetwork, then the start of runTrials.
InitNetwork ==
  /\ pc = "flow"
  /\ danglingSum' = danglingSum + DanglingFlow
  /\ tree' = NoTree
  /\ \/ /\ pc' = "poll"
        /\ trial' = 0
        /\ codelengths' = <<>>
        /\ best' = NoBest
        /\ since' = 0
        /\ UNCHANGED <<outcome, configSeed, bestBefore, trialsRun>>
     \/ /\ Failures
        /\ Throw("failed")
        /\ UNCHANGED loopVars
  /\ UNCHANGED <<cancel, hostVars, baseSeed, files, engine, wrote>>

\* The checkpoint before a trial, then seedTrial and removeModules.
BeginTrial ==
  /\ pc = "poll"
  /\ RaiseCancel
  /\ IF Aborts
       THEN /\ Throw("interrupted")
            /\ UNCHANGED <<bestBefore, tree, engine>>
       ELSE /\ configSeed' = TrialSeed(baseSeed, trial)
            /\ engine' = [engine EXCEPT ![trial] = EngineSeed(TrialSeed(baseSeed, trial))]
            /\ bestBefore' = best.length
            /\ tree' = NoTree
            /\ pc' = "search"
            /\ UNCHANGED outcome
  /\ UNCHANGED <<hostVars, trial, codelengths, best, since, trialsRun, baseSeed,
                 danglingSum, files, wrote>>

\* What the trial finds depends on the flow it ran on.
Finds == IF danglingSum = DanglingFlow THEN {lengthOf[trial]} ELSE Codelengths

\* initTrialPartition, executeTrial, and the m_codelengths part of finishTrial.
Search ==
  /\ pc = "search"
  /\ \/ /\ \E c \in Finds : codelengths' = Append(codelengths, c)
        /\ tree' = trial
        /\ pc' = IF PrintAllTrials /\ NumTrials > 1 THEN "trial_output" ELSE "keep"
        /\ UNCHANGED <<cancel, outcome, configSeed>>
     \/ /\ Aborts
        /\ RaiseCancel
        /\ Throw("interrupted")
        /\ UNCHANGED <<codelengths, tree>>
     \/ /\ Failures
        /\ Throw("failed")
        /\ UNCHANGED <<cancel, codelengths, tree>>
  /\ UNCHANGED <<hostVars, trial, best, bestBefore, since, trialsRun, baseSeed,
                 danglingSum, files, engine, wrote>>

\* Mutation: the target is opened without looking.
CanWriteAlways(path) == path \in Locations

\* SafeOutFile: refuse an existing target under --no-overwrite; other failures
\* (a full disk) remove the temporary file and throw.
CanWrite(path) == Overwrite \/ ~Exists(path)

Write(path, t) ==
  /\ CanWrite(path)
  /\ files' = [files EXCEPT ![path] = Content(run, t, Len(codelengths))]
  /\ wrote' = TRUE

WriteThrows(path) ==
  /\ \/ ~CanWrite(path) /\ Throw("exists")
     \/ Failures /\ Throw("failed")
  /\ UNCHANGED <<files, wrote>>

\* Mutation: the file is numbered within the shard.
WriteTrialLocally ==
  /\ pc = "trial_output"
  /\ LET path == OutputPath(NumTrials, trial + 1) IN
       \/ Write(path, tree) /\ pc' = "keep" /\ UNCHANGED <<outcome, configSeed>>
       \/ WriteThrows(path)
  /\ UNCHANGED <<cancel, hostVars, loopVars, baseSeed, danglingSum, tree, engine>>

\* writeResult(trialOffset + trialIndex + 1) of --print-all-trials.
WriteTrial ==
  /\ pc = "trial_output"
  /\ LET path == OutputPath(NumTrials, TrialOffset + trial + 1) IN
       \/ Write(path, tree) /\ pc' = "keep" /\ UNCHANGED <<outcome, configSeed>>
       \/ WriteThrows(path)
  /\ UNCHANGED <<cancel, hostVars, loopVars, baseSeed, danglingSum, tree, engine>>

\* finishTrial's comparison and updateBestResult: the new best is written at once.
KeepBest ==
  /\ pc = "keep"
  /\ LET length == codelengths[Len(codelengths)] IN
       IF IsBetter(length, best)
         THEN /\ best' = [index |-> trial, length |-> length]
              /\ \/ /\ NoFinalOutput
                    /\ pc' = "advance"
                    /\ UNCHANGED <<outcome, configSeed, files, wrote>>
                 \/ /\ ~NoFinalOutput
                    /\ Write(Canonical, tree)
                    /\ pc' = "advance"
                    /\ UNCHANGED <<outcome, configSeed>>
                 \/ ~NoFinalOutput /\ WriteThrows(Canonical)
         ELSE /\ pc' = "advance"
              /\ UNCHANGED <<best, outcome, configSeed, files, wrote>>
  /\ UNCHANGED <<cancel, hostVars, trial, codelengths, bestBefore, since, trialsRun,
                 baseSeed, danglingSum, tree, engine>>

\* `best < bestBefore * (1 - convergeTolerance)`
Improved(length, before) == length * ToleranceUnit < before * (ToleranceUnit - 1)

\* Mutation: an improvement does not restart the count.
StaleNeverReset(improved, count) == count + 1

\* trialsSinceImprovement after a trial.
Stale(improved, count) == IF improved THEN 0 ELSE count + 1

\* The end of the loop body: next trial, or out of runTrials (~ScopedConfigSeed).
Advance ==
  /\ pc = "advance"
  /\ LET stale == Stale(Improved(best.length, bestBefore), since)
         stop  == Converge /\ trial + 1 >= MinTrials /\ stale >= Patience
     IN  /\ since' = IF Converge THEN stale ELSE since
         /\ IF stop \/ trial + 1 = NumTrials
              THEN /\ trialsRun' = IF Converge THEN trial + 1 ELSE NumTrials
                   /\ pc' = "summary"
                   /\ configSeed' = baseSeed
                   /\ UNCHANGED trial
              ELSE /\ trial' = trial + 1
                   /\ pc' = "poll"
                   /\ UNCHANGED <<trialsRun, configSeed>>
  /\ UNCHANGED <<cancel, hostVars, outcome, codelengths, best, bestBefore, baseSeed,
                 danglingSum, tree, files, engine, wrote>>

\* Mutation: the best tree is not restored if the last trial but one found it.
RestoreTooRarely == trialsRun > 1 /\ best.index < trialsRun - 2

\* `bestTrialIndex < m_trialsRun - 1'
MustRestore == trialsRun > 1 /\ best.index < trialsRun - 1

\* printSummary / restoreBestResult: rebuild and rewrite the best tree unless the
\* last trial run was the best one.
Summary ==
  /\ pc = "summary"
  /\ IF MustRestore
       THEN /\ tree' = best.index
            /\ \/ NoFinalOutput /\ pc' = "reports" /\ UNCHANGED <<outcome, configSeed, files, wrote>>
               \/ /\ ~NoFinalOutput
                  /\ Write(Canonical, best.index)
                  /\ pc' = "reports"
                  /\ UNCHANGED <<outcome, configSeed>>
               \/ ~NoFinalOutput /\ WriteThrows(Canonical)
       ELSE /\ pc' = "reports"
            /\ UNCHANGED <<outcome, configSeed, tree, files, wrote>>
  /\ UNCHANGED <<cancel, hostVars, loopVars, baseSeed, danglingSum, engine>>

\* The numbered tree a shard's results file refers to.
ShardPath == TrialOffset + best.index + 1

\* writeRunReports: the shard's best tree, kept if it exists and must not be
\* overwritten.
WriteShardTree ==
  /\ pc = "reports"
  /\ \/ /\ TrialResults /\ CanWrite(ShardPath)
        /\ Write(ShardPath, tree)
        /\ pc' = "results"
        /\ UNCHANGED <<outcome, configSeed>>
     \/ /\ TrialResults => ~CanWrite(ShardPath)
        /\ pc' = "results"
        /\ UNCHANGED <<outcome, configSeed, files, wrote>>
     \/ TrialResults /\ CanWrite(ShardPath) /\ WriteThrows(ShardPath)
  /\ UNCHANGED <<cancel, hostVars, loopVars, baseSeed, danglingSum, tree, engine>>

\* The results file itself; the run returns.
WriteReport ==
  /\ pc = "results"
  /\ \/ /\ ~TrialResults
        /\ UNCHANGED <<files, wrote>>
        /\ outcome' = "completed" /\ pc' = "idle" /\ UNCHANGED configSeed
     \/ /\ TrialResults
        /\ Write(Report, best.index)
        /\ outcome' = "completed" /\ pc' = "idle" /\ UNCHANGED configSeed
     \/ TrialResults /\ WriteThrows(Report)
  /\ UNCHANGED <<cancel, hostVars, loopVars, baseSeed, danglingSum, tree, engine>>

\* requestInterrupt, from any thread, also between runs.
RequestInterrupt ==
  /\ ~cancel
  /\ cancel' = TRUE
  /\ UNCHANGED <<hostVars, pc, outcome, loopVars, configSeed, baseSeed, danglingSum,
                 tree, files, engine, wrote>>

\* A signal becomes pending at the host, or is consumed between two runs.
HostSignal ==
  /\ handler' = ~handler
  /\ handler => pc = "idle"
  /\ UNCHANGED <<config, lengthOf, cancel, pc, outcome, run, loopVars, configSeed,
                 baseSeed, danglingSum, tree, files, engine, wrote>>

Step ==
  \/ Entry \/ Preflight \/ InitNetwork \/ BeginTrial \/ Search \/ WriteTrial
  \/ KeepBest \/ Advance \/ Summary \/ WriteShardTree \/ WriteReport

Next == CallRun \/ Step \/ RequestInterrupt \/ HostSignal

Spec == Init /\ [][Next]_vars
-----------------------------------------------------------------------------
TypeOK ==
  /\ config \in Configs
  /\ lengthOf \in [Trials -> Codelengths]
  /\ cancel \in BOOLEAN /\ handler \in BOOLEAN
  /\ pc \in {"idle", "entry", "preflight", "flow", "poll", "search", "trial_output",
             "keep", "advance", "summary", "reports", "results"}
  /\ outcome \in {"none", "running", "completed", "interrupted", "failed", "exists"}
  /\ run \in 0..MaxRuns
  /\ trial \in Trials
  /\ configSeed \in 0..(ConfigWidth - 1)
  /\ baseSeed \in 0..(ConfigWidth - 1)
  /\ danglingSum \in Nat
  /\ codelengths \in Seq(Codelengths) /\ Len(codelengths) <= NumTrials
  /\ best \in [index : Trials, length : Codelengths \cup {MaxLength}]
  /\ bestBefore \in Codelengths \cup {MaxLength}
  /\ since \in 0..NumTrials
  /\ trialsRun \in 1..NumTrials
  /\ tree \in Trials \cup {NoTree}
  /\ files \in [Locations -> [run : 0..MaxRuns, trial : Trials \cup {NoFile}, ran : 0..NumTrials]]
  /\ engine \in [Trials -> Int]
  /\ wrote \in BOOLEAN

(***************************************************************************)
(* However earlier runs of the instance ended, trial t of this run uses    *)
(* the engine seed of a standalone run with the seed recorded for it: the  *)
(* config seed, moved by every trial, is always given back, and narrowing  *)
(* to the engine's width commutes with adding the trial's global index.    *)
(***************************************************************************)
TrialSeedsReproduce ==
  \A t \in Trials : engine[t] # NoEngineSeed =>
    engine[t] = EngineSeed(UserSeed + TrialOffset + t)

(***************************************************************************)
(* A completed run reports the trials it ran in order, and the instance    *)
(* and the canonical file hold the first of the best of them, the file     *)
(* with the number of trials that were compared in its header.             *)
(***************************************************************************)
CompletedIsBest ==
  /\ TypeOK
  /\ outcome = "completed" =>
    /\ codelengths = [k \in 1..trialsRun |-> lengthOf[k - 1]]
    /\ IsFirstMinimum(lengthOf, 0..(trialsRun - 1), tree)
    /\ NoFinalOutput \/ files[Canonical] = Content(run, tree, trialsRun)

(***************************************************************************)
(* An artifact never claims more trials than its solution is the best of:  *)
(* a canonical file whose header says k trials, left behind at whatever    *)
(* point the run was interrupted, failed or was killed, holds the first    *)
(* minimum of the first k trials.                                          *)
(***************************************************************************)
HeaderIsHonest ==
  LET f == files[Canonical]
  IN  f.run = run /\ run > 0 => IsFirstMinimum(lengthOf, 0..(f.ran - 1), f.trial)

(***************************************************************************)
(* The plateau rule, restated on the codelengths alone: the best of the    *)
(* first k trials, and whether trial k improved on it.                     *)
(***************************************************************************)
BestOf(k) == IF k = 0 THEN MaxLength
             ELSE CHOOSE c \in {codelengths[j] : j \in 1..k} :
                    \A j \in 1..k : c <= codelengths[j]

Plateau(k) ==
  /\ k >= MinTrials /\ k >= Patience
  /\ \A j \in (k - Patience + 1)..k : ~Improved(BestOf(j), BestOf(j - 1))

(***************************************************************************)
(* --converge stops exactly at the first plateau: after the first trial    *)
(* count with a floor of MinTrials whose last Patience trials brought no   *)
(* relative improvement, and at the cap otherwise.                         *)
(***************************************************************************)
StopsAtFirstPlateau ==
  outcome = "completed" /\ Converge =>
    /\ Plateau(trialsRun) \/ trialsRun = NumTrials
    /\ \A k \in 1..(trialsRun - 1) : ~Plateau(k)

\* Of a step of an instance with --no-overwrite.
KeepsOldFiles ==
  ~Overwrite =>
    /\ \A p \in Locations : Exists(p) => files'[p] = files[p]
    /\ outcome' = "exists" => ~wrote'

(***************************************************************************)
(* Under --no-overwrite a file that was there before the run is never      *)
(* replaced, by any of the writers a run goes through; and a run of one    *)
(* trial that is refused because a file exists has written nothing, for    *)
(* the preflight finds the collision before any work.                      *)
(***************************************************************************)
OldFilesSurvive == [][KeepsOldFiles]_vars

(***************************************************************************)
(* When a run has completed, the numbered files hold the trees of the      *)
(* trials they are numbered for: all of them with --print-all-trials, and  *)
(* with --trial-results that of the best trial, which the results file     *)
(* refers to, unless --no-overwrite let a file of that name be.            *)
(***************************************************************************)
NumberedFilesAreTheirTrials ==
  outcome = "completed" =>
    /\ PrintAllTrials => \A t \in 0..(trialsRun - 1) :
         files[TrialOffset + t + 1].run = run /\ files[TrialOffset + t + 1].trial = t
    /\ TrialResults /\ Overwrite =>
         files[ShardPath].run = run /\ files[ShardPath].trial = best.index
=============================================================================
