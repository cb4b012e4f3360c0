-------------------------- MODULE RunSession_proofs --------------------------
(***************************************************************************)
(* Proofs about RunSession, for every configuration, every number of       *)
(* trials and of runs of one instance, and every way a run may end.        *)
(***************************************************************************)
EXTENDS RunSession, TLAPS

(***************************************************************************)
(* The options of the instance.                                            *)
(***************************************************************************)
LEMMA Options ==
  ASSUME config \in Configs
  PROVE  /\ NumTrials \in Nat \ {0} /\ TrialOffset \in Nat /\ MaxRuns \in Nat \ {0}
         /\ Codelengths \subseteq Int /\ \A x \in Codelengths : x < MaxLength - Eps
         /\ Converge => TrialOffset = 0 /\ ~TrialResults
         /\ PrintAllTrials => NumTrials > 1
         /\ Trials \subseteq Nat /\ 0 \in Trials
         /\ Canonical \in Locations /\ Report \in Locations
         /\ \A t \in Trials : TrialOffset + t + 1 \in Locations
  BY SessionAssumption
  DEF NumTrials, TrialOffset, MaxRuns, Codelengths, Converge, TrialResults,
      PrintAllTrials, Trials, Locations, Paths, Report, Canonical

\* They never change.
LEMMA ConfigStays ==
  ASSUME [Next]_vars
  PROVE  /\ config' = config /\ lengthOf' = lengthOf
         /\ NumTrials' = NumTrials /\ TrialOffset' = TrialOffset
         /\ MaxRuns' = MaxRuns /\ Codelengths' = Codelengths
         /\ Trials' = Trials /\ Locations' = Locations
<1>1. config' = config /\ lengthOf' = lengthOf
  BY DEF Next, Step, vars, CallRun, Entry, Preflight, InitNetwork, BeginTrial, Search,
         WriteTrial, KeepBest, Advance, Summary, WriteShardTree, WriteReport,
         RequestInterrupt, HostSignal, hostVars
<1> QED
  BY <1>1 DEF NumTrials, TrialOffset, MaxRuns, Codelengths, Trials, Locations, Paths, Report

(***************************************************************************)
(* Types, and how far the loop is: a trial has found its codelength or has *)
(* not, and a run that left the loop ran trialsRun trials.                 *)
(***************************************************************************)
AfterLoop == {"summary", "reports", "results"}

CountInv ==
  /\ pc = "idle" <=> outcome # "running"
  /\ pc \in {"poll", "search"} => Len(codelengths) = trial
  /\ pc \in {"trial_output", "keep", "advance"} => Len(codelengths) = trial + 1
  /\ pc \in AfterLoop \/ outcome = "completed" => Len(codelengths) = trialsRun
  /\ pc \in {"poll", "search", "trial_output", "keep", "advance"} => since <= trial

LEMMA CountStep ==
  ASSUME TypeOK, CountInv, [Next]_vars
  PROVE  CountInv'
<1>a. config' = config /\ NumTrials' = NumTrials
  BY ConfigStays
<1>b. /\ NumTrials \in Nat /\ trial \in Nat /\ since \in Nat /\ trialsRun \in Nat
      /\ codelengths \in Seq(Int)
  BY Options DEF TypeOK
<1> USE <1>a, <1>b DEF CountInv, AfterLoop, hostVars, loopVars
<1>1. CASE CallRun
  BY <1>1 DEF CallRun, Throw, Write, WriteThrows, RaiseCancel
<1>2. CASE Entry
  BY <1>2 DEF Entry, Throw, Write, WriteThrows, RaiseCancel
<1>3. CASE Preflight
  BY <1>3 DEF Preflight, Throw, Write, WriteThrows, RaiseCancel
<1>4. CASE InitNetwork
  BY <1>4 DEF InitNetwork, Throw, Write, WriteThrows, RaiseCancel
<1>5. CASE BeginTrial
  BY <1>5 DEF BeginTrial, Throw, Write, WriteThrows, RaiseCancel
<1>6. CASE Search
  BY <1>6 DEF Search, Throw, Write, WriteThrows, RaiseCancel
<1>7. CASE WriteTrial
  BY <1>7 DEF WriteTrial, Throw, Write, WriteThrows, RaiseCancel
<1>8. CASE KeepBest
  BY <1>8 DEF KeepBest, Throw, Write, WriteThrows, RaiseCancel
<1>9. CASE Advance
  BY <1>9 DEF Advance, Throw, Write, WriteThrows, RaiseCancel, Stale
<1>10. CASE Summary
  BY <1>10 DEF Summary, Throw, Write, WriteThrows, RaiseCancel
<1>11. CASE WriteShardTree
  BY <1>11 DEF WriteShardTree, Throw, Write, WriteThrows, RaiseCancel
<1>12. CASE WriteReport
  BY <1>12 DEF WriteReport, Throw, Write, WriteThrows, RaiseCancel
<1>13. CASE RequestInterrupt
  BY <1>13 DEF RequestInterrupt, Throw, Write, WriteThrows, RaiseCancel
<1>14. CASE HostSignal
  BY <1>14 DEF HostSignal, Throw, Write, WriteThrows, RaiseCancel
<1>15. CASE UNCHANGED vars
  BY <1>15 DEF vars
<1> QED
  BY <1>1, <1>2, <1>3, <1>4, <1>5, <1>6, <1>7, <1>8, <1>9, <1>10, <1>11, <1>12, <1>13, <1>14, <1>15 DEF Next, Step

(***************************************************************************)
(* The parts of TypeOK.                                                    *)
(***************************************************************************)
LoopTypes ==
  /\ trial \in Trials
  /\ codelengths \in Seq(Codelengths) /\ Len(codelengths) <= NumTrials
  /\ best \in [index : Trials, length : Codelengths \cup {MaxLength}]
  /\ bestBefore \in Codelengths \cup {MaxLength}
  /\ since \in 0..NumTrials
  /\ trialsRun \in 1..NumTrials
  /\ tree \in Trials \cup {NoTree}

LEMMA LoopTypesStep ==
  ASSUME TypeOK, CountInv, [Next]_vars
  PROVE  LoopTypes'
<1>a. NumTrials' = NumTrials /\ Trials' = Trials /\ Codelengths' = Codelengths
  BY ConfigStays
<1>b. LoopTypes /\ lengthOf \in [Trials -> Codelengths]
  BY DEF TypeOK, LoopTypes
<1>c. NumTrials \in Nat \ {0} /\ Trials = 0..(NumTrials - 1)
  BY Options DEF TypeOK, Trials
<1> USE <1>a, <1>b, <1>c DEF LoopTypes, CountInv, hostVars, loopVars
<1>1. CASE CallRun
  BY <1>1 DEF CallRun
<1>2. CASE Entry
  BY <1>2 DEF Entry
<1>3. CASE Preflight
  BY <1>3 DEF Preflight
<1>4. CASE InitNetwork
  BY <1>4 DEF InitNetwork, NoBest, NoTree
<1>5. CASE BeginTrial
  BY <1>5 DEF BeginTrial, NoTree
<1>6. CASE Search
  <2>1. Finds \subseteq Codelengths
    BY DEF Finds
  <2>2. codelengths' \in Seq(Codelengths)
    <3>1. codelengths' = codelengths \/ \E c \in Codelengths : codelengths' = Append(codelengths, c)
      BY <1>6, <2>1 DEF Search
    <3>2. \A c \in Codelengths : Append(codelengths, c) \in Seq(Codelengths)
      OBVIOUS
    <3> QED  BY <3>1, <3>2, Zenon
  <2>3. Len(codelengths') <= NumTrials
    BY <1>6, <2>1 DEF Search
  <2> QED  BY <1>6, <2>2, <2>3 DEF Search
<1>7. CASE WriteTrial
  BY <1>7 DEF WriteTrial
<1>8. CASE KeepBest
  <2>1. codelengths[Len(codelengths)] \in Codelengths
    BY <1>8 DEF KeepBest
  <2>2. best' \in [index : Trials, length : Codelengths \cup {MaxLength}]
    BY <1>8, <2>1 DEF KeepBest
  <2> QED  BY <1>8, <2>2 DEF KeepBest
<1>9. CASE Advance
  BY <1>9 DEF Advance, Stale
<1>10. CASE Summary
  BY <1>10 DEF Summary
<1>11. CASE WriteShardTree
  BY <1>11 DEF WriteShardTree
<1>12. CASE WriteReport
  BY <1>12 DEF WriteReport
<1>13. CASE RequestInterrupt
  BY <1>13 DEF RequestInterrupt
<1>14. CASE HostSignal
  BY <1>14 DEF HostSignal
<1>15. CASE UNCHANGED vars
  BY <1>15 DEF vars
<1> QED
  BY <1>1, <1>2, <1>3, <1>4, <1>5, <1>6, <1>7, <1>8, <1>9, <1>10, <1>11, <1>12, <1>13, <1>14, <1>15 DEF Next, Step

ControlTypes ==
  /\ cancel \in BOOLEAN /\ handler \in BOOLEAN
  /\ pc \in {"idle", "entry", "preflight", "flow", "poll", "search", "trial_output",
             "keep", "advance", "summary", "reports", "results"}
  /\ outcome \in {"none", "running", "completed", "interrupted", "failed", "exists"}
  /\ run \in 0..MaxRuns
  /\ wrote \in BOOLEAN

LEMMA ControlTypesStep ==
  ASSUME TypeOK, [Next]_vars
  PROVE  ControlTypes'
<1>a. MaxRuns' = MaxRuns /\ MaxRuns \in Nat
  BY ConfigStays, Options DEF TypeOK
<1>b. ControlTypes
  BY DEF TypeOK, ControlTypes
<1> USE <1>a, <1>b DEF ControlTypes, hostVars
<1>1. CASE CallRun
  <2>1. run' \in 0..MaxRuns
    BY <1>1 DEF CallRun
  <2> QED  BY <1>1, <2>1 DEF CallRun
<1>2. CASE Entry
  BY <1>2 DEF Entry, Throw, Write, WriteThrows, RaiseCancel, Aborts
<1>3. CASE Preflight
  BY <1>3 DEF Preflight, Throw, Write, WriteThrows, RaiseCancel, Aborts
<1>4. CASE InitNetwork
  BY <1>4 DEF InitNetwork, Throw, Write, WriteThrows, RaiseCancel, Aborts
<1>5. CASE BeginTrial
  BY <1>5 DEF BeginTrial, Throw, Write, WriteThrows, RaiseCancel, Aborts
<1>6. CASE Search
  BY <1>6 DEF Search, Throw, Write, WriteThrows, RaiseCancel, Aborts
<1>7. CASE WriteTrial
  BY <1>7 DEF WriteTrial, Throw, Write, WriteThrows, RaiseCancel, Aborts
<1>8. CASE KeepBest
  BY <1>8 DEF KeepBest, Throw, Write, WriteThrows, RaiseCancel, Aborts
<1>9. CASE Advance
  BY <1>9 DEF Advance, Throw, Write, WriteThrows, RaiseCancel, Aborts
<1>10. CASE Summary
  BY <1>10 DEF Summary, Throw, Write, WriteThrows, RaiseCancel, Aborts
<1>11. CASE WriteShardTree
  BY <1>11 DEF WriteShardTree, Throw, Write, WriteThrows, RaiseCancel, Aborts
<1>12. CASE WriteReport
  BY <1>12 DEF WriteReport, Throw, Write, WriteThrows, RaiseCancel, Aborts
<1>13. CASE RequestInterrupt
  BY <1>13 DEF RequestInterrupt, Throw, Write, WriteThrows, RaiseCancel, Aborts
<1>14. CASE HostSignal
  BY <1>14 DEF HostSignal, Throw, Write, WriteThrows, RaiseCancel, Aborts
<1>15. CASE UNCHANGED vars
  BY <1>15 DEF vars
<1> QED
  BY <1>1, <1>2, <1>3, <1>4, <1>5, <1>6, <1>7, <1>8, <1>9, <1>10, <1>11, <1>12, <1>13, <1>14, <1>15 DEF Next, Step

SeedTypes ==
  /\ configSeed \in 0..(ConfigWidth - 1)
  /\ baseSeed \in 0..(ConfigWidth - 1)
  /\ danglingSum \in Nat
  /\ engine \in [Trials -> Int]

LEMMA Widths == ConfigWidth \in Nat \ {0} /\ EngineWidth \in Nat \ {0}
  BY SessionAssumption

LEMMA SeedRange ==
  ASSUME NEW s \in Nat, NEW w \in Nat \ {0}
  PROVE  s % w \in 0..(w - 1)
  OBVIOUS

LEMMA TrialSeedType ==
  ASSUME TypeOK, NEW s \in Nat
  PROVE  /\ TrialSeed(s, trial) \in 0..(ConfigWidth - 1)
         /\ EngineSeed(TrialSeed(s, trial)) \in Int
<1>0. config \in Configs /\ trial \in Trials
  BY DEF TypeOK
<1>1. s + TrialOffset + trial \in Nat
  <2>1. TrialOffset \in Nat /\ trial \in Nat
    BY <1>0, Options
  <2> QED  BY <2>1
<1>2. TrialSeed(s, trial) \in 0..(ConfigWidth - 1)
  BY <1>1, SeedRange, Widths DEF TrialSeed
<1>3. TrialSeed(s, trial) % EngineWidth \in 0..(EngineWidth - 1)
  BY <1>2, SeedRange, Widths
<1> QED  BY <1>2, <1>3 DEF EngineSeed

LEMMA SeedTypesStep ==
  ASSUME TypeOK, [Next]_vars
  PROVE  SeedTypes'
<1>a. Trials' = Trials
  BY ConfigStays
<1>b. SeedTypes /\ trial \in Trials
  BY DEF TypeOK, SeedTypes
<1>c. DanglingFlow \in Nat
  BY SessionAssumption
<1> USE <1>a, <1>b, <1>c DEF SeedTypes, NoEngineSeed
<1>1. CASE CallRun
  BY <1>1 DEF CallRun, Throw, WriteThrows
<1>2. CASE Entry
  BY <1>2 DEF Entry, Throw, WriteThrows
<1>3. CASE Preflight
  BY <1>3 DEF Preflight, Throw, WriteThrows
<1>4. CASE InitNetwork
  BY <1>4 DEF InitNetwork, Throw, WriteThrows
<1>5. CASE BeginTrial
  BY <1>5, TrialSeedType, Widths DEF BeginTrial, Throw, WriteThrows
<1>6. CASE Search
  BY <1>6 DEF Search, Throw, WriteThrows
<1>7. CASE WriteTrial
  BY <1>7 DEF WriteTrial, Throw, WriteThrows
<1>8. CASE KeepBest
  BY <1>8 DEF KeepBest, Throw, WriteThrows
<1>9. CASE Advance
  BY <1>9 DEF Advance, Throw, WriteThrows
<1>10. CASE Summary
  BY <1>10 DEF Summary, Throw, WriteThrows
<1>11. CASE WriteShardTree
  BY <1>11 DEF WriteShardTree, Throw, WriteThrows
<1>12. CASE WriteReport
  BY <1>12 DEF WriteReport, Throw, WriteThrows
<1>13. CASE RequestInterrupt
  BY <1>13 DEF RequestInterrupt, Throw, WriteThrows
<1>14. CASE HostSignal
  BY <1>14 DEF HostSignal, Throw, WriteThrows
<1>15. CASE UNCHANGED vars
  BY <1>15 DEF vars
<1> QED
  BY <1>1, <1>2, <1>3, <1>4, <1>5, <1>6, <1>7, <1>8, <1>9, <1>10, <1>11, <1>12, <1>13, <1>14, <1>15 DEF Next, Step

FileTypes ==
  files \in [Locations -> [run : 0..MaxRuns, trial : Trials \cup {NoFile}, ran : 0..NumTrials]]

LEMMA FileTypesStep ==
  ASSUME TypeOK, CountInv, [Next]_vars
  PROVE  FileTypes'
<1>a. /\ Locations' = Locations /\ MaxRuns' = MaxRuns /\ Trials' = Trials
      /\ NumTrials' = NumTrials
  BY ConfigStays
<1>b. FileTypes /\ run \in 0..MaxRuns
  BY DEF TypeOK, FileTypes
<1>c. Len(codelengths) \in 0..NumTrials
  BY Options DEF TypeOK
<1>d. tree \in Trials \cup {NoFile} /\ best.index \in Trials
  BY DEF TypeOK, NoFile, NoTree
<1>e. ASSUME NEW t \in Trials \cup {NoFile}
      PROVE  Content(run, t, Len(codelengths))
               \in [run : 0..MaxRuns, trial : Trials \cup {NoFile}, ran : 0..NumTrials]
  BY <1>b, <1>c, <1>e DEF Content
<1>f. \A q : \A t \in Trials \cup {NoFile} : Write(q, t) => FileTypes'
  BY <1>a, <1>b, <1>e DEF Write, FileTypes
<1>g. UNCHANGED files => FileTypes'
  BY <1>a, <1>b DEF FileTypes
<1>i. \A q : WriteThrows(q) => UNCHANGED files
  BY DEF WriteThrows
<1> USE <1>d, <1>f, <1>g, <1>i
<1>1. CASE CallRun
  BY <1>1 DEF CallRun
<1>2. CASE Entry
  BY <1>2 DEF Entry
<1>3. CASE Preflight
  BY <1>3 DEF Preflight
<1>4. CASE InitNetwork
  BY <1>4 DEF InitNetwork
<1>5. CASE BeginTrial
  BY <1>5 DEF BeginTrial
<1>6. CASE Search
  BY <1>6 DEF Search
<1>7. CASE WriteTrial
  BY <1>7 DEF WriteTrial
<1>8. CASE KeepBest
  BY <1>8 DEF KeepBest
<1>9. CASE Advance
  BY <1>9 DEF Advance
<1>10. CASE Summary
  BY <1>10 DEF Summary
<1>11. CASE WriteShardTree
  BY <1>11 DEF WriteShardTree
<1>12. CASE WriteReport
  BY <1>12 DEF WriteReport
<1>13. CASE RequestInterrupt
  BY <1>13 DEF RequestInterrupt
<1>14. CASE HostSignal
  BY <1>14 DEF HostSignal
<1>15. CASE UNCHANGED vars
  BY <1>15 DEF vars
<1> QED
  BY <1>1, <1>2, <1>3, <1>4, <1>5, <1>6, <1>7, <1>8, <1>9, <1>10, <1>11, <1>12, <1>13, <1>14, <1>15 DEF Next, Step

LEMMA TypeStep ==
  ASSUME TypeOK, CountInv, [Next]_vars
  PROVE  TypeOK' /\ CountInv'
<1>1. (config \in Configs /\ lengthOf \in [Trials -> Codelengths])'
  BY ConfigStays DEF TypeOK
<1> QED
  BY <1>1, CountStep, LoopTypesStep, ControlTypesStep, SeedTypesStep, FileTypesStep
  DEF TypeOK, LoopTypes, ControlTypes, SeedTypes, FileTypes

LEMMA InitTypes == Init => TypeOK /\ CountInv
<1> SUFFICES ASSUME Init PROVE TypeOK /\ CountInv
  OBVIOUS
<1>a. config \in Configs
  BY DEF Init
<1>1. LoopTypes /\ lengthOf \in [Trials -> Codelengths]
  BY <1>a, Options DEF Init, LoopTypes, NoBest
<1>2. ControlTypes
  <2>1. run \in 0..MaxRuns
    BY <1>a, Options DEF Init
  <2> QED  BY <2>1 DEF Init, ControlTypes
<1>3. SeedTypes
  BY SessionAssumption DEF Init, SeedTypes, NoEngineSeed
<1>4. NoContent \in [run : 0..MaxRuns, trial : Trials \cup {NoFile}, ran : 0..NumTrials]
  BY <1>a, Options DEF NoContent, Content
<1>5. OldContent \in [run : 0..MaxRuns, trial : Trials \cup {NoFile}, ran : 0..NumTrials]
  BY <1>a, Options DEF OldContent, Content
<1>6. FileTypes
  BY <1>4, <1>5 DEF Init, FileTypes
<1>7. CountInv
  BY DEF Init, CountInv, AfterLoop
<1> QED
  BY <1>a, <1>1, <1>2, <1>3, <1>6, <1>7
  DEF TypeOK, LoopTypes, ControlTypes, SeedTypes, FileTypes

(***************************************************************************)
(* Types, and the loop's counters agree: there are as many codelengths as  *)
(* trials that ended, in the loop and after it.                            *)
(***************************************************************************)
THEOREM TypeCorrect == Spec => [](TypeOK /\ CountInv)
<1>1. Init => TypeOK /\ CountInv
  BY InitTypes
<1>2. TypeOK /\ CountInv /\ [Next]_vars => (TypeOK /\ CountInv)'
  BY TypeStep
<1> QED  BY <1>1, <1>2, PTL DEF Spec

(***************************************************************************)
(* Seeds.  The config seed is the user's whenever no trial is under way.   *)
(***************************************************************************)
SeedInv ==
  /\ baseSeed = UserSeed
  /\ pc \notin {"poll", "search", "trial_output", "keep", "advance"} => configSeed = UserSeed
  /\ TrialSeedsReproduce

\* Division with remainder, for seeds that are narrowed.
LEMMA Product ==
  ASSUME NEW n \in Nat \ {0}, NEW k \in Int, 0 < n * k
  PROVE  n * k >= n
<1>1. k >= 1
  <2>1. k <= 0 => n * k <= 0
    OBVIOUS
  <2> QED  BY <2>1
<1>2. PICK j \in Nat : k = j + 1
  BY <1>1
<1>3. n * k = n * j + n /\ n * j >= 0
  BY <1>2
<1> QED  BY <1>3

LEMMA Division ==
  ASSUME NEW n \in Nat \ {0}, NEW a \in Nat
  PROVE  \E q \in Nat : a = n * q + (a % n)
<1>1. a = n * (a \div n) + (a % n) /\ (a \div n) \in Nat
  OBVIOUS
<1> QED  BY <1>1

LEMMA OneRemainder ==
  ASSUME NEW n \in Nat \ {0}, NEW p \in Nat, NEW q \in Nat,
         NEW r \in 0..(n - 1), NEW s \in 0..(n - 1), n * p + r = n * q + s
  PROVE  r = s
<1>1. n * (p - q) = s - r /\ n * (q - p) = r - s
  OBVIOUS
<1>2. ~(s - r > 0) /\ ~(r - s > 0)
  BY <1>1, Product, p - q \in Int, q - p \in Int
<1> QED  BY <1>2

\* Narrowing twice is narrowing once.
LEMMA RemainderOfRemainder ==
  ASSUME NEW e \in Nat \ {0}, NEW k \in Nat \ {0}, NEW x \in Nat
  PROVE  (x % (k * e)) % e = x % e
<1> DEFINE r == x % (k * e)
<1>1. k * e \in Nat \ {0}
  BY Product, e * k = k * e
<1>2. PICK q \in Nat : x = k * e * q + r
  BY <1>1, Division, Zenon
<1>3. r \in Nat
  BY <1>1
<1>4. PICK p \in Nat : r = e * p + (r % e)
  BY <1>3, Division
<1>5. PICK s \in Nat : x = e * s + (x % e)
  BY Division
<1>6. r % e \in 0..(e - 1) /\ x % e \in 0..(e - 1)
  BY <1>3
<1>7. e * (k * q + p) + (r % e) = e * s + (x % e)
  BY <1>2, <1>4, <1>5, <1>6
<1>8. k * q + p \in Nat
  OBVIOUS
<1> QED  BY <1>6, <1>7, <1>8, OneRemainder

\* Narrowing to the config field and then to the engine's is narrowing once.
LEMMA EngineSeedOfTrial ==
  ASSUME TypeOK, NEW t \in Trials
  PROVE  EngineSeed(TrialSeed(UserSeed, t)) = EngineSeed(UserSeed + TrialOffset + t)
<1>1. PICK k \in 1..ConfigWidth : ConfigWidth = k * EngineWidth
  BY SessionAssumption
<1>2. UserSeed \in Nat /\ k \in Nat \ {0}
  BY SessionAssumption, Widths
<1>3. config \in Configs
  BY DEF TypeOK
<1>4. TrialOffset \in Nat /\ t \in Nat
  BY <1>3, Options
<1>5. UserSeed + TrialOffset + t \in Nat
  BY <1>2, <1>4
<1> QED
  BY <1>1, <1>2, <1>5, Widths, RemainderOfRemainder DEF EngineSeed, TrialSeed

LEMMA SeedStep ==
  ASSUME TypeOK, SeedInv, [Next]_vars
  PROVE  SeedInv'
<1>a. Trials' = Trials /\ TrialOffset' = TrialOffset
  BY ConfigStays
<1>b. engine \in [Trials -> Int] /\ trial \in Trials
  BY DEF TypeOK
<1> USE <1>a, <1>b DEF SeedInv, TrialSeedsReproduce
<1>1. CASE CallRun
  BY <1>1 DEF CallRun, Throw, WriteThrows, NoEngineSeed, EngineSeed
<1>2. CASE Entry
  BY <1>2 DEF Entry, Throw, WriteThrows, NoEngineSeed, EngineSeed
<1>3. CASE Preflight
  BY <1>3 DEF Preflight, Throw, WriteThrows, NoEngineSeed, EngineSeed
<1>4. CASE InitNetwork
  BY <1>4 DEF InitNetwork, Throw, WriteThrows, NoEngineSeed, EngineSeed
<1>5. CASE BeginTrial
  BY <1>5, EngineSeedOfTrial DEF BeginTrial, Throw, WriteThrows, NoEngineSeed, EngineSeed
<1>6. CASE Search
  BY <1>6 DEF Search, Throw, WriteThrows, NoEngineSeed, EngineSeed
<1>7. CASE WriteTrial
  BY <1>7 DEF WriteTrial, Throw, WriteThrows, NoEngineSeed, EngineSeed
<1>8. CASE KeepBest
  BY <1>8 DEF KeepBest, Throw, WriteThrows, NoEngineSeed, EngineSeed
<1>9. CASE Advance
  BY <1>9 DEF Advance, Throw, WriteThrows, NoEngineSeed, EngineSeed
<1>10. CASE Summary
  BY <1>10 DEF Summary, Throw, WriteThrows, NoEngineSeed, EngineSeed
<1>11. CASE WriteShardTree
  BY <1>11 DEF WriteShardTree, Throw, WriteThrows, NoEngineSeed, EngineSeed
<1>12. CASE WriteReport
  BY <1>12 DEF WriteReport, Throw, WriteThrows, NoEngineSeed, EngineSeed
<1>13. CASE RequestInterrupt
  BY <1>13 DEF RequestInterrupt, Throw, WriteThrows, NoEngineSeed, EngineSeed
<1>14. CASE HostSignal
  BY <1>14 DEF HostSignal, Throw, WriteThrows, NoEngineSeed, EngineSeed
<1>15. CASE UNCHANGED vars
  BY <1>15 DEF vars
<1> QED
  BY <1>1, <1>2, <1>3, <1>4, <1>5, <1>6, <1>7, <1>8, <1>9, <1>10, <1>11, <1>12, <1>13, <1>14, <1>15 DEF Next, Step

(***************************************************************************)
(* Trial t of any run of the instance, whatever became of the runs before, *)
(* uses the engine seed of a standalone run with seed UserSeed + offset +  *)
(* t (~ScopedConfigSeed in RunSession, InfomapBase.cpp).                   *)
(***************************************************************************)
THEOREM SeedsCorrect == Spec => []TrialSeedsReproduce
<1>1. Init => SeedInv
  BY DEF Init, SeedInv, TrialSeedsReproduce
<1>2. TypeOK /\ SeedInv /\ [Next]_vars => SeedInv'
  BY SeedStep
<1>3. SeedInv => TrialSeedsReproduce
  BY DEF SeedInv
<1> QED  BY <1>1, <1>2, <1>3, TypeCorrect, PTL DEF Spec

(***************************************************************************)
(* --no-overwrite with one trial.  What the preflight found missing is     *)
(* missing until the run itself writes it.                                 *)
(***************************************************************************)
OneTrial == \A c \in Configs : ~c.overwrite => c.numTrials = 1

RefusalInv ==
  ~Overwrite =>
    /\ outcome = "exists" => ~wrote
    /\ pc \in {"entry", "preflight", "flow", "poll", "search", "keep"} => ~wrote
    /\ pc # "trial_output"
    /\ pc \in {"flow", "poll", "search", "keep"} => ~Exists(Canonical)
    /\ TrialResults /\ pc \notin {"idle", "entry", "preflight"} => ~Exists(Report)

\* Every write asks first.
LEMMA WritesKeepOldFiles ==
  ASSUME TypeOK, [Next]_vars, ~Overwrite, NEW q \in Locations, Exists(q)
  PROVE  files'[q] = files[q]
<1>a. \A r, t : Write(r, t) => files'[q] = files[q]
  BY DEF Write, CanWrite, TypeOK
<1>b. \A r : WriteThrows(r) => files' = files
  BY DEF WriteThrows
<1> USE <1>a, <1>b
<1>1. CASE CallRun
  BY <1>1 DEF CallRun
<1>2. CASE Entry
  BY <1>2 DEF Entry
<1>3. CASE Preflight
  BY <1>3 DEF Preflight
<1>4. CASE InitNetwork
  BY <1>4 DEF InitNetwork
<1>5. CASE BeginTrial
  BY <1>5 DEF BeginTrial
<1>6. CASE Search
  BY <1>6 DEF Search
<1>7. CASE WriteTrial
  BY <1>7 DEF WriteTrial
<1>8. CASE KeepBest
  BY <1>8 DEF KeepBest
<1>9. CASE Advance
  BY <1>9 DEF Advance
<1>10. CASE Summary
  BY <1>10 DEF Summary
<1>11. CASE WriteShardTree
  BY <1>11 DEF WriteShardTree
<1>12. CASE WriteReport
  BY <1>12 DEF WriteReport
<1>13. CASE RequestInterrupt
  BY <1>13 DEF RequestInterrupt
<1>14. CASE HostSignal
  BY <1>14 DEF HostSignal
<1>15. CASE UNCHANGED vars
  BY <1>15 DEF vars
<1> QED
  BY <1>1, <1>2, <1>3, <1>4, <1>5, <1>6, <1>7, <1>8, <1>9, <1>10, <1>11, <1>12, <1>13, <1>14, <1>15 DEF Next, Step

LEMMA RefusalStep ==
  ASSUME OneTrial, TypeOK, CountInv, RefusalInv, [Next]_vars
  PROVE  RefusalInv'
<1> SUFFICES ASSUME ~Overwrite PROVE RefusalInv'
  BY ConfigStays DEF RefusalInv, Overwrite
<1>a. config' = config /\ Report' = Report /\ TrialResults' = TrialResults /\ Canonical \in Nat
  BY ConfigStays DEF Report, TrialResults, Canonical
<1>b. config \in Configs
  BY DEF TypeOK
<1>c. NumTrials = 1 /\ trial = 0 /\ best.index = 0 /\ trialsRun = 1
  BY <1>b DEF TypeOK, OneTrial, Overwrite, NumTrials, Trials
<1>d. /\ TrialOffset \in Nat /\ Report = TrialOffset + 2 /\ Canonical = 0
      /\ ShardPath = TrialOffset + 1
  BY <1>b, <1>c, Options DEF Report, Canonical, ShardPath
<1>e. Canonical \in Locations /\ Report \in Locations
  BY <1>b, Options
<1>f. \A q \in Locations : \A r, t :
        Write(r, t) /\ q # r => (Exists(q)' <=> Exists(q))
  BY DEF Write, Exists, TypeOK
<1>g. \A q \in Locations : files' = files => (Exists(q)' <=> Exists(q))
  BY DEF Exists
<1>h. \A r : ~Exists(r) => CanWrite(r)
  BY DEF CanWrite
<1>i. pc # "idle" => outcome = "running"
  BY DEF CountInv
<1> USE <1>i, <1>a, <1>c, <1>d, <1>e, <1>f, <1>g, <1>h DEF RefusalInv, hostVars, loopVars
<1>1. CASE CallRun
  BY <1>1 DEF CallRun, Throw, WriteThrows
<1>2. CASE Entry
  BY <1>2 DEF Entry, Throw, WriteThrows
<1>3. CASE Preflight
  BY <1>3 DEF Preflight, Throw, WriteThrows, PlannedPaths
<1>4. CASE InitNetwork
  BY <1>4 DEF InitNetwork, Throw, WriteThrows
<1>5. CASE BeginTrial
  BY <1>5 DEF BeginTrial, Throw, WriteThrows
<1>6. CASE Search
  <2>1. pc = "search" /\ UNCHANGED <<files, wrote>>
    BY <1>6 DEF Search
  <2>2. \/ pc' = "keep" /\ outcome' = "running"
        \/ pc' = "idle" /\ outcome' # "exists"
    BY <1>6 DEF Search, Throw
  <2> QED  BY <2>1, <2>2
<1>7. CASE WriteTrial
  BY <1>7 DEF WriteTrial, Throw, WriteThrows
<1>8. CASE KeepBest
  <2>1. pc = "keep" /\ ~wrote /\ CanWrite(Canonical)
    BY <1>8 DEF KeepBest
  <2>2. \/ /\ pc' = "advance" /\ outcome' = "running"
           /\ UNCHANGED files \/ Write(Canonical, tree)
        \/ pc' = "idle" /\ outcome' = "failed"
    BY <1>8, <2>1 DEF KeepBest, Throw, WriteThrows
  <2>3. TrialResults /\ pc' = "advance" => ~Exists(Report)'
    BY <2>1, <2>2
  <2> QED  BY <2>2, <2>3
<1>9. CASE Advance
  BY <1>9 DEF Advance, Throw, WriteThrows
<1>10. CASE Summary
  BY <1>10 DEF Summary, Throw, WriteThrows, MustRestore
<1>11. CASE WriteShardTree
  BY <1>11 DEF WriteShardTree, Throw, WriteThrows
<1>12. CASE WriteReport
  BY <1>12 DEF WriteReport, Throw, WriteThrows
<1>13. CASE RequestInterrupt
  BY <1>13 DEF RequestInterrupt, Throw, WriteThrows
<1>14. CASE HostSignal
  BY <1>14 DEF HostSignal, Throw, WriteThrows
<1>15. CASE UNCHANGED vars
  BY <1>15 DEF vars
<1> QED
  BY <1>1, <1>2, <1>3, <1>4, <1>5, <1>6, <1>7, <1>8, <1>9, <1>10, <1>11, <1>12, <1>13, <1>14, <1>15 DEF Next, Step

(***************************************************************************)
(* Under --no-overwrite no writer of a run replaces a file that was there, *)
(* and a run of one trial that is refused has written nothing              *)
(* (preflightOutputTargets, planAllOutputPaths, SafeOutFile).  OneTrial is *)
(* needed: with two trials the second is refused for the file the first    *)
(* wrote.                                                                  *)
(***************************************************************************)
THEOREM OldFilesCorrect ==
  ASSUME OneTrial
  PROVE  Spec => OldFilesSurvive
<1>1. Init => RefusalInv
  BY DEF Init, RefusalInv
<1>2. TypeOK /\ CountInv /\ RefusalInv /\ [Next]_vars => RefusalInv'
  BY RefusalStep
<1>3. TypeOK /\ RefusalInv /\ RefusalInv' /\ [Next]_vars =>
        [KeepsOldFiles]_vars
  <2> SUFFICES ASSUME TypeOK, RefusalInv', [Next]_vars, ~Overwrite
               PROVE  /\ \A p \in Locations : Exists(p) => files'[p] = files[p]
                      /\ outcome' = "exists" => ~wrote'
    BY DEF KeepsOldFiles
  <2>1. ~Overwrite'
    BY ConfigStays DEF Overwrite
  <2> QED  BY <2>1, WritesKeepOldFiles DEF RefusalInv
<1> QED  BY <1>1, <1>2, <1>3, TypeCorrect, PTL DEF Spec, OldFilesSurvive

(***************************************************************************)
(* The tree in memory, and the index of the best trial.                    *)
(***************************************************************************)
Ended == pc \in AfterLoop \/ outcome = "completed"
Looping == pc \in {"poll", "search", "trial_output", "keep", "advance"}

TreeInv ==
  /\ Looping => best.index <= trial
  /\ Ended => best.index < trialsRun
  /\ pc = "trial_output" => PrintAllTrials /\ NumTrials > 1
  /\ pc \in {"trial_output", "keep", "advance"} => tree = trial
  /\ pc = "summary" => tree = trialsRun - 1
  /\ pc \in {"reports", "results"} \/ outcome = "completed" => tree = best.index

LEMMA TreeStep ==
  ASSUME TypeOK, CountInv, TreeInv, [Next]_vars
  PROVE  TreeInv'
<1>a. NumTrials' = NumTrials /\ PrintAllTrials' = PrintAllTrials
  BY ConfigStays DEF PrintAllTrials
<1>b. /\ trial \in Nat /\ trialsRun \in Nat /\ NumTrials \in Nat
      /\ trialsRun > 0 /\ best.index \in Nat
  <2>1. config \in Configs
    BY DEF TypeOK
  <2> QED  BY <2>1, Options DEF TypeOK
<1>c. outcome = "completed" => pc = "idle"
  BY DEF CountInv
<1> USE <1>a, <1>b, <1>c DEF TreeInv, Looping, Ended, AfterLoop, hostVars, loopVars
<1>1. CASE CallRun
  BY <1>1 DEF CallRun, Throw, WriteThrows
<1>2. CASE Entry
  BY <1>2 DEF Entry, Throw, WriteThrows
<1>3. CASE Preflight
  BY <1>3 DEF Preflight, Throw, WriteThrows
<1>4. CASE InitNetwork
  BY <1>4 DEF InitNetwork, Throw, WriteThrows, NoBest
<1>5. CASE BeginTrial
  BY <1>5 DEF BeginTrial, Throw, WriteThrows
<1>6. CASE Search
  BY <1>6 DEF Search, Throw, WriteThrows
<1>7. CASE WriteTrial
  BY <1>7 DEF WriteTrial, Throw, WriteThrows
<1>8. CASE KeepBest
  BY <1>8 DEF KeepBest, Throw, WriteThrows
<1>9. CASE Advance
  BY <1>9 DEF Advance, Throw, WriteThrows
<1>10. CASE Summary
  <2>1. best.index \in 0..(trialsRun - 1)
    BY <1>10 DEF Summary
  <2>2. ~MustRestore => best.index = trialsRun - 1
    BY <2>1 DEF MustRestore
  <2>3. tree' = best.index /\ UNCHANGED best
    BY <1>10, <2>2 DEF Summary
  <2>4. pc' \in {"reports", "idle"} /\ outcome' # "completed"
    BY <1>10 DEF Summary, Throw, WriteThrows
  <2> QED  BY <1>10, <2>3, <2>4 DEF Summary
<1>11. CASE WriteShardTree
  BY <1>11 DEF WriteShardTree, Throw, WriteThrows
<1>12. CASE WriteReport
  BY <1>12 DEF WriteReport, Throw, WriteThrows
<1>13. CASE RequestInterrupt
  BY <1>13 DEF RequestInterrupt, Throw, WriteThrows
<1>14. CASE HostSignal
  BY <1>14 DEF HostSignal, Throw, WriteThrows
<1>15. CASE UNCHANGED vars
  BY <1>15 DEF vars
<1> QED
  BY <1>1, <1>2, <1>3, <1>4, <1>5, <1>6, <1>7, <1>8, <1>9, <1>10, <1>11, <1>12, <1>13, <1>14, <1>15 DEF Next, Step

(***************************************************************************)
(* The numbered files.                                                     *)
(***************************************************************************)
Numbered(t) == files[TrialOffset + t + 1].run = run /\ files[TrialOffset + t + 1].trial = t

NumberedInv ==
  /\ PrintAllTrials =>
       /\ Looping => \A t \in 0..(trial - 1) : Numbered(t)
       /\ pc \in {"keep", "advance"} => Numbered(trial)
       /\ Ended => \A t \in 0..(trialsRun - 1) : Numbered(t)
  /\ TrialResults /\ Overwrite /\ (pc = "results" \/ outcome = "completed") =>
       Numbered(best.index)

LEMMA WriteNumbers ==
  ASSUME TypeOK, NEW t \in Trials, NEW q, NEW v, Write(q, v),
         run' = run, TrialOffset' = TrialOffset,
         \/ q = Canonical
         \/ q = Report
         \/ q = TrialOffset + v + 1 /\ v \in Trials
  PROVE  /\ Numbered(t) => Numbered(t)'
         /\ q = TrialOffset + v + 1 /\ v = t => Numbered(t)'
<1>1. /\ config \in Configs
      /\ files \in [Locations -> [run : 0..MaxRuns, trial : Trials \cup {NoFile}, ran : 0..NumTrials]]
  BY DEF TypeOK
<1>2. TrialOffset \in Nat /\ t \in Nat /\ t < NumTrials /\ NumTrials \in Nat
  BY <1>1, Options DEF Trials
<1>3. TrialOffset + t + 1 \in Locations
  BY <1>1, Options
<1>4. CASE q # TrialOffset + t + 1
  <2>1. files'[TrialOffset + t + 1] = files[TrialOffset + t + 1]
    BY <1>1, <1>3, <1>4 DEF Write
  <2>2. ~(q = TrialOffset + v + 1 /\ v = t)
    BY <1>4
  <2> QED  BY <2>1, <2>2 DEF Numbered
<1>5. CASE q = TrialOffset + t + 1
  <2>1. q # Canonical /\ q # Report
    BY <1>2, <1>5 DEF Canonical, Report
  <2>2. v \in Trials => v \in Nat
    BY <1>1, Options
  <2>3. v = t
    BY <1>2, <1>5, <2>1, <2>2
  <2>4. files'[TrialOffset + t + 1] = Content(run, t, Len(codelengths))
    BY <1>1, <1>3, <1>5, <2>3 DEF Write
  <2> QED  BY <2>4 DEF Numbered, Content
<1> QED  BY <1>4, <1>5

LEMMA NumberedStep ==
  ASSUME TypeOK, CountInv, TreeInv, NumberedInv, [Next]_vars
  PROVE  NumberedInv'
<1>a. /\ TrialOffset' = TrialOffset /\ PrintAllTrials' = PrintAllTrials
      /\ TrialResults' = TrialResults /\ Overwrite' = Overwrite
  BY ConfigStays DEF PrintAllTrials, TrialResults, Overwrite
<1>b. /\ trial \in Nat /\ trialsRun \in Nat /\ best.index \in Nat
      /\ trial \in Trials /\ best.index \in Trials
      /\ \A t \in 0..trial : t \in Trials
      /\ \A t \in 0..(trialsRun - 1) : t \in Trials
  <2>1. config \in Configs /\ trial \in Trials /\ best.index \in Trials /\ trialsRun \in 1..NumTrials
    BY DEF TypeOK
  <2>2. NumTrials \in Nat
    BY <2>1, Options
  <2> QED  BY <2>1, <2>2 DEF Trials
<1>c. outcome = "completed" => pc = "idle"
  BY DEF CountInv
<1>d. UNCHANGED <<files, run>> => \A t : Numbered(t)' <=> Numbered(t)
  BY <1>a DEF Numbered
<1>e. \A q : WriteThrows(q) => files' = files /\ pc' = "idle" /\ outcome' # "completed"
  BY DEF WriteThrows, Throw
\* Writes that number nothing new, or what they write.
<1>f. ASSUME NEW q, NEW v, Write(q, v), run' = run,
             \/ q = Canonical
             \/ q = Report
             \/ q = TrialOffset + v + 1 /\ v \in Trials
      PROVE  /\ \A t \in Trials : Numbered(t) => Numbered(t)'
             /\ \A t \in Trials : q = TrialOffset + v + 1 /\ v = t => Numbered(t)'
  BY <1>a, <1>f, WriteNumbers
<1> USE <1>a, <1>b, <1>c, <1>d, <1>e
    DEF NumberedInv, Looping, Ended, AfterLoop, hostVars, loopVars
<1>1. CASE CallRun
  BY <1>1 DEF CallRun, Throw
<1>2. CASE Entry
  BY <1>2 DEF Entry, Throw
<1>3. CASE Preflight
  BY <1>3 DEF Preflight, Throw
<1>4. CASE InitNetwork
  BY <1>4 DEF InitNetwork, Throw
<1>5. CASE BeginTrial
  BY <1>5 DEF BeginTrial, Throw
<1>6. CASE Search
  <2>1. PrintAllTrials => NumTrials > 1
    BY Options DEF TypeOK
  <2>2. /\ pc' = "trial_output" \/ (pc' = "keep" /\ ~PrintAllTrials) \/ pc' = "idle"
        /\ outcome' # "completed"
    BY <1>6, <2>1 DEF Search, Throw
  <2> QED  BY <1>6, <2>2 DEF Search
<1>7. CASE WriteTrial
  <2>1. pc = "trial_output" /\ tree = trial
    BY <1>7 DEF WriteTrial, TreeInv
  <2>2. PrintAllTrials => OutputPath(NumTrials, TrialOffset + trial + 1) = TrialOffset + trial + 1
    BY <2>1 DEF OutputPath, TreeInv
  <2>3. UNCHANGED <<run, trial, trialsRun, best>>
    BY <1>7 DEF WriteTrial
  <2>4. \/ pc' = "keep" /\ outcome' = outcome
        \/ pc' = "idle" /\ outcome' # "completed"
    BY <1>7 DEF WriteTrial
  <2>5. pc' = "keep" => Write(OutputPath(NumTrials, TrialOffset + trial + 1), tree)
    BY <1>7 DEF WriteTrial
  <2>6. CASE pc' = "keep" /\ PrintAllTrials
    <3>1. /\ \A t \in Trials : Numbered(t) => Numbered(t)'
          /\ \A t \in Trials : trial = t => Numbered(t)'
      BY <1>f, <2>1, <2>2, <2>3, <2>5, <2>6
    <3> QED  BY <2>1, <2>3, <2>4, <2>6, <3>1
  <2> QED  BY <2>1, <2>3, <2>4, <2>6
<1>8. CASE KeepBest
  <2>1. pc = "keep" /\ UNCHANGED <<run, trial, trialsRun>>
    BY <1>8 DEF KeepBest
  <2>2. pc' \in {"advance", "idle"} /\ outcome' # "completed"
    BY <1>8 DEF KeepBest
  <2>3. pc' = "advance" => UNCHANGED files \/ Write(Canonical, tree)
    BY <1>8 DEF KeepBest
  <2>4. pc' = "advance" => \A t \in Trials : Numbered(t) => Numbered(t)'
    BY <1>f, <2>1, <2>3
  <2> QED  BY <2>1, <2>2, <2>4
<1>9. CASE Advance
  <2>1. \A t : Numbered(t)' <=> Numbered(t)
    BY <1>9 DEF Advance
  <2>2. \A t \in 0..trial : PrintAllTrials => Numbered(t)
    BY <1>9 DEF Advance
  <2>3. \/ pc' = "summary" /\ trialsRun' = trial + 1
        \/ pc' = "poll" /\ trial' = trial + 1
    BY <1>9 DEF Advance, TypeOK
  <2>4. outcome' # "completed"
    BY <1>9 DEF Advance
  <2> QED  BY <2>1, <2>2, <2>3, <2>4
<1>10. CASE Summary
  <2>1. pc = "summary" /\ UNCHANGED <<run, trial, trialsRun>>
    BY <1>10 DEF Summary
  <2>2. pc' \in {"reports", "idle"} /\ outcome' # "completed"
    BY <1>10 DEF Summary
  <2>3. pc' = "reports" => UNCHANGED files \/ Write(Canonical, best.index)
    BY <1>10 DEF Summary
  <2>4. pc' = "reports" => \A t \in Trials : Numbered(t) => Numbered(t)'
    BY <1>f, <2>1, <2>3
  <2> QED  BY <2>1, <2>2, <2>4
<1>11. CASE WriteShardTree
  <2>1. pc = "reports" /\ tree = best.index /\ UNCHANGED <<run, trial, trialsRun, best>>
    BY <1>11 DEF WriteShardTree, TreeInv
  <2>2. pc' \in {"results", "idle"} /\ outcome' # "completed"
    BY <1>11 DEF WriteShardTree
  <2>3. pc' = "results" => \/ UNCHANGED files /\ ~(TrialResults /\ Overwrite)
                         \/ Write(ShardPath, tree)
    BY <1>11 DEF WriteShardTree, CanWrite
  <2>4. Write(ShardPath, tree) => /\ \A t \in Trials : Numbered(t) => Numbered(t)'
                                  /\ \A t \in Trials : best.index = t => Numbered(t)'
    BY <1>f, <2>1 DEF ShardPath
  <2> QED  BY <2>1, <2>2, <2>3, <2>4
<1>12. CASE WriteReport
  <2>1. pc = "results" /\ UNCHANGED <<run, trial, trialsRun, best>>
    BY <1>12 DEF WriteReport
  <2>2. pc' = "idle"
    BY <1>12 DEF WriteReport
  <2>3. outcome' = "completed" => UNCHANGED files \/ Write(Report, best.index)
    BY <1>12 DEF WriteReport
  <2>4. outcome' = "completed" => \A t \in Trials : Numbered(t) => Numbered(t)'
    BY <1>f, <2>1, <2>3
  <2> QED  BY <2>1, <2>2, <2>4
<1>13. CASE RequestInterrupt
  BY <1>13 DEF RequestInterrupt, Throw
<1>14. CASE HostSignal
  BY <1>14 DEF HostSignal, Throw
<1>15. CASE UNCHANGED vars
  BY <1>15 DEF vars
<1> QED
  BY <1>1, <1>2, <1>3, <1>4, <1>5, <1>6, <1>7, <1>8, <1>9, <1>10, <1>11, <1>12, <1>13, <1>14, <1>15 DEF Next, Step

(***************************************************************************)
(* When a run has completed every numbered file holds the tree of the      *)
(* trial it is numbered for: each trial's with --print-all-trials, the     *)
(* best one's with --trial-results where overwriting is allowed            *)
(* (writeResult and writeRunReports number by the trial's global index).   *)
(***************************************************************************)
THEOREM NumbersCorrect == Spec => []NumberedFilesAreTheirTrials
<1>1. Init => TreeInv /\ NumberedInv
  BY DEF Init, TreeInv, NumberedInv, Looping, Ended, AfterLoop
<1>2. TypeOK /\ CountInv /\ TreeInv /\ NumberedInv /\ [Next]_vars => TreeInv' /\ NumberedInv'
  BY TreeStep, NumberedStep
<1>3. TypeOK /\ NumberedInv => NumberedFilesAreTheirTrials
  BY DEF NumberedInv, NumberedFilesAreTheirTrials, Numbered, Ended, ShardPath
<1> QED  BY <1>1, <1>2, <1>3, TypeCorrect, PTL DEF Spec

(***************************************************************************)
(* The best trial, when no flow dangles and codelengths that differ do so  *)
(* by more than the tolerance.                                             *)
(***************************************************************************)
OneFlow == DanglingFlow = 0

SeparateLengths ==
  \A c \in Configs : \A x, y \in c.codelengths : x = y \/ x < y - Eps \/ y < x - Eps

\* Every trial finds what its seed finds.
FoundInv ==
  /\ danglingSum = 0
  /\ Looping \/ Ended => \A k \in 1..Len(codelengths) : codelengths[k] = lengthOf[k - 1]

LEMMA FoundStep ==
  ASSUME OneFlow, TypeOK, CountInv, FoundInv, [Next]_vars
  PROVE  FoundInv'
<1>a. lengthOf' = lengthOf
  BY ConfigStays
<1>b. config \in Configs /\ codelengths \in Seq(Codelengths) /\ trial \in Trials
  BY DEF TypeOK
<1>c. trial \in Nat
  BY <1>b, Options
<1>d. Finds = {lengthOf[trial]}
  BY DEF Finds, OneFlow, FoundInv
<1> USE <1>a, <1>b, <1>c DEF FoundInv, Looping, Ended, AfterLoop, CountInv, loopVars, hostVars
<1>1. CASE CallRun
  BY <1>1 DEF CallRun, Throw, WriteThrows
<1>2. CASE Entry
  BY <1>2 DEF Entry, Throw, WriteThrows
<1>3. CASE Preflight
  BY <1>3 DEF Preflight, Throw, WriteThrows
<1>4. CASE InitNetwork
  BY <1>4 DEF InitNetwork, Throw, WriteThrows, OneFlow
<1>5. CASE BeginTrial
  BY <1>5 DEF BeginTrial, Throw, WriteThrows
<1>6. CASE Search
  <2>1. CASE codelengths' = Append(codelengths, lengthOf[trial]) /\ UNCHANGED danglingSum
    <3>1. Len(codelengths) = trial
      BY <1>6 DEF Search
    <3>2. /\ Len(codelengths') = trial + 1
          /\ \A k \in 1..(trial + 1) :
               codelengths'[k] = IF k = trial + 1 THEN lengthOf[trial] ELSE codelengths[k]
      BY <2>1, <3>1
    <3> QED  BY <1>6, <2>1, <3>1, <3>2 DEF Search
  <2>2. CASE UNCHANGED <<codelengths, danglingSum>> /\ pc' = "idle" /\ outcome' # "completed"
    BY <2>2
  <2> QED  BY <1>6, <1>d, <2>1, <2>2 DEF Search, Throw
<1>7. CASE WriteTrial
  BY <1>7 DEF WriteTrial, Throw, WriteThrows
<1>8. CASE KeepBest
  BY <1>8 DEF KeepBest, Throw, WriteThrows
<1>9. CASE Advance
  BY <1>9 DEF Advance, Throw, WriteThrows
<1>10. CASE Summary
  BY <1>10 DEF Summary, Throw, WriteThrows
<1>11. CASE WriteShardTree
  BY <1>11 DEF WriteShardTree, Throw, WriteThrows
<1>12. CASE WriteReport
  BY <1>12 DEF WriteReport, Throw, WriteThrows
<1>13. CASE RequestInterrupt
  BY <1>13 DEF RequestInterrupt, Throw, WriteThrows
<1>14. CASE HostSignal
  BY <1>14 DEF HostSignal, Throw, WriteThrows
<1>15. CASE UNCHANGED vars
  BY <1>15 DEF vars
<1> QED
  BY <1>1, <1>2, <1>3, <1>4, <1>5, <1>6, <1>7, <1>8, <1>9, <1>10, <1>11, <1>12, <1>13, <1>14, <1>15 DEF Next, Step

\* best is the first minimum of the first n trials.
BestOver(n) ==
  IF n = 0
    THEN best = NoBest
    ELSE IsFirstMinimum(lengthOf, 0..(n - 1), best.index) /\ best.length = lengthOf[best.index]

\* finishTrial's comparison takes the minimum one trial further.
LEMMA KeepBestKeepsMinimum ==
  ASSUME TypeOK, SeparateLengths, NEW n \in Nat, n \in Trials, BestOver(n),
         best' = IF IsBetter(lengthOf[n], best)
                   THEN [index |-> n, length |-> lengthOf[n]] ELSE best,
         lengthOf' = lengthOf
  PROVE  BestOver(n + 1)'
<1>a. config \in Configs /\ lengthOf \in [Trials -> Codelengths]
  BY DEF TypeOK
<1>b. /\ Codelengths \subseteq Int /\ \A x \in Codelengths : x < MaxLength - Eps
      /\ MaxLength \in Int /\ Eps \in Nat \ {0}
  BY <1>a, Options, SessionAssumption
<1>c. \A x, y \in Codelengths : x = y \/ x < y - Eps \/ y < x - Eps
  BY <1>a DEF SeparateLengths, Codelengths
<1>d. \A k \in 0..n : k \in Trials /\ lengthOf[k] \in Codelengths
  <2>1. NumTrials \in Nat
    BY <1>a, Options
  <2> QED  BY <1>a, <2>1 DEF Trials
<1>e. /\ \A k \in 0..n : lengthOf[k] \in Int
      /\ \A k, m \in 0..n : \/ lengthOf[k] = lengthOf[m]
                           \/ lengthOf[k] < lengthOf[m] - Eps
                           \/ lengthOf[m] < lengthOf[k] - Eps
      /\ lengthOf[n] \in Codelengths /\ lengthOf[n] < MaxLength - Eps
      /\ Eps \in Nat \ {0} /\ n \in 0..n
  <2>1. n \in 0..n
    OBVIOUS
  <2>2. \A k \in 0..n : lengthOf[k] \in Codelengths
    BY <1>d
  <2>3. \A k \in 0..n : lengthOf[k] \in Int
    BY <2>2, <1>b
  <2>4. \A k, m \in 0..n : \/ lengthOf[k] = lengthOf[m]
                           \/ lengthOf[k] < lengthOf[m] - Eps
                           \/ lengthOf[m] < lengthOf[k] - Eps
    BY <2>2, <1>c
  <2>5. lengthOf[n] \in Codelengths /\ lengthOf[n] < MaxLength - Eps
    BY <2>1, <2>2, <1>b
  <2> QED  BY <2>1, <2>3, <2>4, <2>5, <1>b
<1>1. CASE n = 0
  <2>1. IsBetter(lengthOf[n], best)
    BY <1>1, <1>e DEF BestOver, NoBest, IsBetter
  <2>2. best' = [index |-> 0, length |-> lengthOf[0]]
    BY <1>1, <2>1
  <2> QED  BY <1>1, <1>b, <1>d, <2>2 DEF BestOver, IsFirstMinimum
<1>2. CASE n # 0 /\ IsBetter(lengthOf[n], best)
  <2>1. best' = [index |-> n, length |-> lengthOf[n]]
    BY <1>2
  <2>2. \A k \in 0..(n - 1) : lengthOf[n] < lengthOf[k]
    BY <1>2, <1>e DEF BestOver, IsBetter, IsFirstMinimum
  <2> QED  BY <1>2, <1>e, <2>1, <2>2 DEF BestOver, IsFirstMinimum
<1>3. CASE n # 0 /\ ~IsBetter(lengthOf[n], best)
  <2>1. best' = best /\ best.index \in 0..(n - 1)
    BY <1>3 DEF BestOver, IsFirstMinimum
  <2>2. best.index \in 0..n /\ best.length = lengthOf[best.index]
    BY <1>3, <2>1 DEF BestOver
  <2>3. ~(lengthOf[n] < lengthOf[best.index] - Eps)
    BY <1>3, <2>2 DEF IsBetter
  <2>4. lengthOf[best.index] \in Int /\ lengthOf[n] \in Int /\ Eps \in Nat
    BY <1>e, <2>2
  <2>5. \/ lengthOf[best.index] = lengthOf[n]
        \/ lengthOf[best.index] < lengthOf[n] - Eps
    BY <1>e, <2>2, <2>3
  <2>6. lengthOf[best.index] <= lengthOf[n]
    BY <2>4, <2>5
  <2> QED  BY <1>3, <1>e, <2>1, <2>6 DEF BestOver, IsFirstMinimum
<1> QED  BY <1>1, <1>2, <1>3

BestInv ==
  /\ pc \in {"poll", "search", "trial_output", "keep"} => BestOver(trial)
  /\ pc = "advance" => BestOver(trial + 1)
  /\ Ended => BestOver(trialsRun)

LEMMA BestStep ==
  ASSUME SeparateLengths, TypeOK, CountInv, FoundInv, BestInv, [Next]_vars
  PROVE  BestInv'
<1>a. lengthOf' = lengthOf /\ NumTrials' = NumTrials
  BY ConfigStays
<1>b. UNCHANGED best => \A n \in Int : BestOver(n)' <=> BestOver(n)
  BY <1>a DEF BestOver, IsFirstMinimum
<1>c. trial \in Trials /\ trial \in Nat /\ trialsRun \in Nat /\ NumTrials \in Nat
  <2>1. config \in Configs
    BY DEF TypeOK
  <2> QED  BY <2>1, Options DEF TypeOK
<1>d. outcome = "completed" => pc = "idle"
  BY DEF CountInv
<1> USE <1>a, <1>b, <1>c, <1>d DEF BestInv, Ended, AfterLoop, hostVars, loopVars
<1>1. CASE CallRun
  BY <1>1 DEF CallRun, Throw, WriteThrows
<1>2. CASE Entry
  BY <1>2 DEF Entry, Throw, WriteThrows
<1>3. CASE Preflight
  BY <1>3 DEF Preflight, Throw, WriteThrows
<1>4. CASE InitNetwork
  BY <1>4 DEF InitNetwork, Throw, WriteThrows, BestOver
<1>5. CASE BeginTrial
  BY <1>5 DEF BeginTrial, Throw, WriteThrows
<1>6. CASE Search
  BY <1>6 DEF Search, Throw, WriteThrows
<1>7. CASE WriteTrial
  BY <1>7 DEF WriteTrial, Throw, WriteThrows
<1>8. CASE KeepBest
  <2>1. codelengths[Len(codelengths)] = lengthOf[trial]
    BY <1>8 DEF KeepBest, CountInv, FoundInv, Looping
  <2>2. best' = IF IsBetter(lengthOf[trial], best)
                  THEN [index |-> trial, length |-> lengthOf[trial]] ELSE best
    BY <1>8, <2>1 DEF KeepBest
  <2>3. BestOver(trial + 1)'
    BY <1>8, <2>2, KeepBestKeepsMinimum DEF KeepBest
  <2>4. trial' = trial /\ pc' \in {"advance", "idle"} /\ outcome' # "completed"
    BY <1>8 DEF KeepBest, Throw, WriteThrows
  <2> QED  BY <2>3, <2>4
<1>9. CASE Advance
  BY <1>9 DEF Advance, Throw, WriteThrows
<1>10. CASE Summary
  BY <1>10 DEF Summary, Throw, WriteThrows
<1>11. CASE WriteShardTree
  BY <1>11 DEF WriteShardTree, Throw, WriteThrows
<1>12. CASE WriteReport
  BY <1>12 DEF WriteReport, Throw, WriteThrows
<1>13. CASE RequestInterrupt
  BY <1>13 DEF RequestInterrupt, Throw, WriteThrows
<1>14. CASE HostSignal
  BY <1>14 DEF HostSignal, Throw, WriteThrows
<1>15. CASE UNCHANGED vars
  BY <1>15 DEF vars
<1> QED
  BY <1>1, <1>2, <1>3, <1>4, <1>5, <1>6, <1>7, <1>8, <1>9, <1>10, <1>11, <1>12, <1>13, <1>14, <1>15 DEF Next, Step

(***************************************************************************)
(* The canonical file.                                                     *)
(***************************************************************************)
\* Which trial the canonical file holds and of how many it is the best, once the
\* run has written it for good.
CanonicalInv ==
  ~NoFinalOutput =>
    /\ pc = "advance" /\ best.index = trial =>
         files[Canonical] = Content(run, trial, trial + 1)
    /\ pc = "summary" /\ best.index = trialsRun - 1 =>
         files[Canonical] = Content(run, best.index, trialsRun)
    /\ pc \in {"reports", "results"} \/ outcome = "completed" =>
         files[Canonical] = Content(run, best.index, trialsRun)

\* Files of later runs do not exist yet.
HeaderInv ==
  /\ \A p \in Locations : files[p].run <= run
  /\ HeaderIsHonest

\* The other writers leave the canonical file alone.
LEMMA OtherPaths ==
  ASSUME TypeOK, TreeInv
  PROVE  /\ pc = "trial_output" => OutputPath(NumTrials, TrialOffset + trial + 1) # Canonical
         /\ ShardPath # Canonical /\ Report # Canonical
<1>1. config \in Configs /\ trial \in Trials /\ best.index \in Trials
  BY DEF TypeOK
<1>2. TrialOffset \in Nat /\ NumTrials \in Nat /\ trial \in Nat /\ best.index \in Nat
  BY <1>1, Options
<1> QED
  BY <1>2 DEF TreeInv, OutputPath, Canonical, ShardPath, Report

LEMMA CanonicalStep ==
  ASSUME TypeOK, CountInv, BestInv, TreeInv, CanonicalInv, [Next]_vars
  PROVE  CanonicalInv'
<1>a. /\ \A q, t : Write(q, t) /\ q # Canonical => files'[Canonical] = files[Canonical]
      /\ \A t : Write(Canonical, t) => files'[Canonical] = Content(run, t, Len(codelengths))
      /\ \A q : WriteThrows(q) => files' = files
  <2>1. config \in Configs /\ files \in [Locations -> [run : 0..MaxRuns, trial : Trials \cup {NoFile}, ran : 0..NumTrials]]
    BY DEF TypeOK
  <2>2. Canonical \in Locations
    BY <2>1, Options
  <2> QED  BY <2>1, <2>2 DEF Write, WriteThrows
<1>b. /\ trial \in Nat /\ trialsRun \in Nat /\ NumTrials \in Nat /\ trialsRun > 0
      /\ best.index \in Nat
  <2>1. config \in Configs
    BY DEF TypeOK
  <2> QED  BY <2>1, Options DEF TypeOK
<1>c. outcome = "completed" => pc = "idle"
  BY DEF CountInv
<1>d. Canonical' = Canonical /\ \A r, t, n : Content(r, t, n)' = Content(r, t, n)
  BY DEF Canonical, Content
<1> USE <1>a, <1>b, <1>c, <1>d DEF CanonicalInv, hostVars, loopVars
<1>1. CASE CallRun
  BY <1>1 DEF CallRun, Throw
<1>2. CASE Entry
  BY <1>2 DEF Entry, Throw
<1>3. CASE Preflight
  BY <1>3 DEF Preflight, Throw
<1>4. CASE InitNetwork
  BY <1>4 DEF InitNetwork, Throw
<1>5. CASE BeginTrial
  BY <1>5 DEF BeginTrial, Throw
<1>6. CASE Search
  BY <1>6 DEF Search, Throw
<1>7. CASE WriteTrial
  BY <1>7 DEF WriteTrial, Throw, WriteThrows
<1>8. CASE KeepBest
  <2>1. pc = "keep" /\ tree = trial /\ Len(codelengths) = trial + 1
    BY <1>8 DEF KeepBest, TreeInv, CountInv
  <2>2. BestOver(trial)
    BY <2>1 DEF BestInv
  <2>3. pc' \in {"advance", "idle"} /\ outcome' # "completed"
    BY <1>8, <2>1, <1>c DEF KeepBest, Throw, WriteThrows
  <2>4. UNCHANGED <<run, trial>>
    BY <1>8 DEF KeepBest
  <2>5. trial = 0 => IsBetter(codelengths[Len(codelengths)], best)
    <3>1. codelengths \in Seq(Codelengths) /\ config \in Configs
      BY DEF TypeOK
    <3>2. codelengths[Len(codelengths)] \in Codelengths
      BY <2>1, <3>1, <1>b
    <3>3. codelengths[Len(codelengths)] < MaxLength - Eps
      BY <3>1, <3>2, Options
    <3> QED  BY <2>2, <3>3 DEF BestOver, NoBest, IsBetter
  <2>6. CASE ~IsBetter(codelengths[Len(codelengths)], best)
    <3>1. best.index # trial
      BY <2>2, <2>5, <2>6, <1>b DEF BestOver, IsFirstMinimum
    <3>2. UNCHANGED <<files, best>>
      BY <1>8, <2>6 DEF KeepBest
    <3> QED  BY <2>3, <2>4, <3>1, <3>2
  <2>7. CASE IsBetter(codelengths[Len(codelengths)], best)
    <3>1. pc' = "idle" \/ NoFinalOutput \/ Write(Canonical, tree)
      BY <1>8, <2>7 DEF KeepBest, WriteThrows, Throw
    <3>2. Write(Canonical, tree) => files'[Canonical] = Content(run, trial, trial + 1)
      BY <2>1
    <3> QED  BY <2>3, <2>4, <3>1, <3>2
  <2> QED  BY <2>6, <2>7
<1>9. CASE Advance
  BY <1>9 DEF Advance, Throw
<1>10. CASE Summary
  <2>1. BestOver(trialsRun) /\ Len(codelengths) = trialsRun
    BY <1>10 DEF Summary, BestInv, Ended, AfterLoop, CountInv
  <2>2. ~MustRestore => best.index = trialsRun - 1
    BY <2>1 DEF MustRestore, BestOver, IsFirstMinimum
  <2> QED  BY <1>10, <2>1, <2>2 DEF Summary, Throw, WriteThrows
<1>11. CASE WriteShardTree
  BY <1>11, OtherPaths DEF WriteShardTree, Throw, WriteThrows
<1>12. CASE WriteReport
  BY <1>12, OtherPaths DEF WriteReport, Throw, WriteThrows
<1>13. CASE RequestInterrupt
  BY <1>13 DEF RequestInterrupt, Throw
<1>14. CASE HostSignal
  BY <1>14 DEF HostSignal, Throw
<1>15. CASE UNCHANGED vars
  BY <1>15 DEF vars
<1> QED
  BY <1>1, <1>2, <1>3, <1>4, <1>5, <1>6, <1>7, <1>8, <1>9, <1>10, <1>11, <1>12, <1>13, <1>14, <1>15 DEF Next, Step

LEMMA HeaderStep ==
  ASSUME TypeOK, CountInv, BestInv, BestInv', TreeInv, HeaderInv, [Next]_vars
  PROVE  HeaderInv'
<1>a. Locations' = Locations /\ lengthOf' = lengthOf /\ Canonical' = Canonical
  BY ConfigStays DEF Canonical
<1>b. /\ files \in [Locations -> [run : 0..MaxRuns, trial : Trials \cup {NoFile}, ran : 0..NumTrials]]
      /\ Canonical \in Locations /\ run \in Nat
  <2>1. config \in Configs
    BY DEF TypeOK
  <2> QED  BY <2>1, Options DEF TypeOK
<1>c. \A q, t : Write(q, t) =>
        \A p \in Locations : IF p = q THEN files'[p] = Content(run, t, Len(codelengths))
                                      ELSE files'[p] = files[p]
  BY <1>b DEF Write
<1>h. ASSUME NEW q, NEW t, Write(q, t)
      PROVE  \A p \in Locations : files'[p].run <= run
  <2> SUFFICES ASSUME NEW p \in Locations PROVE files'[p].run <= run
    OBVIOUS
  <2>1. CASE p = q
    <3>1. files'[p] = Content(run, t, Len(codelengths))
      BY <1>c, <1>h, <2>1, Zenon
    <3> QED  BY <3>1, <1>b DEF Content
  <2>2. CASE p # q
    <3>1. files'[p] = files[p]
      BY <1>c, <1>h, <2>2
    <3> QED  BY <3>1 DEF HeaderInv
  <2> QED  BY <2>1, <2>2
<1>d. \A q : WriteThrows(q) => files' = files
  BY DEF WriteThrows
\* A step that leaves the canonical file alone.
<1>e. ASSUME NEW q, NEW t, Write(q, t), q # Canonical, run' = run PROVE HeaderInv'
  <2>1. \A p \in Locations : files'[p].run <= run
    BY <1>e, <1>h
  <2>2. files'[Canonical] = files[Canonical]
    BY <1>b, <1>c, <1>e
  <2> QED  BY <1>a, <1>e, <2>1, <2>2 DEF HeaderInv, HeaderIsHonest
<1>f. ASSUME NEW t, Write(Canonical, t), run' = run,
             IsFirstMinimum(lengthOf, 0..(Len(codelengths) - 1), t)
      PROVE  HeaderInv'
  <2>1. \A p \in Locations : files'[p].run <= run
    BY <1>f, <1>h
  <2>2. files'[Canonical] = Content(run, t, Len(codelengths))
    BY <1>b, <1>c, <1>f
  <2> QED  BY <1>a, <1>f, <2>1, <2>2 DEF HeaderInv, HeaderIsHonest, Content
<1>g. UNCHANGED <<files, run>> => HeaderInv'
  BY <1>a DEF HeaderInv, HeaderIsHonest
<1> USE <1>d, <1>g DEF hostVars
<1>1. CASE CallRun
  <2>1. run' = run + 1 /\ UNCHANGED files
    BY <1>1 DEF CallRun
  <2>2. \A p \in Locations : files[p].run \in Nat /\ files[p].run <= run
    BY <1>b DEF HeaderInv
  <2> QED  BY <1>a, <1>b, <2>1, <2>2 DEF HeaderInv, HeaderIsHonest
<1>2. CASE Entry
  BY <1>2 DEF Entry
<1>3. CASE Preflight
  BY <1>3 DEF Preflight
<1>4. CASE InitNetwork
  BY <1>4 DEF InitNetwork
<1>5. CASE BeginTrial
  BY <1>5 DEF BeginTrial
<1>6. CASE Search
  BY <1>6 DEF Search
<1>7. CASE WriteTrial
  BY <1>7, <1>e, OtherPaths DEF WriteTrial
<1>8. CASE KeepBest
  <2>1. pc = "keep" /\ tree = trial /\ Len(codelengths) = trial + 1 /\ trial \in Nat
    <3>1. trial \in Trials /\ config \in Configs
      BY DEF TypeOK
    <3>2. trial \in Nat
      BY <3>1, Options
    <3> QED  BY <1>8, <3>2 DEF KeepBest, TreeInv, CountInv
  <2>2. CASE UNCHANGED files
    BY <1>8, <2>2 DEF KeepBest
  <2>3. CASE Write(Canonical, tree) /\ pc' = "advance" /\ best'.index = trial
    <3>1. trial' = trial /\ run' = run
      BY <1>8 DEF KeepBest
    <3>2. BestOver(trial + 1)'
      BY <2>3 DEF BestInv
    <3>3. IsFirstMinimum(lengthOf, 0..(Len(codelengths) - 1), tree)
      BY <1>a, <2>1, <2>3, <3>1, <3>2 DEF BestOver
    <3> QED  BY <1>f, <2>3, <3>1, <3>3
  <2> QED  BY <1>8, <2>2, <2>3 DEF KeepBest
<1>9. CASE Advance
  BY <1>9 DEF Advance
<1>10. CASE Summary
  <2>1. IsFirstMinimum(lengthOf, 0..(Len(codelengths) - 1), best.index)
    <3>1. BestOver(trialsRun) /\ Len(codelengths) = trialsRun /\ trialsRun > 0
      <4>1. config \in Configs /\ trialsRun \in 1..NumTrials
        BY DEF TypeOK
      <4>2. trialsRun > 0
        BY <4>1, Options
      <4> QED  BY <4>2, <1>10 DEF Summary, BestInv, Ended, AfterLoop, CountInv
    <3> QED  BY <3>1 DEF BestOver
  <2> QED  BY <1>10, <1>f, <2>1 DEF Summary
<1>11. CASE WriteShardTree
  BY <1>11, <1>e, OtherPaths DEF WriteShardTree
<1>12. CASE WriteReport
  BY <1>12, <1>e, OtherPaths DEF WriteReport
<1>13. CASE RequestInterrupt
  BY <1>13 DEF RequestInterrupt
<1>14. CASE HostSignal
  BY <1>14 DEF HostSignal
<1>15. CASE UNCHANGED vars
  BY <1>15 DEF vars
<1> QED
  BY <1>1, <1>2, <1>3, <1>4, <1>5, <1>6, <1>7, <1>8, <1>9, <1>10, <1>11, <1>12, <1>13, <1>14, <1>15 DEF Next, Step

(***************************************************************************)
(* The plateau.  BestOf of the module is the least of the first            *)
(* codelengths, and what has been found stays.                             *)
(***************************************************************************)
IsLeast(s, v, n) ==
  /\ v \in {s[j] : j \in 1..n}
  /\ \A j \in 1..n : v <= s[j]

BestIn(s, n) ==
  IF n = 0 THEN MaxLength
           ELSE CHOOSE c \in {s[j] : j \in 1..n} : \A j \in 1..n : c <= s[j]

\* There is a least one for every number of trials.
HasLeast(s) == \A n \in 1..Len(s) : \E v \in Int : IsLeast(s, v, n)

LEMMA BestInIsLeast ==
  ASSUME NEW s \in Seq(Int), NEW n \in 1..Len(s), NEW v \in Int, IsLeast(s, v, n)
  PROVE  BestIn(s, n) = v
<1>1. \A j \in 1..n : s[j] \in Int
  OBVIOUS
<1>2. ASSUME NEW c \in {s[j] : j \in 1..n}, \A j \in 1..n : c <= s[j]
      PROVE  c = v
  BY <1>1, <1>2 DEF IsLeast
<1> DEFINE P(c) == \A j \in 1..n : c <= s[j]
           S == {s[j] : j \in 1..n}
<1>3. (CHOOSE c \in S : P(c)) = v
  <2>1. v \in S /\ P(v)
    BY DEF IsLeast
  <2>2. \A c \in S : P(c) => c = v
    BY <1>2
  <2> HIDE DEF S, P
  <2> QED  BY <2>1, <2>2
<1> QED  BY <1>3 DEF BestIn

\* One more codelength leaves the prefixes alone.
LEMMA AppendKeepsBest ==
  ASSUME NEW s \in Seq(Int), NEW c \in Int, HasLeast(s)
  PROVE  /\ HasLeast(Append(s, c))
         /\ \A n \in 0..Len(s) : BestIn(Append(s, c), n) = BestIn(s, n)
<1> DEFINE t == Append(s, c)
<1>1. /\ t \in Seq(Int) /\ Len(t) = Len(s) + 1 /\ Len(s) \in Nat
      /\ t[Len(s) + 1] = c
      /\ \A j \in 1..Len(s) : t[j] = s[j] /\ s[j] \in Int
  OBVIOUS
<1> HIDE DEF t
<1>2. ASSUME NEW n \in 1..Len(s), NEW v \in Int, IsLeast(s, v, n)
      PROVE  IsLeast(t, v, n)
  <2>1. \A j \in 1..n : t[j] = s[j]
    BY <1>1
  <2> QED  BY <1>2, <2>1 DEF IsLeast
<1>3. \A n \in 0..Len(s) : BestIn(t, n) = BestIn(s, n)
  <2> SUFFICES ASSUME NEW n \in 0..Len(s) PROVE BestIn(t, n) = BestIn(s, n)
    OBVIOUS
  <2>1. CASE n = 0
    BY <2>1 DEF BestIn
  <2>2. CASE n # 0
    <3>1. n \in 1..Len(s) /\ n \in 1..Len(t)
      BY <1>1, <2>2
    <3>2. PICK v \in Int : IsLeast(s, v, n)
      BY <3>1 DEF HasLeast
    <3>3. BestIn(s, n) = v
      BY <3>1, <3>2, BestInIsLeast
    <3>4. BestIn(t, n) = v
      BY <1>1, <1>2, <3>1, <3>2, BestInIsLeast
    <3> QED  BY <3>3, <3>4
  <2> QED  BY <2>1, <2>2
<1>4. HasLeast(t)
  <2> SUFFICES ASSUME NEW n \in 1..Len(t) PROVE \E v \in Int : IsLeast(t, v, n)
    BY DEF HasLeast
  <2>1. CASE n <= Len(s)
    <3>1. n \in 1..Len(s)
      BY <1>1, <2>1
    <3> QED  BY <1>2, <3>1 DEF HasLeast
  <2>2. CASE n = Len(s) + 1 /\ Len(s) = 0
    BY <1>1, <2>2 DEF IsLeast
  <2>3. CASE n = Len(s) + 1 /\ Len(s) # 0
    <3>1. PICK v \in Int : IsLeast(s, v, Len(s))
      BY <1>1, <2>3 DEF HasLeast
    <3>2. CASE c < v
      <4>1. \A j \in 1..n : c <= t[j]
        <5> SUFFICES ASSUME NEW j \in 1..n PROVE c <= t[j]
          OBVIOUS
        <5>1. CASE j \in 1..Len(s)
          <6>1. t[j] = s[j] /\ s[j] \in Int /\ v <= s[j]
            BY <1>1, <3>1, <5>1 DEF IsLeast
          <6> QED  BY <3>2, <6>1
        <5>2. CASE j = n
          BY <1>1, <2>3, <5>2
        <5> QED  BY <1>1, <2>3, <5>1, <5>2
      <4>2. t[n] = c /\ n \in 1..n
        BY <1>1, <2>3
      <4>3. c \in {t[j] : j \in 1..n}
        BY <4>2
      <4> QED  BY <4>1, <4>3 DEF IsLeast
    <3>3. CASE v <= c
      <4>1. \A j \in 1..n : v <= t[j]
        <5> SUFFICES ASSUME NEW j \in 1..n PROVE v <= t[j]
          OBVIOUS
        <5>1. CASE j \in 1..Len(s)
          BY <1>1, <3>1, <5>1 DEF IsLeast
        <5>2. CASE j = n
          BY <1>1, <2>3, <3>3, <5>2
        <5> QED  BY <1>1, <2>3, <5>1, <5>2
      <4>2. PICK k \in 1..Len(s) : v = s[k]
        BY <3>1 DEF IsLeast
      <4>3. t[k] = v /\ k \in 1..n
        BY <1>1, <2>3, <4>2
      <4>4. v \in {t[j] : j \in 1..n}
        BY <4>3
      <4> QED  BY <4>1, <4>4 DEF IsLeast
    <3> QED  BY <3>2, <3>3
  <2> QED  BY <1>1, <2>1, <2>2, <2>3
<1> QED  BY <1>3, <1>4 DEF t

\* Trial j brought no improvement; the last k of n trials did not, but the one
\* before them did; and the plateau rule.
FlatIn(s, j) == ~Improved(BestIn(s, j), BestIn(s, j - 1))

SinceIs(s, n, k) ==
  /\ k <= n
  /\ \A j \in (n - k + 1)..n : FlatIn(s, j)
  /\ k < n => ~FlatIn(s, n - k)

PlateauIn(s, k) ==
  /\ k >= MinTrials /\ k >= Patience
  /\ \A j \in (k - Patience + 1)..k : FlatIn(s, j)

LEMMA SinceNext ==
  ASSUME NEW s, NEW n \in Nat, NEW k \in Nat, SinceIs(s, n, k)
  PROVE  SinceIs(s, n + 1, IF FlatIn(s, n + 1) THEN k + 1 ELSE 0)
<1>1. CASE FlatIn(s, n + 1)
  <2>1. (n + 1) - (k + 1) = n - k
    OBVIOUS
  <2>2. \A j \in (n - k + 1)..(n + 1) : FlatIn(s, j)
    <3>1. \A j \in (n - k + 1)..(n + 1) : j \in (n - k + 1)..n \/ j = n + 1
      OBVIOUS
    <3> QED  BY <1>1, <3>1 DEF SinceIs
  <2> QED  BY <1>1, <2>1, <2>2 DEF SinceIs
<1>2. CASE ~FlatIn(s, n + 1)
  BY <1>2 DEF SinceIs
<1> QED  BY <1>1, <1>2

\* The count decides whether there is a plateau.
LEMMA PlateauIsSince ==
  ASSUME NEW s, NEW n \in Nat, NEW k \in Nat, SinceIs(s, n, k)
  PROVE  PlateauIn(s, n) <=> n >= MinTrials /\ k >= Patience
<1>1. Patience \in Nat \ {0} /\ MinTrials \in Nat
  BY SessionAssumption
<1>2. ASSUME k >= Patience, n >= MinTrials PROVE PlateauIn(s, n)
  BY <1>1, <1>2 DEF PlateauIn, SinceIs
<1>3. ASSUME PlateauIn(s, n), k < Patience PROVE FALSE
  <2>1. n >= Patience /\ \A j \in (n - Patience + 1)..n : FlatIn(s, j)
    BY <1>3 DEF PlateauIn
  <2>2. k < n /\ n - k \in (n - Patience + 1)..n
    BY <1>1, <1>3, <2>1
  <2> QED  BY <2>1, <2>2 DEF SinceIs
<1>4. PlateauIn(s, n) => n >= MinTrials
  BY DEF PlateauIn
<1> QED  BY <1>1, <1>2, <1>3, <1>4

LEMMA AppendKeepsPlateaus ==
  ASSUME NEW s \in Seq(Int), NEW c \in Int, HasLeast(s)
  PROVE  /\ \A k \in 0..Len(s) : SinceIs(s, Len(s), k) => SinceIs(Append(s, c), Len(s), k)
         /\ \A k \in 1..Len(s) : PlateauIn(Append(s, c), k) <=> PlateauIn(s, k)
<1>1. \A n \in 0..Len(s) : BestIn(Append(s, c), n) = BestIn(s, n)
  BY AppendKeepsBest
<1>2. \A j \in 1..Len(s) : FlatIn(Append(s, c), j) <=> FlatIn(s, j)
  <2> SUFFICES ASSUME NEW j \in 1..Len(s) PROVE FlatIn(Append(s, c), j) <=> FlatIn(s, j)
    OBVIOUS
  <2>1. j \in 0..Len(s) /\ j - 1 \in 0..Len(s)
    OBVIOUS
  <2> QED  BY <1>1, <2>1 DEF FlatIn
<1> DEFINE t == Append(s, c)
<1>3. Len(s) \in Nat /\ \A j \in 1..Len(s) : FlatIn(t, j) <=> FlatIn(s, j)
  BY <1>2
<1> HIDE DEF t
<1>4. ASSUME NEW k \in 0..Len(s), SinceIs(s, Len(s), k) PROVE SinceIs(t, Len(s), k)
  BY <1>3, <1>4 DEF SinceIs
<1>5. Patience \in Nat \ {0} /\ MinTrials \in Nat
  BY SessionAssumption
<1>6. ASSUME NEW k \in 1..Len(s) PROVE PlateauIn(t, k) <=> PlateauIn(s, k)
  BY <1>3, <1>5, <1>6 DEF PlateauIn
<1> QED  BY <1>4, <1>6 DEF t

\* The shared best is the least codelength so far.
LEMMA BestLength ==
  ASSUME TypeOK, NEW n \in 0..Len(codelengths), BestOver(n),
         \A k \in 1..Len(codelengths) : codelengths[k] = lengthOf[k - 1]
  PROVE  best.length = BestIn(codelengths, n)
<1>1. CASE n = 0
  BY <1>1 DEF BestOver, BestIn, NoBest
<1>2. CASE n # 0
  <2>1. codelengths \in Seq(Int)
    BY Options DEF TypeOK
  <2>2. n \in 1..Len(codelengths) /\ best.index \in 0..(n - 1)
    BY <1>2, <2>1 DEF BestOver, IsFirstMinimum
  <2>3. best.index + 1 \in 1..n /\ codelengths[best.index + 1] = best.length
    <3>1. best.index + 1 \in 1..Len(codelengths) /\ best.index + 1 \in 1..n
      BY <2>1, <2>2
    <3>2. codelengths[best.index + 1] = lengthOf[(best.index + 1) - 1]
      BY <3>1
    <3>3. (best.index + 1) - 1 = best.index
      BY <2>2
    <3> QED  BY <1>2, <3>1, <3>2, <3>3 DEF BestOver
  <2>4. \A j \in 1..n : codelengths[j] \in Int
    BY <2>1, <2>2
  <2>5. \A j \in 1..n : best.length <= codelengths[j]
    <3> SUFFICES ASSUME NEW j \in 1..n PROVE best.length <= codelengths[j]
      OBVIOUS
    <3>1. j - 1 \in 0..(n - 1) /\ codelengths[j] = lengthOf[j - 1]
      BY <2>1, <2>2
    <3>2. lengthOf[best.index] < lengthOf[j - 1] \/ lengthOf[best.index] = lengthOf[j - 1]
      BY <1>2, <3>1 DEF BestOver, IsFirstMinimum
    <3>3. best.length = lengthOf[best.index]
      BY <1>2 DEF BestOver
    <3> QED  BY <2>3, <2>4, <3>1, <3>2, <3>3
  <2>6. IsLeast(codelengths, best.length, n) /\ best.length \in Int
    BY <2>3, <2>4, <2>5 DEF IsLeast
  <2> QED  BY <2>1, <2>2, <2>6, BestInIsLeast
<1> QED  BY <1>1, <1>2

(***************************************************************************)
(* The conjunction that is inductive.                                      *)
(***************************************************************************)
RunInv ==
  /\ TypeOK /\ CountInv /\ FoundInv /\ BestInv
  /\ TreeInv /\ CanonicalInv /\ HeaderInv

LEMMA RunInvariant ==
  ASSUME OneFlow, SeparateLengths
  PROVE  Spec => []RunInv
<1>1. Init => RunInv
  <2> SUFFICES ASSUME Init PROVE RunInv
    OBVIOUS
  <2>1. FoundInv /\ BestInv /\ TreeInv /\ CanonicalInv
    BY DEF Init, FoundInv, BestInv, TreeInv, CanonicalInv, Looping, Ended, AfterLoop
  <2>2. HeaderInv
    BY DEF Init, HeaderInv, HeaderIsHonest, NoContent, OldContent, Content
  <2> QED  BY <2>1, <2>2, InitTypes DEF RunInv
<1>2. RunInv /\ [Next]_vars => RunInv'
  <2> SUFFICES ASSUME RunInv, [Next]_vars PROVE RunInv'
    OBVIOUS
  <2>1. TypeOK' /\ CountInv' /\ FoundInv' /\ BestInv'
    BY TypeStep, FoundStep, BestStep DEF RunInv
  <2>2. TreeInv' /\ CanonicalInv' /\ HeaderInv'
    BY <2>1, TreeStep, CanonicalStep, HeaderStep DEF RunInv
  <2> QED  BY <2>1, <2>2 DEF RunInv
<1> QED  BY <1>1, <1>2, PTL DEF Spec

(***************************************************************************)
(* A completed run reports the trials it ran, in order, and the tree and   *)
(* the canonical file hold the first of the best of them, with the number  *)
(* of trials compared in its header (finishTrial, restoreBestResult).      *)
(***************************************************************************)
THEOREM CompletedCorrect ==
  ASSUME OneFlow, SeparateLengths
  PROVE  Spec => []CompletedIsBest
<1>1. RunInv => CompletedIsBest
  <2> SUFFICES ASSUME RunInv, outcome = "completed"
               PROVE  /\ codelengths = [k \in 1..trialsRun |-> lengthOf[k - 1]]
                      /\ IsFirstMinimum(lengthOf, 0..(trialsRun - 1), tree)
                      /\ NoFinalOutput \/ files[Canonical] = Content(run, tree, trialsRun)
    BY DEF RunInv, CompletedIsBest
  <2>1. codelengths \in Seq(Codelengths) /\ Len(codelengths) = trialsRun /\ trialsRun > 0
    <3>1. config \in Configs /\ trialsRun \in 1..NumTrials /\ codelengths \in Seq(Codelengths)
      BY DEF RunInv, TypeOK
    <3>2. trialsRun > 0
      BY <3>1, Options
    <3> QED  BY <3>1, <3>2 DEF RunInv, CountInv
  <2>2. codelengths = [k \in 1..trialsRun |-> lengthOf[k - 1]]
    BY <2>1 DEF RunInv, FoundInv, Ended
  <2>3. tree = best.index /\ BestOver(trialsRun)
    BY DEF RunInv, TreeInv, BestInv, Ended
  <2>4. IsFirstMinimum(lengthOf, 0..(trialsRun - 1), tree)
    BY <2>1, <2>3 DEF BestOver
  <2>5. NoFinalOutput \/ files[Canonical] = Content(run, tree, trialsRun)
    BY <2>3 DEF RunInv, CanonicalInv
  <2> QED  BY <2>2, <2>4, <2>5
<1> QED  BY <1>1, RunInvariant, PTL

(***************************************************************************)
(* Wherever the run was interrupted, failed or was killed, a canonical     *)
(* file that claims k trials holds the first of the best of the first k.   *)
(***************************************************************************)
THEOREM HeaderCorrect ==
  ASSUME OneFlow, SeparateLengths
  PROVE  Spec => []HeaderIsHonest
<1>1. RunInv => HeaderIsHonest
  BY DEF RunInv, HeaderInv
<1> QED  BY <1>1, RunInvariant, PTL

(***************************************************************************)
(* --converge.                                                             *)
(***************************************************************************)
PlateauInv ==
  /\ HasLeast(codelengths)
  /\ Converge =>
       /\ Looping => /\ SinceIs(codelengths, trial, since)
                     /\ \A k \in 1..trial : ~PlateauIn(codelengths, k)
       /\ pc \in {"search", "trial_output", "keep", "advance"} =>
            bestBefore = BestIn(codelengths, trial)
       /\ Ended => /\ PlateauIn(codelengths, trialsRun) \/ trialsRun = NumTrials
                   /\ \A k \in 1..(trialsRun - 1) : ~PlateauIn(codelengths, k)

LEMMA PlateauStep ==
  ASSUME RunInv, PlateauInv, [Next]_vars
  PROVE  PlateauInv'
<1>a. NumTrials' = NumTrials /\ Converge' = Converge
  BY ConfigStays DEF Converge
<1>b. /\ trial \in Nat /\ trialsRun \in Nat /\ NumTrials \in Nat
      /\ codelengths \in Seq(Int) /\ Len(codelengths) \in Nat /\ since \in Nat
  <2>1. config \in Configs /\ trial \in Trials /\ since \in 0..NumTrials /\ trialsRun \in 1..NumTrials
    BY DEF RunInv, TypeOK
  <2>2. codelengths \in Seq(Int)
    BY Options DEF RunInv, TypeOK
  <2> QED  BY <2>1, <2>2, Options
<1>c. /\ outcome = "completed" => pc = "idle"
      /\ pc # "idle" => outcome = "running"
  BY DEF RunInv, CountInv
<1> USE <1>a DEF PlateauInv, Looping, Ended, AfterLoop, loopVars, hostVars
<1>1. CASE CallRun
  BY <1>1 DEF CallRun, Throw, WriteThrows
<1>2. CASE Entry
  BY <1>2 DEF Entry, Throw, WriteThrows
<1>3. CASE Preflight
  BY <1>3 DEF Preflight, Throw, WriteThrows
<1>4. CASE InitNetwork
  <2>1. CASE codelengths' = <<>> /\ trial' = 0 /\ since' = 0 /\ pc' = "poll"
    <3>1. HasLeast(<<>>) /\ SinceIs(<<>>, 0, 0)
      BY DEF HasLeast, SinceIs
    <3>2. HasLeast(codelengths')
      BY <2>1, <3>1
    <3>3. HasLeast(codelengths)'
      BY <3>2 DEF HasLeast, IsLeast
    <3>4. SinceIs(codelengths', trial', since')
      BY <2>1, <3>1
    <3>5. outcome' # "completed"
      BY <1>4, <1>c DEF InitNetwork, Throw
    <3> QED  BY <2>1, <3>3, <3>4, <3>5
  <2>2. CASE pc' = "idle" /\ outcome' # "completed" /\ UNCHANGED loopVars
    BY <2>2
  <2> QED  BY <1>4, <1>c, <2>1, <2>2 DEF InitNetwork, Throw
<1>5. CASE BeginTrial
  <2>1. pc = "poll" /\ UNCHANGED <<trial, codelengths, since, trialsRun>>
    BY <1>5 DEF BeginTrial
  <2>2. best.length = BestIn(codelengths, trial)
    <3>1. Len(codelengths) = trial /\ BestOver(trial)
      BY <2>1 DEF RunInv, CountInv, BestInv
    <3>2. trial \in 0..Len(codelengths)
      BY <1>b, <3>1
    <3> QED  BY <2>1, <3>1, <3>2, BestLength DEF RunInv, FoundInv
  <2>3. \/ pc' = "search" /\ bestBefore' = best.length
        \/ pc' = "idle"
    BY <1>5 DEF BeginTrial, Throw
  <2>4. outcome' # "completed"
    BY <1>5, <1>c, <2>1 DEF BeginTrial, Throw
  <2> QED  BY <2>1, <2>2, <2>3, <2>4
<1>6. CASE Search
  <2>1. pc = "search" /\ UNCHANGED <<trial, since, trialsRun, bestBefore>> /\ outcome' # "completed"
    BY <1>6, <1>c DEF Search, Throw
  <2>2. Len(codelengths) = trial
    BY <2>1 DEF RunInv, CountInv
  <2>3. CASE UNCHANGED codelengths /\ pc' = "idle"
    BY <2>1, <2>3
  <2>4. CASE \E c \in Int : codelengths' = Append(codelengths, c)
    <3>1. PICK c \in Int : codelengths' = Append(codelengths, c)
      BY <2>4
    <3>2. HasLeast(codelengths)' /\ BestIn(codelengths', trial) = BestIn(codelengths, trial)
      <4>1. trial \in 0..Len(codelengths) /\ HasLeast(codelengths)
        BY <1>b, <2>2
      <4>2. HasLeast(Append(codelengths, c))
        BY <1>b, <4>1, AppendKeepsBest
      <4>3. BestIn(Append(codelengths, c), trial) = BestIn(codelengths, trial)
        BY <1>b, <4>1, AppendKeepsBest
      <4>4. HasLeast(codelengths')
        BY <3>1, <4>2
      <4>5. HasLeast(codelengths)'
        BY <4>4 DEF HasLeast, IsLeast
      <4> QED  BY <3>1, <4>3, <4>5
    <3>3. Converge => SinceIs(codelengths, trial, since) /\ since \in 0..trial
      BY <1>b, <2>1 DEF SinceIs
    <3>4. Converge => SinceIs(codelengths', trial, since)
      BY <1>b, <2>2, <3>1, <3>3, AppendKeepsPlateaus
    <3>5. \A k \in 1..trial : PlateauIn(codelengths', k) <=> PlateauIn(codelengths, k)
      BY <1>b, <2>2, <3>1, AppendKeepsPlateaus
    <3>6. Converge => \A k \in 1..trial : ~PlateauIn(codelengths', k)
      BY <2>1, <3>5
    <3>7. Converge => bestBefore = BestIn(codelengths, trial)
      BY <2>1
    <3>8. ~Ended'
      BY <1>6, <2>1 DEF Search, Throw
    <3> QED  BY <2>1, <3>2, <3>4, <3>6, <3>7, <3>8
  <2>5. \/ UNCHANGED codelengths /\ pc' = "idle"
        \/ \E c \in Int : codelengths' = Append(codelengths, c)
    <3>1. Finds \subseteq Int
      BY <1>b, Options DEF Finds, RunInv, TypeOK
    <3> QED  BY <1>6, <3>1 DEF Search, Throw
  <2> QED  BY <2>3, <2>4, <2>5
<1>7. CASE WriteTrial
  BY <1>7 DEF WriteTrial, Throw, WriteThrows
<1>8. CASE KeepBest
  BY <1>8 DEF KeepBest, Throw, WriteThrows
<1>9. CASE Advance
  <2> DEFINE n == trial + 1
             stale == Stale(Improved(best.length, bestBefore), since)
  <2>1. pc = "advance" /\ UNCHANGED codelengths /\ outcome' # "completed"
    BY <1>9, <1>c DEF Advance
  <2>2. n \in Nat /\ n \in 1..Len(codelengths) /\ trial = n - 1 /\ n > 0
    BY <1>b, <2>1 DEF RunInv, CountInv
  <2>3. CASE Converge
    <3>1. best.length = BestIn(codelengths, n)
      <4>1. BestOver(n) /\ n \in 0..Len(codelengths)
        BY <2>1, <2>2 DEF RunInv, BestInv
      <4> QED  BY <2>1, <4>1, BestLength DEF RunInv, FoundInv
    <3>2. FlatIn(codelengths, n) <=> ~Improved(best.length, bestBefore)
      BY <2>1, <2>2, <2>3, <3>1 DEF FlatIn
    <3>3. stale = IF FlatIn(codelengths, n) THEN since + 1 ELSE 0
      BY <3>2 DEF Stale
    <3>4. SinceIs(codelengths, n, stale) /\ stale \in Nat
      BY <1>b, <2>1, <2>3, <3>3, SinceNext
    <3>5. PlateauIn(codelengths, n) <=> n >= MinTrials /\ stale >= Patience
      BY <2>2, <3>4, PlateauIsSince
    <3>6. /\ since' = stale
          /\ IF PlateauIn(codelengths, n) \/ n = NumTrials
               THEN trialsRun' = n /\ pc' = "summary"
               ELSE trial' = n /\ pc' = "poll"
      BY <1>9, <2>3, <3>5 DEF Advance
    <3>7. \A k \in 1..trial : ~PlateauIn(codelengths, k)
      BY <2>1, <2>3
    <3>8. n - 1 = trial /\ \A k \in 1..n : k \in 1..trial \/ k = n
      BY <1>b
    <3> HIDE DEF n, stale
    <3> QED  BY <2>1, <2>2, <3>4, <3>6, <3>7, <3>8
  <2>4. CASE ~Converge
    BY <2>1, <2>4
  <2> QED  BY <2>3, <2>4
<1>10. CASE Summary
  BY <1>10 DEF Summary, Throw, WriteThrows
<1>11. CASE WriteShardTree
  BY <1>11 DEF WriteShardTree, Throw, WriteThrows
<1>12. CASE WriteReport
  BY <1>12 DEF WriteReport, Throw, WriteThrows
<1>13. CASE RequestInterrupt
  BY <1>13 DEF RequestInterrupt, Throw, WriteThrows
<1>14. CASE HostSignal
  BY <1>14 DEF HostSignal, Throw, WriteThrows
<1>15. CASE UNCHANGED vars
  BY <1>15 DEF vars
<1> QED
  BY <1>1, <1>2, <1>3, <1>4, <1>5, <1>6, <1>7, <1>8, <1>9, <1>10, <1>11, <1>12, <1>13, <1>14, <1>15 DEF Next, Step

(***************************************************************************)
(* --converge ends a run exactly at the first plateau of the codelengths,  *)
(* or at the cap (runTrialsUntilConverged): the counter of trials without  *)
(* improvement and the best codelength before each trial say the same as   *)
(* the rule stated on the whole sequence.                                  *)
(***************************************************************************)
THEOREM PlateauCorrect ==
  ASSUME OneFlow, SeparateLengths
  PROVE  Spec => []StopsAtFirstPlateau
<1>1. Init => PlateauInv
  BY DEF Init, PlateauInv, HasLeast, Looping, Ended, AfterLoop
<1>2. RunInv /\ PlateauInv /\ [Next]_vars => PlateauInv'
  BY PlateauStep
<1>3. PlateauInv => StopsAtFirstPlateau
  <2>1. \A k : Plateau(k) <=> PlateauIn(codelengths, k)
    BY DEF Plateau, PlateauIn, FlatIn, BestOf, BestIn
  <2> QED  BY <2>1 DEF PlateauInv, StopsAtFirstPlateau, Ended
<1> QED  BY <1>1, <1>2, <1>3, RunInvariant, PTL DEF Spec
=============================================================================
