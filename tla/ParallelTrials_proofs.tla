------------------------ MODULE ParallelTrials_proofs ------------------------
(***************************************************************************)
(* Proofs about ParallelTrials, for every number of trials and of threads, *)
(* every set of codelengths, and every order of the workers.               *)
(***************************************************************************)
EXTENDS ParallelTrials, TLAPS

(***************************************************************************)
(* The stride: worker w runs the trials whose remainder by NumWorkers is w *)
(***************************************************************************)

LEMMA Product ==
  ASSUME NEW n \in Nat \ {0}, NEW k \in Int, 0 < n * k
  PROVE  n * k >= n
<1>1. k >= 1
  <2>1. k <= 0 => n * k <= 0
    OBVIOUS
  <2> QED  BY <2>1
<1>2. PICK j \in Nat : k = j + 1
  BY <1>1
<1>3. n * k = n * j + n /\ n * j >= 0
  BY <1>2
<1> QED  BY <1>3

LEMMA Division ==
  ASSUME NEW n \in Nat \ {0}, NEW a \in Nat
  PROVE  \E q \in Nat : a = n * q + (a % n)
<1>1. a = n * (a \div n) + (a % n) /\ (a \div n) \in Nat
  OBVIOUS
<1> QED  BY <1>1

LEMMA OneRemainder ==
  ASSUME NEW n \in Nat \ {0}, NEW p \in Nat, NEW q \in Nat,
         NEW r \in 0..(n - 1), NEW s \in 0..(n - 1), n * p + r = n * q + s
  PROVE  r = s
<1>1. n * (p - q) = s - r /\ n * (q - p) = r - s
  OBVIOUS
<1>2. ~(s - r > 0) /\ ~(r - s > 0)
  BY <1>1, Product, p - q \in Int, q - p \in Int
<1> QED  BY <1>2

\* Two trials of one worker are at least a stride apart.
LEMMA StrideApart ==
  ASSUME NEW n \in Nat \ {0}, NEW a \in Nat, NEW b \in Nat,
         a % n = b % n, a < b
  PROVE  a + n <= b
<1>1. PICK p \in Nat : a = n * p + (a % n)
  BY Division
<1>2. PICK q \in Nat : b = n * q + (b % n)
  BY Division
<1>3. a % n \in Nat
  OBVIOUS
<1>4. b - a = n * (q - p)
  BY <1>1, <1>2, <1>3
<1>5. b - a >= n
  BY <1>4, Product, q - p \in Int
<1> QED  BY <1>5

\* Adding the stride does not change the worker.
LEMMA StrideKeepsOwner ==
  ASSUME NEW n \in Nat \ {0}, NEW a \in Nat
  PROVE  (a + n) % n = a % n
<1>1. PICK p \in Nat : a = n * p + (a % n)
  BY Division
<1>2. PICK q \in Nat : a + n = n * q + ((a + n) % n)
  <2>1. a + n \in Nat
    OBVIOUS
  <2> QED  BY <2>1, Division, Zenon
<1>3. a % n \in 0..(n - 1) /\ (a + n) % n \in 0..(n - 1)
  OBVIOUS
<1>4. n * (p + 1) + (a % n) = n * q + ((a + n) % n)
  BY <1>1, <1>2, <1>3
<1> QED  BY <1>3, <1>4, OneRemainder, p + 1 \in Nat

LEMMA Constants ==
  /\ NumTrials \in Nat /\ NumTrials > 1
  /\ NumWorkers \in Nat \ {0} /\ NumWorkers <= NumTrials
  /\ 0 \in Trials /\ Trials \subseteq Nat /\ Workers \subseteq Nat
  /\ Canonical \in Paths
  BY NumTrialsAssumption, ParallelAssumption, SeedAssumption
  DEF NumWorkers, Trials, Workers, Canonical, Paths

LEMMA Owners ==
  /\ \A t \in Nat : t % NumWorkers \in Workers
  /\ \A w \in Workers : w % NumWorkers = w
<1>1. ASSUME NEW n \in Nat \ {0}, NEW t \in Nat PROVE t % n \in 0..(n - 1)
  OBVIOUS
<1>2. ASSUME NEW n \in Nat \ {0}, NEW t \in 0..(n - 1) PROVE t % n = t
  OBVIOUS
<1> QED  BY <1>1, <1>2, Constants DEF Workers

LEMMA SeedType == \A t \in Trials : TrialSeed(BaseSeed, t) \in Int
<1>1. ConfigWidth \in Nat \ {0}
  BY SeedAssumption
<1> QED  BY <1>1, Constants, ParallelAssumption, SeedAssumption DEF TrialSeed

LEMMA StartType == \A S : StartOf(S) \in StartSources \cup {"none"}
  BY DEF StartOf, StartSources

(***************************************************************************)
(* The loop of a worker: where it stands decides what became of its        *)
(* trials.                                                                 *)
(***************************************************************************)
Owner(t) == t % NumWorkers

InTrial == {"poll", "search", "record", "output", "select"}
Unwinds == {"failed", "interrupted"}

LoopInv ==
  /\ \A w \in Workers : Owner(wtrial[w]) = w
  /\ \A w \in Workers : wpc[w] # "next" => wtrial[w] \in Trials
  /\ \A t \in Trials :
       /\ t < wtrial[Owner(t)] => status[t] \in {"selected"} \cup Unwinds
       /\ t > wtrial[Owner(t)] => status[t] = "waiting"
       /\ t = wtrial[Owner(t)] =>
            /\ wpc[Owner(t)] = "next" => status[t] = "waiting"
            /\ wpc[Owner(t)] \in InTrial => status[t] = "running"
            /\ wpc[Owner(t)] = "catch" => status[t] \in Unwinds

\* A step within a trial.
LEMMA StepInTrial ==
  ASSUME TypeOK, LoopInv, NEW w \in Workers, wtrial[w] \in Trials,
         NEW l, NEW s,
         \/ l \in InTrial /\ s = "running"
         \/ l = "catch" /\ s \in Unwinds,
         wtrial' = wtrial,
         wpc' = [wpc EXCEPT ![w] = l],
         status' = [status EXCEPT ![wtrial[w]] = s]
  PROVE  LoopInv'
<1>1. \A t \in Trials : Owner(t) \in Workers
  BY Owners, Constants DEF Owner
<1>2. \A v \in Workers : wtrial[v] = wtrial[w] => v = w
  BY DEF LoopInv
<1>3. \A v \in Workers : wpc'[v] = IF v = w THEN l ELSE wpc[v]
  BY DEF TypeOK
<1>4. \A t \in Trials : status'[t] = IF t = wtrial[w] THEN s ELSE status[t]
  BY DEF TypeOK
<1>5. (\A v \in Workers : Owner(wtrial[v]) = v)'
  BY DEF LoopInv, Owner
<1>6. (\A v \in Workers : wpc[v] # "next" => wtrial[v] \in Trials)'
  BY <1>3 DEF LoopInv
<1>7. ASSUME NEW t \in Trials
      PROVE  /\ t < wtrial[Owner(t)] => status'[t] \in {"selected"} \cup Unwinds
             /\ t > wtrial[Owner(t)] => status'[t] = "waiting"
             /\ t = wtrial[Owner(t)] =>
                  /\ wpc'[Owner(t)] = "next" => status'[t] = "waiting"
                  /\ wpc'[Owner(t)] \in InTrial => status'[t] = "running"
                  /\ wpc'[Owner(t)] = "catch" => status'[t] \in Unwinds
  <2>1. CASE t = wtrial[w]
    <3>1. Owner(t) = w /\ ~(t < wtrial[Owner(t)]) /\ ~(t > wtrial[Owner(t)])
      BY <2>1, Constants DEF LoopInv
    <3>2. status'[t] = s /\ wpc'[Owner(t)] = l
      BY <2>1, <3>1, <1>3, <1>4
    <3> QED  BY <3>1, <3>2 DEF InTrial
  <2>2. CASE t # wtrial[w]
    <3>1. status'[t] = status[t]
      BY <2>2, <1>4
    <3>2. t = wtrial[Owner(t)] => wpc'[Owner(t)] = wpc[Owner(t)]
      BY <2>2, <1>1, <1>3
    <3> QED  BY <3>1, <3>2 DEF LoopInv
  <2> QED  BY <2>1, <2>2
<1> QED  BY <1>5, <1>6, <1>7 DEF LoopInv, Owner

\* The end of a trial: the worker goes on with its next one.
LEMMA StepToNextTrial ==
  ASSUME TypeOK, LoopInv, NEW w \in Workers, wtrial[w] \in Trials,
         NEW s \in {"selected"} \cup Unwinds,
         wtrial' = [wtrial EXCEPT ![w] = @ + NumWorkers],
         wpc' = [wpc EXCEPT ![w] = "next"],
         wpc[w] # "next",
         status' = [status EXCEPT ![wtrial[w]] = s]
  PROVE  LoopInv'
<1>1. \A t \in Trials : Owner(t) \in Workers
  BY Owners, Constants DEF Owner
<1>2. \A v \in Workers : wtrial[v] = wtrial[w] => v = w
  BY DEF LoopInv
<1>3. \A v \in Workers : /\ wpc'[v] = IF v = w THEN "next" ELSE wpc[v]
                         /\ wtrial'[v] = IF v = w THEN wtrial[w] + NumWorkers ELSE wtrial[v]
  BY DEF TypeOK
<1>4. \A t \in Trials : status'[t] = IF t = wtrial[w] THEN s ELSE status[t]
  BY DEF TypeOK
<1>5. ASSUME NEW v \in Workers PROVE Owner(wtrial'[v]) = v
  <2>1. wtrial[v] \in Nat /\ Owner(wtrial[v]) = v
    BY DEF TypeOK, LoopInv
  <2>2. Owner(wtrial[v] + NumWorkers) = v
    BY <2>1, StrideKeepsOwner, Constants DEF Owner
  <2> QED  BY <2>1, <2>2, <1>3
<1>6. ASSUME NEW v \in Workers, wpc'[v] # "next" PROVE wtrial'[v] \in Trials
  BY <1>6, <1>3 DEF LoopInv
<1>7. ASSUME NEW t \in Trials
      PROVE  /\ t < wtrial'[Owner(t)] => status'[t] \in {"selected"} \cup Unwinds
             /\ t > wtrial'[Owner(t)] => status'[t] = "waiting"
             /\ t = wtrial'[Owner(t)] =>
                  /\ wpc'[Owner(t)] = "next" => status'[t] = "waiting"
                  /\ wpc'[Owner(t)] \in InTrial => status'[t] = "running"
                  /\ wpc'[Owner(t)] = "catch" => status'[t] \in Unwinds
  <2>1. CASE Owner(t) # w
    <3>1. t # wtrial[w]
      BY <2>1 DEF LoopInv
    <3> QED  BY <2>1, <3>1, <1>1, <1>3, <1>4 DEF LoopInv
  <2>2. CASE Owner(t) = w
    <3>1. wtrial[w] \in Nat /\ t \in Nat /\ t % NumWorkers = wtrial[w] % NumWorkers
      BY <2>2, Constants DEF LoopInv, Owner
    <3>2. wtrial[w] < t => wtrial[w] + NumWorkers <= t
      BY <3>1, StrideApart, Constants
    <3>3. wtrial'[Owner(t)] = wtrial[w] + NumWorkers /\ wpc'[Owner(t)] = "next"
      BY <2>2, <1>3
    <3>4. CASE t < wtrial[w] + NumWorkers
      <4>1. t < wtrial[w] \/ t = wtrial[w]
        BY <3>1, <3>2, <3>4, Constants
      <4>2. status'[t] \in {"selected"} \cup Unwinds
        BY <4>1, <2>2, <1>4 DEF LoopInv
      <4> QED  BY <3>1, <3>3, <3>4, <4>2, Constants DEF InTrial
    <3>5. CASE ~(t < wtrial[w] + NumWorkers)
      <4>1. t > wtrial[w] /\ t # wtrial[w]
        BY <3>1, <3>5, Constants
      <4>2. status'[t] = "waiting"
        BY <4>1, <2>2, <1>4 DEF LoopInv
      <4> QED  BY <3>3, <3>5, <4>2 DEF InTrial
    <3> QED  BY <3>4, <3>5
  <2> QED  BY <2>1, <2>2
<1> QED  BY <1>5, <1>6, <1>7 DEF LoopInv, Owner

(***************************************************************************)
(* Where a step can happen: facts about the trial a worker is in.          *)
(***************************************************************************)
\* Cancellation and the owner's side leave the loops alone.
LEMMA LoopsAlone ==
  ASSUME LoopInv, UNCHANGED <<wpc, wtrial, status>>
  PROVE  LoopInv'
  BY DEF LoopInv, Owner

LEMMA LoopStep ==
  ASSUME TypeOK, LoopInv, [Next]_vars
  PROVE  LoopInv'
<1>1. ASSUME NEW w \in Workers, BeginTrial(w) PROVE LoopInv'
  <2>1. wtrial[w] \in Trials
    BY <1>1, Constants DEF BeginTrial, TypeOK, Trials
  <2> QED  BY <1>1, <2>1, StepInTrial DEF BeginTrial, Goto, Mark, InTrial, Unwinds
<1>2. ASSUME NEW w \in Workers, PollTrial(w) PROVE LoopInv'
  <2>1. wtrial[w] \in Trials /\ status[wtrial[w]] = "running" /\ w = Owner(wtrial[w])
    BY <1>2 DEF PollTrial, LoopInv, InTrial
  <2>2. UNCHANGED status => status' = [status EXCEPT ![wtrial[w]] = "running"]
    BY <2>1 DEF TypeOK
  <2> QED  BY <1>2, <2>1, <2>2, StepInTrial DEF PollTrial, Goto, Mark, InTrial, Unwinds
<1>3. ASSUME NEW w \in Workers, EndSearch(w) PROVE LoopInv'
  <2>1. wtrial[w] \in Trials /\ status[wtrial[w]] = "running" /\ w = Owner(wtrial[w])
    BY <1>3 DEF EndSearch, LoopInv, InTrial
  <2>2. UNCHANGED status => status' = [status EXCEPT ![wtrial[w]] = "running"]
    BY <2>1 DEF TypeOK
  <2> QED  BY <1>3, <2>1, <2>2, StepInTrial DEF EndSearch, Goto, Mark, InTrial, Unwinds
<1>4. ASSUME NEW w \in Workers, RecordTrial(w) PROVE LoopInv'
  <2>1. wtrial[w] \in Trials /\ status[wtrial[w]] = "running" /\ w = Owner(wtrial[w])
    BY <1>4 DEF RecordTrial, LoopInv, InTrial
  <2>2. UNCHANGED status => status' = [status EXCEPT ![wtrial[w]] = "running"]
    BY <2>1 DEF TypeOK
  <2> QED  BY <1>4, <2>1, <2>2, StepInTrial DEF RecordTrial, Goto, InTrial
<1>5. ASSUME NEW w \in Workers, WriteTrial(w) PROVE LoopInv'
  <2>1. wtrial[w] \in Trials /\ status[wtrial[w]] = "running" /\ w = Owner(wtrial[w])
    BY <1>5 DEF WriteTrial, LoopInv, InTrial
  <2>2. UNCHANGED status => status' = [status EXCEPT ![wtrial[w]] = "running"]
    BY <2>1 DEF TypeOK
  <2> QED  BY <1>5, <2>1, <2>2, StepInTrial DEF WriteTrial, Goto, Mark, InTrial, Unwinds
<1>6. ASSUME NEW w \in Workers, SelectTrial(w) PROVE LoopInv'
  <2>1. wtrial[w] \in Trials /\ wpc[w] # "next"
    BY <1>6 DEF SelectTrial, LoopInv
  <2> QED  BY <1>6, <2>1, StepToNextTrial DEF SelectTrial, Goto, Mark
<1>7. ASSUME NEW w \in Workers, CatchTrial(w) PROVE LoopInv'
  <2>1. /\ wtrial[w] \in Trials /\ wpc[w] # "next"
        /\ status[wtrial[w]] \in Unwinds /\ w = Owner(wtrial[w])
    BY <1>7 DEF CatchTrial, LoopInv
  <2>2. status' = [status EXCEPT ![wtrial[w]] = status[wtrial[w]]]
    BY <1>7, <2>1 DEF CatchTrial, TypeOK
  <2> QED  BY <1>7, <2>1, <2>2, StepToNextTrial DEF CatchTrial, Goto
<1>8. CASE Join \/ Restore \/ RequestInterrupt \/ UNCHANGED vars
  BY <1>8, LoopsAlone DEF Join, Restore, RequestInterrupt, vars
<1> QED
  BY <1>1, <1>2, <1>3, <1>4, <1>5, <1>6, <1>7, <1>8 DEF Next, WorkerStep, Finished

LEMMA TypeStep ==
  ASSUME TypeOK, LoopInv, [Next]_vars
  PROVE  TypeOK'
<1> USE Constants
<1>1. ASSUME NEW w \in Workers, BeginTrial(w) PROVE TypeOK'
  <2>1. wtrial[w] \in Trials
    BY <1>1 DEF BeginTrial, TypeOK, Trials
  <2>2. [seed |-> TrialSeed(BaseSeed, wtrial[w]),
         dangling |-> danglingSum[w] + DanglingFlow,
         start |-> StartOf(WorkerStarts)]
          \in [seed : Int, dangling : Nat, start : StartSources \cup {"none"}]
    BY <2>1, SeedType, StartType, ParallelAssumption DEF TypeOK
  <2>3. danglingSum' \in [Workers -> Nat]
    BY <1>1, ParallelAssumption DEF BeginTrial, TypeOK
  <2>4. input' \in [Trials -> [seed : Int, dangling : Nat, start : StartSources \cup {"none"}]]
    BY <1>1, <2>2 DEF BeginTrial, TypeOK
  <2> QED  BY <1>1, <2>3, <2>4 DEF BeginTrial, TypeOK, Goto, Mark
<1>2. ASSUME NEW w \in Workers, PollTrial(w) PROVE TypeOK'
  BY <1>2 DEF PollTrial, TypeOK, Goto, Mark
<1>3. ASSUME NEW w \in Workers, EndSearch(w) PROVE TypeOK'
  <2>1. wtrial[w] \in Trials
    BY <1>3 DEF EndSearch, LoopInv
  <2>2. found' \in [Workers -> Codelengths \cup {MaxLength}]
    BY <1>3, <2>1 DEF EndSearch, TypeOK
  <2> QED  BY <1>3, <2>2 DEF EndSearch, TypeOK, Goto, Mark
<1>4. ASSUME NEW w \in Workers, RecordTrial(w) PROVE TypeOK'
  BY <1>4 DEF RecordTrial, TypeOK, Goto
<1>5. ASSUME NEW w \in Workers, WriteTrial(w) PROVE TypeOK'
  <2>1. wtrial[w] \in Trials
    BY <1>5 DEF WriteTrial, LoopInv
  <2> QED  BY <1>5, <2>1 DEF WriteTrial, TypeOK, Goto, Mark
<1>6. ASSUME NEW w \in Workers, SelectTrial(w) PROVE TypeOK'
  <2>1. wtrial[w] \in Trials
    BY <1>6 DEF SelectTrial, LoopInv
  <2>2. best' \in [index : Trials, length : Codelengths \cup {MaxLength}]
    BY <1>6, <2>1 DEF SelectTrial, SelectBest, TypeOK
  <2>3. wtrial' \in [Workers -> Nat]
    BY <1>6 DEF SelectTrial, TypeOK
  <2> QED  BY <1>6, <2>2, <2>3 DEF SelectTrial, TypeOK, Goto, Mark
<1>7. ASSUME NEW w \in Workers, CatchTrial(w) PROVE TypeOK'
  <2>1. wtrial[w] \in Trials
    BY <1>7 DEF CatchTrial, LoopInv
  <2>2. err' \in [has : BOOLEAN, trial : Trials]
    BY <1>7, <2>1 DEF CatchTrial, RecordError, TypeOK
  <2>3. wtrial' \in [Workers -> Nat]
    BY <1>7 DEF CatchTrial, TypeOK
  <2> QED  BY <1>7, <2>2, <2>3 DEF CatchTrial, TypeOK, Goto
<1>8. CASE Join
  <2>1. [k \in 1..NumTrials |-> lengths[k - 1]] \in [1..NumTrials -> Codelengths \cup {MaxLength}]
    BY DEF TypeOK, Trials
  <2> QED  BY <1>8, <2>1 DEF Join, AfterRegion, TypeOK
<1>9. CASE Restore
  <2>1. best.index \in Trials
    BY DEF TypeOK
  <2>2. files' \in [Paths -> Trials \cup {NoFile}] /\ tree' \in Trials
    BY <1>9, <2>1 DEF Restore, RestoredTree, TypeOK
  <2> QED  BY <1>9, <2>2 DEF Restore, TypeOK
<1>10. CASE RequestInterrupt
  BY <1>10 DEF RequestInterrupt, TypeOK
<1>11. CASE UNCHANGED vars
  BY <1>11 DEF vars, TypeOK
<1> QED
  BY <1>1, <1>2, <1>3, <1>4, <1>5, <1>6, <1>7, <1>8, <1>9, <1>10, <1>11
  DEF Next, WorkerStep, Finished

LEMMA InitTypes == Init => TypeOK /\ LoopInv
<1> SUFFICES ASSUME Init PROVE TypeOK /\ LoopInv
  OBVIOUS
<1> USE Constants
<1>1. TypeOK
  <2>1. wtrial \in [Workers -> Nat] /\ NoBest \in [index : Trials, length : {MaxLength}]
    BY DEF Init, NoBest
  <2>2. NoInput \in [seed : Int, dangling : Nat, start : {"none"}]
    BY DEF NoInput
  <2>3. err \in [has : BOOLEAN, trial : Trials]
    BY DEF Init
  <2>4. input \in [Trials -> [seed : Int, dangling : Nat, start : StartSources \cup {"none"}]]
    BY <2>2 DEF Init
  <2> QED  BY <2>1, <2>3, <2>4 DEF Init, TypeOK
<1>2. LoopInv
  <2>1. \A w \in Workers : wtrial[w] = w /\ wpc[w] = "next" /\ Owner(wtrial[w]) = w
    BY Owners DEF Init, Owner
  <2>2. \A t \in Trials : t % NumWorkers \in Workers
    BY Owners
  <2>3. ASSUME NEW t \in Trials
        PROVE  wtrial[Owner(t)] <= t /\ wpc[Owner(t)] = "next" /\ status[t] = "waiting"
    <3>1. t % NumWorkers <= t
      <4>1. PICK q \in Nat : t = NumWorkers * q + (t % NumWorkers)
        BY Division
      <4>2. NumWorkers * q \in Nat /\ t % NumWorkers \in Nat
        BY <2>2
      <4> QED  BY <4>1, <4>2
    <3> QED  BY <2>1, <2>2, <3>1 DEF Init, Owner
  <2>4. \A t \in Trials : wtrial[Owner(t)] \in Nat
    BY <1>1, <2>2 DEF TypeOK, Owner
  <2> QED  BY <2>1, <2>3, <2>4 DEF LoopInv, InTrial
<1> QED  BY <1>1, <1>2

\* What a worker that is inside a trial knows of it.
LEMMA InsideTrial ==
  ASSUME TypeOK, LoopInv, NEW w \in Workers, wpc[w] # "next"
  PROVE  /\ wtrial[w] \in Trials
         /\ wpc[w] \in InTrial => status[wtrial[w]] = "running"
         /\ wpc[w] = "catch" => status[wtrial[w]] \in Unwinds
         /\ Owner(wtrial[w]) = w
         /\ \A v \in Workers : wtrial[v] = wtrial[w] => v = w
  BY DEF LoopInv

\* A trial that begins has not run.
LEMMA FreshTrial ==
  ASSUME TypeOK, LoopInv, NEW w \in Workers, wpc[w] = "next", wtrial[w] < NumTrials
  PROVE  wtrial[w] \in Trials /\ status[wtrial[w]] = "waiting"
<1>1. wtrial[w] \in Trials /\ Owner(wtrial[w]) = w
  BY Constants DEF TypeOK, LoopInv, Trials
<1> QED  BY <1>1 DEF LoopInv

(***************************************************************************)
(* TypeOK: no worker leaves the range of the trials, in particular the     *)
(* shared vector is never written outside, whatever the number of threads. *)
(***************************************************************************)
THEOREM TypeCorrect == Spec => [](TypeOK /\ LoopInv)
<1>1. TypeOK /\ LoopInv /\ [Next]_vars => (TypeOK /\ LoopInv)'
  BY LoopStep, TypeStep
<1> QED  BY InitTypes, <1>1, PTL DEF Spec

(***************************************************************************)
(* The lengths a worker has found and recorded.                            *)
(***************************************************************************)
LengthInv ==
  /\ \A w \in Workers : wpc[w] \in {"record", "output", "select"} => found[w] \in Codelengths
  /\ \A w \in Workers : wpc[w] \in {"output", "select"} => lengths[wtrial[w]] = found[w]
  /\ \A t \in Selected : lengths[t] \in Codelengths

LEMMA LengthStep ==
  ASSUME TypeOK, LoopInv, LengthInv, [Next]_vars
  PROVE  LengthInv'
<1>1. ASSUME NEW w \in Workers, BeginTrial(w) PROVE LengthInv'
  <2>1. Selected' = Selected
    BY <1>1, FreshTrial DEF BeginTrial, Selected, Mark, TypeOK
  <2> QED  BY <1>1, <2>1 DEF BeginTrial, Goto, LengthInv, TypeOK
<1>2. ASSUME NEW w \in Workers, PollTrial(w) PROVE LengthInv'
  <2>1. Selected' = Selected
    BY <1>2, InsideTrial DEF PollTrial, Selected, Mark, TypeOK, InTrial
  <2> QED  BY <1>2, <2>1 DEF PollTrial, Goto, LengthInv, TypeOK
<1>3. ASSUME NEW w \in Workers, EndSearch(w) PROVE LengthInv'
  <2>1. Selected' = Selected
    BY <1>3, InsideTrial DEF EndSearch, Selected, Mark, TypeOK, InTrial
  <2>2. wpc'[w] = "record" => found'[w] \in Codelengths
    <3>1. wtrial[w] \in Trials
      BY <1>3, InsideTrial DEF EndSearch
    <3>2. lengthOf[wtrial[w]] \in Codelengths
      BY <3>1 DEF TypeOK
    <3> QED  BY <1>3, <3>2 DEF EndSearch, Goto, TypeOK
  <2>3. wpc'[w] \in {"record", "catch"} /\ lengths' = lengths /\ wtrial' = wtrial
    BY <1>3 DEF EndSearch, Goto, TypeOK
  <2>4. \A v \in Workers : v # w => wpc'[v] = wpc[v] /\ found'[v] = found[v]
    BY <1>3 DEF EndSearch, Goto, TypeOK
  <2> QED  BY <2>1, <2>2, <2>3, <2>4 DEF LengthInv
<1>4. ASSUME NEW w \in Workers, RecordTrial(w) PROVE LengthInv'
  <2>1. /\ wtrial[w] \in Trials /\ status[wtrial[w]] = "running"
        /\ \A v \in Workers : wtrial[v] = wtrial[w] => v = w
    BY <1>4, InsideTrial DEF RecordTrial, InTrial
  <2>2. \A t \in Trials : lengths'[t] = IF t = wtrial[w] THEN found[w] ELSE lengths[t]
    BY <1>4 DEF RecordTrial, TypeOK
  <2>3. \A v \in Workers : wpc'[v] \in {"output", "select"} => v = w \/ wpc'[v] = wpc[v]
    BY <1>4 DEF RecordTrial, Goto, TypeOK
  <2>4. \A v \in Workers : wpc'[v] \in {"output", "select"} => lengths'[wtrial[v]] = found[v]
    <3> TAKE v \in Workers
    <3> HAVE wpc'[v] \in {"output", "select"}
    <3>1. CASE v = w
      BY <2>1, <2>2, <3>1
    <3>2. CASE v # w
      <4>1. wpc[v] \in {"output", "select"} /\ wpc[v] # "next"
        BY <2>3, <3>2
      <4>2. wtrial[v] \in Trials /\ wtrial[v] # wtrial[w]
        BY <2>1, <3>2, <4>1, InsideTrial
      <4> QED  BY <2>2, <4>1, <4>2 DEF LengthInv
    <3> QED  BY <3>1, <3>2
  <2>5. \A t \in Selected : lengths'[t] \in Codelengths
    BY <2>1, <2>2 DEF LengthInv, Selected
  <2>6. \A v \in Workers : wpc'[v] \in {"record", "output", "select"} => found[v] \in Codelengths
    BY <1>4 DEF RecordTrial, Goto, LengthInv, TypeOK
  <2>7. Selected' = Selected /\ found' = found /\ wtrial' = wtrial
    BY <1>4 DEF RecordTrial, Selected
  <2> QED  BY <2>4, <2>5, <2>6, <2>7 DEF LengthInv
<1>5. ASSUME NEW w \in Workers, WriteTrial(w) PROVE LengthInv'
  <2>1. Selected' = Selected
    BY <1>5, InsideTrial DEF WriteTrial, Selected, Mark, TypeOK, InTrial
  <2> QED  BY <1>5, <2>1 DEF WriteTrial, Goto, LengthInv, TypeOK
<1>6. ASSUME NEW w \in Workers, SelectTrial(w) PROVE LengthInv'
  <2>1. wtrial[w] \in Trials
    BY <1>6, InsideTrial DEF SelectTrial
  <2>2. Selected' = Selected \cup {wtrial[w]}
    BY <1>6, <2>1 DEF SelectTrial, Selected, Mark, TypeOK
  <2>3. lengths[wtrial[w]] \in Codelengths
    BY <1>6 DEF SelectTrial, LengthInv
  <2>4. \A v \in Workers : wpc'[v] # "next" => wpc'[v] = wpc[v] /\ wtrial'[v] = wtrial[v]
    BY <1>6 DEF SelectTrial, Goto, TypeOK
  <2> QED  BY <1>6, <2>2, <2>3, <2>4 DEF SelectTrial, LengthInv
<1>7. ASSUME NEW w \in Workers, CatchTrial(w) PROVE LengthInv'
  <2>1. \A v \in Workers : wpc'[v] # "next" => wpc'[v] = wpc[v] /\ wtrial'[v] = wtrial[v]
    BY <1>7 DEF CatchTrial, Goto, TypeOK
  <2>2. Selected' = Selected
    BY <1>7 DEF CatchTrial, Selected
  <2> QED  BY <1>7, <2>1, <2>2 DEF CatchTrial, LengthInv
<1>8. CASE Join \/ Restore \/ RequestInterrupt \/ UNCHANGED vars
  BY <1>8 DEF Join, Restore, RequestInterrupt, vars, LengthInv, Selected
<1> QED
  BY <1>1, <1>2, <1>3, <1>4, <1>5, <1>6, <1>7, <1>8 DEF Next, WorkerStep, Finished

(***************************************************************************)
(* The best result changes in SelectTrial only.                            *)
(***************************************************************************)
\* The comparison that keeps the first minimum, if codelengths are equal or
\* further apart than the tolerance.
LEMMA SelectKeepsMinimum ==
  ASSUME Separated, TypeOK, LoopInv, LengthInv, BestIsFirstMinimum,
         NEW w \in Workers, SelectTrial(w)
  PROVE  BestIsFirstMinimum'
<1> DEFINE t == wtrial[w]
           c == found[w]
<1>1. /\ t \in Trials /\ status[t] = "running" /\ t \notin Selected
      /\ c = lengths[t] /\ c \in Codelengths
  BY InsideTrial DEF SelectTrial, LengthInv, InTrial, Selected
<1>2. Selected' = Selected \cup {t} /\ Selected' # {}
  BY <1>1 DEF SelectTrial, Selected, Mark, TypeOK
<1>3. /\ best.index \in Trials /\ Trials \subseteq Nat /\ ~(best.index >= NumTrials)
      /\ Selected \subseteq Trials
  BY Constants DEF TypeOK, Trials, Selected
<1>4. best' = IF IsBetter(c, best) \/ IsEarlierTie(c, t, best)
                THEN [index |-> t, length |-> c] ELSE best
  BY <1>3 DEF SelectTrial, SelectBest
<1>5. /\ Eps \in Nat \ {0} /\ MaxLength \in Int /\ Codelengths \subseteq Int
      /\ c < MaxLength - Eps
  BY <1>1, CodelengthAssumption
<1>6. lengths' = lengths
  BY DEF SelectTrial
<1>9. t \in Nat /\ \A u \in Trials : u \in Nat
  BY <1>1, <1>3
<1>7. CASE Selected = {}
  <2>1. best' = [index |-> t, length |-> c]
    BY <1>4, <1>5, <1>7 DEF BestIsFirstMinimum, NoBest, IsBetter
  <2> QED
    BY <1>1, <1>2, <1>6, <1>7, <1>9, <2>1 DEF BestIsFirstMinimum, IsFirstMinimum
<1>8. CASE Selected # {}
  <2> DEFINE b == best.index
  <2>1. /\ b = best.index /\ b \in Selected /\ best.length = lengths[b] /\ best.length \in Codelengths
        /\ \A u \in Selected :
             /\ lengths[u] \in Codelengths
             /\ (lengths[b] < lengths[u] \/ (lengths[b] = lengths[u] /\ b <= u))
    BY <1>8 DEF BestIsFirstMinimum, IsFirstMinimum, LengthInv
  <2>2. c = lengths[b] \/ c < lengths[b] - Eps \/ lengths[b] < c - Eps
    BY <1>1, <2>1 DEF Separated
  <2>5. /\ c \in Int /\ b \in Nat /\ lengths[b] \in Int
        /\ \A u \in Selected : u \in Nat /\ lengths[u] \in Int
    BY <1>1, <1>3, <1>5, <1>9, <2>1
  <2> HIDE DEF b, c, t
  <2>3. CASE IsBetter(c, best) \/ IsEarlierTie(c, t, best)
    <3>1. best' = [index |-> t, length |-> c]
      BY <1>4, <2>3
    <3>2. c < lengths[b] \/ (c = lengths[b] /\ t < b)
      BY <2>1, <2>2, <2>3, <2>5, <1>5, <1>9 DEF IsBetter, IsEarlierTie
    <3>3. \A u \in Selected : c < lengths[u] \/ (c = lengths[u] /\ t <= u)
      BY <1>9, <2>1, <2>5, <3>2
    <3>4. t <= t
      BY <1>9
    <3> QED
      BY <1>1, <1>2, <1>6, <3>1, <3>3, <3>4 DEF BestIsFirstMinimum, IsFirstMinimum
  <2>4. CASE ~(IsBetter(c, best) \/ IsEarlierTie(c, t, best))
    <3>1. best' = best
      BY <1>4, <2>4
    <3>2. lengths[b] < c \/ (lengths[b] = c /\ b <= t)
      BY <1>1, <1>5, <1>9, <2>1, <2>2, <2>4, <2>5 DEF IsBetter, IsEarlierTie
    <3> QED
      BY <1>1, <1>2, <1>6, <2>1, <3>1, <3>2 DEF BestIsFirstMinimum, IsFirstMinimum
  <2> QED  BY <2>3, <2>4
<1> QED  BY <1>7, <1>8

LEMMA BestStep ==
  ASSUME Separated, TypeOK, LoopInv, LengthInv, BestIsFirstMinimum, [Next]_vars
  PROVE  BestIsFirstMinimum'
<1>1. ASSUME Selected' = Selected, best' = best, \A t \in Selected : lengths'[t] = lengths[t]
      PROVE  BestIsFirstMinimum'
  BY <1>1 DEF BestIsFirstMinimum, IsFirstMinimum
<1>2. ASSUME NEW w \in Workers, BeginTrial(w) PROVE BestIsFirstMinimum'
  BY <1>1, <1>2, FreshTrial DEF BeginTrial, Selected, Mark, TypeOK
<1>3. ASSUME NEW w \in Workers, PollTrial(w) \/ EndSearch(w) \/ WriteTrial(w)
      PROVE  BestIsFirstMinimum'
  <2>1. wtrial[w] \in Trials /\ status[wtrial[w]] = "running"
    BY <1>3, InsideTrial DEF PollTrial, EndSearch, WriteTrial, InTrial
  <2>2. best' = best /\ lengths' = lengths
    BY <1>3 DEF PollTrial, EndSearch, WriteTrial
  <2>3. \/ status' = status
        \/ \E s \in Unwinds : status' = [status EXCEPT ![wtrial[w]] = s]
    BY <1>3 DEF PollTrial, EndSearch, WriteTrial, Mark, Unwinds
  <2>4. Selected' = Selected
    BY <2>1, <2>3 DEF Selected, TypeOK, Unwinds
  <2> QED  BY <1>1, <2>2, <2>4
<1>4. ASSUME NEW w \in Workers, RecordTrial(w) PROVE BestIsFirstMinimum'
  <2>1. wtrial[w] \notin Selected
    BY <1>4, InsideTrial DEF RecordTrial, InTrial, Selected
  <2>2. \A t \in Selected : lengths'[t] = lengths[t]
    BY <1>4, <2>1 DEF RecordTrial, Selected, TypeOK
  <2> QED  BY <1>1, <1>4, <2>2 DEF RecordTrial, Selected
<1>5. ASSUME NEW w \in Workers, SelectTrial(w) PROVE BestIsFirstMinimum'
  BY <1>5, SelectKeepsMinimum
<1>6. ASSUME NEW w \in Workers, CatchTrial(w) PROVE BestIsFirstMinimum'
  BY <1>1, <1>6 DEF CatchTrial, Selected
<1>7. CASE Join \/ Restore \/ RequestInterrupt \/ UNCHANGED vars
  BY <1>1, <1>7 DEF Join, Restore, RequestInterrupt, vars, Selected
<1> QED
  BY <1>2, <1>3, <1>4, <1>5, <1>6, <1>7 DEF Next, WorkerStep, Finished

(***************************************************************************)
(* BestIsFirstMinimum: whatever order the workers reach the mutex in, they *)
(* keep the lowest codelength and, of equal ones, the lowest trial.  The   *)
(* tie rule needs codelengths that are equal or further apart than the     *)
(* tolerance of the comparison.                                            *)
(***************************************************************************)
THEOREM BestCorrect ==
  ASSUME Separated
  PROVE  Spec => []BestIsFirstMinimum
<1>1. Init => LengthInv /\ BestIsFirstMinimum
  BY DEF Init, LengthInv, BestIsFirstMinimum, Selected
<1>2. /\ TypeOK /\ LoopInv
      /\ LengthInv /\ BestIsFirstMinimum /\ [Next]_vars
      => (LengthInv /\ BestIsFirstMinimum)'
  BY LengthStep, BestStep
<1> QED  BY TypeCorrect, <1>1, <1>2, PTL DEF Spec

(***************************************************************************)
(* The error record: an unwound trial whose worker has left the handler is *)
(* in it or behind it, and an interrupted trial saw the flag.              *)
(***************************************************************************)
ErrorInv ==
  /\ \A t \in Unwound :
       \/ t = wtrial[Owner(t)] /\ wpc[Owner(t)] = "catch"
       \/ err.has /\ err.trial <= t
  /\ err.has => err.trial \in Unwound
  /\ \A t \in Trials : status[t] = "interrupted" => cancel

\* A step that unwinds nothing and catches nothing.
LEMMA NothingUnwound ==
  ASSUME TypeOK, LoopInv, ErrorInv, Unwound' = Unwound, err' = err, wtrial' = wtrial,
         \A w \in Workers : wpc[w] = "catch" => wpc'[w] = "catch",
         \A t \in Trials : status'[t] = "interrupted" => status[t] = "interrupted",
         cancel => cancel'
  PROVE  ErrorInv'
  <1>1. \A t \in Trials : Owner(t) \in Workers
    BY Owners, Constants DEF Owner
  <1> QED  BY <1>1 DEF ErrorInv, Owner, Unwound

\* A step that sends a trial to the handler.
LEMMA TrialUnwinds ==
  ASSUME TypeOK, LoopInv, ErrorInv, NEW w \in Workers, wtrial[w] \in Trials,
         NEW s \in Unwinds, s = "interrupted" => cancel,
         status' = [status EXCEPT ![wtrial[w]] = s],
         wpc' = [wpc EXCEPT ![w] = "catch"],
         err' = err, wtrial' = wtrial, cancel' = cancel
  PROVE  ErrorInv'
<1>1. \A t \in Trials : status'[t] = IF t = wtrial[w] THEN s ELSE status[t]
  BY DEF TypeOK
<1>2. Unwound' = Unwound \cup {wtrial[w]}
  BY <1>1 DEF Unwound, Unwinds
<1>3. Owner(wtrial[w]) = w /\ wpc'[w] = "catch"
  BY DEF LoopInv, TypeOK
<1>4. \A v \in Workers : wpc[v] = "catch" => wpc'[v] = "catch"
  BY DEF TypeOK
<1>5. \A t \in Trials : Owner(t) \in Workers
  BY Owners, Constants DEF Owner
<1>6. \A t \in Unwound' :
        \/ t = wtrial[Owner(t)] /\ wpc'[Owner(t)] = "catch"
        \/ err.has /\ err.trial <= t
  BY <1>2, <1>3, <1>4, <1>5 DEF ErrorInv, Unwound
<1> QED  BY <1>1, <1>2, <1>6 DEF ErrorInv, Owner

LEMMA ErrorStep ==
  ASSUME TypeOK, LoopInv, ErrorInv, [Next]_vars
  PROVE  ErrorInv'
<1>1. ASSUME NEW w \in Workers, BeginTrial(w) PROVE ErrorInv'
  <2>1. wtrial[w] \in Trials /\ status[wtrial[w]] = "waiting" /\ wpc[w] = "next"
    BY <1>1, FreshTrial DEF BeginTrial
  <2>2. CASE Mark(wtrial[w], "running") /\ Goto(w, "poll")
    BY <1>1, <2>1, <2>2, NothingUnwound DEF BeginTrial, Mark, Goto, Unwound, TypeOK
  <2>3. CASE Mark(wtrial[w], "failed") /\ Goto(w, "catch")
    BY <1>1, <2>1, <2>3, TrialUnwinds DEF BeginTrial, Mark, Goto, Unwinds
  <2> QED  BY <1>1, <2>2, <2>3 DEF BeginTrial
<1>2. ASSUME NEW w \in Workers, PollTrial(w) \/ EndSearch(w) \/ WriteTrial(w) \/ RecordTrial(w)
      PROVE  ErrorInv'
  <2>1. wtrial[w] \in Trials /\ wpc[w] # "catch"
    BY <1>2, InsideTrial DEF PollTrial, EndSearch, WriteTrial, RecordTrial
  <2>2. err' = err /\ wtrial' = wtrial /\ cancel' = cancel
    BY <1>2 DEF PollTrial, EndSearch, WriteTrial, RecordTrial
  <2>3. \/ status' = status /\ \A v \in Workers : wpc[v] = "catch" => wpc'[v] = "catch"
        \/ \E s \in Unwinds : /\ status' = [status EXCEPT ![wtrial[w]] = s]
                              /\ wpc' = [wpc EXCEPT ![w] = "catch"]
                              /\ s = "interrupted" => cancel
    <3>1. ASSUME PollTrial(w) PROVE <2>3!1 \/ <2>3!2
      BY <3>1, <2>1 DEF PollTrial, Mark, Goto, Unwinds, TypeOK
    <3>2. ASSUME EndSearch(w) PROVE <2>3!1 \/ <2>3!2
      BY <3>2, <2>1 DEF EndSearch, Mark, Goto, Unwinds, TypeOK
    <3>3. ASSUME WriteTrial(w) PROVE <2>3!1 \/ <2>3!2
      BY <3>3, <2>1 DEF WriteTrial, Mark, Goto, Unwinds, TypeOK
    <3>4. ASSUME RecordTrial(w) PROVE <2>3!1 \/ <2>3!2
      BY <3>4, <2>1 DEF RecordTrial, Goto, TypeOK
    <3> QED  BY <1>2, <3>1, <3>2, <3>3, <3>4
  <2> QED  BY <2>1, <2>2, <2>3, NothingUnwound, TrialUnwinds DEF Unwound
<1>3. ASSUME NEW w \in Workers, SelectTrial(w) PROVE ErrorInv'
  <2>1. /\ wtrial[w] \in Trials /\ status[wtrial[w]] = "running" /\ Owner(wtrial[w]) = w
        /\ wpc[w] # "catch"
    BY <1>3, InsideTrial DEF SelectTrial, InTrial
  <2>2. \A t \in Trials : status'[t] = IF t = wtrial[w] THEN "selected" ELSE status[t]
    BY <1>3 DEF SelectTrial, Mark, TypeOK
  <2>3. Unwound' = Unwound
    BY <2>1, <2>2 DEF Unwound
  <2>4. \A v \in Workers : wpc[v] = "catch" => wpc'[v] = "catch" /\ wtrial'[v] = wtrial[v]
    BY <1>3 DEF SelectTrial, Goto, TypeOK
  <2>5. \A t \in Trials : Owner(t) \in Workers
    BY Owners, Constants DEF Owner
  <2> QED  BY <1>3, <2>2, <2>3, <2>4, <2>5 DEF SelectTrial, ErrorInv, Owner, Unwound
<1>4. ASSUME NEW w \in Workers, CatchTrial(w) PROVE ErrorInv'
  <2> DEFINE t == wtrial[w]
  <2>1. t \in Trials /\ t \in Unwound /\ Owner(t) = w
    BY <1>4, InsideTrial DEF CatchTrial, Unwound, Unwinds
  <2>2. /\ err.trial \in Nat /\ t \in Nat /\ \A u \in Trials : u \in Nat
        /\ Unwound \subseteq Trials
    BY <2>1, Constants DEF TypeOK, Unwound
  <2>3. Unwound' = Unwound /\ status' = status /\ cancel' = cancel
    BY <1>4 DEF CatchTrial, Unwound
  <2>4. \/ err' = [has |-> TRUE, trial |-> t] /\ (~err.has \/ t < err.trial)
        \/ err' = err /\ err.has /\ err.trial <= t
    BY <1>4, <2>2 DEF CatchTrial, RecordError
  <2>5. \A v \in Workers : v # w => wpc'[v] = wpc[v] /\ wtrial'[v] = wtrial[v]
    BY <1>4 DEF CatchTrial, Goto, TypeOK
  <2>6. /\ err'.has /\ err'.trial <= t /\ err'.trial \in Unwound
        /\ (err.has => err'.trial <= err.trial) /\ err'.trial \in Nat
    BY <2>1, <2>2, <2>4 DEF ErrorInv
  <2>7. ASSUME NEW u \in Unwound
        PROVE  \/ u = wtrial'[Owner(u)] /\ wpc'[Owner(u)] = "catch"
               \/ err'.has /\ err'.trial <= u
    <3>1. u \in Trials /\ u \in Nat /\ Owner(u) \in Workers
      BY <2>2, Owners DEF Owner
    <3>2. CASE err.has /\ err.trial <= u
      BY <2>2, <2>6, <3>1, <3>2
    <3>3. CASE u = wtrial[Owner(u)] /\ wpc[Owner(u)] = "catch"
      <4>1. CASE Owner(u) = w
        BY <2>6, <3>3, <4>1
      <4>2. CASE Owner(u) # w
        BY <2>5, <3>1, <3>3, <4>2
      <4> QED  BY <4>1, <4>2
    <3> QED  BY <3>2, <3>3 DEF ErrorInv
  <2> QED  BY <2>3, <2>6, <2>7 DEF ErrorInv, Owner
<1>5. CASE Join \/ Restore \/ RequestInterrupt \/ UNCHANGED vars
  BY <1>5, NothingUnwound DEF Join, Restore, RequestInterrupt, vars, Unwound
<1> QED
  BY <1>1, <1>2, <1>3, <1>4, <1>5 DEF Next, WorkerStep, Finished

(***************************************************************************)
(* The owner thread: what holds at the barrier and after it.               *)
(***************************************************************************)
Published == [k \in 1..NumTrials |-> lengths[k - 1]]

OwnerInv ==
  /\ pc # "region" => \A w \in Workers : wpc[w] = "next" /\ wtrial[w] >= NumTrials
  /\ outcome = "running" <=> pc # "done"
  /\ pc = "summary" \/ outcome \in {"completed", "output_error"} =>
       Selected = Trials /\ codelengths = Published
  /\ outcome = "failed" => ~cancel /\ err.has
  /\ outcome = "completed" =>
       /\ tree = best.index
       /\ NoFinalOutput \/ files[Canonical] = tree

\* Once the barrier is passed every worker has left its loop.
LEMMA WorkersAreDone ==
  ASSUME TypeOK, OwnerInv, pc # "region", NEW w \in Workers
  PROVE  ~WorkerStep(w)
<1>1. wpc[w] = "next" /\ ~(wtrial[w] < NumTrials)
  BY Constants DEF OwnerInv, TypeOK
<1> QED
  BY <1>1 DEF WorkerStep, BeginTrial, PollTrial, EndSearch, RecordTrial, WriteTrial,
              SelectTrial, CatchTrial

\* At the barrier every trial was selected or is in the error record.
LEMMA AllTrialsEnded ==
  ASSUME TypeOK, LoopInv, ErrorInv,
         \A w \in Workers : wpc[w] = "next" /\ wtrial[w] >= NumTrials
  PROVE  /\ \A t \in Trials : status[t] \in {"selected"} \cup Unwinds
         /\ ~err.has => Selected = Trials
         /\ err.has => /\ err.trial \in Unwound
                       /\ \A t \in Unwound : err.trial <= t
<1>1. ASSUME NEW t \in Trials PROVE status[t] \in {"selected"} \cup Unwinds
  <2>1. Owner(t) \in Workers /\ t \in Nat /\ t < NumTrials
    BY Owners, Constants DEF Owner, Trials
  <2>2. wtrial[Owner(t)] \in Nat /\ wtrial[Owner(t)] >= NumTrials
    BY <2>1 DEF TypeOK
  <2>3. t < wtrial[Owner(t)]
    BY <2>1, <2>2, Constants
  <2> QED  BY <2>3 DEF LoopInv
<1>2. \A t \in Unwound : err.has /\ err.trial <= t
  BY Owners, Constants DEF ErrorInv, Unwound, Owner
<1>3. ~err.has => Selected = Trials
  BY <1>1, <1>2 DEF Selected, Unwound, Unwinds
<1> QED  BY <1>1, <1>2, <1>3 DEF ErrorInv

LEMMA OwnerStep ==
  ASSUME TypeOK, LoopInv, ErrorInv, OwnerInv, [Next]_vars
  PROVE  OwnerInv'
<1>1. ASSUME NEW w \in Workers, WorkerStep(w) PROVE OwnerInv'
  <2>1. pc = "region" /\ outcome = "running"
    BY <1>1, WorkersAreDone DEF OwnerInv
  <2>2. pc' = pc /\ outcome' = outcome
    BY <1>1 DEF WorkerStep, BeginTrial, PollTrial, EndSearch, RecordTrial, WriteTrial,
                SelectTrial, CatchTrial
  <2> QED  BY <2>1, <2>2 DEF OwnerInv
<1>2. CASE Join
  <2>1. \A w \in Workers : wpc[w] = "next" /\ wtrial[w] >= NumTrials
    BY <1>2 DEF Join
  <2>2. UNCHANGED <<wpc, wtrial, status, lengths, err, cancel>>
    BY <1>2 DEF Join
  <2>3. CASE AfterRegion = "running"
    <3>1. ~cancel /\ ~err.has
      BY <2>3 DEF AfterRegion, TypeOK
    <3>2. Selected = Trials
      BY <2>1, <3>1, AllTrialsEnded
    <3>3. pc' = "summary" /\ outcome' = "running" /\ codelengths' = Published
      BY <1>2, <2>3 DEF Join, Published
    <3> QED  BY <2>1, <2>2, <3>2, <3>3 DEF OwnerInv, Published, Selected
  <2>4. CASE AfterRegion # "running"
    <3>1. pc' = "done" /\ outcome' = AfterRegion /\ AfterRegion \in {"interrupted", "failed"}
      BY <1>2, <2>4 DEF Join, AfterRegion, TypeOK
    <3>2. AfterRegion = "failed" => ~cancel /\ err.has
      BY DEF AfterRegion
    <3> QED  BY <2>1, <2>2, <3>1, <3>2 DEF OwnerInv
  <2> QED  BY <2>3, <2>4
<1>3. CASE Restore
  <2>1. pc = "summary" /\ pc' = "done" /\ outcome' \in {"completed", "output_error"}
    BY <1>3 DEF Restore
  <2>2. UNCHANGED <<wpc, wtrial, status, lengths, err, cancel, best, codelengths>>
    BY <1>3 DEF Restore
  <2>3. tree' = best.index
    BY <1>3 DEF Restore, RestoredTree
  <2>4. outcome' = "completed" => NoFinalOutput \/ files'[Canonical] = best.index
    BY <1>3, Constants DEF Restore, TypeOK
  <2> QED  BY <2>1, <2>2, <2>3, <2>4 DEF OwnerInv, Published, Selected
<1>4. CASE RequestInterrupt
  BY <1>4 DEF RequestInterrupt, OwnerInv, Published, Selected
<1>5. CASE UNCHANGED vars
  BY <1>5 DEF vars, OwnerInv, Published, Selected
<1> QED
  BY <1>1, <1>2, <1>3, <1>4, <1>5 DEF Next, Finished

\* The part of the invariant that needs no assumption on codelengths or input.
ControlInv == TypeOK /\ LoopInv /\ LengthInv /\ ErrorInv /\ OwnerInv

LEMMA ControlInvariant == Spec => []ControlInv
<1>1. Init => LengthInv /\ ErrorInv /\ OwnerInv
  BY DEF Init, LengthInv, ErrorInv, OwnerInv, Selected, Unwound
<1>2. ControlInv /\ [Next]_vars => ControlInv'
  BY LoopStep, TypeStep, LengthStep, ErrorStep, OwnerStep DEF ControlInv
<1>3. Init => ControlInv
  BY InitTypes, <1>1 DEF ControlInv
<1> QED  BY <1>2, <1>3, PTL DEF Spec

(***************************************************************************)
(* CancelIsNoFailure: a trial the flag unwound makes the run end as        *)
(* interrupted, never as failed and never with a result of the rest.       *)
(***************************************************************************)
THEOREM CancelCorrect == Spec => []CancelIsNoFailure
<1>1. ControlInv => CancelIsNoFailure
  <2> SUFFICES ASSUME ControlInv, NEW t \in Trials, status[t] = "interrupted"
               PROVE  outcome \in {"running", "interrupted"}
    BY DEF CancelIsNoFailure
  <2>1. cancel
    BY DEF ControlInv, ErrorInv
  <2>2. Selected # Trials
    BY DEF Selected
  <2> QED  BY <2>1, <2>2 DEF ControlInv, OwnerInv, TypeOK
<1> QED  BY <1>1, ControlInvariant, PTL

(***************************************************************************)
(* FailureIsLowest: the failure that is reported is that of the lowest     *)
(* trial that threw, and every other trial still got its turn.             *)
(***************************************************************************)
THEOREM FailureCorrect == Spec => []FailureIsLowest
<1>1. ControlInv => FailureIsLowest
  <2> SUFFICES ASSUME ControlInv, outcome = "failed"
               PROVE  /\ Unwound # {}
                      /\ err.trial \in Unwound
                      /\ \A t \in Unwound : err.trial <= t
                      /\ \A t \in Trials : status[t] \in {"selected", "failed"}
    BY DEF FailureIsLowest
  <2>1. err.has /\ ~cancel /\ pc # "region"
    BY DEF ControlInv, OwnerInv
  <2>2. \A w \in Workers : wpc[w] = "next" /\ wtrial[w] >= NumTrials
    BY <2>1 DEF ControlInv, OwnerInv
  <2>3. /\ \A t \in Trials : status[t] \in {"selected"} \cup Unwinds
        /\ err.trial \in Unwound
        /\ \A t \in Unwound : err.trial <= t
    BY <2>1, <2>2, AllTrialsEnded DEF ControlInv
  <2>4. \A t \in Trials : status[t] # "interrupted"
    BY <2>1 DEF ControlInv, ErrorInv
  <2> QED  BY <2>3, <2>4 DEF Unwinds
<1> QED  BY <1>1, ControlInvariant, PTL

(***************************************************************************)
(* Trials that run with an input of their own.  Two conditions make the    *)
(* trials of a reused worker the trials of a fresh instance: no dangling   *)
(* flow is left from the trial before, and the worker would start from the *)
(* same initial partition.                                                 *)
(***************************************************************************)
FreshInput == DanglingFlow = 0 /\ StartOf(WorkerStarts) = StartOf(Starts)

InputInv ==
  /\ \A w \in Workers : danglingSum[w] = 0
  /\ \A t \in Trials : status[t] # "waiting" => input[t] = OwnInput(t)
  /\ \A w \in Workers : wpc[w] \in {"record", "output", "select"} => found[w] = lengthOf[wtrial[w]]
  /\ \A t \in Selected : lengths[t] = lengthOf[t]

LEMMA InputStep ==
  ASSUME FreshInput, TypeOK, LoopInv, LengthInv, InputInv, [Next]_vars
  PROVE  InputInv'
<1>1. lengthOf' = lengthOf /\ \A t \in Trials : OwnInput(t)' = OwnInput(t)
  BY DEF Next, WorkerStep, BeginTrial, PollTrial, EndSearch, RecordTrial, WriteTrial, SelectTrial,
         CatchTrial, Join, Restore, RequestInterrupt, Finished, vars, OwnInput
<1>2. ASSUME NEW w \in Workers, BeginTrial(w) PROVE InputInv'
  <2> DEFINE t == wtrial[w]
  <2>1. t \in Trials /\ status[t] = "waiting"
    BY <1>2, FreshTrial DEF BeginTrial
  <2>2. danglingSum'[w] = 0 /\ \A v \in Workers : danglingSum'[v] = 0
    BY <1>2 DEF BeginTrial, FreshInput, InputInv, TypeOK
  <2>3. \A u \in Trials : input'[u] = IF u = t THEN OwnInput(t) ELSE input[u]
    BY <1>2, <2>1 DEF BeginTrial, FreshInput, InputInv, TypeOK, OwnInput
  <2>4. \A u \in Trials : u # t => status'[u] = status[u]
    BY <1>2 DEF BeginTrial, Mark, TypeOK
  <2>5. Selected' = Selected
    BY <1>2, <2>1 DEF BeginTrial, Mark, Selected, TypeOK
  <2>6. \A v \in Workers : wpc'[v] \in {"record", "output", "select"} => wpc'[v] = wpc[v]
    BY <1>2 DEF BeginTrial, Goto, TypeOK
  <2>7. found' = found /\ wtrial' = wtrial /\ lengths' = lengths
    BY <1>2 DEF BeginTrial
  <2> QED  BY <1>1, <2>2, <2>3, <2>4, <2>5, <2>6, <2>7 DEF InputInv, OwnInput
<1>3. ASSUME NEW w \in Workers, PollTrial(w) \/ WriteTrial(w) PROVE InputInv'
  <2>1. wtrial[w] \in Trials /\ status[wtrial[w]] = "running"
    BY <1>3, InsideTrial DEF PollTrial, WriteTrial, InTrial
  <2>2. UNCHANGED <<found, wtrial, lengths, danglingSum, input>>
    BY <1>3 DEF PollTrial, WriteTrial
  <2>3. Selected' = Selected /\ \A t \in Trials : status'[t] # "waiting" => status[t] # "waiting"
    BY <1>3, <2>1 DEF PollTrial, WriteTrial, Mark, Selected, TypeOK
  <2>4. \A v \in Workers : wpc'[v] \in {"record", "output", "select"} =>
                            wpc[v] \in {"record", "output", "select"}
    BY <1>3 DEF PollTrial, WriteTrial, Goto, TypeOK
  <2> QED  BY <1>1, <2>2, <2>3, <2>4 DEF InputInv, OwnInput
<1>4. ASSUME NEW w \in Workers, EndSearch(w) PROVE InputInv'
  <2>1. wtrial[w] \in Trials /\ status[wtrial[w]] = "running"
    BY <1>4, InsideTrial DEF EndSearch, InTrial
  <2>2. UNCHANGED <<wtrial, lengths, danglingSum, input>>
    BY <1>4 DEF EndSearch
  <2>3. Selected' = Selected /\ \A t \in Trials : status'[t] # "waiting" => status[t] # "waiting"
    BY <1>4, <2>1 DEF EndSearch, Mark, Selected, TypeOK
  <2>4. wpc'[w] \in {"record", "output", "select"} => found'[w] = lengthOf[wtrial[w]]
    BY <1>4, <2>1 DEF EndSearch, InputInv, Goto, TypeOK
  <2>5. \A v \in Workers : v # w => wpc'[v] = wpc[v] /\ found'[v] = found[v]
    BY <1>4 DEF EndSearch, Goto, TypeOK
  <2> QED  BY <1>1, <2>2, <2>3, <2>4, <2>5 DEF InputInv, OwnInput
<1>5. ASSUME NEW w \in Workers, RecordTrial(w) PROVE InputInv'
  <2>1. wtrial[w] \notin Selected
    BY <1>5, InsideTrial DEF RecordTrial, InTrial, Selected
  <2>2. Selected' = Selected /\ \A t \in Selected : lengths'[t] = lengths[t]
    BY <1>5, <2>1 DEF RecordTrial, Selected, TypeOK
  <2>3. \A v \in Workers : wpc'[v] \in {"record", "output", "select"} =>
                            wpc[v] \in {"record", "output", "select"}
    BY <1>5 DEF RecordTrial, Goto, TypeOK
  <2> QED  BY <1>1, <1>5, <2>2, <2>3 DEF RecordTrial, InputInv, OwnInput
<1>6. ASSUME NEW w \in Workers, SelectTrial(w) PROVE InputInv'
  <2>1. wtrial[w] \in Trials /\ status[wtrial[w]] = "running"
    BY <1>6, InsideTrial DEF SelectTrial, InTrial
  <2>2. /\ Selected' = Selected \cup {wtrial[w]}
        /\ \A t \in Trials : status'[t] # "waiting" => status[t] # "waiting"
    BY <1>6, <2>1 DEF SelectTrial, Selected, Mark, TypeOK
  <2>3. lengths[wtrial[w]] = lengthOf[wtrial[w]]
    BY <1>6 DEF SelectTrial, LengthInv, InputInv
  <2>4. \A v \in Workers : wpc'[v] # "next" => wpc'[v] = wpc[v] /\ wtrial'[v] = wtrial[v]
    BY <1>6 DEF SelectTrial, Goto, TypeOK
  <2> QED  BY <1>1, <1>6, <2>2, <2>3, <2>4 DEF SelectTrial, InputInv, OwnInput
<1>7. ASSUME NEW w \in Workers, CatchTrial(w) PROVE InputInv'
  <2>1. \A v \in Workers : wpc'[v] # "next" => wpc'[v] = wpc[v] /\ wtrial'[v] = wtrial[v]
    BY <1>7 DEF CatchTrial, Goto, TypeOK
  <2> QED  BY <1>1, <1>7, <2>1 DEF CatchTrial, InputInv, OwnInput, Selected
<1>8. CASE Join \/ Restore \/ RequestInterrupt \/ UNCHANGED vars
  BY <1>1, <1>8 DEF Join, Restore, RequestInterrupt, vars, InputInv, OwnInput, Selected
<1> QED
  BY <1>2, <1>3, <1>4, <1>5, <1>6, <1>7, <1>8 DEF Next, WorkerStep, Finished

LEMMA InputInvariant ==
  ASSUME FreshInput
  PROVE  Spec => []InputInv
<1>1. Init => InputInv
  BY DEF Init, InputInv, Selected
<1>2. ControlInv /\ InputInv /\ [Next]_vars => InputInv'
  BY InputStep DEF ControlInv
<1> QED  BY <1>1, <1>2, ControlInvariant, PTL DEF Spec

\* What is published when every trial was selected.
LEMMA WholeResult ==
  ASSUME ControlInv, InputInv, BestIsFirstMinimum,
         Selected = Trials, codelengths = Published
  PROVE  /\ codelengths = [k \in 1..NumTrials |-> lengthOf[k - 1]]
         /\ IsFirstMinimum(lengthOf, Trials, best.index)
         /\ best.index \in Trials
<1>1. \A t \in Trials : lengths[t] = lengthOf[t]
  BY DEF InputInv
<1>2. codelengths = [k \in 1..NumTrials |-> lengthOf[k - 1]]
  <2>1. \A k \in 1..NumTrials : k - 1 \in Trials
    BY Constants DEF Trials
  <2> QED  BY <1>1, <2>1 DEF Published
<1>3. Trials # {}
  BY Constants
<1>4. IsFirstMinimum(lengths, Trials, best.index)
  BY <1>3 DEF BestIsFirstMinimum
<1> QED  BY <1>1, <1>2, <1>4 DEF IsFirstMinimum

(***************************************************************************)
(* CompletedIsWhole: a completed run publishes the codelength of every     *)
(* trial and holds the tree of the first minimum of them, in memory and in *)
(* the canonical output.                                                   *)
(***************************************************************************)
THEOREM CompletedCorrect ==
  ASSUME Separated, FreshInput
  PROVE  Spec => []CompletedIsWhole
<1>1. ControlInv /\ InputInv /\ BestIsFirstMinimum => CompletedIsWhole
  <2> SUFFICES ASSUME ControlInv, InputInv, BestIsFirstMinimum, outcome = "completed"
               PROVE  /\ Selected = Trials
                      /\ codelengths = [k \in 1..NumTrials |-> lengthOf[k - 1]]
                      /\ IsFirstMinimum(lengthOf, Trials, tree)
                      /\ best.index = tree
                      /\ NoFinalOutput \/ files[Canonical] = tree
    BY DEF CompletedIsWhole
  <2>1. /\ Selected = Trials /\ codelengths = Published /\ tree = best.index
        /\ NoFinalOutput \/ files[Canonical] = tree
    BY DEF ControlInv, OwnerInv
  <2> QED  BY <2>1, WholeResult
<1> QED  BY <1>1, ControlInvariant, InputInvariant, BestCorrect, PTL

(***************************************************************************)
(* ImplementsBestOfTrials: the parallel region implements the promise a    *)
(* caller relies on, for any number of trials and threads.  Every step     *)
(* before the owner has left is invisible; the join or the restore is the  *)
(* one step in which the run completes, fails or is interrupted.           *)
(***************************************************************************)
THEOREM Refinement ==
  ASSUME Separated, FreshInput
  PROVE  Spec => ImplementsBestOfTrials
<1> DEFINE seen == <<lengthOf,
                     IF outcome = "output_error" THEN "failed" ELSE outcome,
                     IF outcome = "completed" THEN codelengths ELSE <<>>,
                     IF outcome = "completed" THEN tree ELSE -1>>
<1>1. Init => Promise!Init
  BY DEF Init, Promise!Init, Promise!Trials, Trials, Promise!Nothing
<1>2. ControlInv /\ InputInv /\ BestIsFirstMinimum /\ [Next]_vars => [Promise!Next]_seen
  <2> SUFFICES ASSUME ControlInv, InputInv, BestIsFirstMinimum, [Next]_vars
               PROVE  [Promise!Next]_seen
    OBVIOUS
  <2>1. ASSUME NEW w \in Workers, WorkerStep(w) PROVE seen' = seen
    BY <2>1 DEF WorkerStep, BeginTrial, PollTrial, EndSearch, RecordTrial, WriteTrial,
                SelectTrial, CatchTrial
  <2>2. CASE Join
    <3>1. outcome = "running" /\ lengthOf' = lengthOf /\ tree' = tree
      BY <2>2 DEF Join, ControlInv, OwnerInv
    <3>2. outcome' \in {"running", "interrupted", "failed"}
      BY <2>2 DEF Join, AfterRegion, ControlInv, TypeOK
    <3>3. CASE outcome' = "running"
      BY <3>1, <3>3
    <3>4. CASE outcome' # "running"
      BY <3>1, <3>2, <3>4 DEF Promise!Next, Promise!Abort
    <3> QED  BY <3>3, <3>4
  <2>3. CASE Restore
    <3>1. /\ outcome = "running" /\ lengthOf' = lengthOf /\ codelengths' = codelengths
          /\ outcome' \in {"completed", "output_error"} /\ tree' = best.index
          /\ Selected = Trials /\ codelengths = Published
      BY <2>3 DEF Restore, RestoredTree, ControlInv, OwnerInv
    <3>2. CASE outcome' = "completed"
      <4>1. /\ codelengths' = [k \in 1..NumTrials |-> lengthOf[k - 1]]
            /\ tree' \in Trials /\ IsFirstMinimum(lengthOf, Trials, tree')
        BY <3>1, WholeResult
      <4>2. Promise!Complete(NumTrials)
        BY <3>1, <3>2, <4>1
        DEF Promise!Complete, Promise!Trials, Trials, Promise!IsFirstMinimum, IsFirstMinimum
      <4>3. NumTrials \in 1..NumTrials
        BY Constants
      <4> QED  BY <4>2, <4>3 DEF Promise!Next
    <3>3. CASE outcome' = "output_error"
      BY <3>1, <3>3 DEF Promise!Next, Promise!Abort
    <3> QED  BY <3>1, <3>2, <3>3
  <2>4. CASE RequestInterrupt \/ UNCHANGED vars
    BY <2>4 DEF RequestInterrupt, vars
  <2> QED  BY <2>1, <2>2, <2>3, <2>4 DEF Next, Finished
<1>3. Spec => [](ControlInv /\ InputInv /\ BestIsFirstMinimum)
  BY ControlInvariant, InputInvariant, BestCorrect, PTL
<1> QED
  BY <1>1, <1>2, <1>3, PTL
  DEF Spec, ImplementsBestOfTrials, Promise!Spec, Promise!vars
=============================================================================
