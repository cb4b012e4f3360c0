--------------------------- MODULE TrialSelection ---------------------------
(***************************************************************************)
(* What the trial loops of InfomapBase::RunSession share: the trial        *)
(* indices, the seed a trial runs with, the tolerances of the comparison   *)
(* that keeps the best trial, and the definition of the trial a run ought  *)
(* to keep.                                                                *)
(*                                                                         *)
(* A codelength is a double in the code.  Here it is an integer number of  *)
(* some unit; Eps is the 1e-10 of the comparisons in that unit, and        *)
(* MaxLength stands for std::numeric_limits<double>::max().                *)
(***************************************************************************)
EXTENDS Integers

CONSTANTS NumTrials,    \* m_numTrials
          Codelengths,  \* the codelengths a trial can find
          Eps,          \* the 1e-10 of the comparisons
          MaxLength,    \* the initial bestHierarchicalCodelength
          TrialOffset,  \* --trial-offset: global index of this run's first trial
          PrintAllTrials, \* --print-all-trials
          ConfigWidth,  \* 2^bits of Config::seedToRandomNumberGenerator
          EngineWidth   \* 2^32: what the random number engine accepts

ASSUME NumTrialsAssumption == NumTrials \in Nat \ {0}

ASSUME CodelengthAssumption ==
  /\ Codelengths \subseteq Int
  /\ Eps \in Nat \ {0}
  /\ MaxLength \in Int
  /\ \A c \in Codelengths : c < MaxLength - Eps

ASSUME SeedAssumption ==
  /\ TrialOffset \in Nat
  /\ EngineWidth \in Nat \ {0}
  /\ \E k \in 1..ConfigWidth : ConfigWidth = k * EngineWidth

ASSUME OutputAssumption == PrintAllTrials \in BOOLEAN

Trials == 0..(NumTrials - 1)

\* trialSeed: base seed plus the trial's global index, at the config field's width.
TrialSeed(baseSeed, trial) == (baseSeed + TrialOffset + trial) % ConfigWidth

\* reseed(static_cast<unsigned int>(seed)): the engine keeps the low bits.
EngineSeed(seed) == seed % EngineWidth

\* Result's index, codelength and tree before the first trial.
NoBest == [index |-> 0, length |-> MaxLength]

\* Mutation: the last of equal codelengths wins.
IsBetterOrEqual(length, best) == length <= best.length

\* `codelength < bestHierarchicalCodelength - 1e-10`
IsBetter(length, best) == length < best.length - Eps

\* `|codelength - bestHierarchicalCodelength| < 1e-10 && trialIndex < bestTrialIndex`
IsEarlierTie(length, trial, best) ==
  /\ length - best.length < Eps
  /\ best.length - length < Eps
  /\ trial < best.index

\* The output files: the canonical basename, and one basename per global trial.
Canonical == 0
Paths == 0..(TrialOffset + NumTrials)
NoFile == -1

\* outputPlanBasename: `_trial_<n>' is appended only when the config of the
\* instance that writes asks for more than one trial.
OutputPath(configNumTrials, trial) ==
  IF PrintAllTrials /\ configNumTrials > 1 THEN trial ELSE Canonical

(***************************************************************************)
(* Reference definitions.                                                  *)
(***************************************************************************)
\* No two codelengths lie within the tolerance of one another unless equal.
Separated == \A c, d \in Codelengths : c = d \/ c < d - Eps \/ d < c - Eps

\* t has the lowest codelength among S, and the lowest index among those.
IsFirstMinimum(f, S, t) ==
  /\ t \in S
  /\ \A u \in S : f[t] < f[u] \/ (f[t] = f[u] /\ t <= u)
=============================================================================
