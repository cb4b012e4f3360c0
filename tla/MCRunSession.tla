---------------------------- MODULE MCRunSession ----------------------------
(***************************************************************************)
(* The configurations RunSession is checked with: a shard of a sharded     *)
(* run, a run with --converge, and a run with --no-overwrite over files    *)
(* that may be there already.                                              *)
(***************************************************************************)
EXTENDS RunSession

Shard ==
  [numTrials |-> 3, trialOffset |-> 1, printAllTrials |-> TRUE, converge |-> FALSE,
   overwrite |-> TRUE, trialResults |-> TRUE, codelengths |-> {10, 20},
   oldFiles |-> {}, failures |-> TRUE, maxRuns |-> 2]

\* Its best trees are written by writeRunReports alone.
QuietShard == [Shard EXCEPT !.numTrials = 2, !.printAllTrials = FALSE]

Converging ==
  [numTrials |-> 5, trialOffset |-> 0, printAllTrials |-> FALSE, converge |-> TRUE,
   overwrite |-> TRUE, trialResults |-> FALSE, codelengths |-> {50, 97, 100},
   oldFiles |-> {}, failures |-> TRUE, maxRuns |-> 1]

NoOverwrite ==
  [numTrials |-> 1, trialOffset |-> 0, printAllTrials |-> FALSE, converge |-> FALSE,
   overwrite |-> FALSE, trialResults |-> TRUE, codelengths |-> {10, 20},
   oldFiles |-> {0, 1, 2}, failures |-> TRUE, maxRuns |-> 2]

MCConfigs == {Shard, QuietShard, Converging, NoOverwrite}
=============================================================================
