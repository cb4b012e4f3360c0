---------------------------- MODULE BestOfTrials ----------------------------
(***************************************************************************)
(* What a run of Infomap promises its caller, whichever trial loop it      *)
(* uses: `Run this many independent trials and keep the best solution'.    *)
(* A run ends in one step as far as the caller can see.  If it completes,  *)
(* it reports the codelengths of the trials it ran, in trial order, and    *)
(* holds the solution of the first trial with the lowest of them; if it is *)
(* interrupted or fails it reports nothing.                                *)
(***************************************************************************)
EXTENDS TrialSelection

CONSTANT MayStopEarly  \* --converge: the trial count is a cap

VARIABLES lengthOf,    \* trial -> the codelength its seed finds
          outcome,     \* "running", "completed", "interrupted", "failed"
          codelengths, \* what codelengths() reports after the run
          kept         \* the trial whose solution the instance holds

vars == <<lengthOf, outcome, codelengths, kept>>

Nothing == -1

Init ==
  /\ lengthOf \in [Trials -> Codelengths]
  /\ outcome = "running"
  /\ codelengths = <<>>
  /\ kept = Nothing

\* The first n trials make the result.
Complete(n) ==
  /\ outcome = "running"
  /\ n = NumTrials \/ MayStopEarly
  /\ outcome' = "completed"
  /\ codelengths' = [k \in 1..n |-> lengthOf[k - 1]]
  /\ kept' \in Trials
  /\ IsFirstMinimum(lengthOf, 0..(n - 1), kept')
  /\ UNCHANGED lengthOf

Abort ==
  /\ outcome = "running"
  /\ outcome' \in {"interrupted", "failed"}
  /\ UNCHANGED <<lengthOf, codelengths, kept>>

Next == (\E n \in 1..NumTrials : Complete(n)) \/ Abort

Spec == Init /\ [][Next]_vars
=============================================================================
