----------------------------- MODULE WebWorkers -----------------------------
(***************************************************************************)
(* The JavaScript package's Infomap class and the worker it runs each      *)
(* Infomap in.  A worker posts what the engine prints and, at its end, an  *)
(* answer; the page may stop it at any time, at once or after a delay      *)
(* during which its messages still arrive.                                 *)
(*                                                                         *)
(* The browser's part: messages of one worker arrive in the order they     *)
(* were posted; terminating a worker discards those that have not arrived, *)
(* but not the error event of an exception nobody caught in the worker.    *)
(*                                                                         *)
(* The engine is instantiated asynchronously (js.mk leaves the compilation *)
(* of its WebAssembly so), and preRun is called in the continuation of     *)
(* that promise, with the engine in the same call if its files are there.  *)
(* An exception there rejects the promise: the worker has no error event.  *)
(***************************************************************************)
EXTENDS Naturals, Sequences

CONSTANTS MaxRuns, \* bound on the runs the page starts
          MaxLines \* bound on the lines the engines print, to stdout and stderr

ASSUME BoundsAssumption == MaxRuns \in Nat /\ MaxLines \in Nat

\* The ids that workerId hands out.
Runs == 0 .. (MaxRuns - 1)

VARIABLES
  workerId,   \* the next id
  workers,    \* the ids in this.workers
  timers,     \* the workers a timer of _terminate will stop
  stage,      \* run -> how far its worker is
  printed,    \* the lines the engines have printed
  inbox,      \* run -> its messages that have not arrived
  errorEvent, \* the workers whose error event has not arrived
  answers,    \* run -> how often it called back with an error or a result
  stopped     \* the runs the page stopped before they called back

workerVars == <<workerId, workers, timers, stage, printed, inbox, errorEvent,
                answers, stopped>>

Init ==
  /\ workerId = 0
  /\ workers = {} /\ timers = {}
  /\ stage = [r \in Runs |-> "none"]
  /\ printed = 0
  /\ inbox = [r \in Runs |-> <<>>]
  /\ errorEvent = {}
  /\ answers = [r \in Runs |-> 0]
  /\ stopped = {}

Started == {r \in Runs : stage[r] # "none"}
Alive == {r \in Started : stage[r] # "gone"}

-----------------------------------------------------------------------------
\* Infomap, index.ts.

\* worker.terminate(), with box what is left of the messages.
WorkersEnd(set, box) ==
  /\ stage' = [r \in Runs |-> IF r \in set THEN "gone" ELSE stage[r]]
  /\ inbox' = [r \in Runs |-> IF r \in set THEN <<>> ELSE box[r]]

\* _terminate of the workers in set, at once or by a timer.  A worker that is no
\* longer in this.workers is left alone.
Terminate(set, now, box) ==
  LET found == set \cap workers
  IN /\ workers' = workers \ found
     /\ WorkersEnd(IF now THEN found ELSE {}, box)
     /\ timers' = IF now THEN timers ELSE timers \cup found

\* createWorker and setHandlers.
CreateWorker ==
  /\ workerId \in Runs
  /\ workerId' = workerId + 1
  /\ workers' = workers \cup {workerId}
  /\ stage' = [stage EXCEPT ![workerId] = "loading"]
  /\ UNCHANGED <<timers, printed, inbox, errorEvent, answers, stopped>>

\* The head of the messages of run arrives.
Arrives(run, type) ==
  /\ inbox[run] # <<>>
  /\ Head(inbox[run]) = type

Rest(run) == [inbox EXCEPT ![run] = Tail(@)]

\* emitError and emitFinished.
Answer(run) == answers' = [answers EXCEPT ![run] = @ + 1]

\* onmessage, a line of output.
OnData(run) ==
  /\ Arrives(run, "data")
  /\ inbox' = Rest(run)
  /\ UNCHANGED <<workerId, workers, timers, stage, printed, errorEvent, answers,
                 stopped>>

\* Mutation: a worker that reports an error is stopped like one that finished.
OnErrorLate(run) ==
  /\ Arrives(run, "error")
  /\ Terminate({run}, FALSE, Rest(run))
  /\ Answer(run)
  /\ UNCHANGED <<workerId, printed, errorEvent, stopped>>

\* onmessage, an error.
OnError(run) ==
  /\ Arrives(run, "error")
  /\ Terminate({run}, TRUE, Rest(run))
  /\ Answer(run)
  /\ UNCHANGED <<workerId, printed, errorEvent, stopped>>

\* onmessage, the result.
OnFinished(run) ==
  /\ Arrives(run, "finished")
  /\ Terminate({run}, FALSE, Rest(run))
  /\ Answer(run)
  /\ UNCHANGED <<workerId, printed, errorEvent, stopped>>

\* onerror.
OnErrorEvent(run) ==
  /\ run \in errorEvent
  /\ errorEvent' = errorEvent \ {run}
  /\ Terminate({run}, TRUE, inbox)
  /\ Answer(run)
  /\ UNCHANGED <<workerId, printed, stopped>>

\* terminate and terminateAll, called by the page.
Stop(set, now) ==
  /\ Terminate(set, now, inbox)
  /\ stopped' = stopped \cup {r \in set \cap workers : answers[r] = 0}
  /\ UNCHANGED <<workerId, printed, errorEvent, answers>>

\* The timer of _terminate.
TimerFires(run) ==
  /\ run \in timers
  /\ timers' = timers \ {run}
  /\ WorkersEnd({run}, inbox)
  /\ UNCHANGED <<workerId, workers, printed, errorEvent, answers, stopped>>

-----------------------------------------------------------------------------
\* The worker, pre-worker-module.js.

pageVars == <<workerId, workers, timers, answers, stopped>>

Post(run, messages) == inbox' = [inbox EXCEPT ![run] = @ \o messages]
Reach(run, place) == stage' = [stage EXCEPT ![run] = place]

\* The worker's onmessage: the page's message has come.
GetsMessage(run) ==
  /\ \/ stage[run] = "loading" /\ Reach(run, "pending")
     \/ stage[run] = "ready" /\ Reach(run, "engine")
  /\ UNCHANGED <<pageVars, printed, inbox, errorEvent>>

\* Mutation: a message that came before the engine was loaded is not looked at.
PreRunNoPending(run) ==
  /\ stage[run] = "loading"
  /\ Reach(run, "ready")
  /\ UNCHANGED <<pageVars, printed, inbox, errorEvent>>

\* preRun: the engine is loaded and waits for its files, or goes on with those of
\* the message that has come.
PreRun(run) ==
  /\ \/ stage[run] = "loading" /\ Reach(run, "ready")
     \/ stage[run] = "pending" /\ Reach(run, "continued")
  /\ UNCHANGED <<pageVars, printed, inbox, errorEvent>>

\* The engine runs, called by onmessage or in the continuation.
EngineRuns(run) == stage[run] \in {"engine", "continued"}

\* print and printErr.
PrintLine(run, type) ==
  /\ EngineRuns(run)
  /\ printed < MaxLines
  /\ printed' = printed + 1
  /\ Post(run, <<type>>)
  /\ UNCHANGED <<pageVars, stage, errorEvent>>

\* postRun: some result file that does not parse is an error before the answer;
\* that no file is found is the answer when some should have been written.
PostRun(run) ==
  /\ EngineRuns(run)
  /\ Reach(run, "done")
  /\ \/ Post(run, <<"finished">>)
     \/ Post(run, <<"error", "finished">>)
     \/ Post(run, <<"error">>)
     \/ Post(run, <<"error", "error">>)
  /\ UNCHANGED <<pageVars, printed, errorEvent>>

\* An exception nobody catches, in the worker's script or its onmessage: writing
\* the files or in the engine.  When the engine aborts it prints an error first.
Crash(run) ==
  /\ stage[run] \in {"loading", "ready", "engine"}
  /\ Reach(run, "crashed")
  /\ errorEvent' = errorEvent \cup {run}
  /\ inbox' \in {inbox, [inbox EXCEPT ![run] = Append(@, "error")]}
  /\ UNCHANGED <<pageVars, printed>>

\* An exception in the promise: instantiating fails, which prints why and that the
\* engine aborts; preRun cannot write the files, which prints nothing; or the
\* engine fails, as in Crash.
Reject(run) ==
  /\ stage[run] \in {"loading", "pending", "continued"}
  /\ Reach(run, "lost")
  /\ \/ stage[run] # "continued" /\ Post(run, <<"error", "error">>)
     \/ stage[run] = "continued" /\ Post(run, <<"error">>)
     \/ stage[run] # "loading" /\ UNCHANGED inbox
  /\ UNCHANGED <<pageVars, printed, errorEvent>>

WorkerStep(run) ==
  \/ GetsMessage(run)
  \/ PreRun(run)
  \/ \E type \in {"data", "error"} : PrintLine(run, type)
  \/ PostRun(run)

=============================================================================
