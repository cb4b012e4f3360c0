----------------------------- MODULE UseInfomap -----------------------------
(***************************************************************************)
(* useInfomap: the React hook that runs workers and shows whether one is   *)
(* running and what they print.  The lines that arrive are collected in a  *)
(* buffer that an animation frame moves to the component's output.         *)
(***************************************************************************)
EXTENDS WebWorkers, FiniteSets

VARIABLES
  mounted,       \* the component is on the page
  clearOnRun,    \* clearOutputOnRunRef
  activeRuns,    \* activeRunsRef
  running,
  output,        \* the lines the component shows, each by the run it is from
  outputBuffer,  \* outputBufferRef
  outputFrame,   \* outputFrameRef: a frame is requested
  arrived        \* the lines that arrived since the output was last cleared

outputVars == <<output, outputBuffer, outputFrame, arrived>>
hookVars == <<mounted, clearOnRun, activeRuns, running, outputVars>>
vars == <<workerVars, hookVars>>

HookInit ==
  /\ Init
  /\ mounted = TRUE
  /\ clearOnRun \in BOOLEAN
  /\ activeRuns = 0 /\ running = FALSE
  /\ output = <<>> /\ outputBuffer = <<>> /\ outputFrame = FALSE
  /\ arrived = <<>>

\* Mutation: lines that wait for a frame are not dropped.
EmptyShown ==
  output' = <<>> /\ arrived' = <<>> /\ UNCHANGED <<outputBuffer, outputFrame>>

\* clearOutput.
EmptyOutput ==
  output' = <<>> /\ outputBuffer' = <<>> /\ outputFrame' = FALSE /\ arrived' = <<>>

\* The page clears the output.
ClearOutput ==
  /\ mounted
  /\ EmptyOutput
  /\ UNCHANGED <<workerVars, mounted, clearOnRun, activeRuns, running>>

\* flushOutput and flushPendingOutput: a frame that was requested has run, or is
\* cancelled.
Flush ==
  /\ output' = output \o outputBuffer
  /\ outputBuffer' = <<>>
  /\ outputFrame' = FALSE
  /\ UNCHANGED arrived

\* The animation frame.
FrameRuns ==
  /\ outputFrame
  /\ Flush
  /\ UNCHANGED <<workerVars, mounted, clearOnRun, activeRuns, running>>

\* queueOutput.
QueueOutput(line) ==
  /\ outputBuffer' = Append(outputBuffer, line)
  /\ outputFrame' = TRUE
  /\ arrived' = Append(arrived, line)
  /\ UNCHANGED output

\* startRun.
StartRun ==
  /\ activeRuns' = activeRuns + 1
  /\ running' = TRUE
  /\ IF clearOnRun THEN EmptyOutput ELSE UNCHANGED outputVars

\* Mutation: the run that ends is taken for the only one.
FinishRunAlone ==
  /\ activeRuns' = IF activeRuns = 0 THEN 0 ELSE activeRuns - 1
  /\ running' = FALSE

\* finishRun.
FinishRun ==
  /\ activeRuns' = IF activeRuns = 0 THEN 0 ELSE activeRuns - 1
  /\ running' = (activeRuns' > 0)

\* run and runAsync.
Run ==
  /\ mounted
  /\ StartRun
  /\ CreateWorker
  /\ UNCHANGED <<mounted, clearOnRun>>

\* run and runAsync, when an argument cannot be converted or no worker be made.
\* finishRun undoes what startRun did to the count.
RunThrows ==
  /\ mounted /\ workerId \in Runs
  /\ running' = (activeRuns > 0)
  /\ IF clearOnRun THEN EmptyOutput ELSE UNCHANGED outputVars
  /\ UNCHANGED <<workerVars, mounted, clearOnRun, activeRuns>>

\* The handler of "data".
DataArrives(run) ==
  /\ OnData(run)
  /\ QueueOutput(run)
  /\ UNCHANGED <<mounted, clearOnRun, activeRuns, running>>

\* The handlers of "error" and "finished".
AnswerArrives(run) ==
  /\ OnError(run) \/ OnFinished(run) \/ OnErrorEvent(run)
  /\ Flush
  /\ FinishRun
  /\ UNCHANGED <<mounted, clearOnRun>>

\* infomap.terminate and infomap.terminateAll.
StopRuns(set, now) ==
  /\ Stop(set, now)
  /\ UNCHANGED hookVars

\* The cleanup of the effect.
Unmount ==
  /\ mounted
  /\ mounted' = FALSE
  /\ activeRuns' = 0
  /\ outputFrame' = FALSE
  /\ Stop(workers, TRUE)
  /\ UNCHANGED <<clearOnRun, running, output, outputBuffer, arrived>>

Next ==
  \/ Run \/ RunThrows \/ ClearOutput \/ FrameRuns \/ Unmount
  \/ \E now \in BOOLEAN : \E set \in {{r} : r \in workers} \cup {workers} :
       StopRuns(set, now)
  \/ \E run \in Runs :
       \/ DataArrives(run)
       \/ AnswerArrives(run)
       \/ (WorkerStep(run) \/ Crash(run) \/ Reject(run) \/ TimerFires(run))
            /\ UNCHANGED hookVars

\* An engine comes to an end, what is posted arrives, and timers fire.  Nothing is
\* assumed of the page, and no engine need crash.
Fairness ==
  \A run \in Runs :
    /\ WF_vars(WorkerStep(run) /\ UNCHANGED hookVars)
    /\ WF_vars(DataArrives(run))
    /\ WF_vars(AnswerArrives(run))
    /\ WF_vars(TimerFires(run) /\ UNCHANGED hookVars)

Spec == HookInit /\ [][Next]_vars /\ Fairness

-----------------------------------------------------------------------------
TypeOK ==
  /\ workerId \in Nat
  /\ workers \subseteq Alive /\ timers \subseteq Alive /\ workers \cap timers = {}
  /\ stopped \subseteq Runs /\ errorEvent \subseteq Runs
  /\ stage \in [Runs -> {"none", "loading", "pending", "ready", "engine", "continued",
                         "done", "crashed", "lost", "gone"}]
  /\ printed \in 0 .. MaxLines
  /\ inbox \in [Runs -> Seq({"data", "error", "finished"})]
  /\ answers \in [Runs -> Nat]
  /\ activeRuns \in Nat
  /\ {mounted, clearOnRun, running, outputFrame} \subseteq BOOLEAN
  /\ {output, outputBuffer, arrived} \subseteq Seq(Runs)

Unanswered == {r \in Started : answers[r] = 0}

\* While the component is on the page, running is set only when some run has not
\* called back, and whenever one has not, unless a run called back twice
\* (react.ts counts its active runs by the calls of its error and finished
\* handlers, whichever run they are for).
RunningIsHonest ==
  /\ TypeOK
  /\ mounted =>
       /\ running => Unanswered # {}
       /\ Unanswered # {} => running \/ \E r \in Runs : answers[r] > 1

\* After a run has called back nothing of it reaches the page any more, unless
\* the page had stopped it with a delay or its worker crashed; and the crashed
\* worker calls back at most once more (_terminate in the handlers of index.ts).
NothingAfterTheAnswer ==
  [][\A r \in Runs \ stopped : answers[r] > 0 =>
       /\ Len(arrived') > Len(arrived) => arrived'[Len(arrived')] # r
       /\ answers'[r] # answers[r] => r \in errorEvent /\ answers[r] = 1]_vars

\* The output shows every line that has arrived since it was cleared, once and in
\* order, when the next frame has run, and at once when a run calls back
\* (queueOutput, flushOutput and flushPendingOutput).
OutputIsWhatArrived ==
  [][mounted' =>
       /\ output' \o outputBuffer' = arrived'
       /\ outputBuffer' # <<>> => outputFrame'
       /\ answers' # answers => output' = arrived']_vars

\* A worker that failed in the promise that instantiates its engine, with no error
\* printed and no word from the page.
Silent(r) ==
  /\ stage[r] = "lost" /\ r \in workers
  /\ \A i \in DOMAIN inbox[r] : inbox[r][i] # "error"

\* Every run comes to an end, whichever of its message and the engine comes first:
\* it calls back unless the page has stopped it, and its worker is terminated.
\* Only a silent run does neither, until the page stops it: the callers of run and
\* runAsync wait for an error event that does not come (index.ts onerror).
EveryRunEnds ==
  \A r \in Runs :
    r \in Started ~> \/ r \notin Alive /\ (answers[r] > 0 \/ r \in stopped)
                    \/ Silent(r)

=============================================================================
