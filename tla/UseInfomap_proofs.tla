-------------------------- MODULE UseInfomap_proofs --------------------------
(***************************************************************************)
(* Proofs about UseInfomap, for every number of runs and of lines they     *)
(* print.                                                                  *)
(***************************************************************************)
EXTENDS UseInfomap, FiniteSetTheorems, SequenceTheorems,
        TLAPS

Kinds == {"data", "error", "finished"}
Stages == {"none", "loading", "pending", "ready", "engine", "continued", "done",
           "crashed", "lost", "gone"}

\* The types of the variables of WebWorkers, part of TypeOK.
WorkerTypes ==
  /\ workerId \in 0 .. MaxRuns
  /\ workers \in SUBSET Runs /\ timers \in SUBSET Runs
  /\ stopped \in SUBSET Runs /\ errorEvent \in SUBSET Runs
  /\ stage \in [Runs -> Stages]
  /\ printed \in 0 .. MaxLines
  /\ inbox \in [Runs -> Seq(Kinds)]
  /\ answers \in [Runs -> Nat]

\* The ids handed out are those of the workers there have been, and nothing has
\* been heard of the others.
StartedInv ==
  \A r \in Runs :
    /\ stage[r] = "none" <=> r >= workerId
    /\ stage[r] = "none" =>
         /\ inbox[r] = <<>> /\ answers[r] = 0
         /\ r \notin errorEvent /\ r \notin stopped

\* A worker of the page, or one with a timer, is alive, and a terminated one has
\* no messages.
AliveInv ==
  \A r \in Runs :
    /\ r \in workers \cup timers => stage[r] \notin {"none", "gone"}
    /\ r \in workers => r \notin timers
    /\ stage[r] = "gone" => inbox[r] = <<>>
    /\ r \in errorEvent => stage[r] \in {"crashed", "gone"}

\* A result is the last message of its worker.
LastInv ==
  \A r \in Runs : \A i \in 1 .. Len(inbox[r]) :
    inbox[r][i] = "finished" => i = Len(inbox[r]) /\ stage[r] = "done"

\* A run the page has not stopped has called back exactly when it has left the
\* page's workers; then it has no more messages and its engine has come to an
\* end; while its error event is on its way it has called back once at most.
AnsweredInv ==
  \A r \in Runs \ stopped :
    /\ stage[r] # "none" /\ r \notin workers => answers[r] > 0
    /\ answers[r] > 0 =>
         /\ inbox[r] = <<>> /\ stage[r] \in {"done", "gone"}
         /\ r \notin workers
    /\ r \in errorEvent => answers[r] <= 1

WorkerInv == WorkerTypes /\ StartedInv /\ AliveInv /\ LastInv /\ AnsweredInv

\* The steps as the workers see them.
WorkersStep ==
  \/ CreateWorker
  \/ \E run \in Runs : OnData(run) \/ OnError(run) \/ OnFinished(run) \/ OnErrorEvent(run)
  \/ \E set \in SUBSET Runs, now \in BOOLEAN : Stop(set, now)
  \/ \E run \in Runs : WorkerStep(run) \/ Crash(run) \/ Reject(run) \/ TimerFires(run)
  \/ UNCHANGED workerVars

LEMMA WorkersInit == ASSUME Init PROVE WorkerInv
<1> USE BoundsAssumption DEF Init, Runs
<1>1. WorkerTypes
  BY DEF WorkerTypes, Kinds, Stages
<1>2. StartedInv /\ AliveInv /\ LastInv /\ AnsweredInv
  BY DEF StartedInv, AliveInv, LastInv, AnsweredInv
<1> QED  BY <1>1, <1>2 DEF WorkerInv

LEMMA CreateKeeps == ASSUME WorkerInv, CreateWorker PROVE WorkerInv'
<1>1. /\ workerId \in Runs /\ workerId \in Nat /\ workerId' = workerId + 1
      /\ workers' = workers \cup {workerId}
      /\ \A r \in Runs : stage'[r] = IF r = workerId THEN "loading" ELSE stage[r]
      /\ stage' \in [Runs -> Stages]
      /\ UNCHANGED <<timers, printed, inbox, errorEvent, answers, stopped>>
  BY DEF CreateWorker, WorkerInv, WorkerTypes, Stages
<1>2. /\ stage[workerId] = "none" /\ inbox[workerId] = <<>> /\ answers[workerId] = 0
      /\ workerId \notin errorEvent /\ workerId \notin stopped
      /\ workerId \notin workers \cup timers
  BY <1>1 DEF WorkerInv, StartedInv, AliveInv
<1>3. \A r \in Runs : r \in Nat /\ r < MaxRuns
  BY BoundsAssumption DEF Runs
<1>4. WorkerTypes'
  BY <1>1, <1>3, BoundsAssumption DEF WorkerInv, WorkerTypes
<1>5. StartedInv'
  BY <1>1, <1>2, <1>3 DEF WorkerInv, StartedInv
<1>6. AliveInv'
  BY <1>1, <1>2 DEF WorkerInv, AliveInv
<1>7. LastInv'
  BY <1>1, <1>2 DEF WorkerInv, LastInv
<1>8. AnsweredInv'
  BY <1>1, <1>2 DEF WorkerInv, AnsweredInv
<1> QED  BY <1>4, <1>5, <1>6, <1>7, <1>8 DEF WorkerInv

\* What is left of a queue when its head is taken.
LEMMA TailFacts ==
  ASSUME NEW S, NEW q \in Seq(S), q # <<>>
  PROVE  /\ Tail(q) \in Seq(S) /\ Head(q) \in S /\ Head(q) = q[1]
         /\ Len(q) \in Nat /\ Len(q) >= 1 /\ Len(Tail(q)) = Len(q) - 1
         /\ \A i \in 1 .. Len(Tail(q)) : Tail(q)[i] = q[i + 1] /\ i + 1 \in 1 .. Len(q)
         /\ Len(q) = 1 => Tail(q) = <<>>
<1>1. Tail(q) \in Seq(S) /\ Head(q) \in S /\ Head(q) = q[1]
  OBVIOUS
<1>2. Len(q) \in Nat /\ Len(q) >= 1 /\ Len(Tail(q)) = Len(q) - 1
  OBVIOUS
<1>3. \A i \in 1 .. Len(Tail(q)) : Tail(q)[i] = q[i + 1] /\ i + 1 \in 1 .. Len(q)
  BY <1>2
<1>4. Len(q) = 1 => Tail(q) = <<>>
  <2> SUFFICES ASSUME Len(q) = 1, Tail(q) # <<>> PROVE FALSE
    OBVIOUS
  <2>1. Len(Tail(q)) \in Nat \ {0}
    BY <1>1, EmptySeq, Zenon
  <2> QED  BY <1>2, <2>1
<1> QED  BY <1>1, <1>2, <1>3, <1>4

\* What terminating workers does to each run: who leaves the page's workers, who
\* gets a timer, and what becomes of the worker and its messages.
EndOf(set, now, box) ==
  /\ workers' \in SUBSET Runs /\ timers' \in SUBSET Runs
  /\ stage' \in [Runs -> Stages] /\ inbox' \in [Runs -> Seq(Kinds)]
  /\ \A r \in Runs :
       /\ r \in workers' <=> r \in workers /\ r \notin set
       /\ r \in timers' <=> r \in timers \/ (~now /\ r \in workers /\ r \in set)
       /\ now /\ r \in workers /\ r \in set =>
            stage'[r] = "gone" /\ inbox'[r] = <<>>
       /\ ~(now /\ r \in workers /\ r \in set) =>
            stage'[r] = stage[r] /\ inbox'[r] = box[r]

LEMMA TerminateFacts ==
  ASSUME WorkerInv, NEW set \in SUBSET Runs, NEW now \in BOOLEAN,
         NEW box \in [Runs -> Seq(Kinds)], Terminate(set, now, box)
  PROVE  EndOf(set, now, box)
<1> DEFINE found == set \cap workers
           ended == IF now THEN found ELSE {}
<1>1. /\ workers' = workers \ found /\ timers' = IF now THEN timers ELSE timers \cup found
      /\ stage' = [r \in Runs |-> IF r \in ended THEN "gone" ELSE stage[r]]
      /\ inbox' = [r \in Runs |-> IF r \in ended THEN <<>> ELSE box[r]]
  BY DEF Terminate, WorkersEnd
<1>2. /\ workers \in SUBSET Runs /\ timers \in SUBSET Runs /\ stage \in [Runs -> Stages]
  BY DEF WorkerInv, WorkerTypes
<1>3. <<>> \in Seq(Kinds) /\ "gone" \in Stages
  BY DEF Stages
<1> QED  BY <1>1, <1>2, <1>3 DEF EndOf

LEMMA DataKeeps ==
  ASSUME WorkerInv, NEW run \in Runs, OnData(run) PROVE WorkerInv'
<1> DEFINE q == inbox[run]
<1>1. q \in Seq(Kinds) /\ q # <<>>
  BY DEF WorkerInv, WorkerTypes, OnData, Arrives
<1>2. inbox' = [inbox EXCEPT ![run] = Tail(q)] /\ inbox \in [Runs -> Seq(Kinds)]
  BY DEF OnData, Rest, WorkerInv, WorkerTypes
<1>3. /\ inbox' \in [Runs -> Seq(Kinds)] /\ inbox'[run] = Tail(q)
      /\ \A r \in Runs : r # run => inbox'[r] = inbox[r]
  BY <1>1, <1>2, TailFacts
<1>4. UNCHANGED <<workerId, workers, timers, stage, printed, errorEvent, answers, stopped>>
  BY DEF OnData
<1> HIDE DEF q
<1>5. WorkerTypes'
  BY <1>3, <1>4 DEF WorkerInv, WorkerTypes
<1>6. /\ stage[run] # "none" /\ stage[run] # "gone"
      /\ run \notin stopped => ~(answers[run] > 0)
  BY <1>1 DEF q, WorkerInv, StartedInv, AliveInv, AnsweredInv
<1>7. StartedInv' /\ AliveInv' /\ AnsweredInv'
  BY <1>3, <1>4, <1>6 DEF WorkerInv, StartedInv, AliveInv, AnsweredInv
<1>8. LastInv'
  <2> SUFFICES ASSUME NEW r \in Runs, NEW i \in 1 .. Len(inbox'[r]),
                      inbox'[r][i] = "finished"
               PROVE  i = Len(inbox'[r]) /\ stage'[r] = "done"
    BY DEF LastInv
  <2>1. CASE r # run
    <3>1. inbox'[r] = inbox[r] /\ stage'[r] = stage[r]
      BY <2>1, <1>3, <1>4
    <3> QED  BY <3>1 DEF WorkerInv, LastInv
  <2>2. CASE r = run
    <3>1. i + 1 \in 1 .. Len(q) /\ q[i + 1] = "finished" /\ Len(Tail(q)) = Len(q) - 1
      BY <2>2, <1>1, <1>3, TailFacts
    <3>2. i + 1 = Len(q) /\ stage[run] = "done"
      BY <3>1 DEF q, WorkerInv, LastInv
    <3> QED  BY <3>1, <3>2, <2>2, <1>3, <1>4, <1>1
  <2> QED  BY <2>1, <2>2
<1> QED  BY <1>5, <1>7, <1>8 DEF WorkerInv

\* What an answer does to a worker when it is a message of it.
LEMMA AnswerKeeps ==
  ASSUME WorkerInv, NEW run \in Runs, OnError(run) \/ OnFinished(run)
  PROVE  WorkerInv'
<1> DEFINE q == inbox[run]
           now == Head(q) = "error"
<1>1. q \in Seq(Kinds) /\ q # <<>> /\ inbox \in [Runs -> Seq(Kinds)]
  BY DEF WorkerInv, WorkerTypes, OnError, OnFinished, Arrives
<1>2. /\ Rest(run) \in [Runs -> Seq(Kinds)] /\ Rest(run)[run] = Tail(q)
      /\ \A r \in Runs : r # run => Rest(run)[r] = inbox[r]
  BY <1>1, TailFacts DEF Rest
<1>3. /\ Terminate({run}, now, Rest(run)) /\ now \in BOOLEAN
      /\ ~now => q[1] = "finished"
      /\ answers' = [answers EXCEPT ![run] = @ + 1]
      /\ UNCHANGED <<workerId, printed, errorEvent, stopped>>
  BY <1>1, TailFacts DEF OnError, OnFinished, Answer, Arrives
<1>4. /\ workers' \in SUBSET Runs /\ timers' \in SUBSET Runs
      /\ stage' \in [Runs -> Stages] /\ inbox' \in [Runs -> Seq(Kinds)]
      /\ \A r \in Runs :
           /\ r \in workers' <=> r \in workers /\ r # run
           /\ r \in timers' <=> r \in timers \/ (~now /\ r \in workers /\ r = run)
           /\ now /\ r \in workers /\ r = run =>
                stage'[r] = "gone" /\ inbox'[r] = <<>>
           /\ ~(now /\ r \in workers /\ r = run) =>
                stage'[r] = stage[r] /\ inbox'[r] = Rest(run)[r]
  <2>1. {run} \in SUBSET Runs
    OBVIOUS
  <2>2. EndOf({run}, now, Rest(run))
    BY <2>1, <1>2, <1>3, TerminateFacts, Zenon
  <2> QED  BY <2>2 DEF EndOf
<1>5. /\ answers' \in [Runs -> Nat] /\ answers[run] \in Nat
      /\ answers'[run] = answers[run] + 1
      /\ \A r \in Runs : r # run => answers'[r] = answers[r]
  BY <1>3 DEF WorkerInv, WorkerTypes
<1>6. /\ stage[run] # "none" /\ stage[run] # "gone"
      /\ run \notin stopped => ~(answers[run] > 0)
      /\ run \notin stopped => run \in workers
  BY <1>1 DEF WorkerInv, StartedInv, AliveInv, AnsweredInv
<1>7. ~now => Tail(q) = <<>> /\ stage[run] = "done"
  <2>1. 1 \in 1 .. Len(q) /\ Len(q) \in Nat
    BY <1>1, TailFacts
  <2>2. ~now => Len(q) = 1 /\ stage[run] = "done"
    BY <1>3, <2>1 DEF WorkerInv, LastInv
  <2> QED  BY <1>1, <2>2, TailFacts
<1> HIDE DEF q, now
<1>8. WorkerTypes'
  BY <1>3, <1>4, <1>5 DEF WorkerInv, WorkerTypes
<1>9. StartedInv'
  <2>1. \A r \in Runs : stage'[r] = "none" <=> stage[r] = "none"
    BY <1>4, <1>6
  <2>2. \A r \in Runs : stage[r] = "none" =>
          r # run /\ inbox'[r] = inbox[r] /\ answers'[r] = answers[r]
    BY <1>2, <1>4, <1>5, <1>6
  <2> QED  BY <2>1, <2>2, <1>3 DEF WorkerInv, StartedInv
<1>10. AliveInv'
  BY <1>2, <1>3, <1>4, <1>6 DEF WorkerInv, AliveInv
<1>11. AnsweredInv'
  <2> SUFFICES ASSUME NEW r \in Runs \ stopped
               PROVE  /\ stage'[r] # "none" /\ r \notin workers' => answers'[r] > 0
                      /\ answers'[r] > 0 =>
                           /\ inbox'[r] = <<>> /\ stage'[r] \in {"done", "gone"}
                           /\ r \notin workers'
                      /\ r \in errorEvent' => answers'[r] <= 1
    BY <1>3 DEF AnsweredInv
  <2>1. CASE r # run
    BY <2>1, <1>2, <1>3, <1>4, <1>5 DEF WorkerInv, AnsweredInv
  <2>2. CASE r = run
    <3>1. run \in workers /\ run \notin workers' /\ answers[run] = 0 /\ answers'[run] = 1
      BY <2>2, <1>4, <1>5, <1>6
    <3>2. inbox'[run] = <<>> /\ stage'[run] \in {"done", "gone"}
      BY <3>1, <1>2, <1>4, <1>7
    <3> QED  BY <2>2, <3>1, <3>2
  <2> QED  BY <2>1, <2>2
<1>12. LastInv'
  <2> SUFFICES ASSUME NEW r \in Runs, NEW i \in 1 .. Len(inbox'[r]),
                      inbox'[r][i] = "finished"
               PROVE  i = Len(inbox'[r]) /\ stage'[r] = "done"
    BY DEF LastInv
  <2>1. CASE r # run
    <3>1. inbox'[r] = inbox[r] /\ stage'[r] = stage[r]
      BY <2>1, <1>2, <1>4
    <3> QED  BY <3>1 DEF WorkerInv, LastInv
  <2>2. CASE r = run
    <3>1. inbox'[run] = Tail(q) /\ stage'[run] = stage[run]
      BY <2>2, <1>2, <1>4
    <3>2. i + 1 \in 1 .. Len(q) /\ q[i + 1] = "finished" /\ Len(Tail(q)) = Len(q) - 1
      BY <2>2, <3>1, <1>1, TailFacts
    <3>3. i + 1 = Len(q) /\ stage[run] = "done"
      BY <3>2 DEF q, WorkerInv, LastInv
    <3>4. Len(q) \in Nat /\ i \in Int
      BY <1>1, TailFacts
    <3>5. i = Len(Tail(q))
      BY <3>2, <3>3, <3>4
    <3> QED  BY <3>1, <3>3, <3>5, <2>2
  <2> QED  BY <2>1, <2>2
<1> QED  BY <1>8, <1>9, <1>10, <1>11, <1>12 DEF WorkerInv

LEMMA ErrorEventKeeps ==
  ASSUME WorkerInv, NEW run \in Runs, OnErrorEvent(run)
  PROVE  WorkerInv'
<1>1. /\ Terminate({run}, TRUE, inbox) /\ run \in errorEvent
      /\ errorEvent' = errorEvent \ {run}
      /\ answers' = [answers EXCEPT ![run] = @ + 1]
      /\ UNCHANGED <<workerId, printed, stopped>>
  BY DEF OnErrorEvent, Answer
<1>2. /\ workers' \in SUBSET Runs /\ timers' \in SUBSET Runs
      /\ stage' \in [Runs -> Stages] /\ inbox' \in [Runs -> Seq(Kinds)]
      /\ \A r \in Runs :
           /\ r \in workers' <=> r \in workers /\ r # run
           /\ r \in timers' <=> r \in timers
           /\ r \in workers /\ r = run => stage'[r] = "gone" /\ inbox'[r] = <<>>
           /\ ~(r \in workers /\ r = run) =>
                stage'[r] = stage[r] /\ inbox'[r] = inbox[r]
  <2>1. inbox \in [Runs -> Seq(Kinds)]
    BY DEF WorkerInv, WorkerTypes
  <2>2. {run} \in SUBSET Runs /\ TRUE \in BOOLEAN
    OBVIOUS
  <2>3. EndOf({run}, TRUE, inbox)
    BY <1>1, <2>1, <2>2, TerminateFacts, Zenon
  <2> QED  BY <2>3 DEF EndOf
<1>3. /\ answers' \in [Runs -> Nat] /\ answers[run] \in Nat
      /\ answers'[run] = answers[run] + 1
      /\ \A r \in Runs : r # run => answers'[r] = answers[r]
  BY <1>1 DEF WorkerInv, WorkerTypes
<1>4. /\ stage[run] # "none"
      /\ run \notin stopped /\ run \notin workers => answers[run] > 0
  BY <1>1 DEF WorkerInv, AliveInv, AnsweredInv
<1>5. WorkerTypes'
  BY <1>1, <1>2, <1>3 DEF WorkerInv, WorkerTypes
<1>6. StartedInv'
  BY <1>1, <1>2, <1>3, <1>4 DEF WorkerInv, StartedInv
<1>7. AliveInv'
  BY <1>1, <1>2 DEF WorkerInv, AliveInv
<1>8. LastInv'
  <2> SUFFICES ASSUME NEW r \in Runs, NEW i \in 1 .. Len(inbox'[r]),
                      inbox'[r][i] = "finished"
               PROVE  i = Len(inbox'[r]) /\ stage'[r] = "done"
    BY DEF LastInv
  <2>1. stage'[r] = stage[r] /\ inbox'[r] = inbox[r]
    BY <1>2
  <2> QED  BY <2>1 DEF WorkerInv, LastInv
<1>9. AnsweredInv'
  <2> SUFFICES ASSUME NEW r \in Runs \ stopped
               PROVE  /\ stage'[r] # "none" /\ r \notin workers' => answers'[r] > 0
                      /\ answers'[r] > 0 =>
                           /\ inbox'[r] = <<>> /\ stage'[r] \in {"done", "gone"}
                           /\ r \notin workers'
                      /\ r \in errorEvent' => answers'[r] <= 1
    BY <1>1 DEF AnsweredInv
  <2>1. CASE r # run
    BY <2>1, <1>1, <1>2, <1>3 DEF WorkerInv, AnsweredInv
  <2>2. CASE r = run
    <3>1. run \notin workers' /\ run \notin errorEvent' /\ answers'[run] > 0
      BY <1>1, <1>2, <1>3
    <3>2. run \in workers => inbox'[run] = <<>> /\ stage'[run] \in {"done", "gone"}
      BY <1>2
    <3>3. run \notin workers => inbox'[run] = <<>> /\ stage'[run] \in {"done", "gone"}
      BY <2>2, <1>2, <1>4 DEF WorkerInv, AnsweredInv
    <3> QED  BY <2>2, <3>1, <3>2, <3>3
  <2> QED  BY <2>1, <2>2
<1> QED  BY <1>5, <1>6, <1>7, <1>8, <1>9 DEF WorkerInv

LEMMA StopKeeps ==
  ASSUME WorkerInv, NEW set \in SUBSET Runs, NEW now \in BOOLEAN, Stop(set, now)
  PROVE  WorkerInv'
<1>1. /\ Terminate(set, now, inbox)
      /\ stopped' = stopped \cup {r \in set \cap workers : answers[r] = 0}
      /\ UNCHANGED <<workerId, printed, errorEvent, answers>>
  BY DEF Stop
<1>2. /\ workers' \in SUBSET Runs /\ timers' \in SUBSET Runs
      /\ stage' \in [Runs -> Stages] /\ inbox' \in [Runs -> Seq(Kinds)]
      /\ \A r \in Runs :
           /\ r \in workers' <=> r \in workers /\ r \notin set
           /\ r \in timers' <=> r \in timers \/ (~now /\ r \in workers /\ r \in set)
           /\ now /\ r \in workers /\ r \in set =>
                stage'[r] = "gone" /\ inbox'[r] = <<>>
           /\ ~(now /\ r \in workers /\ r \in set) =>
                stage'[r] = stage[r] /\ inbox'[r] = inbox[r]
  <2>1. inbox \in [Runs -> Seq(Kinds)]
    BY DEF WorkerInv, WorkerTypes
  <2>2. EndOf(set, now, inbox)
    BY <1>1, <2>1, TerminateFacts, Zenon
  <2> QED  BY <2>2 DEF EndOf
<1>3. \A r \in Runs : answers[r] \in Nat
  BY DEF WorkerInv, WorkerTypes
<1>4. WorkerTypes'
  BY <1>1, <1>2 DEF WorkerInv, WorkerTypes
<1>5. StartedInv'
  BY <1>1, <1>2 DEF WorkerInv, StartedInv, AliveInv
<1>6. AliveInv'
  BY <1>1, <1>2 DEF WorkerInv, AliveInv
<1>7. LastInv'
  <2> SUFFICES ASSUME NEW r \in Runs, NEW i \in 1 .. Len(inbox'[r]),
                      inbox'[r][i] = "finished"
               PROVE  i = Len(inbox'[r]) /\ stage'[r] = "done"
    BY DEF LastInv
  <2>1. stage'[r] = stage[r] /\ inbox'[r] = inbox[r]
    BY <1>2
  <2> QED  BY <2>1 DEF WorkerInv, LastInv
<1>8. AnsweredInv'
  BY <1>1, <1>2, <1>3 DEF WorkerInv, AnsweredInv
<1> QED  BY <1>4, <1>5, <1>6, <1>7, <1>8 DEF WorkerInv

LEMMA TimerKeeps ==
  ASSUME WorkerInv, NEW run \in Runs, TimerFires(run)
  PROVE  WorkerInv'
<1>1. /\ run \in timers /\ timers' = timers \ {run}
      /\ stage' = [r \in Runs |-> IF r = run THEN "gone" ELSE stage[r]]
      /\ inbox' = [r \in Runs |-> IF r = run THEN <<>> ELSE inbox[r]]
      /\ UNCHANGED <<workerId, workers, printed, errorEvent, answers, stopped>>
  BY DEF TimerFires, WorkersEnd
<1>2. stage[run] # "none" /\ run \notin workers
  BY <1>1 DEF WorkerInv, AliveInv
<1>3. WorkerTypes'
  BY <1>1 DEF WorkerInv, WorkerTypes, Stages
<1>4. StartedInv'
  BY <1>1, <1>2 DEF WorkerInv, StartedInv
<1>5. AliveInv'
  BY <1>1, <1>2 DEF WorkerInv, AliveInv
<1>6. LastInv'
  <2> SUFFICES ASSUME NEW r \in Runs, NEW i \in 1 .. Len(inbox'[r]),
                      inbox'[r][i] = "finished"
               PROVE  i = Len(inbox'[r]) /\ stage'[r] = "done"
    BY DEF LastInv
  <2>1. stage'[r] = stage[r] /\ inbox'[r] = inbox[r]
    BY <1>1
  <2> QED  BY <2>1 DEF WorkerInv, LastInv
<1>7. AnsweredInv'
  BY <1>1, <1>2 DEF WorkerInv, AnsweredInv
<1> QED  BY <1>3, <1>4, <1>5, <1>6, <1>7 DEF WorkerInv

-----------------------------------------------------------------------------
\* What a step of one worker's own may do: it gets further, prints, posts.
Posts(run, place, messages) ==
  /\ stage[run] \in {"loading", "pending", "ready", "engine", "continued"}
  /\ place \in Stages \ {"none", "gone"}
  /\ messages \in Seq(Kinds)
  /\ \A i \in 1 .. Len(messages) : messages[i] = "finished" =>
       i = Len(messages) /\ place = "done"
  /\ stage' = [stage EXCEPT ![run] = place]
  /\ inbox' = [inbox EXCEPT ![run] = @ \o messages]
  /\ UNCHANGED pageVars

LEMMA OneMessage ==
  ASSUME NEW a \in Kinds
  PROVE  /\ <<a>> \in Seq(Kinds) /\ Len(<<a>>) = 1 /\ <<a>>[1] = a
         /\ \A q \in Seq(Kinds) : Append(q, a) = q \o <<a>>
  BY DEF Kinds

LEMMA WorkerPosts ==
  ASSUME WorkerInv, NEW run \in Runs, WorkerStep(run) \/ Crash(run) \/ Reject(run)
  PROVE  /\ \E place \in Stages, messages \in Seq(Kinds) : Posts(run, place, messages)
         /\ printed' \in 0 .. MaxLines
         /\ \/ errorEvent' = errorEvent
            \/ errorEvent' = errorEvent \cup {run} /\ stage'[run] = "crashed"
<1> USE DEF Reach
<1>1. /\ stage \in [Runs -> Stages] /\ inbox \in [Runs -> Seq(Kinds)]
      /\ inbox[run] \in Seq(Kinds) /\ printed \in 0 .. MaxLines
  BY DEF WorkerInv, WorkerTypes
<1>2. /\ inbox[run] \o <<>> = inbox[run]
      /\ inbox = [inbox EXCEPT ![run] = @ \o <<>>]
      /\ stage = [stage EXCEPT ![run] = stage[run]]
      /\ <<>> \in Seq(Kinds) /\ Len(<<>>) = 0
  BY <1>1, ConcatEmptySeq
<1>3. CASE GetsMessage(run) \/ PreRun(run)
  <2>1. PICK place \in {"pending", "ready", "engine", "continued"} :
          /\ stage[run] \in {"loading", "pending", "ready"}
          /\ stage' = [stage EXCEPT ![run] = place]
          /\ UNCHANGED <<pageVars, printed, inbox, errorEvent>>
    BY <1>3 DEF GetsMessage, PreRun
  <2>2. place \in Stages \ {"none", "gone"}
    BY DEF Stages
  <2>3. Posts(run, place, <<>>)
    BY <1>2, <2>1, <2>2 DEF Posts
  <2> QED  BY <1>1, <1>2, <2>1, <2>2, <2>3
<1>4. ASSUME NEW type \in {"data", "error"}, PrintLine(run, type)
      PROVE  Posts(run, stage[run], <<type>>) /\ errorEvent' = errorEvent
             /\ printed' \in 0 .. MaxLines
  <2>1. /\ stage[run] \in {"engine", "continued"} /\ printed < MaxLines /\ printed' = printed + 1
        /\ inbox' = [inbox EXCEPT ![run] = @ \o <<type>>]
        /\ UNCHANGED <<pageVars, stage, errorEvent>>
    BY <1>4 DEF PrintLine, EngineRuns, Post
  <2>2. type \in Kinds /\ type # "finished" /\ stage[run] \in Stages \ {"none", "gone"}
    BY <2>1 DEF Kinds, Stages
  <2>3. Posts(run, stage[run], <<type>>)
    BY <1>2, <2>1, <2>2, OneMessage DEF Posts
  <2> QED  BY <1>1, <2>1, <2>3, BoundsAssumption
<1>5. ASSUME PostRun(run)
      PROVE  (\E messages \in Seq(Kinds) : Posts(run, "done", messages))
             /\ errorEvent' = errorEvent /\ printed' = printed
  <2>1. PICK messages \in {<<"finished">>, <<"error", "finished">>, <<"error">>,
                           <<"error", "error">>} :
          /\ stage[run] \in {"engine", "continued"}
          /\ stage' = [stage EXCEPT ![run] = "done"]
          /\ inbox' = [inbox EXCEPT ![run] = @ \o messages]
          /\ UNCHANGED <<pageVars, printed, errorEvent>>
    BY <1>5 DEF PostRun, EngineRuns, Post
  <2> DEFINE Fits(m) == m \in Seq(Kinds)
                        /\ \A i \in 1 .. Len(m) : m[i] = "finished" => i = Len(m)
  <2>2. Fits(<<"finished">>) /\ Fits(<<"error">>)
    BY DEF Kinds
  <2>3. Fits(<<"error", "finished">>) /\ Fits(<<"error", "error">>)
    <3>1. <<"error", "finished">> \in Seq(Kinds) /\ <<"error", "error">> \in Seq(Kinds)
      BY DEF Kinds
    <3>2. Len(<<"error", "finished">>) = 2 /\ Len(<<"error", "error">>) = 2
      OBVIOUS
    <3>3. 1 .. 2 = {1, 2}
      OBVIOUS
    <3> QED  BY <3>1, <3>2, <3>3
  <2>4. Posts(run, "done", messages)
    <3>1. Fits(messages)
      BY <2>1, <2>2, <2>3
    <3> QED  BY <2>1, <3>1 DEF Posts, Stages
  <2> QED  BY <2>1, <2>2, <2>3, <2>4
<1>6. ASSUME Crash(run)
      PROVE  (\E messages \in Seq(Kinds) : Posts(run, "crashed", messages))
             /\ errorEvent' = errorEvent \cup {run} /\ stage'[run] = "crashed"
             /\ printed' = printed
  <2>1. /\ stage[run] \in {"loading", "ready", "engine"}
        /\ stage' = [stage EXCEPT ![run] = "crashed"]
        /\ errorEvent' = errorEvent \cup {run}
        /\ inbox' = inbox \/ inbox' = [inbox EXCEPT ![run] = Append(@, "error")]
        /\ UNCHANGED <<pageVars, printed>>
    BY <1>6 DEF Crash
  <2>2. "error" \in Kinds /\ "crashed" \in Stages \ {"none", "gone"}
    BY DEF Kinds, Stages
  <2>3. CASE inbox' = inbox
    <3>1. Posts(run, "crashed", <<>>)
      BY <1>2, <2>1, <2>2, <2>3 DEF Posts
    <3> QED  BY <1>1, <1>2, <2>1, <3>1
  <2>4. CASE inbox' = [inbox EXCEPT ![run] = Append(@, "error")]
    <3>1. Append(inbox[run], "error") = inbox[run] \o <<"error">>
      BY <1>1, <2>2, OneMessage
    <3>2. inbox' = [inbox EXCEPT ![run] = @ \o <<"error">>]
      BY <2>4, <3>1
    <3>3. /\ <<"error">> \in Seq(Kinds)
          /\ \A i \in 1 .. Len(<<"error">>) : <<"error">>[i] # "finished"
      BY <2>2, OneMessage
    <3>4. Posts(run, "crashed", <<"error">>)
      BY <2>1, <2>2, <3>2, <3>3 DEF Posts
    <3> QED  BY <1>1, <2>1, <3>3, <3>4
  <2> QED  BY <2>1, <2>3, <2>4
<1>7. ASSUME Reject(run)
      PROVE  (\E messages \in Seq(Kinds) : Posts(run, "lost", messages))
             /\ errorEvent' = errorEvent /\ printed' = printed
  <2>1. /\ stage[run] \in {"loading", "pending", "continued"}
        /\ stage' = [stage EXCEPT ![run] = "lost"]
        /\ UNCHANGED <<pageVars, printed, errorEvent>>
    BY <1>7 DEF Reject
  <2>2. PICK messages \in {<<"error", "error">>, <<"error">>, <<>>} :
          inbox' = [inbox EXCEPT ![run] = @ \o messages]
    BY <1>2, <1>7 DEF Reject, Post
  <2>3. /\ messages \in Seq(Kinds)
        /\ \A i \in 1 .. Len(messages) : messages[i] # "finished"
    <3>1. CASE messages = <<"error", "error">>
      BY <3>1 DEF Kinds
    <3>2. CASE messages = <<"error">>
      BY <3>2 DEF Kinds
    <3>3. CASE messages = <<>>
      BY <3>3
    <3> QED  BY <2>2, <3>1, <3>2, <3>3
  <2>4. Posts(run, "lost", messages)
    BY <2>1, <2>2, <2>3 DEF Posts, Stages
  <2> QED  BY <2>1, <2>3, <2>4
<1>8. /\ "engine" \in Stages /\ "done" \in Stages /\ "crashed" \in Stages
      /\ "lost" \in Stages /\ stage[run] \in Stages
  BY <1>1 DEF Stages
<1>9. \A type \in {"data", "error"} : <<type>> \in Seq(Kinds)
  BY DEF Kinds
<1> QED  BY <1>1, <1>3, <1>4, <1>5, <1>6, <1>7, <1>8, <1>9 DEF WorkerStep

LEMMA PostsKeeps ==
  ASSUME WorkerInv, NEW run \in Runs, WorkerStep(run) \/ Crash(run) \/ Reject(run)
  PROVE  WorkerInv'
<1>1. PICK place \in Stages, messages \in Seq(Kinds) : Posts(run, place, messages)
  BY WorkerPosts
<1>2. /\ printed' \in 0 .. MaxLines
      /\ \/ errorEvent' = errorEvent
         \/ errorEvent' = errorEvent \cup {run} /\ stage'[run] = "crashed"
  BY WorkerPosts
<1>3. /\ stage' \in [Runs -> Stages] /\ stage'[run] = place
      /\ place \notin {"none", "gone"}
      /\ stage[run] \in {"loading", "pending", "ready", "engine", "continued"}
      /\ \A r \in Runs : r # run => stage'[r] = stage[r]
  BY <1>1 DEF Posts, WorkerInv, WorkerTypes
<1>4. /\ inbox[run] \in Seq(Kinds) /\ inbox' \in [Runs -> Seq(Kinds)]
      /\ inbox'[run] = inbox[run] \o messages
      /\ \A r \in Runs : r # run => inbox'[r] = inbox[r]
  BY <1>1, ConcatProperties DEF Posts, WorkerInv, WorkerTypes
<1>5. UNCHANGED <<workerId, workers, timers, answers, stopped>>
  BY <1>1 DEF Posts, pageVars
<1>6. /\ run \notin stopped => ~(answers[run] > 0)
      /\ run \notin errorEvent
  BY <1>3 DEF WorkerInv, AliveInv, AnsweredInv
<1>7. WorkerTypes'
  BY <1>2, <1>3, <1>4, <1>5 DEF WorkerInv, WorkerTypes
<1>8. StartedInv'
  <2>1. \A r \in Runs : stage'[r] = "none" <=> stage[r] = "none"
    BY <1>3
  <2>2. \A r \in Runs : stage[r] = "none" =>
          r # run /\ inbox'[r] = inbox[r] /\ (r \in errorEvent' => r \in errorEvent)
    BY <1>2, <1>3, <1>4
  <2> QED  BY <2>1, <2>2, <1>5 DEF WorkerInv, StartedInv
<1>9. AliveInv'
  BY <1>2, <1>3, <1>4, <1>5, <1>6 DEF WorkerInv, AliveInv
<1>10. AnsweredInv'
  <2> SUFFICES ASSUME NEW r \in Runs \ stopped
               PROVE  /\ stage'[r] # "none" /\ r \notin workers => answers[r] > 0
                      /\ answers[r] > 0 =>
                           /\ inbox'[r] = <<>> /\ stage'[r] \in {"done", "gone"}
                           /\ r \notin workers
                      /\ r \in errorEvent' => answers[r] <= 1
    BY <1>5 DEF AnsweredInv
  <2>1. CASE r # run
    BY <2>1, <1>2, <1>3, <1>4 DEF WorkerInv, AnsweredInv
  <2>2. CASE r = run
    <3>1. answers[run] = 0
      BY <2>2, <1>6 DEF WorkerInv, WorkerTypes
    <3> QED  BY <2>2, <3>1, <1>3 DEF WorkerInv, AnsweredInv
  <2> QED  BY <2>1, <2>2
<1>11. LastInv'
  <2> SUFFICES ASSUME NEW r \in Runs, NEW i \in 1 .. Len(inbox'[r]),
                      inbox'[r][i] = "finished"
               PROVE  i = Len(inbox'[r]) /\ stage'[r] = "done"
    BY DEF LastInv
  <2>1. CASE r # run
    <3>1. inbox'[r] = inbox[r] /\ stage'[r] = stage[r]
      BY <2>1, <1>3, <1>4
    <3> QED  BY <3>1 DEF WorkerInv, LastInv
  <2>2. CASE r = run
    <3> DEFINE q == inbox[run]
    <3>1. /\ Len(q) \in Nat /\ Len(messages) \in Nat
          /\ Len(q \o messages) = Len(q) + Len(messages)
          /\ \A j \in 1 .. Len(q) + Len(messages) : (q \o messages)[j] =
               IF j <= Len(q) THEN q[j] ELSE messages[j - Len(q)]
      BY <1>4, ConcatProperties, LenProperties
    <3>2. i \in 1 .. Len(q) + Len(messages) /\ (q \o messages)[i] = "finished"
      BY <2>2, <1>4, <3>1
    <3>3. i > Len(q)
      <4> SUFFICES ASSUME i <= Len(q) PROVE FALSE
        BY <3>1, <3>2
      <4>1. i \in 1 .. Len(q) /\ q[i] = "finished"
        BY <3>1, <3>2
      <4> QED  BY <4>1, <1>3 DEF WorkerInv, LastInv
    <3>4. i - Len(q) \in 1 .. Len(messages) /\ messages[i - Len(q)] = "finished"
      BY <3>1, <3>2, <3>3
    <3>5. i - Len(q) = Len(messages) /\ place = "done"
      BY <3>4, <1>1 DEF Posts
    <3> QED  BY <2>2, <1>3, <1>4, <3>1, <3>2, <3>5
  <2> QED  BY <2>1, <2>2
<1> QED  BY <1>7, <1>8, <1>9, <1>10, <1>11 DEF WorkerInv

\* The workers' invariant is inductive.
LEMMA WorkersKeep == ASSUME WorkerInv, WorkersStep PROVE WorkerInv'
<1>1. CASE UNCHANGED workerVars
  BY <1>1 DEF WorkerInv, WorkerTypes, StartedInv, AliveInv, LastInv, AnsweredInv,
              workerVars
<1> QED  BY <1>1, CreateKeeps, DataKeeps, AnswerKeeps, ErrorEventKeeps, StopKeeps,
            PostsKeeps, TimerKeeps DEF WorkersStep

-----------------------------------------------------------------------------
\* A step of the specification is a step of the workers.
LEMMA StepsOfWorkers == ASSUME WorkerInv, [Next]_vars PROVE WorkersStep
<1>1. workers \in SUBSET Runs
  BY DEF WorkerInv, WorkerTypes
<1>2. ASSUME NEW now \in BOOLEAN, NEW set \in {{r} : r \in workers} \cup {workers},
             StopRuns(set, now)
      PROVE  WorkersStep
  <2>1. set \in SUBSET Runs
    BY <1>1
  <2> QED  BY <1>2, <2>1 DEF StopRuns, WorkersStep
<1>3. ASSUME Unmount PROVE WorkersStep
  BY <1>1, <1>3 DEF Unmount, WorkersStep
<1>4. ASSUME NEW run \in Runs,
             DataArrives(run) \/ AnswerArrives(run)
               \/ ((WorkerStep(run) \/ Crash(run) \/ Reject(run) \/ TimerFires(run))
                     /\ UNCHANGED hookVars)
      PROVE  WorkersStep
  BY <1>4 DEF DataArrives, AnswerArrives, WorkersStep
<1>5. ASSUME Run \/ RunThrows \/ ClearOutput \/ FrameRuns PROVE WorkersStep
  BY <1>5 DEF Run, RunThrows, ClearOutput, FrameRuns, WorkersStep
<1>6. ASSUME UNCHANGED vars PROVE WorkersStep
  BY <1>6 DEF vars, WorkersStep
<1> QED  BY <1>2, <1>3, <1>4, <1>5, <1>6 DEF Next

\* The types of the variables of the hook.
HookTypes ==
  /\ activeRuns \in Nat
  /\ mounted \in BOOLEAN /\ clearOnRun \in BOOLEAN /\ running \in BOOLEAN
  /\ outputFrame \in BOOLEAN
  /\ output \in Seq(Runs) /\ outputBuffer \in Seq(Runs) /\ arrived \in Seq(Runs)

\* The count of active runs: never more than have not called back, and no fewer
\* as long as no run has called back twice.
CountInv ==
  mounted =>
    /\ running = (activeRuns > 0)
    /\ activeRuns <= Cardinality(Unanswered)
    /\ (\A r \in Runs : answers[r] <= 1) => activeRuns = Cardinality(Unanswered)

\* What is shown and what waits for a frame is what arrived.
OutputInv ==
  mounted =>
    /\ output \o outputBuffer = arrived
    /\ outputBuffer # <<>> => outputFrame

HookInv == WorkerInv /\ HookTypes /\ CountInv /\ OutputInv

LEMMA Initially == ASSUME HookInit PROVE HookInv
<1>1. WorkerInv
  BY WorkersInit DEF HookInit
<1>2. HookTypes
  <2>1. <<>> \in Seq(Runs) /\ 0 \in Nat
    OBVIOUS
  <2> QED  BY <2>1, Zenon DEF HookInit, HookTypes
<1>3. Unanswered = {}
  BY DEF HookInit, Init, Unanswered, Started
<1>4. CountInv
  <2>1. Cardinality(Unanswered) = 0
    BY <1>3, FS_EmptySet
  <2>2. activeRuns = 0 /\ running = FALSE
    BY DEF HookInit
  <2>3. ~(activeRuns > 0) /\ activeRuns <= Cardinality(Unanswered)
    BY <2>1, <2>2
  <2>4. running = (activeRuns > 0)
    <3>1. (0 > 0) = FALSE
      OBVIOUS
    <3> QED  BY <2>2, <3>1, Zenon
  <2> QED  BY <2>1, <2>2, <2>3, <2>4, Zenon DEF CountInv
<1>5. OutputInv
  BY DEF HookInit, OutputInv
<1> QED  BY <1>1, <1>2, <1>4, <1>5 DEF HookInv

LEMMA RunsFinite ==
  /\ IsFiniteSet(Runs) /\ IsFiniteSet(Unanswered)
  /\ Cardinality(Unanswered) \in Nat
<1>1. IsFiniteSet(Runs)
  BY BoundsAssumption, FS_Interval DEF Runs
<1>2. Unanswered \subseteq Runs
  BY DEF Unanswered, Started
<1> QED  BY <1>1, <1>2, FS_Subset, FS_CardinalityType

\* The steps that neither start a run nor call back leave the count right.
LEMMA SameCount ==
  ASSUME HookInv, UNCHANGED answers, Started' = Started,
         mounted' => mounted, UNCHANGED activeRuns \/ ~mounted',
         mounted' => running' = (activeRuns > 0)
  PROVE  CountInv'
<1>1. Unanswered' = Unanswered
  BY DEF Unanswered
<1> QED  BY <1>1 DEF HookInv, CountInv

\* A worker that has been started stays started.
LEMMA SameStarted ==
  ASSUME WorkerInv, WorkersStep, ~CreateWorker
  PROVE  Started' = Started
<1>1. SUFFICES \A r \in Runs : stage'[r] = "none" <=> stage[r] = "none"
  BY DEF Started
<1>2. WorkerInv' /\ UNCHANGED workerId
  <2>1. UNCHANGED workerId
    BY DEF WorkersStep, OnData, OnError, OnFinished, OnErrorEvent, Stop, WorkerStep,
           GetsMessage, PreRun, PrintLine, PostRun, Crash, Reject, TimerFires, pageVars,
           workerVars
  <2> QED  BY <2>1, WorkersKeep
<1> QED  BY <1>2 DEF WorkerInv, StartedInv

LEMMA RunKeeps == ASSUME HookInv, Run PROVE HookTypes' /\ CountInv' /\ OutputInv'
<1>1. /\ mounted /\ activeRuns' = activeRuns + 1 /\ running' = TRUE
      /\ IF clearOnRun THEN EmptyOutput ELSE UNCHANGED outputVars
      /\ CreateWorker /\ UNCHANGED <<mounted, clearOnRun>>
  BY DEF Run, StartRun
<1>2. HookTypes'
  <2>1. activeRuns' \in Nat /\ mounted' \in BOOLEAN /\ clearOnRun' \in BOOLEAN
    BY <1>1 DEF HookInv, HookTypes
  <2>2. <<>> \in Seq(Runs)
    OBVIOUS
  <2>3. CASE clearOnRun
    BY <1>1, <2>1, <2>2, <2>3, Zenon DEF EmptyOutput, HookTypes
  <2>4. CASE ~clearOnRun
    BY <1>1, <2>1, <2>4, Zenon DEF HookInv, HookTypes, outputVars
  <2> QED  BY <2>3, <2>4
<1>3. OutputInv'
  <2>1. CASE clearOnRun
    <3>1. <<>> \o <<>> = <<>>
      BY ConcatEmptySeq, EmptySeq
    <3> QED  BY <1>1, <2>1, <3>1, Zenon DEF EmptyOutput, OutputInv
  <2>2. CASE ~clearOnRun
    BY <1>1, <2>2 DEF HookInv, OutputInv, outputVars
  <2> QED  BY <2>1, <2>2
<1>4. Unanswered' = Unanswered \cup {workerId} /\ workerId \notin Unanswered
  <2>1. /\ workerId \in Runs /\ UNCHANGED answers
        /\ stage' = [stage EXCEPT ![workerId] = "loading"]
    BY <1>1 DEF CreateWorker
  <2>2. /\ stage[workerId] = "none" /\ answers[workerId] = 0 /\ stage \in [Runs -> Stages]
    BY <2>1 DEF HookInv, WorkerInv, WorkerTypes, StartedInv, Runs
  <2> QED  BY <2>1, <2>2 DEF Unanswered, Started
<1>5. Cardinality(Unanswered') = Cardinality(Unanswered) + 1
  BY <1>4, RunsFinite, FS_AddElement
<1>6. CountInv'
  <2>1. /\ activeRuns \in Nat /\ activeRuns <= Cardinality(Unanswered)
        /\ (\A r \in Runs : answers[r] <= 1) => activeRuns = Cardinality(Unanswered)
    BY <1>1 DEF HookInv, HookTypes, CountInv
  <2>2. activeRuns' > 0 /\ activeRuns' <= Cardinality(Unanswered')
    BY <1>1, <1>5, <2>1, RunsFinite
  <2>3. running' = (activeRuns' > 0)
    BY <1>1, <2>2, Zenon
  <2>4. (\A r \in Runs : answers'[r] <= 1) => activeRuns' = Cardinality(Unanswered')
    BY <1>1, <1>5, <2>1 DEF CreateWorker
  <2> QED  BY <2>2, <2>3, <2>4, Zenon DEF CountInv
<1> QED  BY <1>2, <1>3, <1>6

\* A frame that runs, or a run that calls back, shows what has arrived.
LEMMA FlushKeeps ==
  ASSUME HookInv, Flush, UNCHANGED mounted
  PROVE  /\ {output', outputBuffer', arrived'} \subseteq Seq(Runs) /\ outputFrame' \in BOOLEAN
         /\ OutputInv'
         /\ mounted => output' = arrived'
<1>1. /\ output \in Seq(Runs) /\ outputBuffer \in Seq(Runs) /\ arrived \in Seq(Runs)
      /\ mounted => output \o outputBuffer = arrived
  BY DEF HookInv, HookTypes, OutputInv
<1>2. /\ output' = output \o outputBuffer /\ outputBuffer' = <<>> /\ outputFrame' = FALSE
      /\ arrived' = arrived
  BY DEF Flush
<1>3. output' \in Seq(Runs) /\ output' \o <<>> = output' /\ <<>> \in Seq(Runs)
  BY <1>1, <1>2, ConcatProperties, ConcatEmptySeq
<1> QED  BY <1>1, <1>2, <1>3 DEF OutputInv

LEMMA AnswerCounted ==
  ASSUME HookInv, NEW run \in Runs, AnswerArrives(run)
  PROVE  HookTypes' /\ CountInv' /\ OutputInv'
<1>1. /\ OnError(run) \/ OnFinished(run) \/ OnErrorEvent(run)
      /\ Flush /\ UNCHANGED <<mounted, clearOnRun>>
      /\ activeRuns' = IF activeRuns = 0 THEN 0 ELSE activeRuns - 1
      /\ running' = (activeRuns' > 0)
  BY DEF AnswerArrives, FinishRun
<1>2. activeRuns' \in Nat /\ running' \in BOOLEAN
  <2>1. activeRuns' \in Nat
    BY <1>1 DEF HookInv, HookTypes
  <2> QED  BY <1>1, <2>1
<1>3. HookTypes'
  BY <1>1, <1>2, FlushKeeps DEF HookInv, HookTypes
<1>4. OutputInv'
  BY <1>1, FlushKeeps
<1>5. /\ answers' = [answers EXCEPT ![run] = @ + 1] /\ answers \in [Runs -> Nat]
      /\ WorkersStep /\ ~CreateWorker
  <2>1. answers' = [answers EXCEPT ![run] = @ + 1]
    BY <1>1 DEF OnError, OnFinished, OnErrorEvent, Answer
  <2>2. answers \in [Runs -> Nat]
    BY DEF HookInv, WorkerInv, WorkerTypes
  <2>3. answers'[run] # answers[run]
    BY <2>1, <2>2
  <2>4. ~CreateWorker
    BY <2>3 DEF CreateWorker
  <2> QED  BY <1>1, <2>1, <2>2, <2>4 DEF WorkersStep
<1>6. /\ answers'[run] = answers[run] + 1 /\ answers[run] \in Nat
      /\ \A r \in Runs : r # run => answers'[r] = answers[r]
  BY <1>5
<1>7. Started' = Started /\ run \in Started
  <2>1. stage[run] # "none"
    BY <1>1 DEF HookInv, WorkerInv, StartedInv, OnError, OnFinished, OnErrorEvent,
                Arrives
  <2> QED  BY <1>5, <2>1, SameStarted DEF HookInv, Started
<1>8. Unanswered' = Unanswered \ {run}
  <2>1. answers'[run] # 0
    BY <1>6
  <2>2. \A r : r \in Unanswered' <=> r \in Unanswered /\ r # run
    BY <2>1, <1>6, <1>7 DEF Unanswered, Started
  <2> QED  BY <2>2
<1>9. CountInv'
  <2> SUFFICES ASSUME mounted
               PROVE  /\ activeRuns' <= Cardinality(Unanswered')
                      /\ (\A r \in Runs : answers'[r] <= 1) =>
                           activeRuns' = Cardinality(Unanswered')
    BY <1>1 DEF CountInv
  <2>1. /\ activeRuns \in Nat /\ activeRuns <= Cardinality(Unanswered)
        /\ (\A r \in Runs : answers[r] <= 1) => activeRuns = Cardinality(Unanswered)
    BY DEF HookInv, HookTypes, CountInv
  <2>2. CASE answers[run] = 0
    <3>1. run \in Unanswered
      BY <2>2, <1>7 DEF Unanswered
    <3>2. Cardinality(Unanswered') = Cardinality(Unanswered) - 1
      BY <1>8, <3>1, RunsFinite, FS_RemoveElement
    <3>3. Cardinality(Unanswered) > 0
      BY <3>1, RunsFinite, FS_EmptySet
    <3>4. (\A r \in Runs : answers'[r] <= 1) => \A r \in Runs : answers[r] <= 1
      BY <1>6, <2>2
    <3>5. activeRuns' <= Cardinality(Unanswered')
      BY <1>1, <2>1, <3>2, <3>3, RunsFinite
    <3>6. activeRuns = Cardinality(Unanswered) => activeRuns' = Cardinality(Unanswered')
      BY <1>1, <2>1, <3>2, <3>3, RunsFinite
    <3> QED  BY <2>1, <3>4, <3>5, <3>6
  <2>3. CASE answers[run] # 0
    <3>1. Unanswered' = Unanswered
      BY <2>3, <1>8 DEF Unanswered
    <3>2. ~(answers'[run] <= 1)
      BY <2>3, <1>6
    <3>3. activeRuns' <= Cardinality(Unanswered')
      BY <1>1, <2>1, <3>1, RunsFinite
    <3> QED  BY <3>2, <3>3
  <2> QED  BY <2>2, <2>3
<1> QED  BY <1>3, <1>4, <1>9

LEMMA DataShown ==
  ASSUME HookInv, NEW run \in Runs, DataArrives(run)
  PROVE  HookTypes' /\ OutputInv'
<1>1. /\ output' = output /\ outputBuffer' = Append(outputBuffer, run)
      /\ outputFrame' = TRUE /\ arrived' = Append(arrived, run)
      /\ UNCHANGED <<mounted, clearOnRun, activeRuns, running>>
  BY DEF DataArrives, QueueOutput
<1>2. /\ output \in Seq(Runs) /\ outputBuffer \in Seq(Runs) /\ arrived \in Seq(Runs)
      /\ mounted => output \o outputBuffer = arrived
  BY DEF HookInv, HookTypes, OutputInv
<1>3. output \o Append(outputBuffer, run) = Append(output \o outputBuffer, run)
  BY <1>2
<1>4. HookTypes'
  BY <1>1, <1>2 DEF HookInv, HookTypes
<1>5. OutputInv'
  BY <1>1, <1>2, <1>3 DEF OutputInv
<1> QED  BY <1>4, <1>5

\* The other steps of the hook leave the count of runs alone.
LEMMA OthersKeep ==
  ASSUME HookInv,
         \/ RunThrows \/ ClearOutput \/ FrameRuns \/ Unmount
         \/ \E now \in BOOLEAN, set \in {{r} : r \in workers} \cup {workers} :
              StopRuns(set, now)
         \/ \E run \in Runs :
              \/ DataArrives(run)
              \/ (WorkerStep(run) \/ Crash(run) \/ Reject(run) \/ TimerFires(run))
                   /\ UNCHANGED hookVars
         \/ UNCHANGED vars
  PROVE  /\ UNCHANGED answers
         /\ Started' = Started
         /\ HookTypes' /\ CountInv' /\ OutputInv'
<1>1. UNCHANGED answers
  BY DEF RunThrows, ClearOutput, FrameRuns, Unmount, StopRuns, DataArrives, OnData,
         Stop, WorkerStep, GetsMessage, PreRun, PrintLine, PostRun, Crash, Reject, TimerFires,
         vars, workerVars, pageVars
<1>2. Started' = Started
  <2>1. [Next]_vars
    BY DEF Next
  <2>2. WorkersStep
    BY <2>1, StepsOfWorkers DEF HookInv
  <2>3. UNCHANGED workerId
    BY DEF RunThrows, ClearOutput, FrameRuns, Unmount, StopRuns, DataArrives, OnData,
           Stop, WorkerStep, GetsMessage, PreRun, PrintLine, PostRun, Crash, Reject, TimerFires,
           vars, workerVars, pageVars
  <2>4. workerId \in Nat
    BY DEF HookInv, WorkerInv, WorkerTypes
  <2>5. ~CreateWorker
    BY <2>3, <2>4 DEF CreateWorker
  <2> QED  BY <2>2, <2>5, SameStarted DEF HookInv
<1>3. /\ mounted' => mounted
      /\ UNCHANGED activeRuns \/ ~mounted'
      /\ mounted' => running' = (activeRuns > 0)
  <2>1. mounted => running = (activeRuns > 0)
    BY DEF HookInv, CountInv
  <2>2. ASSUME UNCHANGED <<mounted, activeRuns, running>>
        PROVE  /\ mounted' => mounted
               /\ UNCHANGED activeRuns \/ ~mounted'
               /\ mounted' => running' = (activeRuns > 0)
    BY <2>1, <2>2, Zenon
  <2>3. CASE RunThrows
    BY <2>3, Zenon DEF RunThrows
  <2>4. CASE Unmount
    BY <2>4, Zenon DEF Unmount
  <2>5. CASE UNCHANGED hookVars
    BY <2>2, <2>5 DEF hookVars
  <2>6. CASE ClearOutput \/ FrameRuns \/ \E run \in Runs : DataArrives(run)
    BY <2>2, <2>6 DEF ClearOutput, FrameRuns, DataArrives
  <2> QED  BY <2>3, <2>4, <2>5, <2>6, Zenon DEF StopRuns, vars
<1>4. CountInv'
  BY <1>1, <1>2, <1>3, SameCount
<1>5. <<>> \in Seq(Runs) /\ <<>> \o <<>> = <<>>
  BY ConcatEmptySeq, EmptySeq
<1>6. ASSUME EmptyOutput, UNCHANGED <<mounted, clearOnRun, activeRuns>>,
             running' \in BOOLEAN
      PROVE  HookTypes' /\ OutputInv'
  BY <1>5, <1>6, Zenon DEF EmptyOutput, HookInv, HookTypes, OutputInv
<1>7. ASSUME UNCHANGED outputVars, mounted' => mounted, mounted' \in BOOLEAN,
             UNCHANGED clearOnRun, activeRuns' \in Nat, running' \in BOOLEAN
      PROVE  HookTypes' /\ OutputInv'
  BY <1>7, Zenon DEF outputVars, HookInv, HookTypes, OutputInv
<1>8. /\ activeRuns \in Nat /\ running \in BOOLEAN /\ mounted \in BOOLEAN
      /\ (activeRuns > 0) \in BOOLEAN
  BY DEF HookInv, HookTypes
<1>9. CASE RunThrows
  BY <1>6, <1>7, <1>8, <1>9, <1>4, <1>1, <1>2, Zenon DEF RunThrows
<1>10. CASE ClearOutput
  BY <1>6, <1>8, <1>10, <1>4, <1>1, <1>2, Zenon DEF ClearOutput
<1>11. CASE FrameRuns
  <2>1. Flush /\ UNCHANGED <<mounted, clearOnRun, activeRuns, running>>
    BY <1>11 DEF FrameRuns
  <2> QED  BY <2>1, <1>1, <1>2, <1>4, FlushKeeps DEF HookInv, HookTypes
<1>12. CASE Unmount
  <2>1. /\ mounted' = FALSE /\ activeRuns' = 0 /\ outputFrame' = FALSE
        /\ UNCHANGED <<clearOnRun, running, output, outputBuffer, arrived>>
    BY <1>12 DEF Unmount
  <2>2. HookTypes' /\ OutputInv'
    BY <2>1 DEF HookInv, HookTypes, OutputInv
  <2> QED  BY <2>2, <1>1, <1>2, <1>4
<1>13. CASE UNCHANGED hookVars
  BY <1>7, <1>8, <1>13, <1>4, <1>1, <1>2, Zenon DEF hookVars
<1>14. ASSUME NEW run \in Runs, DataArrives(run) PROVE HookTypes' /\ OutputInv'
  BY <1>14, DataShown
<1> QED  BY <1>1, <1>2, <1>4, <1>9, <1>10, <1>11, <1>12, <1>13, <1>14, Zenon
         DEF StopRuns, vars

LEMMA Inductive == ASSUME HookInv, [Next]_vars PROVE HookInv'
<1>1. WorkerInv'
  BY StepsOfWorkers, WorkersKeep DEF HookInv
<1>2. HookTypes' /\ CountInv' /\ OutputInv'
  BY RunKeeps, AnswerCounted, OthersKeep, Zenon DEF Next
<1> QED  BY <1>1, <1>2 DEF HookInv

\* In every state the page's counts, the workers' messages and the lines shown fit
\* together (HookInv): for any number of runs, stopped or not, that crash or not.
LEMMA HookInvariant == Spec => []HookInv
<1>1. HookInit => HookInv
  BY Initially
<1>2. HookInv /\ [Next]_vars => HookInv'
  BY Inductive
<1> QED  BY <1>1, <1>2, PTL DEF Spec

\* RunningIsHonest is an invariant: whatever order runs start, answer, crash and
\* are stopped in, running says whether some run has not called back, unless one
\* called back twice.
THEOREM RunningCorrect == Spec => []RunningIsHonest
<1>1. HookInv => RunningIsHonest
  <2> SUFFICES ASSUME HookInv PROVE RunningIsHonest
    OBVIOUS
  <2>1. TypeOK
    <3>1. workers \subseteq Alive /\ timers \subseteq Alive /\ workers \cap timers = {}
      BY DEF HookInv, WorkerInv, WorkerTypes, AliveInv, Alive, Started
    <3>2. /\ workerId \in Nat /\ stopped \subseteq Runs /\ errorEvent \subseteq Runs
          /\ stage \in [Runs -> {"none", "loading", "pending", "ready", "engine",
                                  "continued", "done", "crashed", "lost", "gone"}]
          /\ printed \in 0 .. MaxLines
          /\ inbox \in [Runs -> Seq({"data", "error", "finished"})]
          /\ answers \in [Runs -> Nat]
      BY DEF HookInv, WorkerInv, WorkerTypes, Stages, Kinds
    <3>3. /\ activeRuns \in Nat
          /\ {mounted, clearOnRun, running, outputFrame} \subseteq BOOLEAN
          /\ {output, outputBuffer, arrived} \subseteq Seq(Runs)
      BY DEF HookInv, HookTypes
    <3> QED  BY <3>1, <3>2, <3>3 DEF TypeOK
  <2>2. ASSUME mounted
        PROVE  /\ running => Unanswered # {}
               /\ Unanswered # {} => running \/ \E r \in Runs : answers[r] > 1
    <3>1. /\ running = (activeRuns > 0) /\ activeRuns \in Nat
          /\ activeRuns <= Cardinality(Unanswered)
          /\ (\A r \in Runs : answers[r] <= 1) => activeRuns = Cardinality(Unanswered)
      BY <2>2 DEF HookInv, HookTypes, CountInv
    <3>2. Unanswered = {} <=> Cardinality(Unanswered) = 0
      BY RunsFinite, FS_EmptySet
    <3>3. activeRuns > 0 => Unanswered # {}
      BY <3>1, <3>2, RunsFinite
    <3>4. \A r \in Runs : answers[r] \in Nat
      BY DEF HookInv, WorkerInv, WorkerTypes
    <3>5. Unanswered # {} /\ ~(activeRuns > 0) => \E r \in Runs : answers[r] > 1
      BY <3>1, <3>2, <3>4, RunsFinite
    <3> QED  BY <3>1, <3>3, <3>5, Zenon
  <2> QED  BY <2>1, <2>2 DEF RunningIsHonest
<1> QED  BY <1>1, HookInvariant, PTL

\* NothingAfterTheAnswer holds of every step: a run the page did not stop is heard
\* of once, and once more only when its worker crashed.
THEOREM SilentAfterAnswer == Spec => NothingAfterTheAnswer
<1> DEFINE Quiet == \A r \in Runs \ stopped : answers[r] > 0 =>
                      /\ Len(arrived') > Len(arrived) => arrived'[Len(arrived')] # r
                      /\ answers'[r] # answers[r] => r \in errorEvent /\ answers[r] = 1
<1>1. HookInv /\ [Next]_vars => [Quiet]_vars
  <2> SUFFICES ASSUME HookInv, Next, NEW r \in Runs \ stopped, answers[r] > 0
               PROVE  /\ Len(arrived') > Len(arrived) => arrived'[Len(arrived')] # r
                      /\ answers'[r] # answers[r] => r \in errorEvent /\ answers[r] = 1
    OBVIOUS
  <2>1. /\ inbox[r] = <<>> /\ answers[r] \in Nat /\ answers \in [Runs -> Nat]
        /\ r \in errorEvent => answers[r] <= 1
        /\ arrived \in Seq(Runs)
    BY DEF HookInv, HookTypes, WorkerInv, WorkerTypes, AnsweredInv
  <2>2. ASSUME NEW run \in Runs, DataArrives(run)
        PROVE  /\ arrived' = Append(arrived, run) /\ run # r
               /\ UNCHANGED answers
    BY <2>1, <2>2 DEF DataArrives, OnData, Arrives, QueueOutput
  <2>3. \A run \in Runs : Append(arrived, run)[Len(Append(arrived, run))] = run
    BY <2>1
  <2>4. ASSUME NEW run \in Runs, AnswerArrives(run)
        PROVE  /\ UNCHANGED arrived
               /\ answers'[r] # answers[r] => r \in errorEvent /\ run = r
    <3>1. UNCHANGED arrived /\ (OnError(run) \/ OnFinished(run) \/ OnErrorEvent(run))
      BY <2>4 DEF AnswerArrives, Flush
    <3>2. answers' = [answers EXCEPT ![run] = @ + 1]
      BY <3>1 DEF OnError, OnFinished, OnErrorEvent, Answer
    <3>3. run # r => answers'[r] = answers[r]
      BY <3>2, <2>1
    <3>4. run = r => r \in errorEvent
      BY <3>1, <2>1 DEF OnError, OnFinished, OnErrorEvent, Arrives
    <3> QED  BY <3>1, <3>3, <3>4
  <2>5. ASSUME \A run \in Runs : ~DataArrives(run) /\ ~AnswerArrives(run)
        PROVE  /\ UNCHANGED answers
               /\ UNCHANGED arrived \/ arrived' = <<>>
    <3>1. CASE Run
      BY <3>1 DEF Run, StartRun, EmptyOutput, CreateWorker, outputVars
    <3>2. CASE RunThrows \/ ClearOutput \/ FrameRuns \/ Unmount
      BY <3>2 DEF RunThrows, ClearOutput, FrameRuns, Unmount, EmptyOutput, Flush, Stop,
                  outputVars, workerVars
    <3>3. CASE \E now \in BOOLEAN : \E set \in {{v} : v \in workers} \cup {workers} :
                 StopRuns(set, now)
      BY <3>3 DEF StopRuns, Stop, hookVars, outputVars
    <3>4. CASE \E run \in Runs :
                 (WorkerStep(run) \/ Crash(run) \/ Reject(run) \/ TimerFires(run))
                   /\ UNCHANGED hookVars
      BY <3>4 DEF WorkerStep, GetsMessage, PreRun, PrintLine, PostRun, Crash, Reject, TimerFires,
                  pageVars, hookVars, outputVars
    <3> QED  BY <2>5, <3>1, <3>2, <3>3, <3>4, Zenon DEF Next
  <2>6. ~(Len(<<>>) > Len(arrived)) /\ ~(Len(arrived) > Len(arrived))
    BY <2>1
  <2>7. CASE \E run \in Runs : DataArrives(run)
    BY <2>2, <2>3, <2>7
  <2>8. CASE \E run \in Runs : AnswerArrives(run)
    <3>1. PICK run \in Runs : AnswerArrives(run)
      BY <2>8
    <3>2. UNCHANGED arrived /\ (answers'[r] # answers[r] => r \in errorEvent)
      BY <2>4, <3>1
    <3>3. r \in errorEvent => answers[r] = 1
      BY <2>1
    <3> QED  BY <2>6, <3>2, <3>3
  <2>9. CASE \A run \in Runs : ~DataArrives(run) /\ ~AnswerArrives(run)
    BY <2>5, <2>6, <2>9
  <2> QED  BY <2>7, <2>8, <2>9
<1> QED  BY <1>1, HookInvariant, PTL DEF Spec, NothingAfterTheAnswer

\* OutputIsWhatArrived holds of every step: no line is lost, shown twice or out of
\* order, and what a run printed is shown when it calls back.
THEOREM OutputCorrect == Spec => OutputIsWhatArrived
<1> DEFINE Shown == mounted' =>
                      /\ output' \o outputBuffer' = arrived'
                      /\ outputBuffer' # <<>> => outputFrame'
                      /\ answers' # answers => output' = arrived'
<1>1. HookInv /\ HookInv' /\ [Next]_vars => [Shown]_vars
  <2> SUFFICES ASSUME HookInv, HookInv', Next, mounted'
               PROVE  /\ output' \o outputBuffer' = arrived'
                      /\ outputBuffer' # <<>> => outputFrame'
                      /\ answers' # answers => output' = arrived'
    OBVIOUS
  <2>1. /\ output' \o outputBuffer' = arrived'
        /\ outputBuffer' # <<>> => outputFrame'
    BY DEF HookInv, OutputInv
  <2>2. ASSUME NEW run \in Runs, AnswerArrives(run) PROVE output' = arrived'
    BY <2>2, FlushKeeps DEF AnswerArrives
  <2>3. ASSUME Run PROVE answers' = answers
    BY <2>3 DEF Run, CreateWorker
  <2>4. answers' # answers => \E run \in Runs : AnswerArrives(run)
    BY <2>3, OthersKeep, Zenon DEF Next
  <2> QED  BY <2>1, <2>2, <2>4
<1> QED  BY <1>1, HookInvariant, PTL DEF Spec, OutputIsWhatArrived
=============================================================================
