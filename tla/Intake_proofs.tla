---------------------------- MODULE Intake_proofs ----------------------------
(***************************************************************************)
(* What Intake guarantees for every capacity, every number of messages and *)
(* every number of deaths: it uses the queue only through its methods, its *)
(* types hold, one task at a time has the loop, every message in the       *)
(* loop's hands has one owner, no wakeup is lost, and what is finished was *)
(* handled.                                                                *)
(***************************************************************************)
EXTENDS Intake, MessageQueue_proofs

-----------------------------------------------------------------------------
\* The queue is used only through its methods.

\* Whatever finishes a message calls Done, or changes nothing at all.
LEMMA FinishIsDone ==
    ASSUME QTypeOK, NEW s, Finish(s)
    PROVE  [QNext]_queueVars
<1>1. CASE Done(s)
  <2>1. s \in Held
    BY <1>1 DEF Done
  <2>2. s \in Numbers
    BY <2>1, HeldIsFinite, MaxSequenceAssumption DEF Numbers, QTypeOK
  <2> QED
    BY <1>1, <2>2 DEF QNext
<1>2. CASE UNCHANGED queueVars
  BY <1>2
<1> QED
  BY <1>1, <1>2 DEF Finish

LEMMA QueueStep ==
    ASSUME QTypeOK, [Next]_vars
    PROVE  [QNext]_queueVars
<1>1. ASSUME NEW kind \in Kinds, Receive(kind) PROVE [QNext]_queueVars
  BY <1>1 DEF Receive, QNext
<1>2. ASSUME DrainerStep PROVE [QNext]_queueVars
  <2>1. ASSUME NEW s \in Numbers, DrainerTakes(s) PROVE [QNext]_queueVars
    BY <2>1 DEF DrainerTakes, QNext
  <2>2. ASSUME DrainerWakes PROVE [QNext]_queueVars
    BY <2>2 DEF DrainerWakes, QNext
  <2>3. ASSUME Settle PROVE [QNext]_queueVars
    <3>1. Finish(drainer.message) \/ UNCHANGED queueVars
      BY <2>3 DEF Settle
    <3> QED
      BY <3>1, FinishIsDone
  <2>4. ASSUME \/ DrainerFindsNothing \/ DrainerLeaves \/ RouteCommand
               \/ RouteStop \/ RouteWork \/ StartTask \/ DeliverInstead
        PROVE  UNCHANGED queueVars
    BY <2>4 DEF DrainerFindsNothing, DrainerLeaves, RouteCommand, RouteStop,
                RouteWork, StartTask, DeliverInstead
  <2> QED
    BY <1>2, <2>1, <2>2, <2>3, <2>4 DEF DrainerStep
<1>3. ASSUME NEW r \in Runners, RunnerStep(r) \/ NoRounds(r) \/ BuildFails(r)
      PROVE  [QNext]_queueVars
  <2>1. ASSUME FinishMessage(r) PROVE [QNext]_queueVars
    <3>1. Finish(r) \/ UNCHANGED queueVars
      BY <2>1 DEF FinishMessage
    <3> QED
      BY <3>1, FinishIsDone
  <2>2. ASSUME \/ EnterRun(r) \/ TopOfRound(r) \/ HoldTheCall(r)
               \/ ModelAnswers(r) \/ CallFails(r) \/ RunTheCalls(r)
               \/ FinalReport(r) \/ CloseTask(r) \/ FreeTheLoop(r)
               \/ NoRounds(r) \/ BuildFails(r)
        PROVE  UNCHANGED queueVars
    BY <2>2 DEF EnterRun, TopOfRound, HoldTheCall, ModelAnswers, CallFails,
                RunTheCalls, FinalReport, CloseTask, FreeTheLoop, NoRounds, BuildFails
  <2> QED
    BY <1>3, <2>1, <2>2 DEF RunnerStep
<1>4. ASSUME Exit \/ Crash PROVE [QNext]_queueVars
  BY <1>4 DEF Exit, Crash, ProcessEnds, QNext
<1>5. ASSUME CloseTheQueue \/ Start PROVE [QNext]_queueVars
  BY <1>5 DEF CloseTheQueue, Start, QNext
<1>6. ASSUME TakeFails \/ JobDriverLooks \/ JobDriverStep \/ BeginStop
      PROVE  UNCHANGED queueVars
  BY <1>6 DEF TakeFails, JobDriverLooks, JobDriverStep, JobDriverTakesTheLoop,
              JobDriverClaims, BeginStop
<1>7. ASSUME UNCHANGED vars PROVE UNCHANGED queueVars
  BY <1>7 DEF vars
<1> QED
  BY <1>1, <1>2, <1>3, <1>4, <1>5, <1>6, <1>7 DEF Next

LEMMA QueueTypesHold == Spec => []QTypeOK
<1>1. Init => QTypeOK
  BY QInitHolds DEF Init, QInv
<1>2. QTypeOK /\ [Next]_vars => QTypeOK'
  BY QueueStep, QTypeStep
<1> QED
  BY <1>1, <1>2, PTL DEF Spec

\* Everything the program does to the queue, it does through the queue's own
\* methods, so what is proved of the queue under any callers holds in Intake.
THEOREM IntakeUsesTheQueue == Spec => QSpec
<1>1. Init => QInit
  BY DEF Init
<1>2. QTypeOK /\ [Next]_vars => [QNext]_queueVars
  BY QueueStep
<1> QED
  BY <1>1, <1>2, QueueTypesHold, PTL DEF Spec, QSpec

\* In the running program too, Add keeps the table within
\* caps.queued_messages (queue.go:182).
THEOREM IntakeBound == Spec => []QueueIsBounded
  BY IntakeUsesTheQueue, QueueBound, PTL

\* In the running program too, a finished message stays finished, and the table
\* keeps the at-least-once promise (queue.go:303).
THEOREM IntakeKeepsThePromise == Spec => FinishedIsForever /\ QueueKeepsItsPromise
  BY IntakeUsesTheQueue, FinishedForever, QueueImplementsPromise, PTL

-----------------------------------------------------------------------------
\* One task at a time.

LoopTypes ==
    /\ busy \in BOOLEAN
    /\ runner \in [Runners -> Phases]
    /\ loop \in [turn : Runners \cup {Nobody}, stopWanted : BOOLEAN,
                 callHeld : BOOLEAN, callCut : BOOLEAN]

\* Whoever holds oneAtATime is between the start of Run and its return.
TurnIsPlaying ==
    loop.turn # Nobody =>
        runner[loop.turn] \in {"top", "asking", "calling", "tools", "reporting", "closing"}

\* OneTaskAtATime alone is not inductive: a goroutine that frees the loop must
\* be known to have left Run.
LoopInv == LoopTypes /\ OneTaskAtATime /\ TurnIsPlaying

LEMMA RunnersAreNot == JobDriver \in Runners /\ Numbers \subseteq Runners /\ Nobody \notin Runners
  BY MaxSequenceAssumption DEF Runners, JobDriver, Nobody, Numbers

\* The loop's holder goes from one phase to the next and keeps the loop.
LEMMA HolderMovesOn ==
    ASSUME LoopInv, NEW r \in Runners, HasTheLoop(r),
           NEW phase \in Phases \ {"none", "looked"}, Go(r, phase), busy' = busy,
           LoopTypes', loop'.turn \in {Nobody, r},
           loop'.turn = r =>
             phase \in {"top", "asking", "calling", "tools", "reporting", "closing"}
    PROVE  LoopInv'
<1>1. runner'[r] = phase /\ \A q \in Runners : q # r => runner'[q] = runner[q]
  BY DEF Go, LoopInv, LoopTypes
<1>2. \A q \in Runners : HasTheLoop(q)' <=> HasTheLoop(q)
  BY <1>1 DEF HasTheLoop
<1>3. OneTaskAtATime'
  <2>1. \A p, q \in Runners : HasTheLoop(p)' /\ HasTheLoop(q)' => p = q
    BY <1>2 DEF LoopInv, OneTaskAtATime
  <2>2. busy' <=> \E q \in Runners : HasTheLoop(q)'
    BY <1>2 DEF LoopInv, OneTaskAtATime
  <2>3. loop'.turn # Nobody => HasTheLoop(r)' /\ loop'.turn = r
    BY <1>2
  <2> QED
    BY <2>1, <2>2, <2>3 DEF OneTaskAtATime, HasTheLoop
<1>4. TurnIsPlaying'
  BY <1>1 DEF TurnIsPlaying
<1> QED
  BY <1>3, <1>4 DEF LoopInv

\* Somebody takes the loop that nobody had.
LEMMA LoopIsTaken ==
    ASSUME LoopInv, NEW r \in Runners, ~busy, busy' = TRUE,
           NEW phase \in Phases \ {"none", "looked"}, Go(r, phase), UNCHANGED loop
    PROVE  LoopInv'
<1>1. runner'[r] = phase /\ \A q \in Runners : q # r => runner'[q] = runner[q]
  BY DEF Go, LoopInv, LoopTypes
<1>2. \A q \in Runners : ~HasTheLoop(q)
  BY DEF LoopInv, OneTaskAtATime
<1>3. \A q \in Runners : HasTheLoop(q)' <=> q = r
  BY <1>1, <1>2 DEF HasTheLoop
<1>4. loop.turn = Nobody
  BY <1>2 DEF LoopInv, LoopTypes, OneTaskAtATime
<1>5. LoopTypes'
  BY DEF LoopInv, LoopTypes, Go
<1>6. OneTaskAtATime' /\ TurnIsPlaying'
  BY <1>3, <1>4 DEF OneTaskAtATime, TurnIsPlaying, HasTheLoop
<1> QED
  BY <1>5, <1>6 DEF LoopInv

\* Somebody gives the loop back, having left Run or never entered it.
LEMMA LoopIsFreed ==
    ASSUME LoopInv, NEW r \in Runners, runner[r] \in {"claiming", "finished"},
           Go(r, "none"), busy' = FALSE, UNCHANGED loop
    PROVE  LoopInv'
<1>1. HasTheLoop(r)
  BY DEF HasTheLoop
<1>2. runner'[r] = "none" /\ \A q \in Runners : q # r => runner'[q] = runner[q]
  BY DEF Go, LoopInv, LoopTypes
<1>3. \A q \in Runners : q # r => ~HasTheLoop(q)
  BY <1>1 DEF LoopInv, OneTaskAtATime
<1>4. \A q \in Runners : ~HasTheLoop(q)'
  BY <1>2, <1>3 DEF HasTheLoop
<1>5. loop.turn = Nobody
  BY <1>3 DEF LoopInv, LoopTypes, OneTaskAtATime, TurnIsPlaying
<1>6. LoopTypes'
  BY DEF LoopInv, LoopTypes, Go, Phases
<1>7. OneTaskAtATime' /\ TurnIsPlaying'
  BY <1>4, <1>5 DEF OneTaskAtATime, TurnIsPlaying, HasTheLoop
<1> QED
  BY <1>6, <1>7 DEF LoopInv

\* A phase of somebody who has no loop before or after.
LEMMA BystanderMoves ==
    ASSUME LoopInv, NEW r \in Runners, NEW phase \in {"none", "looked"},
           runner[r] \in {"none", "looked"}, Go(r, phase), UNCHANGED <<busy, loop>>
    PROVE  LoopInv'
<1>1. runner'[r] = phase /\ \A q \in Runners : q # r => runner'[q] = runner[q]
  BY DEF Go, LoopInv, LoopTypes
<1>2. \A q \in Runners : HasTheLoop(q)' <=> HasTheLoop(q)
  BY <1>1 DEF HasTheLoop
<1>3. LoopTypes'
  BY DEF LoopInv, LoopTypes, Go, Phases
<1>4. loop.turn # r
  BY RunnersAreNot DEF LoopInv, TurnIsPlaying
<1>5. OneTaskAtATime'
  BY <1>1, <1>2, <1>3 DEF LoopInv, OneTaskAtATime, LoopTypes, HasTheLoop
<1>6. TurnIsPlaying'
  BY <1>1, <1>4 DEF LoopInv, LoopTypes, TurnIsPlaying
<1> QED
  BY <1>3, <1>5, <1>6 DEF LoopInv

\* One life's memory is gone: nobody holds anything.
LEMMA LoopIsForgotten ==
    ASSUME busy' = FALSE, runner' = [r \in Runners |-> "none"], loop' = IdleLoop
    PROVE  LoopInv'
<1>1. LoopTypes'
  BY DEF LoopTypes, IdleLoop, Phases, Nobody
<1>2. \A q \in Runners : ~HasTheLoop(q)'
  BY DEF HasTheLoop
<1>3. loop'.turn = Nobody
  BY DEF IdleLoop
<1> QED
  BY <1>1, <1>2, <1>3 DEF LoopInv, OneTaskAtATime, TurnIsPlaying

\* What the drainer works on while it routes is a message of the queue, and it
\* starts tasks only for a message that no task took over yet.
DrainerInv ==
    /\ drainer \in [at : {"look", "wait", "waitAfterError", "route", "starting",
                          "settle", "gone"},
                    message : 0 .. MaxSequence]
    /\ handedOver \in BOOLEAN
    /\ drainer.at \in {"route", "starting", "settle"} => drainer.message \in Numbers
    /\ drainer.at \in {"route", "starting"} => ~handedOver

LEMMA DrainerStepKeeps ==
    ASSUME DrainerInv, DrainerStep
    PROVE  DrainerInv'
<1>1. ASSUME NEW s \in Numbers, DrainerTakes(s) PROVE DrainerInv'
  <2>1. drainer' = [at |-> "route", message |-> s] /\ handedOver' = FALSE
    BY <1>1 DEF DrainerTakes
  <2>2. s \in 0 .. MaxSequence
    BY MaxSequenceAssumption DEF Numbers
  <2> QED
    BY <2>1, <2>2 DEF DrainerInv
<1>2. ASSUME DrainerFindsNothing PROVE DrainerInv'
  BY <1>2, MaxSequenceAssumption DEF DrainerFindsNothing, DrainerInv
<1>3. ASSUME DrainerWakes \/ DrainerLeaves PROVE DrainerInv'
  BY <1>3 DEF DrainerWakes, DrainerLeaves, Drain, DrainerInv
<1>4. ASSUME RouteCommand \/ RouteStop \/ RouteWork \/ DeliverInstead PROVE DrainerInv'
  BY <1>4 DEF RouteCommand, RouteStop, RouteWork, DeliverInstead, Routing, Settled,
              Drain, DrainerInv
<1>5. ASSUME StartTask PROVE DrainerInv'
  BY <1>5 DEF StartTask, Drain, DrainerInv
<1>6. ASSUME Settle PROVE DrainerInv'
  BY <1>6, MaxSequenceAssumption DEF Settle, AtRest, DrainerInv
<1> QED
  BY <1>1, <1>2, <1>3, <1>4, <1>5, <1>6 DEF DrainerStep

LEMMA DrainerInvStep ==
    ASSUME DrainerInv, [Next]_vars
    PROVE  DrainerInv'
<1>1. ASSUME NEW kind \in Kinds, Receive(kind) PROVE DrainerInv'
  BY <1>1 DEF Receive, drainVars, DrainerInv
<1>2. ASSUME DrainerStep PROVE DrainerInv'
  BY <1>2, DrainerStepKeeps
<1>3. ASSUME TakeFails PROVE DrainerInv'
  BY <1>3, MaxSequenceAssumption DEF TakeFails, DrainerInv
<1>4. ASSUME NEW r \in Runners, RunnerStep(r) \/ NoRounds(r) \/ BuildFails(r)
      PROVE  DrainerInv'
  <2>1. UNCHANGED drainVars
    BY <1>4 DEF RunnerStep, EnterRun, TopOfRound, HoldTheCall, ModelAnswers, CallFails,
                RunTheCalls, FinalReport, CloseTask, FinishMessage, FreeTheLoop,
                NoRounds, BuildFails
  <2> QED
    BY <2>1 DEF drainVars, DrainerInv
<1>5. ASSUME Exit \/ Crash \/ Start PROVE DrainerInv'
  <2>1. \/ drainer' = [at |-> "gone", message |-> 0]
        \/ drainer' = [at |-> "look", message |-> 0]
    BY <1>5 DEF Exit, Crash, ProcessEnds, Start, AtRest
  <2>2. handedOver' \in BOOLEAN
    BY <1>5 DEF Exit, Crash, ProcessEnds, Start, DrainerInv
  <2> QED
    BY <2>1, <2>2, MaxSequenceAssumption DEF DrainerInv
<1>6. ASSUME JobDriverLooks \/ JobDriverStep \/ BeginStop \/ CloseTheQueue
      PROVE  DrainerInv'
  BY <1>6 DEF JobDriverLooks, JobDriverStep, JobDriverTakesTheLoop, JobDriverClaims,
              BeginStop, CloseTheQueue, drainVars, DrainerInv
<1>7. ASSUME UNCHANGED vars PROVE DrainerInv'
  BY <1>7 DEF vars, drainVars, DrainerInv
<1> QED
  BY <1>1, <1>2, <1>3, <1>4, <1>5, <1>6, <1>7 DEF Next

LEMMA LoopUnchanged ==
    ASSUME LoopInv, UNCHANGED <<busy, runner, loop>>
    PROVE  LoopInv'
  BY DEF LoopInv, LoopTypes, OneTaskAtATime, TurnIsPlaying, HasTheLoop

LEMMA RunnerStepKeeps ==
    ASSUME LoopInv, NEW r \in Runners, RunnerStep(r) \/ NoRounds(r) \/ BuildFails(r)
    PROVE  LoopInv'
<1> DEFINE Rounds == {"top", "asking", "calling", "tools", "reporting", "closing"}
<1>1. ASSUME NEW phase \in Rounds, Go(r, phase), HasTheLoop(r), busy' = busy,
             loop' \in [turn : {r}, stopWanted : BOOLEAN, callHeld : BOOLEAN,
                        callCut : BOOLEAN]
      PROVE  LoopInv'
  <2>1. phase \in Phases \ {"none", "looked"}
    BY DEF Phases
  <2>2. LoopTypes'
    BY <1>1, <2>1 DEF LoopInv, LoopTypes, Go
  <2>3. loop'.turn = r
    BY <1>1
  <2> QED
    BY <1>1, <2>1, <2>2, <2>3, HolderMovesOn
<1>2. ASSUME NEW phase \in {"returned", "finished"}, Go(r, phase), HasTheLoop(r),
             busy' = busy,
             loop' \in [turn : {Nobody}, stopWanted : BOOLEAN, callHeld : BOOLEAN,
                        callCut : BOOLEAN]
      PROVE  LoopInv'
  <2>1. phase \in Phases \ {"none", "looked"}
    BY DEF Phases
  <2>2. LoopTypes'
    BY <1>2, <2>1 DEF LoopInv, LoopTypes, Go
  <2>3. loop'.turn = Nobody /\ loop'.turn # r
    BY <1>2, RunnersAreNot
  <2> QED
    BY <1>2, <2>1, <2>2, <2>3, HolderMovesOn
<1> DEFINE Playing == /\ HasTheLoop(r)
                      /\ loop \in [turn : {r}, stopWanted : BOOLEAN,
                                   callHeld : BOOLEAN, callCut : BOOLEAN]
<1>3. ASSUME NEW phase \in Rounds, InTurn(r, phase) PROVE Playing
  BY <1>3 DEF InTurn, HasTheLoop, LoopInv, LoopTypes
<1> HIDE DEF Rounds
<1>4. ASSUME EnterRun(r) PROVE LoopInv'
  BY <1>4, <1>1 DEF EnterRun, HasTheLoop, IdleLoop, Rounds
<1>5. ASSUME NoRounds(r) PROVE LoopInv'
  BY <1>5, <1>2 DEF NoRounds, HasTheLoop, IdleLoop
<1>6. ASSUME TopOfRound(r) \/ BuildFails(r) \/ FinalReport(r) PROVE LoopInv'
  <2>1. Playing /\ UNCHANGED <<busy, loop>>
    BY <1>6, <1>3 DEF TopOfRound, BuildFails, FinalReport, Rounds
  <2>2. \E phase \in Rounds : Go(r, phase)
    BY <1>6 DEF TopOfRound, BuildFails, FinalReport, Rounds
  <2> QED
    BY <2>1, <2>2, <1>1
<1>7. ASSUME HoldTheCall(r) PROVE LoopInv'
  <2>1. Playing /\ busy' = busy /\ Go(r, "calling") /\ "calling" \in Rounds
    BY <1>7, <1>3 DEF HoldTheCall, Rounds
  <2>2. loop' \in [turn : {r}, stopWanted : BOOLEAN, callHeld : BOOLEAN, callCut : BOOLEAN]
    BY <1>7, <2>1 DEF HoldTheCall
  <2> QED
    BY <2>1, <2>2, <1>1
<1>8. ASSUME CallFails(r) \/ ModelAnswers(r) PROVE LoopInv'
  <2>1. Playing /\ busy' = busy /\ CallReleased
    BY <1>8, <1>3 DEF CallFails, ModelAnswers, Rounds
  <2>2. \E phase \in Rounds : Go(r, phase)
    BY <1>8 DEF CallFails, ModelAnswers, SteeredBy, Rounds
  <2>3. loop' \in [turn : {r}, stopWanted : BOOLEAN, callHeld : BOOLEAN, callCut : BOOLEAN]
    BY <2>1 DEF CallReleased
  <2> QED
    BY <2>1, <2>2, <2>3, <1>1
<1>9. ASSUME RunTheCalls(r) PROVE LoopInv'
  <2>1. Playing /\ UNCHANGED <<busy, loop>>
    BY <1>9, <1>3 DEF RunTheCalls, Rounds
  <2>2. \E phase \in Rounds : Go(r, phase)
    BY <1>9 DEF RunTheCalls, SteeredBy, Rounds
  <2> QED
    BY <2>1, <2>2, <1>1
<1>10. ASSUME CloseTask(r) PROVE LoopInv'
  <2>1. Playing /\ busy' = busy /\ Go(r, "returned")
    BY <1>10, <1>3 DEF CloseTask, Rounds
  <2>2. loop' \in [turn : {Nobody}, stopWanted : BOOLEAN, callHeld : BOOLEAN,
                   callCut : BOOLEAN]
    BY <1>10, <2>1 DEF CloseTask
  <2> QED
    BY <2>1, <2>2, <1>2
<1>11. ASSUME FinishMessage(r) PROVE LoopInv'
  <2>1. runner[r] = "returned" /\ HasTheLoop(r) /\ Go(r, "finished") /\ UNCHANGED <<busy, loop>>
    BY <1>11 DEF FinishMessage, HasTheLoop
  <2>2. loop.turn = Nobody
    BY <2>1 DEF LoopInv, LoopTypes, OneTaskAtATime, TurnIsPlaying
  <2>3. loop' \in [turn : {Nobody}, stopWanted : BOOLEAN, callHeld : BOOLEAN,
                   callCut : BOOLEAN]
    BY <2>1, <2>2 DEF LoopInv, LoopTypes
  <2> QED
    BY <2>1, <2>3, <1>2
<1>12. ASSUME FreeTheLoop(r) PROVE LoopInv'
  BY <1>12, LoopIsFreed DEF FreeTheLoop
<1> QED
  BY <1>4, <1>5, <1>6, <1>7, <1>8, <1>9, <1>10, <1>11, <1>12 DEF RunnerStep

LEMMA LoopInvStep ==
    ASSUME LoopInv, DrainerInv, [Next]_vars
    PROVE  LoopInv'
<1>1. ASSUME NEW r \in Runners, RunnerStep(r) \/ NoRounds(r) \/ BuildFails(r)
      PROVE  LoopInv'
  BY <1>1, RunnerStepKeeps
<1>2. ASSUME StartTask PROVE LoopInv'
  <2>1. drainer.message \in Runners
    BY <1>2, RunnersAreNot DEF StartTask, DrainerInv
  <2>2. ~busy /\ busy' = TRUE /\ Go(drainer.message, "spawned") /\ UNCHANGED loop
    BY <1>2 DEF StartTask, Go
  <2>3. "spawned" \in Phases \ {"none", "looked"}
    BY DEF Phases
  <2> QED
    BY <2>1, <2>2, <2>3, LoopIsTaken
<1>3. ASSUME RouteStop PROVE LoopInv'
  <2>1. UNCHANGED <<busy, runner>> /\ loop'.turn = loop.turn /\ LoopTypes'
    BY <1>3 DEF RouteStop, LoopInv, LoopTypes
  <2> QED
    BY <2>1 DEF LoopInv, OneTaskAtATime, TurnIsPlaying, HasTheLoop
<1>4. ASSUME JobDriverLooks PROVE LoopInv'
  BY <1>4, RunnersAreNot, BystanderMoves DEF JobDriverLooks
<1>5. ASSUME JobDriverTakesTheLoop PROVE LoopInv'
  <2>1. runner[JobDriver] = "looked" /\ UNCHANGED loop /\ JobDriver \in Runners
    BY <1>5, RunnersAreNot DEF JobDriverTakesTheLoop
  <2>2. CASE busy
    BY <1>5, <2>1, <2>2, BystanderMoves DEF JobDriverTakesTheLoop
  <2>3. CASE ~busy
    <3>1. busy' = TRUE /\ Go(JobDriver, "claiming")
      BY <1>5, <2>3 DEF JobDriverTakesTheLoop
    <3>2. "claiming" \in Phases \ {"none", "looked"}
      BY DEF Phases
    <3> QED
      BY <2>1, <2>3, <3>1, <3>2, LoopIsTaken
  <2> QED
    BY <2>2, <2>3
<1>6. ASSUME JobDriverClaims PROVE LoopInv'
  <2>1. runner[JobDriver] = "claiming" /\ UNCHANGED loop /\ JobDriver \in Runners
    BY <1>6, RunnersAreNot DEF JobDriverClaims
  <2>2. CASE Go(JobDriver, "none") /\ busy' = FALSE
    BY <2>1, <2>2, LoopIsFreed
  <2>3. CASE Go(JobDriver, "spawned") /\ busy' = busy
    <3>1. HasTheLoop(JobDriver)
      BY <2>1 DEF HasTheLoop
    <3>2. loop.turn = Nobody
      BY <2>1, <3>1 DEF LoopInv, LoopTypes, OneTaskAtATime, TurnIsPlaying
    <3>3. "spawned" \in Phases \ {"none", "looked"}
      BY DEF Phases
    <3>4. LoopTypes'
      BY <2>1, <2>3 DEF LoopInv, LoopTypes, Go, Phases
    <3>5. loop'.turn = Nobody /\ Nobody # JobDriver
      BY <2>1, <3>2, RunnersAreNot
    <3> QED
      BY <2>1, <2>3, <3>1, <3>3, <3>4, <3>5, HolderMovesOn
  <2> QED
    BY <1>6, <2>2, <2>3 DEF JobDriverClaims
<1>7. ASSUME Exit \/ Crash PROVE LoopInv'
  BY <1>7, LoopIsForgotten DEF Exit, Crash, ProcessEnds
<1>8. ASSUME \/ \E kind \in Kinds : Receive(kind)
             \/ \E s \in Numbers : DrainerTakes(s)
             \/ DrainerFindsNothing \/ DrainerWakes \/ DrainerLeaves
             \/ RouteCommand \/ RouteWork \/ DeliverInstead \/ Settle
             \/ TakeFails \/ BeginStop \/ CloseTheQueue \/ Start
             \/ UNCHANGED vars
      PROVE  UNCHANGED <<busy, runner, loop>>
  BY <1>8 DEF Receive, DrainerTakes, DrainerFindsNothing, DrainerWakes, DrainerLeaves,
              RouteCommand, RouteWork, DeliverInstead, Settle, TakeFails, BeginStop,
              CloseTheQueue, Start, vars, loopVars
<1> QED
  BY <1>1, <1>2, <1>3, <1>4, <1>5, <1>6, <1>7, <1>8, LoopUnchanged
     DEF Next, DrainerStep, JobDriverStep

LEMMA InitHolds == Init => DrainerInv /\ LoopInv
<1> SUFFICES ASSUME Init PROVE DrainerInv /\ LoopInv
  OBVIOUS
<1>1. DrainerInv
  <2>1. drainer = [at |-> "look", message |-> 0] /\ handedOver = FALSE
    BY DEF Init, AtRest
  <2>2. 0 \in 0 .. MaxSequence
    BY MaxSequenceAssumption
  <2>3. drainer.at = "look"
    BY <2>1
  <2> QED
    BY <2>1, <2>2, <2>3 DEF DrainerInv
<1>2. LoopTypes
  BY DEF Init, IdleLoop, LoopTypes, Phases
<1>3. \A q \in Runners : ~HasTheLoop(q)
  BY DEF Init, HasTheLoop
<1>4. loop.turn = Nobody /\ ~busy
  BY DEF Init, IdleLoop
<1> QED
  BY <1>1, <1>2, <1>3, <1>4 DEF LoopInv, OneTaskAtATime, TurnIsPlaying

LEMMA LoopInvHolds == Spec => [](DrainerInv /\ LoopInv)
<1>1. DrainerInv /\ LoopInv /\ [Next]_vars => (DrainerInv /\ LoopInv)'
  BY DrainerInvStep, LoopInvStep
<1> QED
  BY <1>1, InitHolds, PTL DEF Spec

\* busyGuard (serving.go) lets at most one goroutine hold the loop, whether the
\* drainer or the job driver started it, for any number of messages, lives and
\* job turns: no second task ever waits inside Run.
THEOREM OneTask == Spec => []OneTaskAtATime
<1>1. LoopInv => OneTaskAtATime
  BY DEF LoopInv
<1> QED
  BY <1>1, LoopInvHolds, PTL

-----------------------------------------------------------------------------
\* Every message in the loop's hands has one owner.

\* What each method does to the set of rows in the loop's hands.
LEMMA TakenAfterAdd ==
    ASSUME QTypeOK, NEW kind \in Kinds, Add(kind)
    PROVE  InState("taken")' = InState("taken") /\ open' = open
<1>1. DOMAIN rows' = DOMAIN rows \cup {lastSequence + 1}
  BY AddHolds
<1>2. lastSequence + 1 \notin DOMAIN rows
  BY HeldIsFinite DEF QTypeOK
<1>3. \A s \in DOMAIN rows : rows'[s].state = rows[s].state
  BY AddHolds
<1>4. rows'[lastSequence + 1] = [kind |-> kind, state |-> "waiting", takenCount |-> 0]
  BY AddHolds
<1>5. rows'[lastSequence + 1].state = "waiting"
  BY <1>4
<1> QED
  BY <1>1, <1>2, <1>3, <1>5 DEF InState, Add

LEMMA TakenAfterTake ==
    ASSUME QTypeOK, NEW s \in Numbers, Take(s)
    PROVE  /\ InState("taken")' = InState("taken") \cup {s}
           /\ s \notin InState("taken")
           /\ open' = open
<1>1. s \in DOMAIN rows /\ rows[s].state = "waiting"
  BY TakeHolds DEF Waiting, InState
<1>2. DOMAIN rows' = DOMAIN rows
  BY TakeHolds
<1>3. \A t \in DOMAIN rows : t # s => rows'[t].state = rows[t].state
  BY TakeHolds
<1>4. rows'[s] = [kind |-> rows[s].kind, state |-> "taken",
                  takenCount |-> rows[s].takenCount + 1]
  BY TakeHolds
<1>5. rows'[s].state = "taken"
  BY <1>4
<1> QED
  BY <1>1, <1>2, <1>3, <1>5 DEF InState, Take

LEMMA TakenAfterDone ==
    ASSUME QTypeOK, NEW s \in Numbers, Done(s)
    PROVE  InState("taken")' = InState("taken") \ {s} /\ open' = open
<1>1. DOMAIN rows' = DOMAIN rows
  BY DoneHolds
<1>2. \A t \in DOMAIN rows : t # s => rows'[t].state = rows[t].state
  BY DoneHolds
<1>3. rows'[s] = [kind |-> rows[s].kind, state |-> "done",
                  takenCount |-> rows[s].takenCount]
  BY DoneHolds
<1>4. rows'[s].state = "done"
  BY <1>3
<1> QED
  BY <1>1, <1>2, <1>4 DEF InState, Done

LEMMA TakenAfterOpen ==
    ASSUME QTypeOK, OpenQueue
    PROVE  InState("taken")' = {} /\ open' = "open"
<1>1. DOMAIN rows' = Held
  BY OpenHolds
<1>2. ASSUME NEW t \in Held PROVE rows'[t].state = "waiting"
  <2>1. rows'[t] = [kind |-> rows[t].kind, state |-> "waiting",
                    takenCount |-> rows[t].takenCount]
    BY OpenHolds
  <2> QED
    BY <2>1
<1> QED
  BY <1>1, <1>2 DEF InState, OpenQueue

\* Finishing a row that is in the loop's hands takes it out of them, or leaves
\* it there as one the database refused.
LEMMA TakenAfterFinish ==
    ASSUME QTypeOK, NEW s \in Numbers, Finish(s), open = "open", s \in InState("taken")
    PROVE  /\ open' = open
           /\ \/ InState("taken")' = InState("taken") \ {s} /\ unmarked' = unmarked
              \/ InState("taken")' = InState("taken") /\ unmarked' = unmarked \cup {s}
<1>1. s \in Held
  BY DEF InState, Held
<1>2. CASE Done(s) /\ UNCHANGED unmarked
  BY <1>2, TakenAfterDone
<1>3. CASE UNCHANGED queueVars /\ unmarked' = unmarked \cup {s}
  BY <1>3 DEF queueVars, InState
<1> QED
  BY <1>1, <1>2, <1>3 DEF Finish

\* A closed queue has no drainer, and a process that is gone has nobody.
LifeInv ==
    /\ open = "closed" => drainer.at = "gone"
    /\ open = "down" => /\ drainer.at = "gone"
                        /\ ~serving
                        /\ \A r \in Runners : runner[r] = "none"
                        /\ unmarked = {}

Owners == LifeInv /\ EveryTakenMessageHasOneOwner

SameOwners ==
    /\ unmarked' = unmarked
    /\ \A s \in Numbers : /\ DrainerOwns(s)' <=> DrainerOwns(s)
                          /\ TaskOwns(s)' <=> TaskOwns(s)

LEMMA OwnersStay ==
    ASSUME EveryTakenMessageHasOneOwner, SameOwners,
           InState("taken")' = InState("taken"), open' = open
    PROVE  EveryTakenMessageHasOneOwner'
  BY DEF EveryTakenMessageHasOneOwner, SameOwners

\* A task that goes from one phase to another before it marks its message done,
\* or after it did, owns what it owned.
LEMMA TaskStaysOwner ==
    ASSUME LoopTypes, NEW r \in Runners, NEW phase, Go(r, phase),
           \/ runner[r] \notin {"none", "finished"} /\ phase \notin {"none", "finished"}
           \/ runner[r] \in {"none", "finished"} /\ phase \in {"none", "finished"}
           \/ r = JobDriver
    PROVE  \A s \in Numbers : TaskOwns(s)' <=> TaskOwns(s)
<1>1. runner'[r] = phase /\ \A q \in Runners : q # r => runner'[q] = runner[q]
  BY DEF Go, LoopTypes
<1>2. \A s \in Numbers : s \in Runners /\ s # JobDriver
  BY RunnersAreNot, MaxSequenceAssumption DEF Numbers, JobDriver
<1> QED
  BY <1>1, <1>2 DEF TaskOwns

LEMMA LifeInvStep ==
    ASSUME QTypeOK, LifeInv, LoopTypes, [Next]_vars
    PROVE  LifeInv'
<1>1. ASSUME open = "open", open' = open PROVE LifeInv'
  BY <1>1 DEF LifeInv
<1>2. ASSUME open # "down", UNCHANGED <<open, drainer>> PROVE LifeInv'
  BY <1>2 DEF LifeInv
<1>3. ASSUME DrainerStep \/ TakeFails PROVE LifeInv'
  <2>1. drainer.at # "gone"
    BY <1>3 DEF DrainerStep, DrainerTakes, DrainerFindsNothing, DrainerWakes,
                DrainerLeaves, RouteCommand, RouteStop, RouteWork, Routing, StartTask,
                DeliverInstead, Settle, TakeFails
  <2>2. open = "open"
    BY <2>1 DEF LifeInv, QTypeOK
  <2>3. open' = open
    BY <1>3 DEF DrainerStep, DrainerTakes, DrainerFindsNothing, DrainerWakes,
                DrainerLeaves, RouteCommand, RouteStop, RouteWork, StartTask,
                DeliverInstead, Settle, TakeFails, Take, ReadNudge, Finish, Done, queueVars
  <2> QED
    BY <2>2, <2>3, <1>1
<1>4. ASSUME NEW r \in Runners, RunnerStep(r) \/ NoRounds(r) \/ BuildFails(r)
      PROVE  LifeInv'
  <2>1. runner[r] # "none"
    BY <1>4 DEF RunnerStep, EnterRun, TopOfRound, HoldTheCall, ModelAnswers, CallFails,
                RunTheCalls, FinalReport, CloseTask, FinishMessage, FreeTheLoop,
                NoRounds, BuildFails, InTurn
  <2>2. UNCHANGED <<open, drainer>>
    BY <1>4 DEF RunnerStep, EnterRun, TopOfRound, HoldTheCall, ModelAnswers, CallFails,
                RunTheCalls, FinalReport, CloseTask, FinishMessage, FreeTheLoop,
                NoRounds, BuildFails, Finish, Done, queueVars, drainVars
  <2> QED
    BY <2>1, <2>2, <1>2 DEF LifeInv
<1>5. ASSUME \E kind \in Kinds : Receive(kind) PROVE LifeInv'
  BY <1>5, <1>1 DEF Receive, Add
<1>6. ASSUME JobDriverLooks \/ JobDriverStep \/ BeginStop PROVE LifeInv'
  <2>1. serving \/ runner[JobDriver] # "none"
    BY <1>6 DEF JobDriverLooks, JobDriverStep, JobDriverTakesTheLoop, JobDriverClaims,
                BeginStop
  <2>2. UNCHANGED <<open, drainer>>
    BY <1>6 DEF JobDriverLooks, JobDriverStep, JobDriverTakesTheLoop, JobDriverClaims,
                BeginStop, queueVars, drainVars
  <2> QED
    BY <2>1, <2>2, <1>2, RunnersAreNot DEF LifeInv
<1>7. ASSUME CloseTheQueue PROVE LifeInv'
  BY <1>7 DEF CloseTheQueue, Close, drainVars, LifeInv
<1>8. ASSUME Exit \/ Crash PROVE LifeInv'
  <2>1. /\ open' = "down" /\ drainer' = [at |-> "gone", message |-> 0]
        /\ ~serving' /\ runner' = [r \in Runners |-> "none"] /\ unmarked' = {}
    BY <1>8 DEF Exit, Crash, ProcessEnds, Die
  <2> QED
    BY <2>1 DEF LifeInv
<1>9. ASSUME Start PROVE LifeInv'
  BY <1>9 DEF Start, OpenQueue, LifeInv
<1>10. ASSUME UNCHANGED vars PROVE LifeInv'
  BY <1>10 DEF vars, queueVars, serveVars, drainVars, loopVars, history, LifeInv
<1> QED
  BY <1>3, <1>4, <1>5, <1>6, <1>7, <1>8, <1>9, <1>10 DEF Next

LEMMA DrainerKeepsOwners ==
    ASSUME QTypeOK, DrainerInv, LoopInv, Owners, DrainerStep
    PROVE  EveryTakenMessageHasOneOwner'
<1>1. open = "open"
  <2>1. drainer.at # "gone"
    BY DEF DrainerStep, DrainerTakes, DrainerFindsNothing, DrainerWakes,
           DrainerLeaves, RouteCommand, RouteStop, RouteWork, Routing, StartTask,
           DeliverInstead, Settle
  <2> QED
    BY <2>1 DEF Owners, LifeInv, QTypeOK
<1>2. \A s \in Numbers :
         /\ s \in InState("taken") <=> DrainerOwns(s) \/ TaskOwns(s) \/ s \in unmarked
         /\ ~(DrainerOwns(s) /\ TaskOwns(s))
         /\ s \in unmarked => ~DrainerOwns(s) /\ ~TaskOwns(s)
  BY <1>1 DEF Owners, EveryTakenMessageHasOneOwner
<1>3. ASSUME UNCHANGED runner PROVE \A s \in Numbers : TaskOwns(s)' <=> TaskOwns(s)
  BY <1>3 DEF TaskOwns
<1>4. ASSUME NEW s \in Numbers, DrainerTakes(s) PROVE EveryTakenMessageHasOneOwner'
  <2>1. /\ InState("taken")' = InState("taken") \cup {s}
        /\ s \notin InState("taken")
    BY <1>4, TakenAfterTake DEF DrainerTakes
  <2>2. \A t \in Numbers : ~DrainerOwns(t)
    BY <1>4 DEF DrainerTakes, DrainerOwns
  <2>3. drainer' = [at |-> "route", message |-> s] /\ handedOver' = FALSE
    BY <1>4 DEF DrainerTakes
  <2>4. \A t \in Numbers : DrainerOwns(t)' <=> t = s
    BY <2>3 DEF DrainerOwns
  <2>5. UNCHANGED <<runner, unmarked>>
    BY <1>4 DEF DrainerTakes, loopVars
  <2> QED
    BY <1>2, <1>3, <2>1, <2>2, <2>4, <2>5 DEF EveryTakenMessageHasOneOwner
<1>5. ASSUME \/ DrainerFindsNothing \/ DrainerWakes \/ DrainerLeaves
             \/ RouteCommand \/ RouteStop \/ RouteWork \/ DeliverInstead
      PROVE  EveryTakenMessageHasOneOwner'
  <2>1. UNCHANGED <<rows, open, runner, handedOver, unmarked>>
    BY <1>5 DEF DrainerFindsNothing, DrainerWakes, DrainerLeaves, RouteCommand, RouteStop,
                RouteWork, DeliverInstead, ReadNudge, queueVars, loopVars, history
  <2>2. InState("taken")' = InState("taken")
    BY <2>1 DEF InState
  <2>3. CASE DrainerFindsNothing \/ DrainerWakes \/ DrainerLeaves
    <3>1. drainer.at \notin {"route", "starting", "settle"}
      BY <2>3 DEF DrainerFindsNothing, DrainerWakes, DrainerLeaves
    <3>2. drainer'.at \notin {"route", "starting", "settle"}
      BY <2>3 DEF DrainerFindsNothing, DrainerWakes, DrainerLeaves, Drain, DrainerInv
    <3>3. SameOwners
      BY <1>3, <2>1, <3>1, <3>2 DEF SameOwners, DrainerOwns
    <3> QED
      BY <2>1, <2>2, <3>3, OwnersStay DEF Owners
  <2>4. CASE RouteCommand \/ RouteStop \/ RouteWork \/ DeliverInstead
    <3>1. drainer.at \in {"route", "starting", "settle"}
      BY <2>4 DEF RouteCommand, RouteStop, RouteWork, DeliverInstead, Routing
    <3>2. /\ drainer'.at \in {"route", "starting", "settle"}
          /\ drainer'.message = drainer.message
      BY <2>4 DEF RouteCommand, RouteStop, RouteWork, DeliverInstead, Settled, Drain,
                  DrainerInv
    <3>3. SameOwners
      BY <1>3, <2>1, <3>1, <3>2 DEF SameOwners, DrainerOwns
    <3> QED
      BY <2>1, <2>2, <3>3, OwnersStay DEF Owners
  <2> QED
    BY <1>5, <2>3, <2>4
<1>6. ASSUME StartTask PROVE EveryTakenMessageHasOneOwner'
  <2> DEFINE m == drainer.message
  <2>1. m \in Numbers /\ DrainerOwns(m) /\ \A t \in Numbers : DrainerOwns(t) => t = m
    BY <1>6 DEF StartTask, DrainerInv, DrainerOwns
  <2>2. handedOver' = TRUE /\ UNCHANGED <<rows, open, unmarked>>
    BY <1>6 DEF StartTask, queueVars, history
  <2>3. InState("taken")' = InState("taken")
    BY <2>2 DEF InState
  <2>4. runner'[m] = "spawned" /\ \A q \in Runners : q # m => runner'[q] = runner[q]
    BY <1>6, <2>1, RunnersAreNot DEF StartTask, LoopInv, LoopTypes
  <2>5. \A t \in Numbers : TaskOwns(t)' <=> TaskOwns(t) \/ t = m
    BY <2>4, RunnersAreNot DEF TaskOwns
  <2>6. \A t \in Numbers : ~DrainerOwns(t)'
    BY <2>2 DEF DrainerOwns
  <2> QED
    BY <1>2, <2>1, <2>2, <2>3, <2>5, <2>6 DEF EveryTakenMessageHasOneOwner
<1>7. ASSUME Settle PROVE EveryTakenMessageHasOneOwner'
  <2>1. drainer' = [at |-> "look", message |-> 0] /\ UNCHANGED <<handedOver, runner>>
    BY <1>7 DEF Settle, AtRest, loopVars
  <2>2. \A t \in Numbers : ~DrainerOwns(t)'
    BY <2>1 DEF DrainerOwns
  <2>3. CASE handedOver
    <3>1. UNCHANGED <<rows, unmarked>>
      BY <1>7, <2>3 DEF Settle, queueVars
    <3>2. InState("taken")' = InState("taken")
      BY <3>1 DEF InState
    <3>3. \A t \in Numbers : ~DrainerOwns(t)
      BY <2>3 DEF DrainerOwns
    <3> QED
      BY <1>2, <1>3, <2>1, <2>2, <3>1, <3>2, <3>3 DEF EveryTakenMessageHasOneOwner
  <2>4. CASE ~handedOver
    <3> DEFINE m == drainer.message
    <3>1. m \in Numbers /\ DrainerOwns(m) /\ \A t \in Numbers : DrainerOwns(t) => t = m
      BY <1>7, <2>4 DEF Settle, DrainerInv, DrainerOwns
    <3>2. Finish(m) /\ m \in InState("taken") /\ ~TaskOwns(m) /\ m \notin unmarked
      BY <1>2, <1>7, <2>4, <3>1 DEF Settle
    <3>3. \/ InState("taken")' = InState("taken") \ {m} /\ unmarked' = unmarked
          \/ InState("taken")' = InState("taken") /\ unmarked' = unmarked \cup {m}
      BY <1>1, <3>1, <3>2, TakenAfterFinish
    <3> HIDE DEF m
    <3> QED
      BY <1>2, <1>3, <2>1, <2>2, <3>1, <3>2, <3>3 DEF EveryTakenMessageHasOneOwner
  <2> QED
    BY <2>3, <2>4
<1> QED
  BY <1>4, <1>5, <1>6, <1>7 DEF DrainerStep

LEMMA RunnersKeepOwners ==
    ASSUME QTypeOK, LoopInv, EveryTakenMessageHasOneOwner,
           NEW r \in Runners, RunnerStep(r) \/ NoRounds(r) \/ BuildFails(r)
    PROVE  EveryTakenMessageHasOneOwner'
<1>1. UNCHANGED drainVars
  BY DEF RunnerStep, EnterRun, TopOfRound, HoldTheCall, ModelAnswers, CallFails,
         RunTheCalls, FinalReport, CloseTask, FinishMessage, FreeTheLoop,
         NoRounds, BuildFails
<1>2. \A s \in Numbers : DrainerOwns(s)' <=> DrainerOwns(s)
  BY <1>1 DEF drainVars, DrainerOwns
<1>3. ASSUME UNCHANGED <<queueVars, unmarked>>, NEW phase, Go(r, phase),
             \/ runner[r] \notin {"none", "finished"} /\ phase \notin {"none", "finished"}
             \/ runner[r] \in {"none", "finished"} /\ phase \in {"none", "finished"}
      PROVE  EveryTakenMessageHasOneOwner'
  <2>1. \A s \in Numbers : TaskOwns(s)' <=> TaskOwns(s)
    BY <1>3, TaskStaysOwner DEF LoopInv
  <2>2. InState("taken")' = InState("taken") /\ open' = open
    BY <1>3 DEF queueVars, InState
  <2> QED
    BY <1>2, <1>3, <2>1, <2>2, OwnersStay DEF SameOwners
<1>4. ASSUME \/ EnterRun(r) \/ NoRounds(r) \/ TopOfRound(r) \/ BuildFails(r)
             \/ HoldTheCall(r) \/ CallFails(r) \/ ModelAnswers(r) \/ RunTheCalls(r)
             \/ FinalReport(r) \/ CloseTask(r)
      PROVE  EveryTakenMessageHasOneOwner'
  <2>1. UNCHANGED <<queueVars, unmarked>> /\ runner[r] \notin {"none", "finished"}
    BY <1>4 DEF EnterRun, NoRounds, TopOfRound, BuildFails, HoldTheCall, CallFails,
                ModelAnswers, RunTheCalls, FinalReport, CloseTask, InTurn, history
  <2>2. \E phase : Go(r, phase) /\ phase \notin {"none", "finished"}
    BY <1>4 DEF EnterRun, NoRounds, TopOfRound, BuildFails, HoldTheCall, CallFails,
                ModelAnswers, RunTheCalls, FinalReport, CloseTask, SteeredBy
  <2> QED
    BY <2>1, <2>2, <1>3
<1>5. ASSUME FinishMessage(r) PROVE EveryTakenMessageHasOneOwner'
  <2>1. runner[r] = "returned" /\ Go(r, "finished")
    BY <1>5 DEF FinishMessage
  <2>2. CASE r = JobDriver
    <3>1. UNCHANGED <<queueVars, unmarked>>
      BY <1>5, <2>2 DEF FinishMessage
    <3>2. InState("taken")' = InState("taken") /\ open' = open
      BY <3>1 DEF queueVars, InState
    <3>3. \A s \in Numbers : TaskOwns(s)' <=> TaskOwns(s)
      BY <2>1, <2>2, TaskStaysOwner DEF LoopInv
    <3> QED
      BY <1>2, <3>1, <3>2, <3>3, OwnersStay DEF SameOwners
  <2>3. CASE r # JobDriver /\ open = "open"
    <3>1. r \in Numbers /\ Finish(r) /\ TaskOwns(r)
      BY <1>5, <2>1, <2>3 DEF FinishMessage, Runners, TaskOwns
    <3>2. r \in InState("taken") /\ ~DrainerOwns(r) /\ r \notin unmarked
      BY <2>3, <3>1 DEF EveryTakenMessageHasOneOwner
    <3>3. \/ InState("taken")' = InState("taken") \ {r} /\ unmarked' = unmarked
          \/ InState("taken")' = InState("taken") /\ unmarked' = unmarked \cup {r}
      BY <2>3, <3>1, <3>2, TakenAfterFinish
    <3>4. runner'[r] = "finished" /\ \A q \in Runners : q # r => runner'[q] = runner[q]
      BY <2>1 DEF Go, LoopInv, LoopTypes
    <3>5. \A s \in Numbers : TaskOwns(s)' <=> TaskOwns(s) /\ s # r
      BY <3>4, RunnersAreNot DEF TaskOwns
    <3> QED
      BY <1>2, <2>3, <3>2, <3>3, <3>5 DEF EveryTakenMessageHasOneOwner
  <2>4. CASE r # JobDriver /\ open # "open"
    <3>1. open' = open
      BY <1>5, <2>4 DEF FinishMessage, Finish, Done, queueVars
    <3> QED
      BY <2>4, <3>1 DEF EveryTakenMessageHasOneOwner
  <2> QED
    BY <2>2, <2>3, <2>4
<1>6. ASSUME FreeTheLoop(r) PROVE EveryTakenMessageHasOneOwner'
  <2>1. UNCHANGED <<queueVars, unmarked>> /\ runner[r] = "finished" /\ Go(r, "none")
    BY <1>6 DEF FreeTheLoop
  <2> QED
    BY <2>1, <1>3
<1> QED
  BY <1>4, <1>5, <1>6 DEF RunnerStep

LEMMA OwnersStep ==
    ASSUME QTypeOK, DrainerInv, LoopInv, Owners, [Next]_vars
    PROVE  Owners'
<1>1. LifeInv'
  BY LifeInvStep DEF Owners, LoopInv
<1>2. ASSUME UNCHANGED <<drainVars, unmarked>>, \A s \in Numbers : TaskOwns(s)' <=> TaskOwns(s),
             InState("taken")' = InState("taken"), open' = open
      PROVE  EveryTakenMessageHasOneOwner'
  <2>1. SameOwners
    BY <1>2 DEF SameOwners, DrainerOwns, drainVars
  <2> QED
    BY <1>2, <2>1, OwnersStay DEF Owners
<1>3. ASSUME UNCHANGED runner PROVE \A s \in Numbers : TaskOwns(s)' <=> TaskOwns(s)
  BY <1>3 DEF TaskOwns
<1>4. ASSUME UNCHANGED queueVars
      PROVE  InState("taken")' = InState("taken") /\ open' = open
  BY <1>4 DEF queueVars, InState
<1>5. ASSUME DrainerStep PROVE EveryTakenMessageHasOneOwner'
  BY <1>5, DrainerKeepsOwners
<1>6. ASSUME NEW r \in Runners, RunnerStep(r) \/ NoRounds(r) \/ BuildFails(r)
      PROVE  EveryTakenMessageHasOneOwner'
  BY <1>6, RunnersKeepOwners DEF Owners
<1>7. ASSUME NEW kind \in Kinds, Receive(kind) PROVE EveryTakenMessageHasOneOwner'
  <2>1. InState("taken")' = InState("taken") /\ open' = open
    BY <1>7, TakenAfterAdd DEF Receive
  <2> QED
    BY <1>2, <1>3, <1>7, <2>1 DEF Receive, loopVars, history
<1>8. ASSUME TakeFails PROVE EveryTakenMessageHasOneOwner'
  <2>1. SameOwners
    BY <1>3, <1>8 DEF TakeFails, SameOwners, DrainerOwns, loopVars, history
  <2> QED
    BY <1>4, <1>8, <2>1, OwnersStay DEF TakeFails, Owners
<1>9. ASSUME JobDriverLooks \/ JobDriverStep PROVE EveryTakenMessageHasOneOwner'
  <2>1. \E phase : Go(JobDriver, phase)
    BY <1>9 DEF JobDriverLooks, JobDriverStep, JobDriverTakesTheLoop, JobDriverClaims
  <2>2. \A s \in Numbers : TaskOwns(s)' <=> TaskOwns(s)
    BY <2>1, RunnersAreNot, TaskStaysOwner DEF LoopInv
  <2>3. UNCHANGED <<queueVars, drainVars, unmarked>>
    BY <1>9 DEF JobDriverLooks, JobDriverStep, JobDriverTakesTheLoop, JobDriverClaims, history
  <2> QED
    BY <1>2, <1>4, <2>2, <2>3
<1>10. ASSUME BeginStop PROVE EveryTakenMessageHasOneOwner'
  BY <1>2, <1>3, <1>4, <1>10 DEF BeginStop, loopVars, history
<1>11. ASSUME CloseTheQueue \/ Exit \/ Crash PROVE EveryTakenMessageHasOneOwner'
  <2>1. open' \in {"closed", "down"}
    BY <1>11 DEF CloseTheQueue, Close, Exit, Crash, ProcessEnds, Die
  <2> QED
    BY <2>1 DEF EveryTakenMessageHasOneOwner
<1>12. ASSUME Start PROVE EveryTakenMessageHasOneOwner'
  <2>1. InState("taken")' = {}
    BY <1>12, TakenAfterOpen DEF Start
  <2>2. unmarked' = {} /\ \A s \in Numbers : runner'[s] = "none"
    BY <1>12, RunnersAreNot DEF Start, OpenQueue, Owners, LifeInv, loopVars, history
  <2>3. drainer' = [at |-> "look", message |-> 0]
    BY <1>12 DEF Start, AtRest
  <2>4. \A s \in Numbers : ~DrainerOwns(s)' /\ ~TaskOwns(s)'
    BY <2>2, <2>3 DEF DrainerOwns, TaskOwns
  <2> QED
    BY <2>1, <2>2, <2>4 DEF EveryTakenMessageHasOneOwner
<1>13. ASSUME UNCHANGED vars PROVE EveryTakenMessageHasOneOwner'
  BY <1>2, <1>3, <1>4, <1>13 DEF vars, loopVars, history
<1> QED
  BY <1>1, <1>5, <1>6, <1>7, <1>8, <1>9, <1>10, <1>11, <1>12, <1>13 DEF Next, Owners

LEMMA OwnersInit == Init => Owners
<1> SUFFICES ASSUME Init PROVE Owners
  OBVIOUS
<1>1. InState("taken") = {} /\ open = "open" /\ unmarked = {}
  BY DEF Init, QInit, InState
<1>2. drainer = [at |-> "look", message |-> 0]
  BY DEF Init, AtRest
<1>3. \A s \in Numbers : ~DrainerOwns(s) /\ ~TaskOwns(s)
  BY <1>2, RunnersAreNot DEF Init, DrainerOwns, TaskOwns
<1> QED
  BY <1>1, <1>3 DEF Owners, LifeInv, EveryTakenMessageHasOneOwner

\* A row in the loop's hands has exactly one owner who will mark it done, the
\* drainer or one task (stillHolding and finishTheMessage, serving.go), for any
\* number of messages and lives: none is left taken with nobody to finish it.
THEOREM OneOwner == Spec => []EveryTakenMessageHasOneOwner
<1>1. /\ QTypeOK /\ DrainerInv /\ LoopInv /\ Owners /\ [Next]_vars
      => Owners'
  BY OwnersStep
<1>2. Owners => EveryTakenMessageHasOneOwner
  BY DEF Owners
<1> QED
  BY <1>1, <1>2, OwnersInit, QueueTypesHold, LoopInvHolds, PTL DEF Spec

-----------------------------------------------------------------------------
\* The types.

Delivery == [message : Numbers, to : Runners]

RestTypes ==
    /\ serving \in BOOLEAN
    /\ deaths \in 0 .. MaxDeaths
    /\ jobTurns \in Nat
    /\ inbox \in Seq(Delivery)
    /\ Len(inbox) <= InboxCapacity
    /\ fate \in [Numbers -> Fates]
    /\ toldToStop \subseteq Runners
    /\ unmarked \subseteq Numbers

LEMMA EmptyInbox == <<>> \in Seq(Delivery) /\ Len(<<>>) <= InboxCapacity
<1>1. InboxCapacity \in Nat
  BY IntakeAssumption
<1> QED
  BY <1>1

\* readTheMessages empties the inbox and settles what was in it.
LEMMA ReadInboxTypes ==
    ASSUME RestTypes, NEW r \in Runners, NEW n \in Nat, ReadInbox(r, n)
    PROVE  /\ inbox' \in Seq(Delivery)
           /\ Len(inbox') <= InboxCapacity
           /\ fate' \in [Numbers -> Fates]
<1>1. fate' \in [Numbers -> Fates]
  BY DEF ReadInbox, RestTypes, Fates
<1> QED
  BY <1>1, EmptyInbox DEF ReadInbox

LEMMA RestTypesStep ==
    ASSUME DrainerInv, LoopInv, RestTypes, [Next]_vars
    PROVE  RestTypes'
<1> DEFINE Fine == /\ inbox' \in Seq(Delivery)
                   /\ Len(inbox') <= InboxCapacity
                   /\ fate' \in [Numbers -> Fates]
                   /\ toldToStop' \subseteq Runners
                   /\ unmarked' \subseteq Numbers
<1>1. ASSUME UNCHANGED serveVars, Fine PROVE RestTypes'
  BY <1>1 DEF serveVars, RestTypes
<1>2. ASSUME UNCHANGED <<inbox, fate, toldToStop, unmarked>> PROVE Fine
  BY <1>2 DEF RestTypes
<1>3. ASSUME UNCHANGED <<inbox, toldToStop, unmarked>>, fate' \in [Numbers -> Fates] PROVE Fine
  BY <1>3 DEF RestTypes
<1>4. ASSUME \/ \E kind \in Kinds : Receive(kind)
             \/ DrainerFindsNothing \/ DrainerWakes \/ DrainerLeaves \/ StartTask
             \/ TakeFails \/ JobDriverLooks \/ JobDriverTakesTheLoop
             \/ CloseTheQueue
      PROVE  RestTypes'
  BY <1>1, <1>2, <1>4
     DEF Receive, DrainerFindsNothing, DrainerWakes, DrainerLeaves, StartTask,
         TakeFails, JobDriverLooks, JobDriverTakesTheLoop, CloseTheQueue,
         loopVars, history
<1>5. ASSUME NEW s \in Numbers, DrainerTakes(s) PROVE RestTypes'
  <2>1. fate' \in [Numbers -> Fates]
    BY <1>5 DEF DrainerTakes, RestTypes, Fates
  <2> QED
    BY <1>1, <1>3, <1>5, <2>1 DEF DrainerTakes, loopVars
<1>6. ASSUME RouteCommand \/ RouteWork PROVE RestTypes'
  <2>1. fate' \in [Numbers -> Fates]
    BY <1>6 DEF RouteCommand, RouteWork, Settled, RestTypes, Fates
  <2> QED
    BY <1>1, <1>3, <1>6, <2>1 DEF RouteCommand, RouteWork, loopVars
<1>7. ASSUME RouteStop PROVE RestTypes'
  <2>1. fate' \in [Numbers -> Fates]
    BY <1>7 DEF RouteStop, Settled, RestTypes, Fates
  <2>2. UNCHANGED <<inbox, unmarked>> /\ toldToStop' \subseteq Runners
    BY <1>7 DEF RouteStop, RestTypes
  <2>3. Fine
    BY <2>1, <2>2 DEF RestTypes
  <2> QED
    BY <1>1, <1>7, <2>3 DEF RouteStop
<1>8. ASSUME DeliverInstead PROVE RestTypes'
  <2>1. fate' \in [Numbers -> Fates]
    BY <1>8 DEF DeliverInstead, Settled, RestTypes, Fates
  <2>2. inbox' \in Seq(Delivery) /\ Len(inbox') <= InboxCapacity
    <3>1. CASE Len(inbox) < InboxCapacity
      <4>1. LoopHolder \in Runners
        BY <1>8 DEF DeliverInstead, LoopInv, OneTaskAtATime, LoopHolder
      <4>2. drainer.message \in Numbers
        BY <1>8 DEF DeliverInstead, DrainerInv
      <4>3. [message |-> drainer.message, to |-> LoopHolder] \in Delivery
        BY <4>1, <4>2 DEF Delivery
      <4>4. inbox' = Append(inbox, [message |-> drainer.message, to |-> LoopHolder])
        BY <1>8, <3>1 DEF DeliverInstead
      <4> HIDE DEF Delivery
      <4>5. Len(inbox') = Len(inbox) + 1 /\ inbox' \in Seq(Delivery)
        BY <4>3, <4>4 DEF RestTypes
      <4>6. InboxCapacity \in Nat /\ Len(inbox) \in Nat
        BY IntakeAssumption DEF RestTypes
      <4> QED
        BY <3>1, <4>5, <4>6
    <3>2. CASE ~(Len(inbox) < InboxCapacity)
      BY <1>8, <3>2 DEF DeliverInstead, RestTypes
    <3> QED
      BY <3>1, <3>2
  <2>3. Fine
    BY <1>8, <2>1, <2>2 DEF DeliverInstead, RestTypes
  <2> QED
    BY <1>1, <1>8, <2>3 DEF DeliverInstead
<1>9. ASSUME NEW r \in Runners, RunnerStep(r) \/ NoRounds(r) \/ BuildFails(r)
      PROVE  RestTypes'
  <2>1. UNCHANGED serveVars
    BY <1>9 DEF RunnerStep, EnterRun, TopOfRound, HoldTheCall, ModelAnswers, CallFails,
                RunTheCalls, FinalReport, CloseTask, FinishMessage, FreeTheLoop,
                NoRounds, BuildFails
  <2>2. ASSUME \/ EnterRun(r) \/ TopOfRound(r) \/ HoldTheCall(r) \/ CallFails(r)
               \/ FinalReport(r) \/ BuildFails(r)
        PROVE  Fine
    BY <1>2, <2>2 DEF EnterRun, TopOfRound, HoldTheCall, CallFails, FinalReport,
                      BuildFails, history
  <2>3. ASSUME NoRounds(r) \/ CloseTask(r) PROVE Fine
    <3>1. fate' \in [Numbers -> Fates]
      BY <2>3 DEF NoRounds, CloseTask, RestTypes, Fates
    <3> QED
      BY <1>3, <2>3, <3>1 DEF NoRounds, CloseTask
  <2>4. ASSUME ModelAnswers(r) \/ RunTheCalls(r) PROVE Fine
    <3>1. UNCHANGED <<toldToStop, unmarked>>
      BY <2>4 DEF ModelAnswers, RunTheCalls
    <3>2. UNCHANGED <<inbox, fate>> \/ \E n \in 1 .. Len(inbox) : ReadInbox(r, n)
      BY <2>4 DEF ModelAnswers, RunTheCalls, SteeredBy
    <3>3. Len(inbox) \in Nat
      BY DEF RestTypes
    <3>4. CASE \E n \in 1 .. Len(inbox) : ReadInbox(r, n)
      BY <3>1, <3>3, <3>4, ReadInboxTypes DEF RestTypes
    <3> QED
      BY <1>2, <3>1, <3>2, <3>4
  <2>5. ASSUME FreeTheLoop(r) PROVE Fine
    BY <2>5 DEF FreeTheLoop, RestTypes
  <2>6. ASSUME FinishMessage(r) PROVE Fine
    <3>1. UNCHANGED <<inbox, fate, toldToStop>>
      BY <2>6 DEF FinishMessage
    <3>2. unmarked' \subseteq Numbers
      <4>1. r \in Numbers \/ UNCHANGED unmarked
        BY <2>6 DEF FinishMessage, Runners
      <4> QED
        BY <2>6, <4>1 DEF FinishMessage, Finish, RestTypes
    <3> QED
      BY <3>1, <3>2 DEF RestTypes
  <2> QED
    BY <1>1, <1>9, <2>1, <2>2, <2>3, <2>4, <2>5, <2>6 DEF RunnerStep
<1>10. ASSUME JobDriverClaims PROVE RestTypes'
  BY <1>10 DEF JobDriverClaims, history, RestTypes
<1>11. ASSUME BeginStop PROVE RestTypes'
  <2>1. deaths < MaxDeaths /\ deaths' = deaths + 1 /\ serving' = FALSE
    BY <1>11 DEF BeginStop
  <2>2. deaths' \in 0 .. MaxDeaths
    BY <2>1, IntakeAssumption DEF RestTypes
  <2> QED
    BY <1>11, <2>1, <2>2 DEF BeginStop, loopVars, history, RestTypes
<1>12. ASSUME Exit \/ Crash PROVE RestTypes'
  <2>1. deaths' \in 0 .. MaxDeaths
    BY <1>12, IntakeAssumption DEF Exit, Crash, RestTypes
  <2>2. /\ inbox' = <<>> /\ toldToStop' = {} /\ serving' = FALSE /\ jobTurns' = jobTurns
        /\ unmarked' = {}
    BY <1>12 DEF Exit, Crash, ProcessEnds
  <2>3. fate' \in [Numbers -> Fates]
    BY <1>12 DEF Exit, Crash, ProcessEnds, RestTypes, Fates
  <2> QED
    BY <2>1, <2>2, <2>3, EmptyInbox DEF RestTypes
<1>13. ASSUME Start PROVE RestTypes'
  BY <1>13 DEF Start, loopVars, history, RestTypes
<1>14. ASSUME Settle PROVE RestTypes'
  <2>1. UNCHANGED <<serveVars, inbox, fate, toldToStop>>
    BY <1>14 DEF Settle, loopVars
  <2>2. drainer.message \in Numbers
    BY <1>14 DEF Settle, DrainerInv
  <2>3. unmarked' \subseteq Numbers
    BY <1>14, <2>2 DEF Settle, Finish, RestTypes
  <2> QED
    BY <1>1, <2>1, <2>3 DEF RestTypes
<1>15. ASSUME UNCHANGED vars PROVE RestTypes'
  BY <1>15 DEF vars, serveVars, loopVars, history, RestTypes
<1> QED
  BY <1>4, <1>5, <1>6, <1>7, <1>8, <1>9, <1>10, <1>11, <1>12, <1>13, <1>14, <1>15
     DEF Next, DrainerStep, JobDriverStep

LEMMA RestTypesInit == Init => RestTypes
<1> SUFFICES ASSUME Init PROVE RestTypes
  OBVIOUS
<1>1. 0 \in 0 .. MaxDeaths
  BY IntakeAssumption
<1>2. /\ inbox = <<>> /\ serving = TRUE /\ deaths = 0 /\ jobTurns = 0
      /\ toldToStop = {} /\ unmarked = {}
  BY DEF Init
<1>3. fate \in [Numbers -> Fates]
  BY DEF Init, Fates
<1> QED
  BY <1>1, <1>2, <1>3, EmptyInbox DEF RestTypes

\* The queue and everything around it keep their types; the inbox, Loop.queued,
\* never outgrows its cap, and whoever a message is delivered to is a goroutine
\* there is, because a loop that is busy always has a holder (loop.go, Deliver).
THEOREM IntakeTypes == Spec => []IntakeTypeOK
<1>1. DrainerInv /\ LoopInv /\ RestTypes /\ [Next]_vars => RestTypes'
  BY RestTypesStep
<1>2. QTypeOK /\ DrainerInv /\ LoopInv /\ RestTypes => IntakeTypeOK
  BY DEF DrainerInv, LoopInv, LoopTypes, RestTypes, Delivery, IntakeTypeOK
<1> QED
  BY <1>1, <1>2, RestTypesInit, QueueTypesHold, LoopInvHolds, PTL DEF Spec

-----------------------------------------------------------------------------
\* The nudge.

LEMMA WakeupStep ==
    ASSUME QTypeOK, DrainerInv, NoLostWakeup, [Next]_vars
    PROVE  NoLostWakeup'
<1>1. ASSUME drainer'.at # "wait" \/ open' # "open" \/ nudge' PROVE NoLostWakeup'
  BY <1>1 DEF NoLostWakeup
<1>2. ASSUME UNCHANGED <<open, nudge, drainer>>, Waiting' \subseteq Waiting
      PROVE  NoLostWakeup'
  BY <1>2 DEF NoLostWakeup
<1>3. ASSUME UNCHANGED <<queueVars, drainer>> PROVE NoLostWakeup'
  <2>1. Waiting' = Waiting
    BY <1>3 DEF queueVars, Waiting, InState
  <2> QED
    BY <1>2, <1>3, <2>1 DEF queueVars
<1>4. ASSUME NEW kind \in Kinds, Receive(kind) PROVE NoLostWakeup'
  BY <1>1, <1>4 DEF Receive, Add
<1>5. ASSUME DrainerFindsNothing PROVE NoLostWakeup'
  <2>1. Waiting' = {}
    BY <1>5 DEF DrainerFindsNothing, queueVars, Waiting, InState
  <2> QED
    BY <2>1 DEF NoLostWakeup
<1>6. ASSUME DrainerStep, ~DrainerFindsNothing PROVE NoLostWakeup'
  <2>1. drainer'.at # "wait"
    BY <1>6 DEF DrainerStep, DrainerTakes, DrainerWakes, DrainerLeaves, RouteCommand,
                RouteStop, RouteWork, StartTask, DeliverInstead, Settle, Settled, Drain,
                Routing, AtRest, DrainerInv
  <2> QED
    BY <1>1, <2>1
<1>7. ASSUME TakeFails PROVE NoLostWakeup'
  BY <1>1, <1>7 DEF TakeFails
<1>8. ASSUME NEW r \in Runners, RunnerStep(r) \/ NoRounds(r) \/ BuildFails(r)
      PROVE  NoLostWakeup'
  <2>1. UNCHANGED drainer
    BY <1>8 DEF RunnerStep, EnterRun, TopOfRound, HoldTheCall, ModelAnswers, CallFails,
                RunTheCalls, FinalReport, CloseTask, FinishMessage, FreeTheLoop,
                NoRounds, BuildFails, drainVars
  <2>2. ASSUME FinishMessage(r), ~UNCHANGED queueVars PROVE NoLostWakeup'
    <3>1. Done(r) /\ r \in Held
      BY <2>2 DEF FinishMessage, Finish, Done
    <3>2. rows' = [rows EXCEPT ![r].state = "done"] /\ UNCHANGED <<open, nudge>>
      BY <3>1 DEF Done
    <3>3. Waiting' \subseteq Waiting
      BY <3>2 DEF Waiting, InState
    <3> QED
      BY <1>2, <2>1, <3>2, <3>3
  <2>3. ASSUME ~FinishMessage(r) PROVE UNCHANGED queueVars
    BY <1>8, <2>3 DEF RunnerStep, EnterRun, TopOfRound, HoldTheCall, ModelAnswers,
                      CallFails, RunTheCalls, FinalReport, CloseTask, FreeTheLoop,
                      NoRounds, BuildFails
  <2> QED
    BY <1>3, <2>1, <2>2, <2>3
<1>9. ASSUME JobDriverLooks \/ JobDriverStep \/ BeginStop PROVE NoLostWakeup'
  <2>1. UNCHANGED <<queueVars, drainer>>
    BY <1>9 DEF JobDriverLooks, JobDriverStep, JobDriverTakesTheLoop, JobDriverClaims,
                BeginStop, drainVars
  <2> QED
    BY <1>3, <2>1
<1>10. ASSUME CloseTheQueue \/ Exit \/ Crash PROVE NoLostWakeup'
  <2>1. open' # "open"
    BY <1>10 DEF CloseTheQueue, Close, Exit, Crash, ProcessEnds, Die
  <2> QED
    BY <1>1, <2>1
<1>11. ASSUME Start PROVE NoLostWakeup'
  BY <1>1, <1>11 DEF Start, AtRest
<1>12. ASSUME UNCHANGED vars PROVE NoLostWakeup'
  BY <1>3, <1>12 DEF vars, drainVars
<1> QED
  BY <1>4, <1>5, <1>6, <1>7, <1>8, <1>9, <1>10, <1>11, <1>12 DEF Next

\* The drainer goes to sleep only after it found nothing, and whatever is added
\* while it looks or sleeps leaves a nudge (queue.go, Add; serving.go, drain).
THEOREM NoWakeupIsLost == Spec => []NoLostWakeup
<1>1. Init => NoLostWakeup
  BY DEF Init, AtRest, NoLostWakeup
<1>2. QTypeOK /\ DrainerInv /\ LoopInv /\ NoLostWakeup /\ [Next]_vars => NoLostWakeup'
  BY WakeupStep
<1> QED
  BY <1>1, <1>2, QueueTypesHold, LoopInvHolds, PTL DEF Spec

-----------------------------------------------------------------------------
\* A finished message is accounted for.

\* FinishedIsAccountedFor is not inductive: something must have become of what
\* the drainer is about to finish too, and of what a task that returned is about
\* to finish; and a delivered message must be in the inbox before it is finished.
Handled == \A s \in Finished : fate[s] # "none"
SettlesTheHandled ==
    drainer.at = "settle" /\ ~handedOver => fate[drainer.message] # "none"
ReturnedWasHandled == \A s \in Numbers : runner[s] = "returned" => fate[s] # "none"

HandledInv == Handled /\ SettlesTheHandled /\ ReturnedWasHandled

\* Only Done finishes a message, and only the one it is called for.
LEMMA OnlyDoneFinishes ==
    ASSUME QTypeOK,
           \/ \E kind \in Kinds : Add(kind)
           \/ \E s \in Numbers : Take(s)
           \/ ReadNudge \/ Close \/ Die \/ OpenQueue \/ UNCHANGED queueVars
    PROVE  Finished' \subseteq Finished
<1>1. lastSequence \in Nat
  BY HeldIsFinite
<1>2. ASSUME NEW kind \in Kinds, Add(kind) PROVE Finished' \subseteq Finished
  <2>1. Held' = Held \cup {lastSequence + 1} /\ lastSequence' = lastSequence + 1
    BY <1>2, AddHolds DEF Add
  <2> QED
    BY <1>1, <2>1 DEF Finished
<1>3. ASSUME NEW s \in Numbers, Take(s) PROVE Finished' \subseteq Finished
  <2>1. Held' = Held /\ lastSequence' = lastSequence
    BY <1>3, TakeHolds DEF Take
  <2> QED
    BY <2>1 DEF Finished
<1>4. ASSUME OpenQueue PROVE Finished' \subseteq Finished
  <2>1. Held' = Held /\ lastSequence' = lastSequence
    BY <1>4, OpenHolds DEF OpenQueue
  <2> QED
    BY <2>1 DEF Finished
<1>5. ASSUME ReadNudge \/ Close \/ Die \/ UNCHANGED queueVars
      PROVE  Finished' \subseteq Finished
  <2>1. UNCHANGED <<rows, lastSequence>>
    BY <1>5 DEF ReadNudge, Close, Die, queueVars
  <2> QED
    BY <2>1 DEF Finished, Held
<1> QED
  BY <1>2, <1>3, <1>4, <1>5

LEMMA DoneFinishesOne ==
    ASSUME QTypeOK, NEW s \in Numbers, Finish(s)
    PROVE  Finished' \subseteq Finished \cup {s}
<1>1. CASE UNCHANGED queueVars
  BY <1>1, OnlyDoneFinishes
<1>2. CASE Done(s)
  <2>1. Held' = Held \ {s} /\ lastSequence' = lastSequence
    BY <1>2, DoneHolds DEF Done
  <2> QED
    BY <2>1 DEF Finished
<1> QED
  BY <1>1, <1>2 DEF Finish

\* What became of a message is not forgotten while it is not taken again.
FateKept == \A s \in Numbers : fate[s] # "none" => fate'[s] # "none"

LEMMA FinishedAreNumbers == ASSUME QTypeOK PROVE Finished \subseteq Numbers
<1>1. lastSequence \in 0 .. MaxSequence
  BY DEF QTypeOK
<1> QED
  BY <1>1, MaxSequenceAssumption DEF Finished, Numbers

LEMMA HandledStays ==
    ASSUME QTypeOK, HandledInv, FateKept, Finished' \subseteq Finished
    PROVE  Handled'
  BY FinishedAreNumbers DEF HandledInv, Handled, FateKept

LEMMA ReturnedStays ==
    ASSUME HandledInv, FateKept, UNCHANGED runner
    PROVE  ReturnedWasHandled'
  BY DEF HandledInv, ReturnedWasHandled, FateKept

LEMMA DrainerHandles ==
    ASSUME QTypeOK, DrainerInv, LoopInv, Owners, RestTypes, HandledInv,
           DrainerStep \/ TakeFails
    PROVE  HandledInv'
<1>1. ASSUME NEW s \in Numbers, DrainerTakes(s) PROVE HandledInv'
  <2>1. Take(s) /\ UNCHANGED runner /\ drainer' = [at |-> "route", message |-> s]
    BY <1>1 DEF DrainerTakes, loopVars
  <2>2. s \in Waiting /\ open = "open"
    BY <2>1 DEF Take, IsOldestWaiting
  <2>3. s \in Held /\ s \notin InState("taken")
    BY <2>2 DEF Waiting, InState, Held
  <2>4. ~TaskOwns(s)
    BY <2>2, <2>3 DEF Owners, EveryTakenMessageHasOneOwner
  <2>5. \A t \in Numbers : t # s => fate'[t] = fate[t]
    BY <1>1 DEF DrainerTakes, RestTypes
  <2>6. Handled'
    <3>1. Finished' \subseteq Finished
      BY <2>1, OnlyDoneFinishes
    <3>2. s \notin Finished
      BY <2>3 DEF Finished
    <3> QED
      BY <2>5, <3>1, <3>2, FinishedAreNumbers DEF HandledInv, Handled
  <2>7. SettlesTheHandled'
    BY <2>1 DEF SettlesTheHandled
  <2>8. ReturnedWasHandled'
    BY <2>1, <2>4, <2>5 DEF HandledInv, ReturnedWasHandled, TaskOwns
  <2> QED
    BY <2>6, <2>7, <2>8 DEF HandledInv
<1>2. ASSUME DrainerFindsNothing \/ DrainerWakes \/ DrainerLeaves \/ TakeFails
      PROVE  HandledInv'
  <2>1. UNCHANGED <<runner, fate>> /\ drainer'.at # "settle"
    BY <1>2 DEF DrainerFindsNothing, DrainerWakes, DrainerLeaves, TakeFails, Drain,
                loopVars, history, DrainerInv
  <2>2. ReadNudge \/ UNCHANGED queueVars
    BY <1>2 DEF DrainerFindsNothing, DrainerWakes, DrainerLeaves, TakeFails
  <2>3. Handled'
    BY <2>1, <2>2, OnlyDoneFinishes, HandledStays DEF FateKept
  <2>4. ReturnedWasHandled'
    BY <2>1, ReturnedStays DEF FateKept
  <2> QED
    BY <2>1, <2>3, <2>4 DEF HandledInv, SettlesTheHandled
<1>3. ASSUME RouteCommand \/ RouteStop \/ RouteWork \/ DeliverInstead PROVE HandledInv'
  <2>1. UNCHANGED <<queueVars, runner>> /\ drainer.message \in Numbers
    BY <1>3 DEF RouteCommand, RouteStop, RouteWork, DeliverInstead, Routing, loopVars,
                DrainerInv
  <2>2. \/ Drain("starting") /\ UNCHANGED fate
        \/ \E outcome \in Fates \ {"none"} : Settled(outcome)
    BY <1>3 DEF RouteCommand, RouteStop, RouteWork, DeliverInstead, Fates
  <2>3. FateKept
    BY <2>1, <2>2 DEF FateKept, Settled, RestTypes
  <2>4. SettlesTheHandled'
    BY <2>1, <2>2 DEF SettlesTheHandled, Settled, Drain, RestTypes, DrainerInv
  <2>5. Handled' /\ ReturnedWasHandled'
    BY <2>1, <2>3, OnlyDoneFinishes, HandledStays, ReturnedStays
  <2> QED
    BY <2>4, <2>5 DEF HandledInv
<1>4. ASSUME StartTask PROVE HandledInv'
  <2>1. UNCHANGED <<queueVars, fate>> /\ handedOver' = TRUE
    BY <1>4 DEF StartTask, history
  <2>2. Handled'
    BY <2>1, OnlyDoneFinishes, HandledStays DEF FateKept
  <2>3. \A s \in Numbers : runner'[s] = "returned" => runner[s] = "returned"
    BY <1>4, RunnersAreNot DEF StartTask, LoopInv, LoopTypes
  <2>4. ReturnedWasHandled'
    BY <2>1, <2>3 DEF HandledInv, ReturnedWasHandled
  <2> QED
    BY <2>1, <2>2, <2>4 DEF HandledInv, SettlesTheHandled
<1>5. ASSUME Settle PROVE HandledInv'
  <2>1. UNCHANGED <<runner, fate>> /\ drainer'.at = "look" /\ drainer.message \in Numbers
    BY <1>5 DEF Settle, AtRest, loopVars, history, DrainerInv
  <2>2. Handled'
    <3>1. CASE handedOver
      <4>1. UNCHANGED queueVars
        BY <1>5, <3>1 DEF Settle
      <4> QED
        BY <2>1, <4>1, OnlyDoneFinishes, HandledStays DEF FateKept
    <3>2. CASE ~handedOver
      <4>1. Finished' \subseteq Finished \cup {drainer.message}
        BY <1>5, <2>1, <3>2, DoneFinishesOne DEF Settle
      <4>2. fate[drainer.message] # "none"
        BY <1>5, <3>2 DEF Settle, HandledInv, SettlesTheHandled
      <4> QED
        BY <2>1, <4>1, <4>2 DEF HandledInv, Handled
    <3> QED
      BY <3>1, <3>2
  <2>3. ReturnedWasHandled'
    BY <2>1, ReturnedStays DEF FateKept
  <2> QED
    BY <2>1, <2>2, <2>3 DEF HandledInv, SettlesTheHandled
<1> QED
  BY <1>1, <1>2, <1>3, <1>4, <1>5 DEF DrainerStep

LEMMA RunnersHandle ==
    ASSUME QTypeOK, DrainerInv, LoopInv, RestTypes, HandledInv,
           NEW r \in Runners, RunnerStep(r) \/ NoRounds(r) \/ BuildFails(r)
    PROVE  HandledInv'
<1>1. UNCHANGED <<drainer, handedOver>>
  BY DEF RunnerStep, EnterRun, TopOfRound, HoldTheCall, ModelAnswers, CallFails,
         RunTheCalls, FinalReport, CloseTask, FinishMessage, FreeTheLoop,
         NoRounds, BuildFails, drainVars
<1>2. FateKept
  <2>1. ASSUME NoRounds(r) \/ CloseTask(r) PROVE FateKept
    BY <2>1 DEF NoRounds, CloseTask, FateKept
  <2>2. ASSUME ModelAnswers(r) \/ RunTheCalls(r) PROVE FateKept
    <3>1. UNCHANGED fate \/ \E n \in 1 .. Len(inbox) : ReadInbox(r, n)
      BY <2>2 DEF ModelAnswers, RunTheCalls, SteeredBy
    <3> QED
      BY <3>1 DEF ReadInbox, FateKept
  <2>3. ASSUME \/ EnterRun(r) \/ TopOfRound(r) \/ HoldTheCall(r) \/ CallFails(r)
               \/ FinalReport(r) \/ FinishMessage(r) \/ FreeTheLoop(r) \/ BuildFails(r)
        PROVE  FateKept
    BY <2>3 DEF EnterRun, TopOfRound, HoldTheCall, CallFails, FinalReport, FinishMessage,
                FreeTheLoop, BuildFails, history, FateKept
  <2> QED
    BY <2>1, <2>2, <2>3 DEF RunnerStep
<1>3. SettlesTheHandled'
  <2>1. drainer.at = "settle" => drainer.message \in Numbers
    BY DEF DrainerInv
  <2> QED
    BY <1>1, <1>2, <2>1 DEF HandledInv, SettlesTheHandled, FateKept
<1>4. Handled'
  <2>1. CASE FinishMessage(r) /\ r # JobDriver
    <3>1. r \in Numbers /\ Finish(r) /\ runner[r] = "returned" /\ UNCHANGED fate
      BY <2>1 DEF FinishMessage, Runners, history
    <3>2. Finished' \subseteq Finished \cup {r}
      BY <3>1, DoneFinishesOne
    <3>3. fate[r] # "none"
      BY <3>1 DEF HandledInv, ReturnedWasHandled
    <3> QED
      BY <3>1, <3>2, <3>3 DEF HandledInv, Handled
  <2>2. CASE ~(FinishMessage(r) /\ r # JobDriver)
    <3>1. UNCHANGED queueVars
      BY <2>2 DEF RunnerStep, EnterRun, TopOfRound, HoldTheCall, ModelAnswers, CallFails,
                  RunTheCalls, FinalReport, CloseTask, FinishMessage, FreeTheLoop,
                  NoRounds, BuildFails
    <3> QED
      BY <1>2, <3>1, OnlyDoneFinishes, HandledStays
  <2> QED
    BY <2>1, <2>2
<1>5. ReturnedWasHandled'
  <2>1. CASE NoRounds(r) \/ CloseTask(r)
    <3>1. \A q \in Runners : q # r => runner'[q] = runner[q]
      BY <2>1 DEF NoRounds, CloseTask, Go, LoopInv, LoopTypes
    <3>2. r \in Numbers => fate'[r] # "none"
      BY <2>1 DEF NoRounds, CloseTask
    <3> QED
      BY <1>2, <3>1, <3>2, RunnersAreNot DEF HandledInv, ReturnedWasHandled, FateKept
  <2>2. CASE ~(NoRounds(r) \/ CloseTask(r))
    <3>1. \E phase \in Phases \ {"returned"} : Go(r, phase)
      BY <2>2 DEF RunnerStep, EnterRun, TopOfRound, HoldTheCall, ModelAnswers, CallFails,
                  RunTheCalls, FinalReport, FinishMessage, FreeTheLoop, BuildFails,
                  SteeredBy, Phases
    <3>2. \A q \in Runners : runner'[q] = "returned" => runner[q] = "returned"
      BY <3>1 DEF Go, LoopInv, LoopTypes
    <3> QED
      BY <1>2, <3>2, RunnersAreNot DEF HandledInv, ReturnedWasHandled, FateKept
  <2> QED
    BY <2>1, <2>2
<1> QED
  BY <1>3, <1>4, <1>5 DEF HandledInv

LEMMA HandledStep ==
    ASSUME QTypeOK, DrainerInv, LoopInv, Owners, RestTypes, HandledInv, [Next]_vars
    PROVE  HandledInv'
<1>1. ASSUME UNCHANGED <<drainer, handedOver, fate>>, Handled', ReturnedWasHandled'
      PROVE  HandledInv'
  BY <1>1 DEF HandledInv, SettlesTheHandled
<1>2. ASSUME UNCHANGED <<queueVars, drainer, handedOver, fate>>, ReturnedWasHandled'
      PROVE  HandledInv'
  <2>1. Handled'
    BY <1>2, OnlyDoneFinishes, HandledStays DEF FateKept
  <2> QED
    BY <1>1, <1>2, <2>1
<1>3. ASSUME DrainerStep \/ TakeFails PROVE HandledInv'
  BY <1>3, DrainerHandles
<1>4. ASSUME NEW r \in Runners, RunnerStep(r) \/ NoRounds(r) \/ BuildFails(r)
      PROVE  HandledInv'
  BY <1>4, RunnersHandle
<1>5. ASSUME (\E kind \in Kinds : Receive(kind)) \/ CloseTheQueue PROVE HandledInv'
  <2>1. UNCHANGED <<drainer, handedOver, fate, runner>>
    BY <1>5 DEF Receive, CloseTheQueue, drainVars, loopVars, history
  <2>2. (\E kind \in Kinds : Add(kind)) \/ Close
    BY <1>5 DEF Receive, CloseTheQueue
  <2>3. Handled' /\ ReturnedWasHandled'
    BY <2>1, <2>2, OnlyDoneFinishes, HandledStays, ReturnedStays DEF FateKept
  <2> QED
    BY <1>1, <2>1, <2>3
<1>6. ASSUME JobDriverLooks \/ JobDriverStep PROVE HandledInv'
  <2>1. UNCHANGED <<queueVars, drainer, handedOver, fate>>
    BY <1>6 DEF JobDriverLooks, JobDriverStep, JobDriverTakesTheLoop, JobDriverClaims,
                drainVars, history
  <2>2. \E phase : Go(JobDriver, phase)
    BY <1>6 DEF JobDriverLooks, JobDriverStep, JobDriverTakesTheLoop, JobDriverClaims
  <2>3. \A s \in Numbers : runner'[s] = runner[s]
    BY <2>2, RunnersAreNot, MaxSequenceAssumption
       DEF Go, LoopInv, LoopTypes, Numbers, JobDriver
  <2>4. ReturnedWasHandled'
    BY <2>1, <2>3 DEF HandledInv, ReturnedWasHandled
  <2> QED
    BY <1>2, <2>1, <2>4
<1>7. ASSUME BeginStop \/ UNCHANGED vars PROVE HandledInv'
  <2>1. UNCHANGED <<queueVars, drainer, handedOver, fate, runner>>
    BY <1>7 DEF BeginStop, vars, drainVars, loopVars, history
  <2>2. ReturnedWasHandled'
    BY <2>1, ReturnedStays DEF FateKept
  <2> QED
    BY <1>2, <2>1, <2>2
<1>8. ASSUME Exit \/ Crash PROVE HandledInv'
  <2>1. /\ Die /\ drainer'.at = "gone" /\ \A s \in Numbers : runner'[s] = "none"
    BY <1>8, RunnersAreNot DEF Exit, Crash, ProcessEnds
  <2>2. FateKept
    BY <1>8 DEF Exit, Crash, ProcessEnds, FateKept
  <2>3. Handled'
    BY <2>1, <2>2, OnlyDoneFinishes, HandledStays
  <2> QED
    BY <2>1, <2>3 DEF HandledInv, SettlesTheHandled, ReturnedWasHandled
<1>9. ASSUME Start PROVE HandledInv'
  <2>1. UNCHANGED <<runner, fate>> /\ drainer'.at = "look" /\ OpenQueue
    BY <1>9 DEF Start, AtRest, loopVars, history
  <2>2. Handled' /\ ReturnedWasHandled'
    BY <2>1, OnlyDoneFinishes, HandledStays, ReturnedStays DEF FateKept
  <2> QED
    BY <2>1, <2>2 DEF HandledInv, SettlesTheHandled
<1> QED
  BY <1>3, <1>4, <1>5, <1>6, <1>7, <1>8, <1>9 DEF Next, JobDriverStep

\* What was delivered is in the inbox until it is read or given up on.
InboxHoldsTheDelivered ==
    \A s \in Numbers : fate[s] = "delivered" => WaitsInTheInbox(s)

LEMMA DeliveredStays ==
    ASSUME InboxHoldsTheDelivered, UNCHANGED inbox,
           \A s \in Numbers : fate'[s] = "delivered" => fate[s] = "delivered"
    PROVE  InboxHoldsTheDelivered'
  BY DEF InboxHoldsTheDelivered, WaitsInTheInbox

\* The inbox is emptied, and everything in it gets another fate.
LEMMA InboxIsEmptied ==
    ASSUME InboxHoldsTheDelivered,
           \A s \in Numbers :
               /\ WaitsInTheInbox(s) => fate'[s] # "delivered"
               /\ ~WaitsInTheInbox(s) => fate'[s] = fate[s]
    PROVE  InboxHoldsTheDelivered'
  BY DEF InboxHoldsTheDelivered

LEMMA DeliverKeeps ==
    ASSUME RestTypes, InboxHoldsTheDelivered, DeliverInstead
    PROVE  InboxHoldsTheDelivered'
<1>1. CASE Len(inbox) < InboxCapacity
  <2> DEFINE entry == [message |-> drainer.message, to |-> LoopHolder]
  <2>1. inbox' = Append(inbox, entry) /\ Settled("delivered")
    BY <1>1 DEF DeliverInstead
  <2>2. \A s \in Numbers : s # drainer.message => fate'[s] = fate[s]
    BY <2>1 DEF Settled, RestTypes
  <2>3. entry.message = drainer.message
    OBVIOUS
  <2> HIDE DEF entry
  <2>4. Len(inbox) \in Nat /\ Len(inbox') = Len(inbox) + 1
    BY <2>1 DEF RestTypes
  <2>5. inbox'[Len(inbox) + 1] = entry
    BY <2>1 DEF RestTypes
  <2>6. \A i \in 1 .. Len(inbox) : inbox'[i] = inbox[i]
    BY <2>1 DEF RestTypes
  <2>7. ASSUME NEW s \in Numbers, fate'[s] = "delivered" PROVE WaitsInTheInbox(s)'
    <3>1. CASE s = drainer.message
      BY <2>3, <2>4, <2>5, <3>1 DEF WaitsInTheInbox
    <3>2. CASE s # drainer.message
      <4>1. WaitsInTheInbox(s)
        BY <2>2, <2>7, <3>2 DEF InboxHoldsTheDelivered
      <4>2. PICK i \in 1 .. Len(inbox) : inbox[i].message = s
        BY <4>1 DEF WaitsInTheInbox
      <4>3. i \in 1 .. Len(inbox') /\ inbox'[i].message = s
        BY <2>4, <2>6, <4>2
      <4> QED
        BY <4>3 DEF WaitsInTheInbox
    <3> QED
      BY <3>1, <3>2
  <2> QED
    BY <2>7 DEF InboxHoldsTheDelivered
<1>2. CASE ~(Len(inbox) < InboxCapacity)
  <2>1. Settled("dropped") /\ UNCHANGED inbox
    BY <1>2 DEF DeliverInstead
  <2> QED
    BY <2>1, DeliveredStays DEF Settled, RestTypes
<1> QED
  BY <1>1, <1>2

LEMMA DeliveredStep ==
    ASSUME RestTypes, InboxHoldsTheDelivered, [Next]_vars
    PROVE  InboxHoldsTheDelivered'
<1>1. ASSUME UNCHANGED <<inbox, fate>> PROVE InboxHoldsTheDelivered'
  BY <1>1, DeliveredStays
<1>2. ASSUME NEW s \in Numbers, DrainerTakes(s) PROVE InboxHoldsTheDelivered'
  <2>1. UNCHANGED inbox /\ fate' = [fate EXCEPT ![s] = "none"]
    BY <1>2 DEF DrainerTakes, loopVars
  <2> QED
    BY <2>1, DeliveredStays DEF RestTypes
<1>3. ASSUME RouteCommand \/ RouteStop \/ RouteWork PROVE InboxHoldsTheDelivered'
  <2>1. UNCHANGED inbox
    BY <1>3 DEF RouteCommand, RouteStop, RouteWork, loopVars
  <2>2. \/ UNCHANGED fate
        \/ \E outcome \in {"answered", "unanswered", "refused"} : Settled(outcome)
    BY <1>3 DEF RouteCommand, RouteStop, RouteWork
  <2> QED
    BY <2>1, <2>2, DeliveredStays DEF Settled, RestTypes
<1>4. ASSUME DeliverInstead PROVE InboxHoldsTheDelivered'
  BY <1>4, DeliverKeeps
<1>5. ASSUME NEW r \in Runners, RunnerStep(r) \/ NoRounds(r) \/ BuildFails(r)
      PROVE  InboxHoldsTheDelivered'
  <2>1. ASSUME NoRounds(r) \/ CloseTask(r) PROVE InboxHoldsTheDelivered'
    <3>1. UNCHANGED inbox
      BY <2>1 DEF NoRounds, CloseTask
    <3>2. \A s \in Numbers : fate'[s] = "delivered" => fate[s] = "delivered"
      BY <2>1 DEF NoRounds, CloseTask
    <3> QED
      BY <3>1, <3>2, DeliveredStays
  <2>2. ASSUME ModelAnswers(r) \/ RunTheCalls(r) PROVE InboxHoldsTheDelivered'
    <3>1. UNCHANGED <<inbox, fate>> \/ \E n \in 1 .. Len(inbox) : ReadInbox(r, n)
      BY <2>2 DEF ModelAnswers, RunTheCalls, SteeredBy
    <3>2. ASSUME NEW n \in 1 .. Len(inbox), ReadInbox(r, n) PROVE InboxHoldsTheDelivered'
      <4>1. \A s \in Numbers : ~WaitsInTheInbox(s) => fate'[s] = fate[s]
        BY <3>2 DEF ReadInbox, WaitsInTheInbox
      <4>2. \A s \in Numbers : WaitsInTheInbox(s) => fate'[s] # "delivered"
        BY <3>2 DEF ReadInbox, WaitsInTheInbox
      <4> QED
        BY <4>1, <4>2, InboxIsEmptied
    <3> QED
      BY <1>1, <3>1, <3>2
  <2>3. ASSUME \/ EnterRun(r) \/ TopOfRound(r) \/ HoldTheCall(r) \/ CallFails(r)
               \/ FinalReport(r) \/ FinishMessage(r) \/ FreeTheLoop(r) \/ BuildFails(r)
        PROVE  UNCHANGED <<inbox, fate>>
    BY <2>3 DEF EnterRun, TopOfRound, HoldTheCall, CallFails, FinalReport, FinishMessage,
                FreeTheLoop, BuildFails, history
  <2> QED
    BY <1>1, <1>5, <2>1, <2>2, <2>3 DEF RunnerStep
<1>6. ASSUME Exit \/ Crash PROVE InboxHoldsTheDelivered'
  <2>1. \A s \in Numbers : ~WaitsInTheInbox(s) => fate'[s] = fate[s]
    BY <1>6 DEF Exit, Crash, ProcessEnds, WaitsInTheInbox
  <2>2. \A s \in Numbers : WaitsInTheInbox(s) => fate'[s] # "delivered"
    BY <1>6 DEF Exit, Crash, ProcessEnds, WaitsInTheInbox
  <2> QED
    BY <2>1, <2>2, InboxIsEmptied
<1>7. ASSUME \/ \E kind \in Kinds : Receive(kind)
             \/ DrainerFindsNothing \/ DrainerWakes \/ DrainerLeaves
             \/ StartTask \/ Settle \/ TakeFails \/ JobDriverLooks \/ JobDriverStep
             \/ BeginStop \/ CloseTheQueue \/ Start \/ UNCHANGED vars
      PROVE  UNCHANGED <<inbox, fate>>
  BY <1>7 DEF Receive, DrainerFindsNothing, DrainerWakes, DrainerLeaves, StartTask,
              Settle, TakeFails, JobDriverLooks, JobDriverStep, JobDriverTakesTheLoop,
              JobDriverClaims, BeginStop, CloseTheQueue, Start, vars, loopVars, history
<1> QED
  BY <1>1, <1>2, <1>3, <1>4, <1>5, <1>6, <1>7 DEF Next, DrainerStep

LEMMA HandledInit == Init => HandledInv
<1> SUFFICES ASSUME Init PROVE HandledInv
  OBVIOUS
<1>1. Finished = {} /\ drainer.at = "look"
  BY DEF Init, QInit, AtRest, Finished
<1>2. \A s \in Numbers : runner[s] = "none"
  BY RunnersAreNot DEF Init
<1> QED
  BY <1>1, <1>2 DEF HandledInv, Handled, SettlesTheHandled, ReturnedWasHandled

\* A finished message was dealt with, waits in Loop.queued, or was given up on in
\* one of the ways the code has (finishTheMessage in serving.go, takeDelivered in
\* loop.go), for any number of messages, tasks, crashes and restarts.
THEOREM NothingIsFinishedUnaccounted == Spec => []FinishedIsAccountedFor
<1>1. DrainerInv /\ LoopInv /\ RestTypes /\ [Next]_vars => RestTypes'
  BY RestTypesStep
<1>2. /\ QTypeOK /\ DrainerInv /\ LoopInv /\ Owners /\ [Next]_vars
      => Owners'
  BY OwnersStep
<1>3. /\ QTypeOK /\ DrainerInv /\ LoopInv /\ Owners /\ RestTypes /\ HandledInv
      /\ [Next]_vars
      => HandledInv'
  BY HandledStep
<1>4. RestTypes /\ InboxHoldsTheDelivered /\ [Next]_vars => InboxHoldsTheDelivered'
  BY DeliveredStep
<1>5. Init => InboxHoldsTheDelivered
  BY DEF Init, InboxHoldsTheDelivered
<1>6. QTypeOK /\ RestTypes /\ HandledInv /\ InboxHoldsTheDelivered
      => FinishedIsAccountedFor
  <2> SUFFICES ASSUME QTypeOK, RestTypes, HandledInv, InboxHoldsTheDelivered,
                      NEW s \in Finished
               PROVE  DealtWith(s) \/ WaitsInTheInbox(s) \/ GivenUp(s)
    BY DEF FinishedIsAccountedFor
  <2>1. s \in Numbers /\ fate[s] \in Fates \ {"none"}
    BY FinishedAreNumbers DEF HandledInv, Handled, RestTypes
  <2> QED
    BY <2>1 DEF Fates, DealtWith, GivenUp, InboxHoldsTheDelivered
<1> QED
  BY <1>1, <1>2, <1>3, <1>4, <1>5, <1>6, RestTypesInit, OwnersInit, HandledInit,
     QueueTypesHold, LoopInvHolds, PTL DEF Spec
=============================================================================
