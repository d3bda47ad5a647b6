------------------------------- MODULE Intake -------------------------------
(***************************************************************************)
(* How one inbound message becomes work: the queue, the drainer that       *)
(* routes what is waiting, the goroutine one task runs in, the job driver, *)
(* and the turn loop as far as stopping it and steering it go             *)
(* (cmd/nerdgenie/serving.go and starting.go, internal/channel/router.go,  *)
(* internal/loop/loop.go, run.go, midturn.go, endings.go, calls.go).       *)
(*                                                                         *)
(* The drainer, the job driver and every task goroutine take their steps   *)
(* in any order.  A step is one critical section, or one call that nobody  *)
(* else can see the middle of.                                             *)
(***************************************************************************)
EXTENDS MessageQueue, Sequences

CONSTANTS
    InboxCapacity,  \* caps.queued_messages again: the cap on Loop.queued
    TakeMayFail,    \* the database may refuse a Take
    MaxUnmarked,    \* bound: how many Dones it refuses in one life
    MaxDeaths,      \* bound: how many times the program ends
    MaxJobTurns     \* bound: how many tasks the job driver starts

ASSUME KindsAssumption == Kinds = {"work", "stop", "command"}

ASSUME IntakeAssumption ==
    /\ {InboxCapacity, MaxUnmarked, MaxDeaths, MaxJobTurns} \subseteq Nat
    /\ TakeMayFail \in BOOLEAN

VARIABLES
    serving,    \* the context serve runs under is alive
    deaths,     \* how many lives have ended
    jobTurns,   \* how many tasks the job driver has started
    drainer,    \* where the drainer is, and the message it is working on
    handedOver, \* agent.handedOver: a task took that message over
    busy,       \* agent.busy: somebody holds the loop
    runner,     \* the goroutine each message started, and the job driver (0)
    loop,       \* the Loop: who is in Run, stop flag, call in flight
    inbox,      \* Loop.queued, each with the task it was delivered to
    fate,       \* history: what became of each message
    toldToStop, \* history: the tasks a handled /stop was meant for
    unmarked    \* history: this life's messages whose Done was refused

serveVars == <<serving, deaths, jobTurns>>
drainVars == <<drainer, handedOver>>
loopVars  == <<busy, runner, loop, inbox>>
history   == <<fate, toldToStop, unmarked>>
vars == <<queueVars, serveVars, drainVars, loopVars, history>>

JobDriver == 0

Runners == {JobDriver} \cup Numbers

Nobody == -1

\* "looked" and "claiming" are the job driver's alone: it has seen the loop
\* free, and it holds the loop while it asks the job store for a task.
Phases == {"none", "looked", "claiming", "spawned", "top", "asking", "calling",
           "tools", "reporting", "closing", "returned", "finished"}

\* The phases in which a task is still playing its rounds, from the moment the
\* loop is taken for it.
Working == {"spawned", "top", "asking", "calling", "tools", "reporting"}

HasTheLoop(r) == runner[r] \notin {"none", "looked"}

Fates == {"none", "answered", "unanswered", "refused", "ran",
          "delivered", "read", "readLate", "discarded", "dropped", "lost"}

\* Who is inside Run, Loop.stopWanted, whether Loop.stopTheCall is set, and
\* whether the call it stands for was cancelled.
IdleLoop == [turn |-> Nobody, stopWanted |-> FALSE,
             callHeld |-> FALSE, callCut |-> FALSE]

AtRest == [at |-> "look", message |-> 0]

Init ==
    /\ QInit
    /\ serving = TRUE
    /\ deaths = 0
    /\ jobTurns = 0
    /\ drainer = AtRest
    /\ handedOver = FALSE
    /\ busy = FALSE
    /\ runner = [r \in Runners |-> "none"]
    /\ loop = IdleLoop
    /\ inbox = <<>>
    /\ fate = [s \in Numbers |-> "none"]
    /\ toldToStop = {}
    /\ unmarked = {}

-----------------------------------------------------------------------------
\* Messages come in.

\* A screen's reader or the Signal reader adds one message, on its own
\* goroutine; the error of a refused Add goes back to the screen.
Receive(kind) ==
    /\ Add(kind)
    /\ UNCHANGED <<serveVars, drainVars, loopVars, history>>

-----------------------------------------------------------------------------
\* The drainer: drain, takeWhatIsWaiting, and what Route does with a message.

Drain(place) == drainer' = [drainer EXCEPT !.at = place]

\* Take and holdTheMessage.  Take refuses once the context is cancelled.
DrainerTakes(s) ==
    /\ drainer.at = "look"
    /\ serving
    /\ Take(s)
    /\ drainer' = [at |-> "route", message |-> s]
    /\ handedOver' = FALSE
    /\ fate' = [fate EXCEPT ![s] = "none"]
    /\ UNCHANGED <<serveVars, loopVars, toldToStop, unmarked>>

\* Nothing is waiting, or the database refused: wait for a nudge.
DrainerFindsNothing ==
    /\ drainer.at = "look"
    /\ Waiting = {}
    /\ drainer' = [at |-> "wait", message |-> 0]
    /\ UNCHANGED <<queueVars, serveVars, handedOver, loopVars, history>>

TakeFails ==
    /\ TakeMayFail
    /\ drainer.at = "look"
    /\ Waiting # {}
    /\ drainer' = [at |-> "waitAfterError", message |-> 0]
    /\ UNCHANGED <<queueVars, serveVars, handedOver, loopVars, history>>

DrainerWakes ==
    /\ drainer.at \in {"wait", "waitAfterError"}
    /\ ReadNudge
    /\ Drain("look")
    /\ UNCHANGED <<serveVars, handedOver, loopVars, history>>

\* The drainer leaves its loop when the context is cancelled.
DrainerLeaves ==
    /\ ~serving
    /\ drainer.at \in {"look", "wait", "waitAfterError"}
    /\ Drain("gone")
    /\ UNCHANGED <<queueVars, serveVars, handedOver, loopVars, history>>

Routing(kind) == drainer.at = "route" /\ rows[drainer.message].kind = kind

Settled(outcome) ==
    /\ Drain("settle")
    /\ fate' = [fate EXCEPT ![drainer.message] = outcome]

\* A command, a skill's trigger or a question about the status is answered by
\* the drainer itself.  A channel that is gone, a skill that fails and a send
\* that fails leave the message without its answer, and a note behind.
RouteCommand ==
    /\ Routing("command")
    /\ \E outcome \in {"answered", "unanswered"} : Settled(outcome)
    /\ UNCHANGED <<queueVars, serveVars, handedOver, loopVars, toldToStop, unmarked>>

\* StopTask: Loop.Stop sets the flag and cancels the call it can see.
RouteStop ==
    /\ Routing("stop")
    /\ loop' = [loop EXCEPT !.stopWanted = TRUE, !.callCut = @ \/ loop.callHeld]
    /\ toldToStop' = toldToStop \cup {r \in Runners : runner[r] \in Working}
    /\ Settled("answered")
    /\ UNCHANGED <<queueVars, serveVars, handedOver, busy, runner, inbox, unmarked>>

\* startTask up to the wait for the loop: a channel that is gone is an error,
\* and WhyNoNewTask, which may say no at any moment, has its reason sent to
\* whoever asked.
RouteWork ==
    /\ Routing("work")
    /\ \/ Drain("starting") /\ UNCHANGED fate
       \/ Settled("refused")
       \/ Settled("unanswered")
    /\ UNCHANGED <<queueVars, serveVars, handedOver, loopVars, toldToStop, unmarked>>

\* takeTheLoopWithinAMoment succeeds: the task takes the message over and runs
\* in a goroutine of its own.
StartTask ==
    /\ drainer.at = "starting"
    /\ ~busy
    /\ busy' = TRUE
    /\ handedOver' = TRUE
    /\ runner' = [runner EXCEPT ![drainer.message] = "spawned"]
    /\ Drain("settle")
    /\ UNCHANGED <<queueVars, serveVars, loop, inbox, history>>

\* Whose message a delivered one is meant to be: whoever holds the loop.
LoopHolder == CHOOSE r \in Runners : HasTheLoop(r)

\* Mutant of DeliverInstead: Loop.queued takes one message more than its cap.
DeliverOneTooMany ==
    /\ drainer.at = "starting"
    /\ busy
    /\ IF Len(inbox) <= InboxCapacity
       THEN /\ inbox' = Append(inbox, [message |-> drainer.message, to |-> LoopHolder])
            /\ Settled("delivered")
       ELSE /\ Settled("dropped")
            /\ UNCHANGED inbox
    /\ UNCHANGED <<queueVars, serveVars, handedOver, busy, runner, loop, toldToStop,
                   unmarked>>

\* The moment is over and the loop is still held: Deliver to the running task,
\* or, with Loop.queued full, an error the drainer only makes a note of.
DeliverInstead ==
    /\ drainer.at = "starting"
    /\ busy
    /\ IF Len(inbox) < InboxCapacity
       THEN /\ inbox' = Append(inbox, [message |-> drainer.message, to |-> LoopHolder])
            /\ Settled("delivered")
       ELSE /\ Settled("dropped")
            /\ UNCHANGED inbox
    /\ UNCHANGED <<queueVars, serveVars, handedOver, busy, runner, loop, toldToStop,
                   unmarked>>

\* finishTheMessage: Done marks the row, or is an error (a closed queue, no
\* such row, a database that refuses) of which only a note is made: a row that
\* was refused stays taken, with nobody left to mark it, until the next start.
Finish(s) ==
    \/ Done(s) /\ UNCHANGED unmarked
    \/ /\ ~(open = "open" /\ s \in Held)
       /\ UNCHANGED <<queueVars, unmarked>>
    \/ /\ Cardinality(unmarked) < MaxUnmarked
       /\ open = "open" /\ s \in Held
       /\ unmarked' = unmarked \cup {s}
       /\ UNCHANGED queueVars

\* Mutant of Settle: the message is finished whoever holds it.
SettleAnyway ==
    /\ drainer.at = "settle"
    /\ Finish(drainer.message)
    /\ drainer' = AtRest
    /\ UNCHANGED <<serveVars, handedOver, loopVars, fate, toldToStop>>

\* stillHolding: whatever no task took over is finished here and now.
Settle ==
    /\ drainer.at = "settle"
    /\ IF handedOver THEN UNCHANGED <<queueVars, unmarked>> ELSE Finish(drainer.message)
    /\ drainer' = AtRest
    /\ UNCHANGED <<serveVars, handedOver, loopVars, fate, toldToStop>>

-----------------------------------------------------------------------------
\* The job driver: runDueJobs and runWhatIsDue.

Go(r, phase) == runner' = [runner EXCEPT ![r] = phase]

\* loopIsBusy and WhyNoNewTask are asked first, without holding anything; a
\* guard that says no is this step not taken.
JobDriverLooks ==
    /\ serving
    /\ runner[JobDriver] = "none"
    /\ jobTurns < MaxJobTurns
    /\ ~busy
    /\ Go(JobDriver, "looked")
    /\ UNCHANGED <<queueVars, serveVars, drainVars, busy, loop, inbox, history>>

\* Mutant of JobDriverTakesTheLoop: takeTheLoop's own check is gone, so the
\* answer of loopIsBusy is trusted.
JobDriverTrustsItsLook ==
    /\ runner[JobDriver] = "looked"
    /\ Go(JobDriver, "claiming")
    /\ busy' = TRUE
    /\ UNCHANGED <<queueVars, serveVars, drainVars, loop, inbox, history>>

JobDriverTakesTheLoop ==
    /\ runner[JobDriver] = "looked"
    /\ IF busy
       THEN Go(JobDriver, "none") /\ UNCHANGED busy
       ELSE Go(JobDriver, "claiming") /\ busy' = TRUE
    /\ UNCHANGED <<queueVars, serveVars, drainVars, loop, inbox, history>>

\* NextTask hands out a task to run, or nothing (or an error, or a task the
\* nightly check runs without the loop), and then the loop is freed again.
JobDriverClaims ==
    /\ runner[JobDriver] = "claiming"
    /\ \/ /\ serving
          /\ Go(JobDriver, "spawned")
          /\ jobTurns' = jobTurns + 1
          /\ UNCHANGED busy
       \/ /\ Go(JobDriver, "none")
          /\ busy' = FALSE
          /\ UNCHANGED jobTurns
    /\ UNCHANGED <<queueVars, serving, deaths, drainVars, loop, inbox, history>>

-----------------------------------------------------------------------------
\* A task inside Loop.Run.

\* A job's turn is cancelled when the program stops; a person's turn is run
\* WithoutCancel.  (A turn whose time_per_turn is over takes the steps of
\* CallFails and RunTheCalls that are open to every turn at any moment.)
Cancelled(r) == r = JobDriver /\ ~serving

InTurn(r, phase) == loop.turn = r /\ runner[r] = phase

\* Mutant of EnterRun: a run begins with an empty Loop.queued.
EnterRunAfresh(r) ==
    /\ runner[r] = "spawned"
    /\ loop.turn = Nobody
    /\ loop' = [IdleLoop EXCEPT !.turn = r]
    /\ inbox' = <<>>
    /\ Go(r, "top")
    /\ UNCHANGED <<queueVars, serveVars, drainVars, busy, history>>

\* Run takes oneAtATime and forgets a stop asked for before this task began.
EnterRun(r) ==
    /\ runner[r] = "spawned"
    /\ loop.turn = Nobody
    /\ loop' = [IdleLoop EXCEPT !.turn = r]
    /\ Go(r, "top")
    /\ UNCHANGED <<queueVars, serveVars, drainVars, busy, inbox, history>>

\* Run ends before its first round: a work order is lifted, or newRun fails,
\* which only a note tells of.
NoRounds(r) ==
    /\ runner[r] = "spawned"
    /\ loop.turn = Nobody
    /\ loop' = IdleLoop
    /\ Go(r, "returned")
    /\ \E outcome \in {"ran", "unanswered"} :
           fate' = [s \in Numbers |-> IF s = r THEN outcome ELSE fate[s]]
    /\ UNCHANGED <<queueVars, serveVars, drainVars, busy, inbox, toldToStop, unmarked>>

\* Mutant of TopOfRound: the stop flag is not looked at.
TopOfRoundUnasked(r) ==
    /\ InTurn(r, "top")
    /\ \/ Go(r, "reporting")
       \/ Go(r, "asking")
    /\ UNCHANGED <<queueVars, serveVars, drainVars, busy, loop, inbox, history>>

\* oneRound's head: a spent budget buys one report with the tools off; a stop
\* that was asked for ends the task; otherwise the model is asked.
TopOfRound(r) ==
    /\ InTurn(r, "top")
    /\ \/ Go(r, "reporting")
       \/ loop.stopWanted /\ Go(r, "closing")
       \/ ~loop.stopWanted /\ Go(r, "asking")
    /\ UNCHANGED <<queueVars, serveVars, drainVars, busy, loop, inbox, history>>

\* callTheModel: buildRequest, and then holdTheCall for Stop to cancel.
HoldTheCall(r) ==
    /\ InTurn(r, "asking")
    /\ loop' = [loop EXCEPT !.callHeld = TRUE, !.callCut = FALSE]
    /\ Go(r, "calling")
    /\ UNCHANGED <<queueVars, serveVars, drainVars, busy, inbox, history>>

BuildFails(r) ==
    /\ InTurn(r, "asking")
    /\ Go(r, "closing")
    /\ UNCHANGED <<queueVars, serveVars, drainVars, busy, loop, inbox, history>>

CallReleased == loop' = [loop EXCEPT !.callHeld = FALSE, !.callCut = FALSE]

\* The call was cancelled, or the provider gave up on it: every branch of
\* oneRound's error path ends the task.
CallFails(r) ==
    /\ InTurn(r, "calling")
    /\ CallReleased
    /\ Go(r, "closing")
    /\ UNCHANGED <<queueVars, serveVars, drainVars, busy, inbox, history>>

\* readTheMessages over all that takeDelivered took: the first n are read, and
\* when the n-th says to stop the rest of the slice goes nowhere.
ReadInbox(r, n) ==
    /\ inbox' = <<>>
    /\ fate' = [s \in Numbers |->
                  IF \E i \in 1 .. Len(inbox) : inbox[i].message = s
                  THEN LET i == CHOOSE i \in 1 .. Len(inbox) : inbox[i].message = s IN
                       CASE i > n            -> "discarded"
                         [] inbox[i].to = r  -> "read"
                         [] inbox[i].to # r  -> "readLate"
                  ELSE fate[s]]

\* The messages end the task at the n-th, or all of them are corrections.
SteeredBy(r, n) ==
    /\ ReadInbox(r, n)
    /\ Go(r, "closing") \/ (n = Len(inbox) /\ Go(r, "top"))

\* The reply came: one that cannot be used goes round again, one with tool
\* calls runs them, and one without is the end of the turn, where messages
\* that arrived meanwhile are read first and the done-check decides otherwise.
ModelAnswers(r) ==
    /\ InTurn(r, "calling")
    /\ ~loop.callCut
    /\ ~Cancelled(r)
    /\ CallReleased
    /\ \/ Go(r, "tools") /\ UNCHANGED <<inbox, fate>>
       \/ Go(r, "top") /\ UNCHANGED <<inbox, fate>>
       \/ inbox = <<>> /\ Go(r, "closing") /\ UNCHANGED <<inbox, fate>>
       \/ \E n \in 1 .. Len(inbox) : SteeredBy(r, n)
    /\ UNCHANGED <<queueVars, serveVars, drainVars, busy, toldToStop, unmarked>>

\* runTheCalls: a call that ends the task leaves the messages unread, and so
\* does a log that a cancelled context will not write to; otherwise they are
\* read before the next round.
RunTheCalls(r) ==
    /\ InTurn(r, "tools")
    /\ \/ Go(r, "closing") /\ UNCHANGED <<inbox, fate>>
       \/ ~Cancelled(r) /\ inbox = <<>> /\ Go(r, "top") /\ UNCHANGED <<inbox, fate>>
       \/ ~Cancelled(r) /\ \E n \in 1 .. Len(inbox) : SteeredBy(r, n)
    /\ UNCHANGED <<queueVars, serveVars, drainVars, busy, loop, toldToStop, unmarked>>

\* finalReport's call, which Stop cannot see, comes back or fails.
FinalReport(r) ==
    /\ InTurn(r, "reporting")
    /\ Go(r, "closing")
    /\ UNCHANGED <<queueVars, serveVars, drainVars, busy, loop, inbox, history>>

\* The ending: the record is closed, the review asked, the report sent, and
\* Run returns.  Nothing reads the inbox any more.
CloseTask(r) ==
    /\ InTurn(r, "closing")
    /\ loop' = [loop EXCEPT !.turn = Nobody]
    /\ Go(r, "returned")
    /\ fate' = [s \in Numbers |-> IF s = r THEN "ran" ELSE fate[s]]
    /\ UNCHANGED <<queueVars, serveVars, drainVars, busy, inbox, toldToStop, unmarked>>

\* The goroutine's deferred calls, in their order: finished(), freeTheLoop().
\* A job's task came from no row.
FinishMessage(r) ==
    /\ runner[r] = "returned"
    /\ IF r = JobDriver THEN UNCHANGED <<queueVars, unmarked>> ELSE Finish(r)
    /\ Go(r, "finished")
    /\ UNCHANGED <<serveVars, drainVars, busy, loop, inbox, fate, toldToStop>>

FreeTheLoop(r) ==
    /\ runner[r] = "finished"
    /\ busy' = FALSE
    /\ Go(r, "none")
    /\ toldToStop' = toldToStop \ {r}
    /\ UNCHANGED <<queueVars, serveVars, drainVars, loop, inbox, fate, unmarked>>

-----------------------------------------------------------------------------
\* The ends and starts of the program's lives.

\* The context serve runs under is cancelled, by a signal or a dead socket.
BeginStop ==
    /\ serving
    /\ deaths < MaxDeaths
    /\ serving' = FALSE
    /\ deaths' = deaths + 1
    /\ UNCHANGED <<queueVars, jobTurns, drainVars, loopVars, history>>

\* serve has waited for the drainer and the job driver, never for a task a
\* person started, and close() closes the queue.
CloseTheQueue ==
    /\ ~serving
    /\ drainer.at = "gone"
    /\ runner[JobDriver] = "none"
    /\ Close
    /\ UNCHANGED <<serveVars, drainVars, loopVars, history>>

\* Everything but the table is gone.
ProcessEnds ==
    /\ Die
    /\ drainer' = [at |-> "gone", message |-> 0]
    /\ handedOver' = FALSE
    /\ busy' = FALSE
    /\ runner' = [r \in Runners |-> "none"]
    /\ loop' = IdleLoop
    /\ inbox' = <<>>
    /\ serving' = FALSE
    /\ toldToStop' = {}
    /\ unmarked' = {}
    /\ fate' = [s \in Numbers |->
                  IF \E i \in 1 .. Len(inbox) : inbox[i].message = s
                  THEN "lost" ELSE fate[s]]
    /\ UNCHANGED <<jobTurns>>

Exit ==
    /\ open = "closed"
    /\ ProcessEnds
    /\ UNCHANGED deaths

Crash ==
    /\ open # "down"
    /\ deaths < MaxDeaths
    /\ ProcessEnds
    /\ deaths' = deaths + 1

\* Mutant of Start: the drainer waits for a nudge before it looks.
StartAsleep ==
    /\ OpenQueue
    /\ serving' = TRUE
    /\ drainer' = [at |-> "wait", message |-> 0]
    /\ UNCHANGED <<deaths, jobTurns, handedOver, loopVars, history>>

Start ==
    /\ OpenQueue
    /\ serving' = TRUE
    /\ drainer' = AtRest
    /\ UNCHANGED <<deaths, jobTurns, handedOver, loopVars, history>>

-----------------------------------------------------------------------------

DrainerStep ==
    \/ \E s \in Numbers : DrainerTakes(s)
    \/ DrainerFindsNothing
    \/ DrainerWakes
    \/ DrainerLeaves
    \/ RouteCommand
    \/ RouteStop
    \/ RouteWork
    \/ StartTask
    \/ DeliverInstead
    \/ Settle

RunnerStep(r) ==
    \/ EnterRun(r)
    \/ TopOfRound(r)
    \/ HoldTheCall(r)
    \/ ModelAnswers(r)
    \/ CallFails(r)
    \/ RunTheCalls(r)
    \/ FinalReport(r)
    \/ CloseTask(r)
    \/ FinishMessage(r)
    \/ FreeTheLoop(r)

JobDriverStep == JobDriverTakesTheLoop \/ JobDriverClaims

Next ==
    \/ \E kind \in Kinds : Receive(kind)
    \/ DrainerStep
    \/ TakeFails
    \/ JobDriverLooks
    \/ JobDriverStep
    \/ \E r \in Runners : RunnerStep(r) \/ NoRounds(r) \/ BuildFails(r)
    \/ BeginStop
    \/ CloseTheQueue
    \/ Exit
    \/ Crash
    \/ Start

\* Goroutines that can take a step are scheduled, a model call comes back or
\* fails, and the service manager starts the program again.  Nothing is owed
\* of the people, the job store, or crashes.
Fairness ==
    /\ WF_vars(DrainerStep)
    /\ WF_vars(JobDriverStep)
    /\ \A r \in Runners : WF_vars(RunnerStep(r))
    /\ WF_vars(CloseTheQueue)
    /\ WF_vars(Exit)
    /\ WF_vars(Start)

Spec == Init /\ [][Next]_vars

FairSpec == Spec /\ Fairness

-----------------------------------------------------------------------------

\* The types of the queue and of everything around it.
IntakeTypeOK ==
    /\ QTypeOK
    /\ serving \in BOOLEAN
    /\ deaths \in 0 .. MaxDeaths
    /\ jobTurns \in Nat
    /\ drainer \in [at : {"look", "wait", "waitAfterError", "route", "starting",
                          "settle", "gone"},
                    message : 0 .. MaxSequence]
    /\ handedOver \in BOOLEAN
    /\ busy \in BOOLEAN
    /\ runner \in [Runners -> Phases]
    /\ loop \in [turn : Runners \cup {Nobody}, stopWanted : BOOLEAN,
                 callHeld : BOOLEAN, callCut : BOOLEAN]
    /\ inbox \in Seq([message : Numbers, to : Runners])
    /\ Len(inbox) <= InboxCapacity
    /\ fate \in [Numbers -> Fates]
    /\ toldToStop \subseteq Runners
    /\ unmarked \subseteq Numbers

\* The drainer answers for the message it took until a task takes it over.
DrainerOwns(s) ==
    /\ drainer.at \in {"route", "starting", "settle"}
    /\ drainer.message = s
    /\ ~handedOver

\* A task answers for the message that started it until it marks it done.
TaskOwns(s) == runner[s] \notin {"none", "finished"}

\* Every row that is in the loop's hands has exactly one owner who will finish
\* it, and whoever answers for a message holds its row: nothing is left taken
\* with nobody to finish it, and nothing is finished twice.  The one exception
\* is a row whose Done the database refused: it stays taken until the next
\* start and nobody owns it.  A closed queue keeps the rows as they are, and
\* their owners can no longer finish them.
EveryTakenMessageHasOneOwner ==
    open = "open" =>
        \A s \in Numbers :
            /\ s \in InState("taken") <=> DrainerOwns(s) \/ TaskOwns(s) \/ s \in unmarked
            /\ ~(DrainerOwns(s) /\ TaskOwns(s))
            /\ s \in unmarked => ~DrainerOwns(s) /\ ~TaskOwns(s)

\* busyGuard keeps one task at a time across the person's goroutines and the
\* job driver, so no second task ever waits on the loop's own lock.
OneTaskAtATime ==
    /\ \A q, r \in Runners : HasTheLoop(q) /\ HasTheLoop(r) => q = r
    /\ busy <=> \E r \in Runners : HasTheLoop(r)
    /\ loop.turn # Nobody => HasTheLoop(loop.turn)

\* The drainer never sleeps beside a waiting message with no nudge on its way,
\* though it looks and goes to sleep without holding the queue's lock.  (After
\* a Take that failed it does sleep so, until the next message arrives.)
NoLostWakeup == drainer.at = "wait" /\ open = "open" /\ Waiting # {} => nudge

Finished == (1 .. lastSequence) \ Held

\* The drainer answered or refused it, its task ran, or a task read it.
DealtWith(s) == fate[s] \in {"answered", "refused", "ran", "read", "readLate"}

WaitsInTheInbox(s) == \E i \in 1 .. Len(inbox) : inbox[i].message = s

\* Nobody did and nobody will: no answer could be sent, or the task could not
\* begin ("unanswered"); the inbox was full, an earlier message of the same
\* reading ended the task, or the process ended with the inbox in its memory.
GivenUp(s) == fate[s] \in {"unanswered", "dropped", "discarded", "lost"}

\* A message is marked done on the strength of being dealt with, of waiting in
\* the inbox of a loop that is alive, or of being given up on in one of the ways
\* the code has: never of having been picked up; and one delivered to a running
\* task stays in Loop.queued from task to task until it is read or given up on.
FinishedIsAccountedFor ==
    \A s \in Finished : DealtWith(s) \/ WaitsInTheInbox(s) \/ GivenUp(s)

\* Unless one task runs for ever, every message the queue accepted is finished
\* in the end, through crashes and restarts, as long as the database takes each
\* Done: a row whose Done it refused waits for the next start, if there is one.
EveryMessageIsFinished ==
    []<>(loop.turn = Nobody) =>
        \A s \in Numbers : (s \in Held) ~> (s \notin Held)

\* A stop asked for while a task is inside the loop ends the task, though
\* nothing else might: the flag is looked at before each round, and a call in
\* flight is cut.
StoppedTaskEnds ==
    \A r \in Runners : (loop.turn = r /\ loop.stopWanted) ~> (loop.turn # r)

\* "the running task has been asked to stop" (router.go:154): a task that held
\* the loop when a stop was handled is still asked to stop until it closes.
StopIsKept ==
    \A r \in toldToStop : runner[r] \in Working => loop.stopWanted
=============================================================================
