# Nerd Genie: a TLA+ model of the agent

Nerd Genie is one long-running Go program, `nerdgenie serve`, that takes
messages from a terminal screen or Signal, gives each one to a language model
that works with tools, and tells the user how it went. It is meant to run for
months, to be killed at any moment, and to lose nothing. This folder models the
parts that make that hard, checks them with TLC on small instances, and proves
what matters most with TLAPS.

## Inventory

| Part | Where | State it keeps | Operations | Hard because |
|---|---|---|---|---|
| Message queue | `internal/channel/queue.go` | SQLite table of rows (waiting, taken, done), a counter; `closed` and a one-slot nudge in memory | OpenQueue, Add, Take, Done, Arrived, Close | crash between take and done; many writers; cap |
| Intake | `cmd/nerdgenie/serving.go`, `starting.go`, `internal/channel/router.go` | which message the drainer holds, `handedOver`, `busy` | drain, Route, startTask, runDueJobs, stopTask | drainer, job driver and task goroutines interleave; shutdown waits for two of the three |
| Turn loop | `internal/loop` | who is in Run, stop flag, call in flight, `queued` messages, the task's record | Run, Deliver, Stop, rounds, endings | stop and steering race every phase of a task |
| Delivery ledger | `internal/reliability/ledger.go`, `turn.go` | reply events in the log | Record, MarkDelivered, Undelivered, Resend, Deliver | crash between write, send and mark; channels that come and go |
| Crash recovery | `internal/reliability/{prepare,sentinel,breaker,guard,restore}.go` | sentinel file, breaker file, database file | PrepareDatabase, Guard.Start, Guard.Stop, RecordUncleanStart, Announce, Clear | a kill between any two steps, in several lives in a row |
| Turn lease, drain, watchdog | `internal/reliability/{lease,drain,watchdog}.go` | leases held, marker file | Acquire, Release, Request, Cancel | waiters that time out, late releases, markers that outlive their writer |
| Socket and stream | `internal/channel/{socket,client,stream,ask}.go` | attached screens, subscriptions, open questions | Serve, attach, Publish, AskSecret, ShowPreview | slow readers dropped, answers racing |
| Jobs | `internal/job` | job records, state files, claims table | NextTask, FinishTask, tick, put down, resume | several writes per step, deadlines, a dead process's claims |
| Updates | `internal/update` | releases, the `current` link, schema version | Install, Rollback, Migrate | every step may fail, and the undo too |
| Permissions and previews | `internal/permission`, `cmd/nerdgenie/previews.go` | standing answers, waiting questions | Decide, Remember, ShowPreview | a typed answer racing a screen's |
| Providers | `internal/provider` | none between calls | Send with retry and fallback | streamed words withdrawn on retry |
| Record | `internal/record` | goal, done list, work, results of a task | Apply, SetStatus, DoneCheck | what may be called done |
| Browser, desktop, Signal daemon | `internal/{browser,desktop,signal}`, `worker/` | a child process, its idle timer | call, start, stop when idle, restart | watcher racing callers |
| Context, tools, skills, memory, vault, config, screen, repair, lint, replay, scripts | the rest | little or none across calls | pure functions, or one call that succeeds or fails | not concurrency |

How they meet: a channel Adds to the queue and the queue nudges the drainer.
The drainer Takes a row, the router answers it or starts a task, and the row is
marked done by whoever ended up with it. A task and the job driver share the
one loop through `busy`; a message that finds it busy is handed to the running
task in memory. Every word a task says goes through the ledger to a channel.
Around all of it, one life begins with PrepareDatabase (before anything has the
database open), then the stores, Guard.Start (recovery message, breaker,
Resend) and serve; it ends with Guard.Stop first and the log last.

What makes each correct: no message left taken with nobody to finish it, none
unfinished again, in order, within the cap (queue, intake); one task at a time,
stop ends it, steering reaches the right task (loop); no reply sent that was not
written, none sent after it was settled, copies bounded by counted attempts
(ledger); a whole database with a good backup, no task in a crash loop, only bad
ends counted (recovery); one turn a session (lease); a task never run twice at
once and its result never lost (jobs); link, running version and schema agree
whatever failed (updates). The hazards behind these, each at its line, are in
`PROJECT.json`.

## Modules

| Module | Models | Kind |
|---|---|---|
| `MessageQueue` | the queue, under callers that may do anything its methods allow | component |
| `AtLeastOnceQueue` | what the queue promises: numbers handed out in order, again after a restart until finished | abstract |
| `Intake` | EXTENDS `MessageQueue`: drainer, router, task goroutines, job driver, stop and steering, lives of the process | composition |
| `MCIntake` | the kinds of message for TLC | model checking |
| `DeliveryLedger` | the reply log, Deliver, Resend, channels, lives | component |
| `OwedReplies` | what the ledger promises of each reply | abstract |
| `CrashRecovery` | sentinel, recovery, breaker and the order one life uses them in | component |
| `Jobs` | job records, snapshots, claims, schedules, put-downs, and what a run does to its job | component |
| `TurnLoop` | one task from set-up through its rounds to an ending, and taken up again | component |
| `Update` | install, rollback, switchover, migration, undo, and the service they stop and start | component |
| `MessageQueue_proofs`, `Intake_proofs`, `DeliveryLedger_proofs`, `CrashRecovery_proofs`, `Jobs_proofs`, `TurnLoop_proofs`, `Update_proofs` | theorems about the module each is named for | proofs |
| `RecursiveFunctions` | what functions defined by recursion over a list keep to the end, for the proofs about the ledger and the jobs | proofs |

### MessageQueue and AtLeastOnceQueue

`rows` is the table and `lastSequence` its AUTOINCREMENT counter, which both
outlive the process; `open` is the `closed` flag and whether there is a process
at all; `nudge` is the one slot of `arrived`. Every method holds `queue.guard`
from first look to last write, so each is one action. What a message says is
left out; its `kind` (work, stop or command: what the router makes of it) is
carried in the row. `OpenQueue` is `prepare`: taken rows wait again, done rows
are deleted. `QueueKeepsItsPromise` maps the table onto `AtLeastOnceQueue`:
accepted is the counter, finished are the numbers without an unfinished row,
in hand are the taken rows of a running life, and offered are the unfinished
rows with a count above zero (the duplicate marker).

### Intake

`drainer.at` follows `takeWhatIsWaiting`: look, route, starting (the half
second startTask waits for the loop), settle (whether the drainer still holds
the message), wait. `runner[s]` is the goroutine the message s started and
`runner[0]` the job driver; its phases are the places between which another
goroutine can be seen: spawned (holds `busy`, not yet in Run), top of a round,
asking (the request is built), calling (Stop can cut it), tools, reporting (the
final report, which Stop cannot cut), closing, returned, finished. `loop` is
the Loop's own state. What the model says, which tools it asks for and how they
went are a choice among the successors those outcomes lead to. `fate` and
`toldToStop` are history and no guard reads them; `unmarked` holds the messages of
this life whose Done was refused, and is read only to bound how many.

A stop that comes as a cancelled context (`BeginStop`) makes the drainer and
the job driver leave, and `close` then closes the queue under a person's task
that is still going, as the code does. `Crash` is a kill at any moment.

### DeliveryLedger and OwedReplies

`log` is the sequence of reply events. `Deliver` is four steps (Record, Look,
Send, MarkDelivered) and Resend one per log write and per look and send.
Looking a channel up and writing to it are separate steps because
`sendToTheUser` asks `Attached` and then sends. A screen that went in between
takes no copy and no error comes back; a Signal send may be taken and its answer
lost. `Undelivered` is the real one-pass fold, with its cap. OwedReplies gives
each reply the states unwritten, owed, told and letGo, and a limit on copies.

### CrashRecovery

`stage` is named for the last thing done, and `Die` is possible at each. State
files are put in place with a rename, so writing one is one step; the restored
database is not, so it is missing, blank, partial and whole in turn. An open
database may be damaged by a kill. History: `counted` (the unclean starts
written down since the last Clear), `badEnds` and `cutShort`.

### Jobs

`store` is what the log and the claims table hold: for every job its state, its
failures, the put-down mark, the next tick, the list of tasks and the check of
its done line; for every task its claim. An operation of the store holds one
lock and makes several writes, each durable before the next. So an operation is
written as the sequence of the stores it leaves, beginning with the one it
found. `Completes` ends with the last of them; `IsRefused` (a write the disk
refuses; the program goes on) and `IsKilled` leave any one of the others. That
is how `finishTask` (release the claim, report, mark, save), `tick` (save the
next tick, then add its task) and the put-down of a dead process's tasks are
cut short between any two writes without an action for each pair. Dates and
deadlines are kept as the time still to wait.

`run` is the task the loop has, and its `step` is where its ending stands
(working, then marking the done line, then giving the fix task). `ran` is the
order of the runs, which decides which put-down job the next message picks up.
People make jobs, add tasks, switch a job off, run one now, pause and resume all
and pick one up. The kinds of job are a plain list, a work order whose done line
carries a check, and a scheduled job that adds its own tasks.

### TurnLoop

`at` is the step a run is at and follows `runOne`: set-up (`newRun`), the top of
a round, asking and calling, the reply heard, each tool call, the counting of
the round, a rethink where one is due, the reading of delivered messages, the
decision at the end of the turn, closing, review, report. `record` is where each
task's record stands in the log, `memory` is what the screen would carry on,
and `meters` are the counts that end a run (cut-off replies, malformed replies,
nudges, rewinds, stalls, still rounds, the round budget). Two ways a write can fail are kept apart: `cut` (the turn's context is
over, so every write under it is refused, while an ending writes under a fresh
one) and `refused` (the log refuses one write). `told` counts the reports sent and
`untold` says why one was not: a blank text, which `send` passes over, or a channel
that came back with an error. A stop, a message, the deadline
or a kill may come between any two steps. What the model replies, what the tools
bring, what the repeated-call detector makes of it and the verdict of the done
check are choices.

### Update

`updater` is the command a person gave and how far it came, through the stages
of `switchTo` (drain, stop, link, start, wait until ready) and then those of the
migration, or the same way back in `undo`. `releases`, `link`, `schema`, `whole`
(FALSE while a backup is being written over the database) and `drain` are on
disk. `leftover` is history: the marker that is on outlived the switch that wrote
it, because the command was cut short or the removal was refused. A command whose
own Request fails returns before its Cancel is deferred, so it leaves such a marker
where it is. `agent` is the process of the service manager: off, restarting, starting,
opening, up or hung. The service manager is not in the repository: the actions
Launch, ComeUp, WatchdogKills and AgentFails are what the unit's text in
`internal/command/service.go` asks of it. The launcher goes through the link, so
a command is run by the program the link names. `said` is how the last command
ended. Anything may go wrong at each stage, and the command may be interrupted
and the machine restarted in any state.

## Runs

Passing:

* `intake_safety` — three messages, room for two unfinished, an inbox of one,
  one death of either kind, one job turn, a database that may refuse any Take
  and one Done in a life; 1.7 million states under the
  view `SafetyView`, which leaves out of the history what no guard and no property
  of this run reads. Three messages are one more than
  the queue holds and let one be in the loop, one be steering and one be
  waiting. A Done that is refused leaves its row taken with nobody to finish it
  until the next start: the one exception `EveryTakenMessageHasOneOwner` makes.
  `FinishedIsAccountedFor` says on what grounds a message may be marked done,
  and names the ways the code has of giving one up. Also `OneTaskAtATime`,
  `NoLostWakeup`, `QueueIsBounded`, `FinishedIsForever`, `QueueKeepsItsPromise`,
  `IntakeTypeOK`.
* `intake_liveness` — two messages, one death, under `FairSpec` and with a
  database that refuses nothing: every message is finished in the end unless one
  task never returns, and a stop ends the task inside the loop. It says nothing
  of a row whose Done was refused, which waits for the next start.
* `ledger` — two replies, each on either channel, one attempt counted after the
  first send, kills in every part of a life. `cap` is the code's
  MaxUndeliveredReplies (1000): here it is one or two from the start of a
  behaviour on, so that a second reply can be one too many, and so that a read
  can hold two, which have an order. 220,000 states. Two attempts with a cap of
  two are past what the liveness can be checked for in minutes; the theorems
  have every cap and every limit. `UndeliveredIsWhatIsOwed`,
  `CopiesWereCounted`, `LedgerKeepsItsPromise`, `EveryReplySettles`,
  `LedgerTypeOK`.
* `recovery` — five lives over five ticks with a window of one tick, a quiet
  period of two and a limit of three, so a loop can trip, go quiet and trip
  again; archives none, good or bad.
* `jobs` — two jobs with a task each, two commands, one fault (a kill, with the
  start after it, or a refused write), half a million states. Two jobs are what
  it takes for one to be put down while the other runs, for the newest of two
  marks to be picked up, and for a pause to be refused between two jobs.
  `MarkedJobsStandStill`, `OnlyTheRunReportsItsTask`, `JobsTypeOK`.
* `jobs_turns` — one job of each kind with up to three tasks, dates and
  deferrals, one fault: nothing waits for itself, what is done stays done, and
  every task of a running job gets its turn. Three tasks are one set aside, one
  not, and the last.
* `turn` — one task, carried on as often as anybody likes, each count with the
  smallest limit at which being below, at and past it differ, two refused
  writes a run, a reply of up to two calls, a channel that may refuse the
  report; 400,000 states. `NoTaskIsLost` needs two misfortunes in one run to be
  false of a record, so two refusals and the deadline are enough for it to bite.
  Of a person who was not told of the end it asks for a reason: a refused write,
  the deadline, a failed channel, or a model that had no record and said
  nothing. A second task number makes the run an order of magnitude longer; the
  theorems have any number of them.
* `update` — four versions, two of which bring two migrations each (so a
  migration can stop half way, and can be from a release that is not the
  newest), three kept releases (so the fourth prunes one), two commands, three
  faults, and a removal of the drain marker that may be refused each time;
  790,000 states. Two commands are an update after a failed update, or
  a rollback after either; three faults are one that fails the command, one that
  fails its undo and one in between.

Violations, each a disagreement of the code with its own words, quoted in
`PROJECT.json` under findings:

* `intake_stop_kept` — a stop handled between the loop being taken for a task
  and the task entering Run is answered and then wiped.
* `recovery_interrupted` — a kill between moving the database aside and
  restoring it ends with the agent serving an empty database.
* `jobs_done` — a job whose last task breaks a line an earlier one proved is
  closed done, and its check is read as red only afterwards.
* `update_back` — the start of an installed version is given up on while it is
  still coming up; the undo puts the link back and starts the unit without a
  stop, which changes nothing; the new version comes up, answers, and is
  reported as the old one being back. The same start without a stop follows a
  migration that fails before it has stopped the agent.

The other findings in `PROJECT.json` were met while modelling and have no run.
In the intake and the ledger: a message delivered to a task that has stopped
reading is read by the next one, and one marked done can be dropped because the
inbox is full or lost with the process; a resend at every start, before any
channel is open, uses up a reply's attempts; the drainer drops the duplicate marker. In
recovery: the announcement is marked as made before a send that cannot succeed,
and one way out leaves the sentinel. In
jobs: a switched-off job whose last failure arrives becomes a paused one, a
picked-up run has no claim, a work order refused partway leaves half a job
running. In updates: a migration killed at its limit leaves the new schema
under the old link, the drain is over before the migration, an agent that hangs
counts as gone, and the stop cuts off the task it says it waits for. In the
loop: a deadline met by a write ends the task as failed instead of stopped, a
refused write of the set-up leaves a carried-on record at running, the calls of
a reply go on after a stop, and a restart may carry on an older task than the
last one finished.

Deadlock is not checked in any run, because the system really may stop: its
bounds on messages, lives, commands and time run out, and a queue nobody writes
to rests.

### Fairness

`Intake!Fairness` is weak fairness of the drainer, of each task's goroutine and
of the job driver once it has begun to take the loop (the Go scheduler runs a
goroutine that can run), of a model call coming back or failing (the provider
has timeouts), of the queue's closing and the process's exit once it was told
to stop, and of the service manager starting the program again. Nothing is owed
of people, job schedules, crashes, or a Take that fails. That a task ever ends
is not assumed: `EveryMessageIsFinished` has it as a hypothesis.
`DeliveryLedger` only assumes that `runServe` goes on from Guard.Start to
serve, and `EveryReplySettles` has repeated completed Resends as its hypothesis.

`Jobs` assumes that the driver asks again (it does every minute), that a turn
has a deadline (`TurnRunsOut`), that the loop goes on to mark what a task
proved, that the clock moves and that the supervisor restarts the program, each
of them only in the form in which nothing goes wrong, because faults are
bounded and nobody owes one. Nothing is owed of people or of a run's success.
`TurnLoop` assumes only that the loop takes a step it can take: a model call, a
tool and a preview each have a limit of their own. `Update` assumes only the
service manager: what it owes a start it starts, a program that was started
comes up or fails, and the watchdog fires. Nothing is owed of the command or the
person, so `TheAgentComesBack` speaks of commands that have ended.

## Proofs

`MessageQueue_proofs` proves, for every `Capacity`, set of kinds and
`MaxSequence`, from the two named assumptions on those constants:

* `QueueTypes`, `QueueBound`: the inductive invariant is `QInv`, which is
  `QTypeOK` (numbers never run ahead of the counter), the bound, and
  `TakenIsCounted`. The bound is not inductive alone: a new row is one more row
  only because its number is new, which is what the types say. The lemmas
  `AddHolds`, `TakeHolds`, `DoneHolds` and `OpenHolds` say what each method does
  to the set of unfinished rows, and the cardinality facts come from
  `FiniteSetTheorems`.
* `FinishedForever`: the action property, from the same invariant.
* `QueueImplementsPromise`: the refinement, one lemma for each method
  (`AddAccepts`, `TakeHandsOut`, `DoneFinishes`, `DieRestarts`,
  `OpenRestarts`); reading a nudge and closing are stutters.

`Intake_proofs` proves, for every `Capacity`, `MaxSequence`, `InboxCapacity`,
`MaxUnmarked`, `MaxDeaths` and `MaxJobTurns`, from those assumptions, `KindsAssumption` and
`IntakeAssumption`:

* `IntakeUsesTheQueue`: every step that touches the queue is one of its methods
  (`Spec => QSpec`), so the queue's theorems carry over: `IntakeBound`,
  `IntakeKeepsThePromise`.
* `OneTask`: `OneTaskAtATime` is not inductive alone, because a goroutine that
  frees the loop must be known to have left `Run`; `LoopInv` adds the types and
  `TurnIsPlaying` (whoever holds `oneAtATime` is in a round or closing), and
  `DrainerInv` that tasks are started for messages nobody took over yet. Four
  lemmas (`HolderMovesOn`, `LoopIsTaken`, `LoopIsFreed`, `BystanderMoves`) say
  what each kind of step does to the loop's holder, and each action is an
  instance of one of them.
* `OneOwner`: `EveryTakenMessageHasOneOwner` needs `LifeInv` (a closed queue has
  no drainer, a dead process has nobody), which makes the drainer's steps steps
  on an open queue, so a `Done` in them is refused by the
  database only. The lemmas
  `TakenAfterAdd` to `TakenAfterFinish` say what each method does to the rows in
  the loop's hands, the rest what each actor does to the owners. A refused `Done`
  moves a row from its owner to `unmarked`, which only the end of the life empties.
* `IntakeTypes`: the types, the inbox's cap among them; that a delivered message
  has somebody to go to follows from `OneTaskAtATime`.
* `NoWakeupIsLost`: `NoLostWakeup` is inductive once the drainer's types are
  known: the nudge is taken only by the step that wakes the drainer, and the
  drainer goes to sleep only after it found nothing waiting.
* `NothingIsFinishedUnaccounted`: `FinishedIsAccountedFor` is not inductive, because
  a message is finished a step or more after it was handled. `HandledInv` adds that
  what the drainer is about to finish and what a returned task is about to finish
  have been handled; `OneOwner`'s invariant shows that a message that is taken
  again, and is unhandled again, is not one of them.

`Jobs_proofs` proves, of lists of any length, that the waiting of `passedOver`
has no circle (`WaitingHasNoCircle`), and so `NoJobEverWaitsForItself`: the
tasks set aside and the last task never all wait for one another, whatever the
store holds. It is a fact about the helper rather than about the steps, which is
why it needs no invariant; the run shows the same of reachable stores, and the
liveness that rests on it.

It proves the other safety properties of the jobs from the inductive invariant
`JobsInv` (`JobsInvHolds`), for every number of jobs, tasks, commands, faults,
delays and limits:

* `JobsInv` has four parts. The store is in `Good`: its records have their types,
  no list is past its cap, and a mark is on a task still to be done of a job that
  is paused or off. `OthersTyped` types the rest, what `/pause` remembers among
  it. `RunInv`: a run is of no job that is put down, and while it works its task
  is still to be done. `RecordedInv`: records are kept of tasks still to be done.
  `MarkedJobsStandStill` is not inductive alone: a run may put its job down
  because the task it works at is unfinished, and nobody else may start or report
  the job under it.
* An operation is the sequence of the stores it leaves, and a kill or a refused
  write leaves any of them, so what is proved of an operation is proved of every
  store in its sequence. There are three kinds. `Quiet(s)` reports nothing and
  puts nothing down (claims, dates, new tasks, pausing, starting again), `Led(s)`
  may report (`FinishTask`, the claims past their budget), `Unread(s)` may put a
  job down. One lemma for each single write says which kind it is
  (`ReleaseIsQuiet`, `StateIsQuiet`, `TaskIsWritten`, `PuttingDownIsUnread`),
  one for each operation that all of its stores are of that kind.
* The operations done for each of a list in turn (`InTurn`: the places of the
  claims, the jobs of `/pause` and `/resume`, the tasks of a new job) are
  functions by recursion over a list, for lists of any length; `InTurnIsThere`
  and `KeptToTheEnd` carry what one step keeps to the end of the list.
* From `JobsInv` follow `JobsHaveTheirTypes` and `APutDownJobStandsStill`; what
  every step of `Next` does beside keeping it (`KeepsReports`) gives the action
  properties `DoneStaysDone` and `NobodyElseReportsIt`.

`DeliveryLedger_proofs` proves the ledger's safety and its refinement of
`OwedReplies`, for every number of replies, attempts, channels and lives:

* The one pass of `Undelivered` over the log is a fold, and the list it hands
  back is made by another. `ReadingKeepsIt` and `TakingKeepsIt` say what each
  knows after n events and after n entries, for a log of the shape `LogInv`
  describes: replies are written down in order, and nothing about a reply follows
  the event that settled it. `ThePass` and `TheListing` carry that to the end, and
  `WhatIsFound` says that what is found is what is owed, once each, oldest first,
  with the attempts of its last event.
* `LedgerInv` is the types, `LogInv`, and a part for each of the two that append.
  `DeliverInv`: a Deliver under way is the first and only one of its reply.
  `TodoInv`: what Resend has left to do is still owed, at the attempt it read, so
  an append about it keeps the log's shape. `CopiesInv` counts copies, and that
  nothing was shown of a reply not written down yet. Without `LogInv` the pass could
  list a settled reply again; without `TodoInv` Resend could append about one.
* `WhatIsOwedIsFound` (`UndeliveredIsWhatIsOwed`), `EveryCopyWasCounted`
  (`CopiesWereCounted`) and `LedgerHasItsTypes` (`LedgerTypeOK`) follow.
  `ThePromiseIsKept` is the refinement: the status of a reply is read off its last
  event (`StatusMoves`), an append is one step of the promise
  (`AnEventIsAStep`), a send is a copy or nothing (`SendingIsACopyOrNone`), and
  everything else is a stutter.

`RecursiveFunctions` holds the facts both need of recursion over lists: such a
function exists (`Recursion`), and what holds at first and is kept by each step
holds at the end (`KeptToTheEnd`). They are stated with sets, which the provers
can instantiate, and rest on the natural numbers being well-founded
(`WellFoundedInduction`).

`TurnLoop_proofs` proves `NoTaskIsEverLost` for every number of tasks, budgets
and limits. `NoTaskIsLost` speaks mostly of a loop at rest and is not inductive;
`LoopInv` adds `RunInv` (a run past its set-up has its task, and has told nobody
yet) and `EndingInv` (an ending begun because of an error has a misfortune
behind it already, and what is reviewed and reported is what the record says).
Every step of the loop is one of three kinds, each with a lemma: it stays in the
round, it begins an ending, or it comes back with an error.

It also proves `TurnStaysInItsBounds`, the bounds of `TurnTypeOK`. Three of the
counts need a strengthening, in `MetersInv`: a call is asked for only while the
budget has a round left, a nudge past the last one has begun an ending, and a
count of still rounds at its limit has bought a rethink, which starts it again.
Without them the next step of the count could pass its limit. The rest
(`RefusedInv`, `PersonInv`, `OutcomeInv`) is kept variable by variable, with
`NewestOfTasks` for the task a restart picks.

`Update_proofs` proves all seven safety properties of the update run, for every number
of versions, migrations, kept releases, commands and faults. The inductive
invariant `UpdateInv` has the types, and a part each for what a stage says of
the command (`StagesInv`), where the link is at each stage (`LinkInv`), which
process can be running (`AgentInv`), which schema the link's program
understands (`SchemaInv`), and what the backup holds while it is applied and
put back (`DatabaseInv`). `NoAgentOnANewerDatabase` is not inductive alone
because whether an agent reads the database when it opens it hangs on how far
the migration has come. The arithmetic rests on `UnderstoodIsMonotone` (a newer
version understands no fewer migrations) and on the greatest and the least
release of a set being in it. That a marker without a switch is a leftover one
(`DrainsEndWithTheirSwitch`) is inductive beside the stages;
`CancellingAccountsForIt` says what the Cancel leaves, `FailingKeepsIt`, `CutShortKeepsIt` and
`ServiceKeepsIt` do once what many steps share.

`CrashRecovery_proofs` proves the four properties of the recovery run, for every
limit, window, quiet period and number of lives:

* `RecoveryTypes`: the types; the count of bad ends needs that a life is counted
  once, when it leaves or is killed (`CountTypes`).
* `TheDatabaseIsNotLost`: the property speaks of a serving agent only.
  `DatabaseAtItsStage` says what the file can be at each stage of a life, and
  that before the recovery the sentinel, or what was found of it, tells of every
  damaged file: without that the next life would not check it.
* `OnlyBadEndsAreCounted`: `StillToBeCounted` names the stages in which a bad end
  has been seen and not counted yet; while it holds there is one bad end more
  than there are starts in the breaker, so the start that is recorded has its own.
* `NoTaskStartsInACrashLoop`: the breaker keeps only the starts of one window,
  and the property speaks of all the counted starts of the history. `WindowInv`
  relates the two: the counted starts are in the order of the clock, the breaker
  holds the last of them, the ones it dropped stay out of every later window,
  and it is tripped exactly since the first start that trips. `WithinIsASuffix`
  and `TheOldOnesAreFirst` are the facts about sequences in order that
  `RecordingKeepsTheWindow` needs.

Only model-checked: liveness under fairness, which is out of the prover's reach
(`EveryMessageIsFinished`, `StoppedTaskEnds`, `EveryReplySettles`,
`EveryTaskGetsItsTurn`, `ATaskEnds`, `TheAgentComesBack`), and the runs that end in
a violation, which are counterexamples. Every invariant and every action property of
a passing run that is not one of these is a theorem.

## Not modelled, and why

Each component has its note in `PROJECT.json`. In short:

* Of the jobs: the nightly check and the job that keeps running, the driver's
  refusal under a drain marker (the driver in `Jobs` is one that found none), the wake
  flag and the backoff table, incidents and notes, the quiet hours, and a task of
  a job picked up by its number through what the screen remembers
  (`jobTaskBehind`), which changes nothing in the job's store. A run that
  keeps going on its own after a pause is a step that changes nothing.
* Of the turn loop: the second round wall, the count of refusals on the harness's
  own checks (it decides who closes a line, and the nudges bound the rounds), the errors of the review, which the
  code swallows, and the last save of the round after the ending. A question of
  permission is one call that is allowed or refused.
* Of updates: two commands at once (the code has no lock between them), a
  development build, an updater killed while the migration it started goes on
  alone, and what PrepareDatabase makes of a half-written database. Manifest,
  download, checksum and unpacking are one step that succeeds or fails.
* The turn lease: its callers already share the loop through the agent's own
  busy flag, which is in `Intake`.
* Previews, the event stream's dropped readers, the browser's, desktop's and
  Signal daemon's supervisors: each has state of its own, loses nothing the
  agent keeps, and is a hazard without a property.
* Providers: one goroutine with no state between calls; to the loop a call that
  comes back or fails.
* Text functions (repair, markdown, context, work orders) have no state; the
  sandbox is the kernel's; tools, skills and commands are one call that succeeds
  or fails; screens, scripts and the test kit are clients of the rest.
* Power loss that takes back committed SQLite transactions
  (`synchronous=NORMAL`) and a row that cannot be decoded are left out of the
  queue. A step of Intake's `newRun` is a choice and not a computation.

What a next step would take up: the lease composed with the job driver, and the
question of a preview answered from two places.
