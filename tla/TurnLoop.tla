------------------------------ MODULE TurnLoop ------------------------------
(* The turn loop of Nerd Genie (src/internal/loop): one task of a person's,  *)
(* taken through its rounds to an ending, and taken up again later.  A round *)
(* is one model call and the tools its reply asked for; between any two      *)
(* steps of it the person may stop the task or say something, the turn may   *)
(* run past its deadline, the log may refuse a write, and the program may be *)
(* killed.                                                                   *)
(*                                                                           *)
(* The model's words, the tools' results and what the harness reads into     *)
(* them (the same call again, a wall, a question, a plan step still open)    *)
(* are choices; what the harness does about each is the code's.  A job's     *)
(* task runs through the same rounds; what its job makes of the ending is    *)
(* the subject of Jobs.                                                      *)
EXTENDS Naturals, Sequences, SequencesExt, FiniteSets, FiniteSetsExt

CONSTANTS
    MaxTasks,               \* how many task numbers are handed out
    Budgets,                \* the round budgets a task may have, 0 is off
    MaxCutOffsSentBack,     \* cut-off replies in a row sent back, cutoff.go:23
    MaxFailedParses,        \* malformed replies in a row sent back, repair.go:31
    MaxDoneCheckNudges,     \* times the model is sent back to work, run.go:33
    RewindsAllowed,         \* conversations cleared on a repeated call, guard.go:46
    RewindAfter,            \* still rounds that buy a rethink, progress.go:38
    StallsBeforeStop,       \* rethinks the meter buys before it stops, progress.go:35
    MaxCalls,               \* tool calls in one reply
    QueuedMessages,         \* messages waiting for the running task
    MaxRefusals             \* writes the log refuses in one run

ASSUME TurnLoopAssumption ==
    /\ {MaxTasks, MaxCalls, QueuedMessages, RewindAfter, StallsBeforeStop} \subseteq Nat \ {0}
    /\ {MaxCutOffsSentBack, MaxFailedParses, MaxDoneCheckNudges, RewindsAllowed,
        MaxRefusals} \subseteq Nat
    /\ Budgets \subseteq Nat

Tasks == 1..MaxTasks

\* Where a record stands, and "none" for a task that has made none.
Standings == {"none", "running", "waiting", "stopped", "failed", "done"}

\* What taskToCarryOn picks up again.
PickedUp == {"waiting", "stopped", "failed"}

VARIABLES
    at,             \* the step the loop is at
    task,           \* the number of the task on hand, or of the last one
    record,         \* where each task's record stands in the log
    memory,         \* the screen's newest task and where it ended (screenTasks)
    doneList,       \* the record's done list: "none", "open" or "proved"
    meters,         \* the counts of this run that end it
    ending,         \* the ending being written: its status, and what is left of it
    told,           \* the reports this run has sent
    untold,         \* why this run's report went astray: "blank", "unsent" or "none"
    stopWanted,     \* somebody asked the running task to stop
    callCancelled,  \* the stop reached the model call in flight
    queued,         \* messages handed to the running task and not read by it
    cut,            \* the turn's context is over: its deadline has passed
    setUp,          \* the run on hand, or the last one, got past newRun
    refused,        \* writes the log refused during this run
    movedOn         \* this round moved, polled, was corrected or failed a check

theRecord  == <<record, doneList>>
theReport  == <<told, untold>>
thePerson  == <<stopWanted, callCancelled, queued>>
vars == <<at, task, record, memory, doneList, meters, ending, told, untold,
          stopWanted, callCancelled, queued, cut, setUp, refused, movedOn>>

AtRest == {"idle", "down"}

NoEnding == [status |-> "none", review |-> FALSE, last |-> FALSE]

\* A run begins with every count at nothing (newRun).
NoMeters(budget) ==
    [budget |-> budget, rounds |-> 0, cutOffs |-> 0, failedParses |-> 0, nudges |-> 0,
     rewinds |-> 0, stalls |-> 0, still |-> 0,
     rewindDue |-> FALSE, reply |-> "none", calls |-> 0, moved |-> FALSE]

Init ==
    /\ at = "idle"
    /\ task = 0
    /\ record = [t \in Tasks |-> "none"]
    /\ memory = [number |-> 0, status |-> "none"]
    /\ doneList = "none"
    /\ meters = NoMeters(0)
    /\ ending = NoEnding
    /\ told = 0
    /\ untold = "none"
    /\ stopWanted = FALSE
    /\ callCancelled = FALSE
    /\ queued = <<>>
    /\ cut = FALSE
    /\ setUp = FALSE
    /\ refused = 0
    /\ movedOn = FALSE

-----------------------------------------------------------------------------
(* Writes.  The log takes a write, or refuses it: because the context the    *)
(* write runs under is over, or for a reason of its own (a full disk).       *)

HasARecord == task # 0 /\ record[task] # "none"

LogTakesIt == UNCHANGED refused

LogRefuses ==
    /\ refused < MaxRefusals
    /\ refused' = refused + 1

\* A write under the turn's own context.
TheTurnWrites == ~cut /\ LogTakesIt
TheTurnCannotWrite == (cut /\ LogTakesIt) \/ LogRefuses

\* A write under the ten seconds of its own an ending gets (timeToWrapUp).
TheEndingWrites == LogTakesIt
TheEndingCannotWrite == LogRefuses

Becomes(status) == record' = [record EXCEPT ![task] = status]

-----------------------------------------------------------------------------
(* Endings.                                                                  *)

\* Run has returned and the screen remembers where the task ended; a task
\* without a record leaves nothing to carry on, and neither does an error.
Returns(status) ==
    /\ at' = "idle"
    /\ memory' = IF HasARecord /\ status # "none" THEN [number |-> task, status |-> status]
                                                  ELSE [number |-> 0, status |-> "none"]
    /\ ending' = NoEnding
    /\ meters' = NoMeters(0)

EndAs(status, review) ==
    /\ at' = "closing"
    /\ ending' = [status |-> status, review |-> review, last |-> FALSE]
    /\ UNCHANGED memory

\* A step of a round or of an ending came back with an error.  play ends the
\* task as failed when its record still stands at running, once.
ComesBackWithAnError ==
    IF HasARecord /\ record[task] = "running" /\ ~ending.last
    THEN /\ at' = "closing"
         /\ ending' = [status |-> "failed", review |-> ~cut, last |-> TRUE]
         /\ UNCHANGED <<memory, meters>>
    ELSE Returns("none")

\* stopForThePerson and cutOffHere ask the model nothing more.
StopForThePerson == EndAs("stopped", FALSE)
CutOffHere == EndAs("stopped", FALSE)
FailHere == EndAs("failed", ~cut)

\* A stop line, or the guard: with every done line proved it is the finish.
StopHere == EndAs(IF doneList = "proved" THEN "done" ELSE "stopped", TRUE)

CloseTheRecord ==
    /\ at = "closing"
    /\ \/ /\ HasARecord
          /\ TheEndingCannotWrite
          /\ ComesBackWithAnError
          /\ UNCHANGED record
       \/ /\ TheEndingWrites
          /\ IF HasARecord THEN Becomes(ending.status) ELSE UNCHANGED record
          /\ at' = IF HasARecord /\ ending.review THEN "reviewing" ELSE "reporting"
          /\ meters' = NoMeters(0)
          /\ UNCHANGED <<ending, memory>>
    /\ UNCHANGED <<task, doneList, theReport, thePerson, cut, setUp, movedOn>>

\* The four questions are a model call; whatever comes of it, the report goes.
Review ==
    /\ at = "reviewing"
    /\ at' = "reporting"
    /\ UNCHANGED <<task, theRecord, memory, meters, ending, theReport, thePerson, cut, setUp,
                   refused, movedOn>>

\* A model that had no record made and answers with nothing, or with its
\* thinking alone, leaves nothing to say: nothing is logged and nothing is sent.
NothingToSay ==
    /\ ~HasARecord
    /\ ending.status = "done"
    /\ untold' = "blank"
    /\ UNCHANGED <<told, refused>>
    /\ Returns(ending.status)

\* The reply is written down before it is sent, by send and by the ledger, and
\* marked as delivered after; the log may refuse any of the three.
TheReplyCannotBeWritten ==
    /\ TheEndingCannotWrite
    /\ told' \in {told, told + 1}
    /\ UNCHANGED untold
    /\ ComesBackWithAnError

\* The channel comes back with an error, now and then after the reply went out.
\* The ledger owes the reply from here on; the run ends with the error.
TheSendFails ==
    /\ TheEndingWrites
    /\ told' \in {told, told + 1}
    /\ untold' = "unsent"
    /\ ComesBackWithAnError

ThePersonIsTold ==
    /\ TheEndingWrites
    /\ told' = told + 1
    /\ UNCHANGED untold
    /\ Returns(ending.status)

Report ==
    /\ at = "reporting"
    /\ NothingToSay \/ TheReplyCannotBeWritten \/ TheSendFails \/ ThePersonIsTold
    /\ UNCHANGED <<task, theRecord, thePerson, cut, setUp, movedOn>>

-----------------------------------------------------------------------------
(* A run begins, and gets past its set-up or does not.                       *)

NewestTask == Max({0} \cup {t \in Tasks : record[t] # "none"} \cup {task})

\* A message that finds nothing running: it carries the screen's newest task on
\* when that task is waiting, stopped or failed, and starts a fresh one
\* otherwise.  Run forgets a stop asked for before it; what was handed to an
\* earlier task and never read is still queued.
Run ==
    /\ at = "idle"
    /\ task' = IF memory.status \in PickedUp THEN memory.number ELSE NewestTask + 1
    /\ task' \in Tasks
    /\ at' = "setup"
    /\ \E budget \in Budgets : meters' = NoMeters(budget)
    /\ told' = 0
    /\ untold' = "none"
    /\ refused' = 0
    /\ stopWanted' = FALSE
    /\ callCancelled' = FALSE
    /\ cut' = FALSE
    /\ setUp' = FALSE
    /\ movedOn' = FALSE
    /\ UNCHANGED <<theRecord, memory, ending, queued>>

\* resume reads the record and marks it running, and then the ask is logged.  A
\* write refused in between leaves the record at running, and newRun's error is
\* handed straight up: no ending is written and nobody is told.
NewRun ==
    /\ at = "setup"
    /\ \/ /\ TheTurnWrites
          /\ IF HasARecord
             THEN Becomes("running") /\ doneList' \in {"none", "open", "proved"}
             ELSE UNCHANGED record /\ doneList' = "none"
          /\ setUp' = TRUE
          /\ at' = "top"
          /\ UNCHANGED <<memory, ending, meters>>
       \/ /\ TheTurnCannotWrite
          /\ \/ UNCHANGED record
             \/ HasARecord /\ Becomes("running")
          /\ Returns("none")
          /\ UNCHANGED <<doneList, setUp>>
    /\ UNCHANGED <<task, theReport, thePerson, cut, movedOn>>

-----------------------------------------------------------------------------
(* The top of a round, and the model call.                                   *)

BudgetIsSpent == meters.budget > 0 /\ meters.rounds >= meters.budget

OneRound ==
    /\ at = "top"
    /\ \/ /\ BudgetIsSpent
          /\ at' = "finalReport"
          /\ UNCHANGED <<memory, ending>>
       \/ /\ ~BudgetIsSpent
          /\ stopWanted
          /\ StopForThePerson
       \/ /\ ~BudgetIsSpent
          /\ ~stopWanted
          /\ at' = "asking"
          /\ UNCHANGED <<memory, ending>>
    /\ movedOn' = FALSE
    /\ meters' = [meters EXCEPT !.reply = "none", !.moved = FALSE]
    /\ UNCHANGED <<task, theRecord, theReport, thePerson, cut, setUp, refused>>

\* The one call with the tools off; no stop reaches it.
FinalReport ==
    /\ at = "finalReport"
    /\ EndAs("stopped", FALSE)
    /\ UNCHANGED <<task, theRecord, meters, theReport, thePerson, cut, setUp, refused, movedOn>>

\* From here a stop cancels the call.  One that came before, after the look at
\* the top of the round, does not.
HoldTheCall ==
    /\ at = "asking"
    /\ at' = "calling"
    /\ callCancelled' = FALSE
    /\ UNCHANGED <<task, theRecord, memory, meters, ending, theReport, stopWanted, queued, cut,
                   setUp, refused, movedOn>>

Replies == {"cut off", "malformed", "answer", "question", "calls"}

\* The model answers, in time or in spite of a stop that came too late for it.
ModelReplies ==
    /\ at = "calling"
    /\ at' = "replied"
    /\ callCancelled' = FALSE
    /\ \E reply \in Replies :
         meters' = [meters EXCEPT !.reply = reply,
                                  !.rounds = IF meters.budget > 0 THEN @ + 1 ELSE @]
    /\ UNCHANGED <<task, theRecord, memory, ending, theReport, stopWanted, queued, cut, setUp,
                   refused, movedOn>>

\* The call comes back with an error: its own, or that it was cancelled.
ModelFails ==
    /\ at = "calling"
    /\ callCancelled' = FALSE
    /\ \/ stopWanted /\ StopForThePerson
       \/ ~stopWanted /\ cut /\ CutOffHere
       \/ ~stopWanted /\ ~cut /\ FailHere
    /\ UNCHANGED <<task, theRecord, meters, theReport, stopWanted, queued, cut, setUp, refused,
                   movedOn>>

-----------------------------------------------------------------------------
(* What the reply is.                                                        *)

GoRoundAgain ==
    /\ at' = "top"
    /\ UNCHANGED <<memory, ending>>

Hears(reply, cutOffs) ==
    \/ /\ reply = "malformed"
       /\ meters.failedParses < MaxFailedParses
       /\ meters' = [meters EXCEPT !.cutOffs = cutOffs, !.failedParses = @ + 1]
       /\ GoRoundAgain
       /\ UNCHANGED theRecord
       /\ LogTakesIt
    \/ /\ \/ reply \in {"answer", "question"}
          \/ reply = "malformed" /\ meters.failedParses >= MaxFailedParses
       /\ meters' = [meters EXCEPT !.cutOffs = cutOffs, !.failedParses = 0,
                                   !.reply = IF reply = "question" THEN @ ELSE "answer"]
       /\ at' = "answered"
       /\ UNCHANGED <<theRecord, memory, ending>>
       /\ LogTakesIt
    \/ /\ reply = "calls"
       /\ HasARecord \/ TheTurnWrites
       /\ HasARecord => LogTakesIt
       /\ \E calls \in 1..MaxCalls :
            meters' = [meters EXCEPT !.cutOffs = cutOffs, !.failedParses = 0,
                                     !.calls = calls, !.moved = FALSE]
       /\ IF HasARecord THEN UNCHANGED record ELSE Becomes("running")
       /\ at' = "tools"
       /\ UNCHANGED <<doneList, memory, ending>>
    \/ /\ reply = "calls"
       /\ ~HasARecord
       /\ TheTurnCannotWrite
       /\ ComesBackWithAnError
       /\ UNCHANGED theRecord

\* The round's checkpoint is saved first; without a record there is none.  A
\* reply cut off once too often is heard as it stands, and is no question.
HearTheReply ==
    /\ at = "replied"
    /\ \/ /\ HasARecord
          /\ TheTurnCannotWrite
          /\ ComesBackWithAnError
          /\ UNCHANGED theRecord
       \/ /\ HasARecord => ~cut
          /\ meters.reply = "cut off"
          /\ meters.cutOffs < MaxCutOffsSentBack
          /\ meters' = [meters EXCEPT !.cutOffs = @ + 1]
          /\ GoRoundAgain
          /\ UNCHANGED theRecord
          /\ LogTakesIt
       \/ /\ HasARecord => ~cut
          /\ IF meters.reply = "cut off"
             THEN /\ meters.cutOffs >= MaxCutOffsSentBack
                  /\ \E reply \in {"malformed", "answer", "calls"} : Hears(reply, meters.cutOffs)
             ELSE Hears(meters.reply, 0)
    /\ UNCHANGED <<task, theReport, thePerson, cut, setUp, movedOn>>

-----------------------------------------------------------------------------
(* The tool calls of one reply, in order.                                    *)

CallDone == meters' = [meters EXCEPT !.calls = @ - 1]

\* A call that is not run: the conversation is about to be cleared, a rethink
\* closed it, it is one repeat too many, or it was not allowed.
RefuseTheCall ==
    /\ CallDone
    /\ LogTakesIt
    /\ UNCHANGED <<at, theRecord, memory, ending>>

\* The same with one clearing more than is allowed.
SameCallOnceMore ==
    /\ ~meters.rewindDue
    /\ LogTakesIt
    /\ UNCHANGED theRecord
    /\ \/ /\ meters.rewinds <= RewindsAllowed
          /\ meters' = [meters EXCEPT !.calls = @ - 1, !.rewinds = @ + 1, !.rewindDue = TRUE]
          /\ UNCHANGED <<at, memory, ending>>
       \/ /\ meters.rewinds > RewindsAllowed
          /\ meters' = [meters EXCEPT !.calls = 0]
          /\ StopHere

\* The detector has had enough of the same call: the conversation is cleared
\* after this round, and once that has been done often enough the task stops.
SameCallAgain ==
    /\ ~meters.rewindDue
    /\ LogTakesIt
    /\ UNCHANGED theRecord
    /\ \/ /\ meters.rewinds < RewindsAllowed
          /\ meters' = [meters EXCEPT !.calls = @ - 1, !.rewinds = @ + 1, !.rewindDue = TRUE]
          /\ UNCHANGED <<at, memory, ending>>
       \/ /\ meters.rewinds >= RewindsAllowed
          /\ meters' = [meters EXCEPT !.calls = 0]
          /\ StopHere

\* The tool runs, and its result and the marks the model asked for go into the
\* record; a stop line that fired on it ends the task.
RunAndRecord ==
    /\ ~meters.rewindDue
    /\ TheTurnWrites
    /\ doneList' \in {doneList, "open", "proved"}
    /\ UNCHANGED record
    /\ \/ /\ \E moved \in BOOLEAN :
               /\ doneList' = "proved" /\ doneList # "proved" => moved
               /\ meters' = [meters EXCEPT !.calls = @ - 1, !.moved = @ \/ moved]
          /\ UNCHANGED <<at, memory, ending>>
       \/ /\ meters' = [meters EXCEPT !.calls = 0]
          /\ EndAs(IF doneList' = "proved" THEN "done" ELSE "stopped", TRUE)

\* The call is logged before anything, so no call is judged once the turn's
\* context is over.
OneCall ==
    /\ at = "tools"
    /\ meters.calls > 0
    /\ \/ ~cut /\ RefuseTheCall
       \/ ~cut /\ SameCallAgain
       \/ RunAndRecord
       \/ /\ TheTurnCannotWrite
          /\ ComesBackWithAnError
          /\ UNCHANGED theRecord
    /\ UNCHANGED <<task, theReport, thePerson, cut, setUp, movedOn>>

-----------------------------------------------------------------------------
(* After the calls: the meters, the rethink, the messages.                   *)

\* The stalls have run out and the guard stops the task, or this one buys a
\* rethink and a fresh window.
AStall(still) ==
    \/ /\ meters.stalls >= StallsBeforeStop - 1
       /\ StopHere
       /\ meters' = [meters EXCEPT !.still = still]
    \/ /\ meters.stalls < StallsBeforeStop - 1
       /\ meters' = [meters EXCEPT !.still = still, !.stalls = @ + 1, !.rewindDue = TRUE]
       /\ at' = "rethinking"
       /\ UNCHANGED <<memory, ending>>

AfterTheMeter == IF meters.rewindDue THEN "rethinking" ELSE "reading"

CountTheRound ==
    /\ at = "tools"
    /\ meters.calls = 0
    /\ \/ /\ ~meters.rewindDue                          \* a wall, before the meter
          /\ AStall(meters.still)
          /\ UNCHANGED movedOn
       \/ /\ meters.moved                               \* progress
          /\ meters' = [meters EXCEPT !.still = 0]
          /\ at' = AfterTheMeter
          /\ movedOn' = TRUE
          /\ UNCHANGED <<memory, ending>>
       \/ /\ ~meters.moved                              \* a round of polls
          /\ at' = AfterTheMeter
          /\ movedOn' = TRUE
          /\ UNCHANGED <<meters, memory, ending>>
       \/ /\ ~meters.moved                              \* a still round
          /\ IF meters.still + 1 = RewindAfter
             THEN AStall(RewindAfter)
             ELSE /\ meters' = [meters EXCEPT !.still = @ + 1]
                  /\ at' = AfterTheMeter
                  /\ UNCHANGED <<memory, ending>>
          /\ UNCHANGED movedOn
    /\ UNCHANGED <<task, theRecord, theReport, thePerson, cut, setUp, refused>>

\* A model call no stop reaches; answered or not, the conversation is cleared
\* and the count of still rounds starts again.
RewindIfDue ==
    /\ at = "rethinking"
    /\ at' = "reading"
    /\ meters' = [meters EXCEPT !.rewindDue = FALSE, !.still = 0]
    /\ UNCHANGED <<task, theRecord, memory, ending, theReport, thePerson, cut, setUp, refused,
                   movedOn>>

\* The messages are taken all at once: a stop among them ends the task there,
\* and what was said before it is written down as corrections.
SaidBeforeAStop == SelectInSeq(queued, LAMBDA said : said = "stop")
Corrections == IF SaidBeforeAStop = 0 THEN Len(queued) ELSE SaidBeforeAStop - 1

ReadTheMessages(nothingSaid) ==
    \/ /\ Corrections > 0
       /\ TheTurnCannotWrite
       /\ ComesBackWithAnError
       /\ UNCHANGED <<theRecord, movedOn>>
    \/ /\ Corrections > 0 => ~cut
       /\ SaidBeforeAStop > 0
       /\ LogTakesIt
       /\ StopForThePerson
       /\ UNCHANGED <<theRecord, meters, movedOn>>
    \/ /\ ~cut
       /\ SaidBeforeAStop = 0
       /\ Corrections > 0
       /\ LogTakesIt
       /\ GoRoundAgain
       /\ movedOn' = TRUE
       /\ UNCHANGED <<theRecord, meters>>
    \/ /\ queued = <<>>
       /\ nothingSaid

\* A job made this round takes the work over, unless the person said stop.
HandTheWorkToTheJob ==
    /\ ~stopWanted
    /\ doneList' = "proved"
    /\ EndAs("done", TRUE)
    /\ LogTakesIt
    /\ UNCHANGED <<record, meters, movedOn>>

ReadDelivered ==
    /\ at = "reading"
    /\ ReadTheMessages(\/ HandTheWorkToTheJob
                       \/ /\ GoRoundAgain
                          /\ LogTakesIt
                          /\ UNCHANGED <<theRecord, meters, movedOn>>)
    /\ queued' = <<>>
    /\ UNCHANGED <<task, theReport, stopWanted, callCancelled, cut, setUp>>

-----------------------------------------------------------------------------
(* A reply with no tool call: a question, or an answer the done list allows. *)

EndOfTurn ==
    /\ at = "answered"
    /\ ReadTheMessages(/\ at' = "deciding"
                       /\ LogTakesIt
                       /\ UNCHANGED <<theRecord, memory, meters, ending, movedOn>>)
    /\ queued' = <<>>
    /\ UNCHANGED <<task, theReport, stopWanted, callCancelled, cut, setUp>>

WaitHere == EndAs("waiting", FALSE) /\ UNCHANGED meters

AnswerWithNoRecord ==
    /\ ~HasARecord
    /\ IF meters.reply = "question" THEN WaitHere ELSE (EndAs("done", FALSE) /\ UNCHANGED meters)
    /\ LogTakesIt
    /\ UNCHANGED <<doneList, movedOn>>

\* The same without the count.
SendBackToWorkForEver ==
    /\ GoRoundAgain
    /\ UNCHANGED <<meters, movedOn>>

\* The model is told which rule its done list broke, and given up on in the end.
SendBackToWork ==
    /\ meters' = [meters EXCEPT !.nudges = @ + 1]
    /\ IF meters.nudges + 1 > MaxDoneCheckNudges THEN FailHere ELSE GoRoundAgain
    /\ UNCHANGED movedOn

\* A question to the person, before there is a done list to close on.
AsksBeforeADoneList ==
    /\ doneList = "none"
    /\ LogTakesIt
    /\ \/ meters.reply = "question" /\ WaitHere /\ UNCHANGED movedOn
       \/ meters.reply = "answer" /\ SendBackToWork     \* a plan step is open
    /\ UNCHANGED doneList

\* The answer is written down as the proof of the lines that rest on it, the
\* checks in brackets mark the lines they prove, and the list is proved.
DoneCheckPasses ==
    /\ (doneList = "proved" /\ LogTakesIt) \/ TheTurnWrites
    /\ doneList = "none" => meters.reply = "answer"
    /\ doneList' = "proved"
    /\ EndAs("done", TRUE)
    /\ UNCHANGED <<meters, movedOn>>

\* A line is not proved, or the harness's own look at a proved one (a command, a
\* file, a test run gone stale) refuses it.  A line that names a result is
\* refused so only MaxMechanicalRefusals times and then taken on its proof,
\* which is DoneCheckPasses; one that rests on the person's reply is refused
\* each time.  The list may hold either, so the count bounds nothing here that
\* the nudges do not.
DoneCheckRefuses ==
    /\ LogTakesIt
    /\ doneList = "none" => meters.reply = "answer"
    /\ doneList = "proved" => ~cut
    /\ UNCHANGED doneList
    /\ IF meters.reply = "question" THEN WaitHere /\ UNCHANGED movedOn ELSE SendBackToWork

\* A check in brackets fails: its line is unmarked, and the model is sent back
\* as often as that happens, without its being counted.
ACheckRefuses ==
    /\ TheTurnWrites
    /\ doneList # "none"
    /\ doneList' = "open"
    /\ IF meters.reply = "question"
       THEN WaitHere /\ UNCHANGED movedOn
       ELSE GoRoundAgain /\ movedOn' = TRUE /\ UNCHANGED meters

CloseOrWait ==
    /\ at = "deciding"
    /\ \/ AnswerWithNoRecord /\ UNCHANGED record
       \/ HasARecord /\ AsksBeforeADoneList /\ UNCHANGED record
       \/ HasARecord /\ DoneCheckPasses /\ UNCHANGED record
       \/ HasARecord /\ DoneCheckRefuses /\ UNCHANGED record
       \/ HasARecord /\ ACheckRefuses /\ UNCHANGED record
       \/ /\ HasARecord
          /\ TheTurnCannotWrite
          /\ ComesBackWithAnError
          /\ UNCHANGED <<theRecord, movedOn>>
    /\ UNCHANGED <<task, theReport, thePerson, cut, setUp>>

-----------------------------------------------------------------------------
(* The person, the clock, and the supervisor.                                *)

Underway == at \notin AtRest

Stop ==
    /\ Underway
    /\ stopWanted => at = "calling" /\ ~callCancelled
    /\ stopWanted' = TRUE
    /\ callCancelled' = (at = "calling")
    /\ UNCHANGED <<at, task, theRecord, memory, meters, ending, theReport, queued, cut, setUp,
                   refused, movedOn>>

Deliver ==
    /\ Underway
    /\ Len(queued) < QueuedMessages
    /\ \E said \in {"words", "stop"} : queued' = Append(queued, said)
    /\ UNCHANGED <<at, task, theRecord, memory, meters, ending, theReport, stopWanted,
                   callCancelled, cut, setUp, refused, movedOn>>

TheDeadlinePasses ==
    /\ Underway
    /\ ~cut
    /\ cut' = TRUE
    /\ UNCHANGED <<at, task, theRecord, memory, meters, ending, theReport, thePerson, setUp,
                   refused, movedOn>>

Kill ==
    /\ at # "down"
    /\ at' = "down"
    /\ memory' = [number |-> 0, status |-> "none"]
    /\ meters' = NoMeters(0)
    /\ ending' = NoEnding
    /\ told' = 0
    /\ untold' = "none"
    /\ stopWanted' = FALSE
    /\ callCancelled' = FALSE
    /\ queued' = <<>>
    /\ cut' = FALSE
    /\ setUp' = FALSE
    /\ refused' = 0
    /\ movedOn' = FALSE
    /\ UNCHANGED <<task, theRecord>>

\* A start marks stopped what the log still has at running, a write it may be
\* refused, and remembers the newest task it could carry on as the screen's.
Restart ==
    /\ at = "down"
    /\ at' = "idle"
    /\ LET Unfinished == {t \in Tasks : record[t] \in PickedUp \cup {"running"}}
           newest == Max({0} \cup Unfinished)
       IN memory' = IF newest = 0 THEN memory
                    ELSE [number |-> newest,
                          status |-> IF record[newest] = "running" THEN "stopped"
                                                                   ELSE record[newest]]
    /\ \/ /\ record' = [t \in Tasks |-> IF record[t] = "running" THEN "stopped" ELSE record[t]]
          /\ LogTakesIt
       \/ /\ \E t \in Tasks : record[t] = "running"
          /\ UNCHANGED record
          /\ LogRefuses
    /\ UNCHANGED <<task, doneList, meters, ending, theReport, thePerson, cut, setUp, movedOn>>

-----------------------------------------------------------------------------

TheLoop ==
    \/ NewRun \/ OneRound \/ FinalReport \/ HoldTheCall \/ ModelReplies \/ ModelFails
    \/ HearTheReply \/ OneCall \/ CountTheRound \/ RewindIfDue \/ ReadDelivered
    \/ EndOfTurn \/ CloseOrWait \/ CloseTheRecord \/ Review \/ Report

Next == TheLoop \/ Run \/ Stop \/ Deliver \/ TheDeadlinePasses \/ Kill \/ Restart

\* A model call, a tool and a preview each have a limit of their own, so every
\* step the loop can take it takes in the end.
Spec == Init /\ [][Next]_vars /\ WF_vars(TheLoop)

-----------------------------------------------------------------------------

Steps == AtRest \cup
    {"setup", "top", "asking", "calling", "replied", "answered", "deciding", "tools",
     "rethinking", "reading", "finalReport", "closing", "reviewing", "reporting"}

Meters ==
    [budget : Budgets \cup {0}, rounds : Nat, cutOffs : 0..MaxCutOffsSentBack,
     failedParses : 0..MaxFailedParses, nudges : 0..MaxDoneCheckNudges + 1,
     rewinds : 0..RewindsAllowed,
     stalls : 0..StallsBeforeStop - 1, still : 0..RewindAfter, rewindDue : BOOLEAN,
     reply : Replies \cup {"none"}, calls : 0..MaxCalls, moved : BOOLEAN]

\* The state stays in its bounds: a run plays no more rounds than its budget,
\* no count of a run passes its limit by more than the one that ends the run,
\* one report is sent, and no queue passes its cap.
TurnTypeOK ==
    /\ at \in Steps
    /\ task \in 0..MaxTasks
    /\ record \in [Tasks -> Standings]
    /\ memory \in [number : 0..MaxTasks, status : Standings]
    /\ doneList \in {"none", "open", "proved"}
    /\ meters \in Meters
    /\ meters.rounds <= meters.budget
    /\ ending \in [status : Standings, review : BOOLEAN, last : BOOLEAN]
    /\ told \in 0..1
    /\ untold \in {"none", "blank", "unsent"}
    /\ stopWanted \in BOOLEAN
    /\ callCancelled \in BOOLEAN
    /\ queued \in Seq({"words", "stop"})
    /\ Len(queued) <= QueuedMessages
    /\ cut \in BOOLEAN
    /\ setUp \in BOOLEAN
    /\ refused \in 0..MaxRefusals
    /\ movedOn \in BOOLEAN

Misfortunes == refused + (IF cut THEN 1 ELSE 0)

\* A task is not lost (run.go:298-305): once a run past its set-up has come back,
\* its record says running only if two things went wrong in it; if the person was
\* not told of it, the log or the deadline was in the way, the channel failed, or
\* the model had nothing to say and the task no record - a task with a record
\* never ends in silence (endings.go:464-467); and what the screen remembers of
\* the task to carry on is what its record says.
NoTaskIsLost ==
    at = "idle" /\ setUp =>
        /\ record[task] = "running" => Misfortunes >= 2
        /\ told = 0 => Misfortunes > 0 \/ untold # "none"
        /\ untold = "blank" => ~HasARecord
        /\ memory.number # 0 => memory.status = record[memory.number]

\* A task that was asked to stop, or that goes nowhere, comes to an end
\* (loop.go:384, progress.go:244-289): round after round with no new mark,
\* no correction, no poll and no check failed runs into one of the meters.
ATaskEnds ==
    /\ (Underway /\ stopWanted) ~> ~Underway
    /\ []<>(~Underway) \/ []<>movedOn
=============================================================================
