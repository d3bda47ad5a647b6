-------------------------------- MODULE Jobs --------------------------------
(***************************************************************************)
(* The job store and the work done through it: the record and the state    *)
(* snapshot of each job, the claims table, the schedule, the put-down      *)
(* mark, and what a run of a job's task does to its job when it ends       *)
(* (internal/job, internal/loop/jobs.go, putdown.go and jobchecks.go, the  *)
(* driver in cmd/nerdgenie/serving.go, internal/command/schedule.go and    *)
(* internal/tool/job).                                                     *)
(*                                                                         *)
(* Every operation of the store runs under one lock and is several         *)
(* writes, each of them durable before the next begins, and memory follows *)
(* the log.  So an operation is the sequence of the stores it leaves, the  *)
(* first being the one it found: it ends with the last of them, and a kill *)
(* or a write the disk refuses leaves one of the others.                   *)
(*                                                                         *)
(* Moments are kept as how long there is still to wait for them.           *)
(***************************************************************************)
EXTENDS Integers, Sequences, FiniteSets, SequencesExt

CONSTANTS
    NJobs,                  \* the jobs are 1..NJobs, oldest first
    Kinds,                  \* what jobs are made: from a plain list, from a work
                            \* order whose done line carries a check, or with a
                            \* schedule, which adds its tasks
    MaxTasksPerJob,
    FailuresThatPause,
    FailuresThatSwitchOff,
    FixTasksPerLine,
    TaskBudget,
    Every,                  \* how far apart a schedule's ticks are
    ListedTasks,            \* how many tasks a job without a schedule is made with
    Delays,                 \* the delays a task may be added with
    MaxCommands,            \* bound: what people and the model ask for
    MaxFaults               \* bound: kills and refused writes

ASSUME JobsAssumption ==
    /\ {NJobs, MaxTasksPerJob, FailuresThatPause, FailuresThatSwitchOff,
        TaskBudget, Every} \subseteq Nat \ {0}
    /\ {FixTasksPerLine, MaxCommands, MaxFaults} \subseteq Nat
    /\ Kinds \subseteq {"plain", "checked", "scheduled"}
    /\ Delays \subseteq Nat /\ IsFiniteSet(Delays) /\ ListedTasks \subseteq 1..MaxTasksPerJob

VARIABLES
    store,      \* the jobs and the claims, as the log and the table hold them
    up,         \* the program is running
    run,        \* the job's task the loop is running, or NoRun
    ran,        \* the unfinished tasks that have been run, newest run last
    recorded,   \* the tasks whose newest run has made a record
    paused,     \* the jobs "/pause" remembers, in the order it stopped them
    commands,   \* how much has been asked for
    faults      \* how much has gone wrong

vars == <<store, up, run, ran, recorded, paused, commands, faults>>

JobId == 1..NJobs
TaskNo == 1..MaxTasksPerJob

States == {"none", "running", "paused", "off", "done"}

Never == -1         \* a schedule with no next tick, and a claim nobody holds
NoMark == 0
Longest == Max(Delays \cup {TaskBudget, Every})

\* A task of the record's list with the facts the snapshot keeps beside it.
Task == [due : 0..Longest, unattended : BOOLEAN, pickedUp : BOOLEAN,
         deferred : BOOLEAN, done : BOOLEAN]

NewTask(due, unattended) ==
    [due |-> due, unattended |-> unattended, pickedUp |-> FALSE,
     deferred |-> FALSE, done |-> FALSE]

NoJob == [kind |-> "plain", state |-> "none", failures |-> 0, mark |-> NoMark, next |-> Never,
          fixes |-> 0, proved |-> FALSE, tasks |-> <<>>]

NoRun == [job |-> 0, task |-> 0, attended |-> FALSE, step |-> "none"]

(***************************************************************************)
(* Reading the store.                                                      *)
(***************************************************************************)
Tasks(s, j) == s.job[j].tasks
Unfinished(tasks) == {t \in DOMAIN tasks : ~tasks[t].done}
EveryTaskIsDone(s, j) == Unfinished(Tasks(s, j)) = {}
Scheduled(s, j) == s.job[j].kind = "scheduled"
Checked(s, j) == s.job[j].kind = "checked"
Claimed(s, j, t) == s.claim[j][t] > 0
Expired(s, j, t) == s.claim[j][t] = 0
Places == [n \in 1..(NJobs * MaxTasksPerJob) |->
             <<1 + ((n - 1) \div MaxTasksPerJob), 1 + ((n - 1) % MaxTasksPerJob)>>]

\* Mutant of PassedOver: a task set aside waits for the last task as well.
PassedOverByTheLast(tasks, at) ==
    \E other \in Unfinished(tasks) \ {at} :
        \/ tasks[at].deferred /\ ~tasks[other].deferred
        \/ at = Len(tasks) /\ tasks[other].deferred

\* Mutant of PassedOver: the last task waits for one set aside and done since.
PassedOverForADoneTask(tasks, at) ==
    \E other \in DOMAIN tasks \ {at} :
        \/ tasks[at].deferred /\ other # Len(tasks) /\ ~tasks[other].deferred
           /\ ~tasks[other].done
        \/ at = Len(tasks) /\ tasks[other].deferred

\* Whether the task at this place waits for another one of its list.
PassedOver(tasks, at) ==
    \E other \in Unfinished(tasks) \ {at} :
        \/ tasks[at].deferred /\ other # Len(tasks) /\ ~tasks[other].deferred
        \/ at = Len(tasks) /\ tasks[other].deferred

MayStart(s, j, t) ==
    /\ t \in Unfinished(Tasks(s, j))
    /\ ~Claimed(s, j, t)
    /\ Tasks(s, j)[t].due = 0
    /\ ~PassedOver(Tasks(s, j), t)

(***************************************************************************)
(* The single writes.                                                      *)
(***************************************************************************)
Release(s, j, t) == [s EXCEPT !.claim[j][t] = Never]
ReleaseTheClaimsOf(s, j) ==
    [s EXCEPT !.claim[j] = [t \in TaskNo |-> Never]]
WithTask(s, j, t, field, value) ==
    [s EXCEPT !.job[j].tasks[t] = [@ EXCEPT ![field] = value]]
SetState(s, j, state) == [s EXCEPT !.job[j].state = state]
PutDown(s, j, t) ==
    [s EXCEPT !.job[j].state = "paused", !.job[j].mark = t]

MayPutDown(s, j, t) ==
    s.job[j].state # "off" /\ t \in Unfinished(Tasks(s, j))

(***************************************************************************)
(* The operations.  Each takes the stores an operation has left so far and *)
(* adds its own.                                                           *)
(***************************************************************************)
Then(stores, s) == Append(stores, s)

\* The operation done for each of a list in turn, each taking what the one
\* before it left, which is worked out once.
InTurn(op(_, _), left, list) ==
    LET after[n \in 0..Len(list)] ==
          IF n = 0 THEN left
          ELSE CHOOSE next \in {op(before, list[n]) : before \in {after[n - 1]}} : TRUE
    IN  after[Len(list)]
OldestFirst == [j \in JobId |-> j]

\* A job whose tasks are all done closes: its done list is written from them
\* when it has none, and nothing closes on a list that is not proved.
CloseIfEveryTaskIsDone(stores, j) ==
    LET s == Last(stores)
        listed == IF Checked(s, j) \/ Tasks(s, j) = <<>> THEN s
                  ELSE [s EXCEPT !.job[j].proved = TRUE]
    IN  IF Scheduled(s, j) \/ s.job[j].state # "running" \/ ~EveryTaskIsDone(s, j)
          THEN stores
          ELSE IF listed.job[j].proved
                 THEN stores \o <<listed, SetState(listed, j, "done")>>
                 ELSE stores

StopIfItKeepsFailing(stores, j) ==
    LET s == Last(stores)
        limit == IF Scheduled(s, j) THEN FailuresThatSwitchOff
                                    ELSE FailuresThatPause
        stopped == IF Scheduled(s, j) THEN "off" ELSE "paused"
    IN  IF s.job[j].failures < limit THEN stores
        ELSE Then(stores, SetState(s, j, stopped))

\* One task's report taken back.  A failed task of a schedule is done all the
\* same, and its schedule waits again from now.
FinishTask(stores, j, t, failed) ==
    LET s == Last(stores)
        released == Release(s, j, t)
        marked == IF failed /\ ~Tasks(s, j)[t].unattended THEN released
                  ELSE WithTask(released, j, t, "done", TRUE)
        counted == IF failed
                     THEN [marked EXCEPT !.job[j].failures = @ + 1,
                                         !.job[j].next =
                             IF Scheduled(s, j) THEN Every ELSE @]
                     ELSE [marked EXCEPT !.job[j].failures = 0]
        saved == stores \o <<released, marked, counted>>
    IN  IF t \notin Unfinished(Tasks(s, j)) THEN stores
        ELSE IF failed THEN StopIfItKeepsFailing(saved, j)
                       ELSE CloseIfEveryTaskIsDone(saved, j)

\* Mutant of AddTask: the list may grow to one more than the cap.
AddTaskPastTheCap(stores, j, due, unattended) ==
    LET s == Last(stores)
        at == Len(Tasks(s, j)) + 1
        listed == [s EXCEPT !.job[j].tasks = Append(@, NewTask(0, FALSE))]
    IN  IF at > MaxTasksPerJob + 1 THEN stores
        ELSE stores \o <<listed, [listed EXCEPT !.job[j].tasks[at] =
                                                NewTask(due, unattended)]>>

\* Mutant of AddTask: the list is written again without its check marks.
AddTaskUnmarked(stores, j, due, unattended) ==
    LET s == Last(stores)
        at == Len(Tasks(s, j)) + 1
        unmarked == [t \in DOMAIN Tasks(s, j) |->
                       [Tasks(s, j)[t] EXCEPT !.done = FALSE]]
        listed == [s EXCEPT !.job[j].tasks = Append(unmarked, NewTask(0, FALSE))]
    IN  IF at > MaxTasksPerJob THEN stores
        ELSE stores \o <<listed, [listed EXCEPT !.job[j].tasks[at] =
                                                NewTask(due, unattended)]>>

\* The task is on the record's list before its facts are beside it.
AddTask(stores, j, due, unattended) ==
    LET s == Last(stores)
        at == Len(Tasks(s, j)) + 1
        listed == [s EXCEPT !.job[j].tasks = Append(@, NewTask(0, FALSE))]
    IN  IF at > MaxTasksPerJob THEN stores
        ELSE stores \o <<listed, [listed EXCEPT !.job[j].tasks[at] =
                                                NewTask(due, unattended)]>>

\* Mutant of StartWorking: the mark the job was put down with is kept.
StartWorkingMarked(stores, j) ==
    LET released == ReleaseTheClaimsOf(Last(stores), j)
        running == [released EXCEPT !.job[j].state = "running",
                                    !.job[j].failures = 0]
    IN  CloseIfEveryTaskIsDone(stores \o <<released, running>>, j)

StartWorking(stores, j) ==
    LET released == ReleaseTheClaimsOf(Last(stores), j)
        running == [released EXCEPT !.job[j].state = "running",
                                    !.job[j].failures = 0,
                                    !.job[j].mark = NoMark]
    IN  CloseIfEveryTaskIsDone(stores \o <<released, running>>, j)

\* The task a run-now starts, or 0 when every task is done.
TheTaskRunNowStarts(s, j) ==
    LET open == Unfinished(Tasks(s, j))
    IN  IF s.job[j].mark # NoMark THEN s.job[j].mark
        ELSE IF open = {} THEN 0
        ELSE CHOOSE t \in open : \A other \in open : t <= other

RunNow(s, j) ==
    LET next == TheTaskRunNowStarts(s, j)
        working == StartWorking(<<s>>, j)
        ticks == [Last(working) EXCEPT !.job[j].next =
                    IF Scheduled(s, j) THEN 0 ELSE @]
    IN  IF next = 0 THEN Then(working, ticks)
        ELSE Then(working, [ticks EXCEPT !.job[j].tasks[next] =
                              [@ EXCEPT !.due = 0, !.pickedUp = FALSE,
                                        !.deferred = FALSE]])

\* A tick that has come: the next one is saved first, then the task is added,
\* and a list that is full switches the job off.
TickSchedule(stores, j) ==
    LET s == Last(stores)
        saved == Then(stores, [s EXCEPT !.job[j].next = Every])
    IN  IF s.job[j].next # 0 THEN stores
        ELSE IF Len(Tasks(s, j)) < MaxTasksPerJob
               THEN AddTask(saved, j, 0, TRUE)
               ELSE Then(saved, SetState(Last(saved), j, "off"))

ReleaseTasksPastTheirBudget(s) ==
    LET one(stores, p) ==
          LET now == Last(stores)
          IN  IF Expired(now, p[1], p[2]) /\ now.job[p[1]].state = "running"
                THEN FinishTask(stores, p[1], p[2], TRUE)
                ELSE stores
    IN  InTurn(one, <<s>>, Places)

\* The whole of NextTask: the stores it leaves, and the task it hands out.
NextTask(s) ==
    LET claims(left, j) ==
          LET now == Last(left.stores)
              ready == {t \in DOMAIN Tasks(now, j) : MayStart(now, j, t)}
              first == CHOOSE t \in ready : \A other \in ready : t <= other
              claimed == [now EXCEPT !.claim[j][first] = TaskBudget]
          IN  IF now.job[j].state # "running" \/ ready = {} THEN left
              ELSE [stores |-> left.stores \o <<claimed, claimed>>,
                    got |-> <<j, first>>]
        look(left, j) ==
          IF left.got # <<>> \/ Last(left.stores).job[j].state # "running"
            THEN left
            ELSE claims([left EXCEPT !.stores = TickSchedule(@, j)], j)
    IN  InTurn(look, [stores |-> ReleaseTasksPastTheirBudget(s), got |-> <<>>],
                 OldestFirst)

ReleaseEach(s, gone) ==
    LET release(stores, p) ==
          IF p \in gone THEN Then(stores, Release(Last(stores), p[1], p[2]))
          ELSE stores
    IN  InTurn(release, <<s>>, Places)

\* What opening the store after a kill does with the claims it finds: those of
\* processes that are gone are released, and only then are the jobs put down.
Open(s, gone) ==
    LET putDown(stores, p) ==
          LET now == Last(stores)
              j == p[1]
              t == p[2]
          IN  IF /\ p \in gone /\ now.job[j].state = "running"
                 /\ ~Tasks(s, j)[t].unattended /\ ~Tasks(s, j)[t].done
                 /\ p \in recorded
                THEN Then(stores, PutDown(now, j, t))
                ELSE stores
    IN  InTurn(putDown, ReleaseEach(s, gone), Places)

-----------------------------------------------------------------------------
(***************************************************************************)
(* How an operation ends: all of it is written, or the disk refuses one of *)
(* its writes, or the program is killed somewhere in it.                   *)
(***************************************************************************)
Completes(stores) == store' = Last(stores) /\ UNCHANGED <<up, faults>>

GoesWrong(stores) ==
    /\ faults < MaxFaults
    /\ faults' = faults + 1
    /\ \E n \in DOMAIN stores : store' = stores[n]

IsRefused(stores) == GoesWrong(Front(stores)) /\ UNCHANGED up

IsKilled(stores) ==
    /\ GoesWrong(stores)
    /\ up' = FALSE
    /\ run' = NoRun
    /\ paused' = <<>>
    /\ UNCHANGED commands

\* What is remembered of the runs of the tasks that are still to be done.
StillToDo(p) == p[2] \in Unfinished(Tasks(store', p[1]))
KeepTheRunsOf(newest, records) ==
    /\ ran' = SelectSeq(newest, StillToDo)
    /\ recorded' = {p \in records : StillToDo(p)}

\* A step of the run that is going, which an error or a kill ends.
RunStep(operation, next) ==
    /\ \E stores \in {operation} :
         \/ Completes(stores) /\ run' = next /\ UNCHANGED <<paused, commands>>
         \/ IsRefused(stores) /\ run' = NoRun /\ UNCHANGED <<paused, commands>>
         \/ IsKilled(stores)
    /\ KeepTheRunsOf(ran, recorded)

\* What the person asks of the store while the program runs.
Asked(operation, remembered) ==
    /\ up
    /\ commands < MaxCommands
    /\ \E stores \in {operation} :
         \/ /\ \/ Completes(stores) /\ paused' = remembered
               \/ IsRefused(stores) /\ UNCHANGED paused
            /\ commands' = commands + 1
            /\ UNCHANGED run
         \/ IsKilled(stores)
    /\ KeepTheRunsOf(ran, recorded)

-----------------------------------------------------------------------------
(***************************************************************************)
(* What a run does to its job when it ends.                                *)
(***************************************************************************)
Place == <<run.job, run.task>>
IsUnattended == ~run.attended
Working == up /\ run.step = "working"

Begin(p, attended) == [job |-> p[1], task |-> p[2], attended |-> attended,
                       step |-> "working"]
AsTheNewestRun(p) == Append(SelectSeq(ran, LAMBDA other : other # p), p)

\* Mutant of TakeWork: the store is asked before the loop is taken.
TakeWorkBesideARun ==
    /\ up
    /\ \E asked \in {NextTask(store)} :
         /\ Completes(asked.stores)
         /\ LET p == asked.got
            IN  IF p # <<>> /\ run = NoRun
                  THEN /\ run' = Begin(p, ~Tasks(store', p[1])[p[2]].unattended)
                       /\ KeepTheRunsOf(AsTheNewestRun(p), recorded \ {p})
                  ELSE UNCHANGED run /\ KeepTheRunsOf(ran, recorded)
         /\ UNCHANGED <<paused, commands>>

\* The loop is taken before the store is asked for what is due.
TakeWork ==
    /\ up /\ run = NoRun
    /\ \E asked \in {NextTask(store)} :
         \/ /\ asked.got # <<>>
            /\ Completes(asked.stores)
            /\ LET p == asked.got
               IN  /\ run' = Begin(p, ~Tasks(store', p[1])[p[2]].unattended)
                   /\ KeepTheRunsOf(AsTheNewestRun(p), recorded \ {p})
            /\ UNCHANGED <<paused, commands>>
         \/ /\ asked.got = <<>>
            /\ Completes(asked.stores)
            /\ store' # store
            /\ UNCHANGED <<run, paused, commands>>
            /\ KeepTheRunsOf(ran, recorded)
         \/ /\ IsRefused(asked.stores)
            /\ UNCHANGED <<run, paused, commands>>
            /\ KeepTheRunsOf(ran, recorded)
         \/ IsKilled(asked.stores) /\ KeepTheRunsOf(ran, recorded)

\* The first tool call makes the run's record.
MakeRecord ==
    /\ Working
    /\ Place \notin recorded
    /\ recorded' = recorded \cup {Place}
    /\ UNCHANGED <<store, up, run, ran, paused, commands, faults>>

PutDownStores(p) ==
    IF MayPutDown(store, p[1], p[2])
      THEN <<store, PutDown(store, p[1], p[2])>>
      ELSE <<store>>

FailStores(p) == FinishTask(<<store>>, p[1], p[2], TRUE)

\* The checks of the job's done list are run as the task ends, and the task's
\* report is taken back before what they showed is marked.
EndsDone ==
    /\ Working
    /\ \E shown \in IF Checked(store, run.job) THEN {"passed", "failed"} ELSE {"none"} :
         LET stores == FinishTask(<<store>>, run.job, run.task, FALSE)
         IN  RunStep(stores, IF shown = "none" \/ Len(stores) = 1 THEN NoRun
                             ELSE [run EXCEPT !.step = shown])

EndsFailed == Working /\ RunStep(FailStores(Place), NoRun)

\* A task the guard stopped is picked up once, set aside once, and only then
\* left to the person, or failed when a schedule made it.  An agent told to keep
\* going reorients the run instead of leaving it to anyone, and it goes on.
CanSetAside(p) == ~Tasks(store, p[1])[p[2]].deferred

SetAside(p) ==
    LET released == Release(store, p[1], p[2])
    IN  <<store, released, WithTask(released, p[1], p[2], "deferred", TRUE)>>

StopsForGood ==
    \/ run.attended /\ CanSetAside(Place) /\ RunStep(SetAside(Place), NoRun)
    \/ /\ run.attended /\ ~CanSetAside(Place)
       /\ RunStep(PutDownStores(Place), NoRun)
    \/ IsUnattended /\ RunStep(FailStores(Place), NoRun)

StoppedByTheGuard ==
    /\ Working
    /\ \/ /\ Place \in recorded
          /\ ~Tasks(store, run.job)[run.task].pickedUp
          /\ RunStep(<<store, WithTask(store, run.job, run.task, "pickedUp", TRUE)>>, run)
       \/ /\ Place \notin recorded \/ Tasks(store, run.job)[run.task].pickedUp
          /\ StopsForGood

PacedOut == Working /\ StopsForGood

\* A question, a spent budget or a line of the stop list.
StopsOrAsks ==
    /\ Working
    /\ \/ run.attended /\ RunStep(PutDownStores(Place), NoRun)
       \/ IsUnattended /\ RunStep(FailStores(Place), NoRun)

\* The turn's own deadline, which bounds every run, the kept-going ones too.
TurnRunsOut ==
    /\ Working
    /\ \/ run.attended /\ RunStep(PutDownStores(Place), NoRun)
       \/ IsUnattended /\ RunStep(FailStores(Place), NoRun)

StoppedByThePerson == Working /\ RunStep(PutDownStores(Place), NoRun)

\* The loop's own error: nothing is written, and the claim stays.
RunErrors ==
    /\ Working
    /\ run' = NoRun
    /\ UNCHANGED <<store, up, ran, recorded, paused, commands, faults>>

\* markTheJobsDoneLines, after the report was taken back.
MarkDoneLine ==
    LET passed == run.step = "passed"
        marked == [store EXCEPT !.job[run.job].proved = passed]
        after == IF passed \/ ~EveryTaskIsDone(store, run.job) THEN NoRun
                 ELSE [run EXCEPT !.step = "fix"]
    IN  /\ up /\ run.step \in {"passed", "failed"}
        /\ RunStep(CloseIfEveryTaskIsDone(<<store, marked>>, run.job), after)

GiveFixTask ==
    LET j == run.job
        counted == [store EXCEPT !.job[j].fixes = @ + 1]
    IN  /\ up /\ run.step = "fix"
        /\ RunStep(IF store.job[j].fixes < FixTasksPerLine
                     THEN <<store>> \o Tail(AddTask(<<counted>>, j, 0, FALSE))
                     ELSE <<store>>, NoRun)

-----------------------------------------------------------------------------
(***************************************************************************)
(* What people and the model ask for.                                      *)
(***************************************************************************)

\* A job's tasks are added one by one after it is made.
AddEach(left, j, dues) ==
    LET add(stores, due) == AddTask(stores, j, due, FALSE)
    IN  InTurn(add, left, dues)

\* The job tool switches off a job whose list was cut short; a work order
\* leaves it as it is.
MakeJob(j) ==
    /\ up /\ run = NoRun
    /\ store.job[j].state = "none"
    /\ \A older \in 1..(j - 1) : store.job[older].state # "none"
    /\ \E kind \in Kinds, dues \in UNION {[1..n -> Delays] : n \in {0} \cup ListedTasks} :
         LET made == [store EXCEPT !.job[j].kind = kind,
                                   !.job[j].state = "running",
                                   !.job[j].next = IF kind = "scheduled" THEN Every
                                                                         ELSE Never]
             stores == AddEach(<<store, made>>, j, dues)
         IN  /\ (dues = <<>>) = (kind = "scheduled")
             /\ \/ Completes(stores) /\ UNCHANGED <<run, paused, commands>>
                \/ /\ IsRefused(stores) /\ UNCHANGED <<run, paused, commands>>
                \/ /\ IsRefused([n \in DOMAIN stores |->
                                   IF n = 1 THEN store ELSE SetState(stores[n], j, "off")])
                   /\ kind # "checked"
                   /\ UNCHANGED <<run, paused, commands>>
                \/ IsKilled(stores)
    /\ UNCHANGED <<ran, recorded>>

AskForTask(j) ==
    /\ store.job[j].state # "none"
    /\ \E due \in Delays :
         LET stores == AddTask(<<store>>, j, due, FALSE)
         IN  Len(stores) > 1 /\ Asked(stores, paused)

SwitchOff(j) ==
    /\ store.job[j].state \notin {"none", "off"}
    /\ Asked(<<store, SetState(store, j, "off")>>, paused)

AskRunNow(j) ==
    /\ store.job[j].state # "none"
    /\ Asked(RunNow(store, j), paused)

PauseEach(s, running) ==
    LET pause(stores, j) == Then(stores, SetState(Last(stores), j, "paused"))
    IN  InTurn(pause, <<s>>, running)

\* "/pause" stops every running job and remembers them after those it stopped
\* before; one that is refused ends it with none of its own remembered.
PauseAll ==
    \E n \in JobId : \E running \in [1..n -> JobId] :
        /\ {running[a] : a \in 1..n} = {j \in JobId : store.job[j].state = "running"}
        /\ \A a, b \in 1..n : a < b => running[a] < running[b]
        /\ Asked(PauseEach(store, running), paused \o running)

StartEach(s, stopped) ==
    LET start(stores, j) == StartWorking(stores, j)
    IN  InTurn(start, <<s>>, stopped)

\* "/resume" starts again the jobs "/pause" stopped, wherever they stand now.
\* The first that is refused ends it, and it is remembered with those after it.
ResumeAll ==
    /\ up /\ paused # <<>>
    /\ commands < MaxCommands
    /\ \/ /\ \/ Completes(StartEach(store, paused)) /\ paused' = <<>>
             \/ \E n \in DOMAIN paused :
                  LET started == Last(StartEach(store, SubSeq(paused, 1, n - 1)))
                  IN  /\ IsRefused(StartWorking(<<started>>, paused[n]))
                      /\ paused' = SubSeq(paused, n, Len(paused))
          /\ commands' = commands + 1
          /\ UNCHANGED run
       \/ IsKilled(StartEach(store, paused))
    /\ KeepTheRunsOf(ran, recorded)

\* The next message picks up the paused job put down on the newest run, which
\* goes on under the job, without a claim, or begins afresh with no record.
PickUp ==
    LET marked == {j \in JobId : /\ store.job[j].state = "paused"
                                 /\ store.job[j].mark # NoMark}
        place(j) == <<j, store.job[j].mark>>
        age(j) == CHOOSE n \in DOMAIN ran : ran[n] = place(j)
        newest == {j \in marked : \A other \in marked : age(other) <= age(j)}
    IN  /\ up /\ run = NoRun
        /\ commands < MaxCommands
        /\ \E j \in newest :
             \/ /\ Completes(StartWorking(<<store>>, j))
                /\ run' = Begin(place(j), TRUE)
                /\ KeepTheRunsOf(IF place(j) \in recorded THEN ran
                                 ELSE AsTheNewestRun(place(j)), recorded)
                /\ commands' = commands + 1
                /\ UNCHANGED paused
             \/ /\ IsRefused(StartWorking(<<store>>, j))
                /\ UNCHANGED <<run, paused, commands>>
                /\ KeepTheRunsOf(ran, recorded)
             \/ /\ IsKilled(StartWorking(<<store>>, j))
                /\ KeepTheRunsOf(ran, recorded)

-----------------------------------------------------------------------------
(***************************************************************************)
(* Time, a kill and the start after it.                                    *)
(***************************************************************************)
Sooner(left) == IF left > 0 THEN left - 1 ELSE left

OneMomentLater(s) ==
    LET nearer(task) == [task EXCEPT !.due = Sooner(@)]
    IN  [job |-> [j \in JobId |->
             [s.job[j] EXCEPT !.next = Sooner(@),
                              !.tasks = [t \in DOMAIN @ |-> nearer(@[t])]]],
         claim |-> [j \in JobId |-> [t \in TaskNo |-> Sooner(s.claim[j][t])]]]

Tick ==
    /\ store' = OneMomentLater(store)
    /\ store' # store
    /\ UNCHANGED <<up, run, ran, recorded, paused, commands, faults>>

Kill == up /\ IsKilled(<<store>>) /\ UNCHANGED <<ran, recorded>>

\* The process number of the dead one may be another's by now, and its claims
\* are then left to run out.  A start that is cut short leaves what it wrote.
Restart ==
    /\ ~up
    /\ \E gone \in {{}, {p \in JobId \X TaskNo : store.claim[p[1]][p[2]] # Never}} :
         \/ store' = Last(Open(store, gone)) /\ up' = TRUE /\ UNCHANGED faults
         \/ GoesWrong(Open(store, gone)) /\ UNCHANGED up
    /\ UNCHANGED <<run, ran, recorded, paused, commands>>

Init ==
    /\ store = [job |-> [j \in JobId |-> NoJob],
                claim |-> [j \in JobId |-> [t \in TaskNo |-> Never]]]
    /\ up = TRUE
    /\ run = NoRun
    /\ ran = <<>>
    /\ recorded = {}
    /\ paused = <<>>
    /\ commands = 0
    /\ faults = 0

RunEnds ==
    \/ EndsDone \/ EndsFailed \/ StoppedByTheGuard \/ PacedOut \/ StopsOrAsks
    \/ TurnRunsOut \/ StoppedByThePerson \/ RunErrors

People ==
    \/ \E j \in JobId : MakeJob(j) \/ AskForTask(j) \/ SwitchOff(j) \/ AskRunNow(j)
    \/ PauseAll \/ ResumeAll \/ PickUp

Next ==
    \/ TakeWork \/ MakeRecord \/ RunEnds \/ MarkDoneLine \/ GiveFixTask
    \/ People
    \/ Tick \/ Kill \/ Restart

\* The driver asks again within a minute, a turn has a deadline, the loop goes
\* on to mark what a task proved, the clock moves, and the supervisor restarts
\* the program: each gets through where nothing goes wrong.
GetsThrough(Step) == UNCHANGED faults /\ Step

Fairness ==
    /\ WF_vars(GetsThrough(TakeWork)) /\ WF_vars(GetsThrough(TurnRunsOut))
    /\ WF_vars(GetsThrough(MarkDoneLine)) /\ WF_vars(GetsThrough(GiveFixTask))
    /\ WF_vars(Tick) /\ WF_vars(GetsThrough(Restart))

Spec == Init /\ [][Next]_vars /\ Fairness

-----------------------------------------------------------------------------
(***************************************************************************)
(* Properties.                                                             *)
(***************************************************************************)

JobsTypeOK ==
    /\ DOMAIN store = {"job", "claim"}
    /\ \A j \in JobId :
         /\ store.job[j].kind \in Kinds \cup {"plain"} /\ store.job[j].state \in States
         /\ store.job[j].tasks \in Seq(Task) /\ Len(Tasks(store, j)) <= MaxTasksPerJob
         /\ store.job[j].mark \in 0..Len(Tasks(store, j))
         /\ store.job[j].next \in Never..Every
         /\ store.job[j].failures \in Nat
         /\ store.job[j].fixes \in 0..FixTasksPerLine
         /\ store.job[j].proved \in BOOLEAN
    /\ store.claim \in [JobId -> [TaskNo -> Never..TaskBudget]]
    /\ up \in BOOLEAN
    /\ run # NoRun => Place \in JobId \X TaskNo
    /\ recorded \subseteq JobId \X TaskNo
    /\ paused \in Seq(JobId)
    /\ commands \in 0..MaxCommands /\ faults \in 0..MaxFaults

\* A job put down on a task stands still on it: it is paused or off, the task
\* is still to be done, and no run of the job goes on beside the one the
\* person is asked to pick up (PutDown, startWorking, putDownWhatADeadProcessLeft).
MarkedJobsStandStill ==
    \A j \in JobId : store.job[j].mark # NoMark =>
        /\ store.job[j].state \in {"paused", "off"}
        /\ store.job[j].mark \in Unfinished(Tasks(store, j))
        /\ run.job # j

\* Tasks that wait for one another never all wait: of the tasks a job still has
\* to do, one is not passed over (passedOver: a task set aside waits for the
\* others, and the last task waits for those set aside).
SomeTaskIsNotPassedOver ==
    \A j \in JobId :
        LET tasks == Tasks(store, j)
        IN  Unfinished(tasks) # {} =>
              \E at \in Unfinished(tasks) : ~PassedOver(tasks, at)

\* What is finished stays finished, through every kill and refused write: a
\* done task stays on the list and done, whatever list is written over it
\* (finishTask, addTask, RunNow, applyTasks).
FinishedStaysFinished ==
    [][\A j \in JobId : \A t \in DOMAIN Tasks(store, j) :
          Tasks(store, j)[t].done =>
              t \in DOMAIN Tasks(store', j) /\ Tasks(store', j)[t].done]_vars

\* While a run goes on, nobody else reports its task: it is counted neither as
\* done nor as one more failure, though its claim may run out under it
\* (runWhatIsDue takes the loop before NextTask, which gives up such claims).
OnlyTheRunReportsItsTask ==
    [][run # NoRun /\ run' = run /\ run.step = "working" =>
          /\ Tasks(store', run.job)[run.task].done = Tasks(store, run.job)[run.task].done
          /\ store'.job[run.job].failures \in {0, store.job[run.job].failures}]_vars

\* Every task on a running job's list gets its turn, though its claim was left
\* behind by an error or a kill, its date is still to come, or it was set aside.
EveryTaskGetsItsTurn ==
    \A j \in JobId, t \in TaskNo :
        t \in Unfinished(Tasks(store, j)) /\ store.job[j].state = "running"
          ~> \/ t \notin Unfinished(Tasks(store, j))
             \/ run.job = j /\ run.task = t
             \/ store.job[j].state # "running"

\* "A job never closes done on a check the person wrote and the harness saw
\* fail" (internal/loop/jobchecks.go): in a closed job nothing is unproved.
NeverClosedOnARedCheck ==
    \A j \in JobId : store.job[j].state = "done" => store.job[j].proved

=============================================================================
